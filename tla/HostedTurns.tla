----------------------------- MODULE HostedTurns -----------------------------
(***************************************************************************)
(* The turns of one hosted demo of the live-assist server: what the        *)
(* visitor says is handled as it arrives, so turns overlap; each speaks,   *)
(* asks the model and works the one browser under its lock, by single      *)
(* actions or by replaying a verified flow.  A barge-in, a stop or a newer *)
(* message aborts the active turn.  One action is the code between two     *)
(* awaits; what a line or an answer says is left out.                      *)
(***************************************************************************)
EXTENDS Naturals, Sequences, FiniteSets

CONSTANTS Turns,      \* 1 .. n: the messages of the visitor
          Batches,    \* tool calls of one answer: sequences of "act", "flow", "resume", "finish"
          FlowSteps,  \* steps of the verified flow
          MaxRounds,  \* rounds of the agent loop (12)
          MaxLines,   \* bound: lines that are not empty
          MaxBarges   \* bound: barge-ins, stops, changes of the mode
ASSUME TurnsAssumption == Batches \subseteq Seq(STRING) /\ FlowSteps \in Nat

VARIABLES live,    \* the connection: [interrupted, muted, voice]
          active,  \* activeTurn
          turn,
          mouth,   \* the turn manager: [state, out]
          gen,     \* SpeechEngine.generation
          aside,   \* the generation of a line that belongs to no turn
          lock,    \* LiveBox.exclusive: who waits for the browser, its owner first (samples of the
           \* observer take it too, and only delay the turns)
          paused,  \* the step the flow was left at
          spent

hostedVars == <<live, active, turn, mouth, gen, aside, lock, paused, spent>>

NoTurn == 0
NotPaused == FlowSteps + 1
NewTurn == [at |-> "unsaid", aborted |-> FALSE, round |-> 0, calls |-> <<>>, finished |-> FALSE,
            job |-> "none", i |-> 0, then |-> "talk", gen |-> 0, late |-> 0]
Places == {"unsaid", "wait", "ground", "loop", "model", "talk", "tools", "rejoin", "queue", "expect", "begin", "navigate",
           "next", "check", "aim", "drive", "synth", "hear", "over"}

HostedInit ==
  /\ \E voice \in BOOLEAN : live = [interrupted |-> FALSE, muted |-> FALSE, voice |-> voice]
  /\ active = NoTurn /\ turn = [t \in Turns |-> NewTurn]
  /\ mouth = [state |-> "idle", out |-> FALSE] /\ gen = 0 /\ aside = 0
  /\ lock = <<>> /\ paused = NotPaused
  /\ spent = [lines |-> 0, barges |-> 0]

Running == {t \in Turns : turn[t].at \notin {"unsaid", "wait", "over"}}
Cut(t) == turn[t].aborted \/ live.interrupted
Goes(t, at) == turn' = [turn EXCEPT ![t].at = at]
Speech == <<mouth, gen, aside>>
Page == <<lock, paused>>

\* AbortController.abort of the active turn, and AudioSync.reset: whoever waits
\* to be heard goes on.
Released(ts) == [t \in Turns |-> IF ts[t].at = "hear" THEN [ts[t] EXCEPT !.at = ts[t].then] ELSE ts[t]]
Aborted(ts) == [t \in Turns |-> IF t = active THEN [ts[t] EXCEPT !.aborted = TRUE] ELSE ts[t]]

-----------------------------------------------------------------------------
(* The socket *)

Begun(t, ts) ==
  /\ turn' = [ts EXCEPT ![t].at = "ground"] /\ active' = t
  /\ live' = [live EXCEPT !.muted = FALSE, !.interrupted = FALSE]
  /\ mouth' = [mouth EXCEPT !.state = "thinking"]

UserMessage(t) ==
  /\ turn[t].at = "unsaid" /\ \A u \in Turns : u < t => turn[u].at # "unsaid"
  /\ IF active = NoTurn
     THEN Begun(t, turn) /\ UNCHANGED gen
     ELSE /\ live' = [live EXCEPT !.interrupted = TRUE]
          /\ turn' = [Released(Aborted(turn)) EXCEPT ![t].at = "wait"]
          /\ gen' = gen + 1
          /\ UNCHANGED <<active, mouth>>
  /\ UNCHANGED <<aside, Page, spent>>

\* The turn before it is over, or 750 ms have passed.
WaitIsOver(t) ==
  /\ turn[t].at = "wait" /\ Begun(t, turn)
  /\ UNCHANGED <<gen, aside, Page, spent>>

\* An explicit stop, by button or by word.
Silent == mouth' = [state |-> "listening", out |-> FALSE]
StopTurn ==
  /\ spent.barges < MaxBarges /\ spent' = [spent EXCEPT !.barges = @ + 1]
  /\ live' = [live EXCEPT !.interrupted = TRUE, !.muted = TRUE]
  /\ turn' = Released(Aborted(turn))
  /\ mouth' = IF mouth.state = "thinking" /\ ~mouth.out THEN mouth ELSE [state |-> "listening", out |-> FALSE]
  /\ gen' = gen + 1
  /\ UNCHANGED <<active, aside, Page>>

\* The first voiced frame: only what is audible is interrupted.
UserSpeaking ==
  /\ mouth.state = "speaking" \/ mouth.out
  /\ spent.barges < MaxBarges /\ spent' = [spent EXCEPT !.barges = @ + 1]
  /\ live' = [live EXCEPT !.interrupted = TRUE]
  /\ turn' = Released(Aborted(turn))
  /\ Silent /\ gen' = gen + 1
  /\ UNCHANGED <<active, aside, Page>>

SetMode ==
  /\ spent.barges < MaxBarges /\ spent' = [spent EXCEPT !.barges = @ + 1]
  /\ live' = [live EXCEPT !.voice = ~@]
  /\ IF live.voice THEN turn' = Released(turn) /\ gen' = gen + 1 ELSE UNCHANGED <<turn, gen>>
  /\ UNCHANGED <<active, mouth, aside, Page>>

-----------------------------------------------------------------------------
(* Speaking: speak, SpeechEngine.say, AudioSync.waitFor *)

\* An empty line, a muted or a typed conversation say nothing.
Speaks == ~live.muted /\ live.voice /\ spent.lines < MaxLines
SayLine(ts, t, then, i) ==
  \/ turn' = [ts EXCEPT ![t].at = then, ![t].i = i] /\ UNCHANGED <<mouth, spent>>
  \/ /\ Speaks /\ spent' = [spent EXCEPT !.lines = @ + 1]
     /\ turn' = [ts EXCEPT ![t].at = "synth", ![t].then = then, ![t].gen = gen, ![t].i = i]
     /\ mouth' = [mouth EXCEPT !.state = "speaking"]

\* The audio is ready and sent; a failure or an interruption ends the line, after
\* its first part or before.
Audible == [state |-> "speaking", out |-> TRUE]
Synthesized(t) ==
  /\ turn[t].at = "synth"
  /\ \/ turn[t].gen = gen /\ Goes(t, "hear") /\ mouth' = Audible
     \/ turn[t].gen = gen /\ Goes(t, turn[t].then) /\ mouth' = Audible
     \/ Goes(t, turn[t].then) /\ UNCHANGED mouth
  /\ UNCHANGED <<live, active, gen, aside, Page, spent>>
\* Heard by the visitor, or twelve seconds have passed.
Heard(t) ==
  /\ turn[t].at = "hear" /\ Goes(t, turn[t].then)
  /\ UNCHANGED <<live, active, Speech, Page, spent>>
Drained ==
  /\ mouth.out /\ mouth' = [state |-> IF mouth.state = "speaking" THEN "listening" ELSE mouth.state, out |-> FALSE]
  /\ turn' = Released(turn)
  /\ UNCHANGED <<live, active, gen, aside, Page, spent>>

\* A greeting, a rescue, a yield: spoken beside the turns.
Interject ==
  /\ Speaks /\ aside = 0 /\ spent' = [spent EXCEPT !.lines = @ + 1]
  /\ aside' = gen + 1 /\ mouth' = [mouth EXCEPT !.state = "speaking"]
  /\ UNCHANGED <<live, active, turn, gen, Page>>
Interjected ==
  /\ aside # 0 /\ aside' = 0
  /\ (aside = gen + 1 /\ mouth' = Audible) \/ UNCHANGED mouth
  /\ UNCHANGED <<live, active, turn, gen, Page, spent>>

-----------------------------------------------------------------------------
(* Agent.handleUserMessage *)

\* The turn is no longer the active one when it was overtaken.
Ends(t) == Goes(t, "over") /\ active' = (IF active = t THEN NoTurn ELSE active)
Enqueued(ts, t, job, i) ==
  /\ turn' = [ts EXCEPT ![t].at = "queue", ![t].job = job, ![t].i = i]
  /\ lock' = Append(lock, t)

\* Observation and retrieval; an explicit request for a verified flow skips the model.
Ground(t) ==
  /\ turn[t].at = "ground"
  /\ \/ Ends(t) /\ UNCHANGED lock
     \/ Goes(t, "loop") /\ UNCHANGED <<active, lock>>
     \/ Enqueued(turn, t, "only", 0) /\ UNCHANGED active
  /\ UNCHANGED <<live, Speech, paused, spent>>

Loop(t) ==
  /\ turn[t].at = "loop"
  /\ IF Cut(t) \/ turn[t].round = MaxRounds THEN Ends(t)
     ELSE turn' = [turn EXCEPT ![t].at = "model", ![t].round = @ + 1] /\ UNCHANGED active
  /\ UNCHANGED <<live, Speech, Page, spent>>

\* The answer with its tool calls, or an error, also that of the abort.
Model(t) ==
  /\ turn[t].at = "model"
  /\ \/ Ends(t)
     \/ \E b \in Batches : turn' = [turn EXCEPT ![t].at = "talk", ![t].calls = b] /\ UNCHANGED active
  /\ UNCHANGED <<live, Speech, Page, spent>>

\* Every sentence that was already streamed is spoken before the tools.
Talk(t) ==
  /\ turn[t].at = "talk"
  /\ \/ SayLine(turn, t, "talk", 0) /\ turn'[t].at # "talk" /\ UNCHANGED active
     \/ turn[t].calls = <<>> /\ Ends(t) /\ UNCHANGED <<mouth, spent>>
     \/ turn[t].calls # <<>> /\ Goes(t, "tools") /\ UNCHANGED <<active, mouth, spent>>
  /\ UNCHANGED <<live, gen, aside, Page>>

\* wrong: only the loop looks for an interruption, the calls of one answer do not
MayTouchAlways(t) == TRUE
\* An interrupted turn skips its remaining actions.
MayTouch(t) == ~Cut(t)

NextCall(ts, t) == [ts EXCEPT ![t].at = "tools"]
Tools(t) ==
  /\ turn[t].at = "tools"
  /\ IF turn[t].calls = <<>>
     THEN /\ IF turn[t].finished THEN Ends(t) ELSE Goes(t, "loop") /\ UNCHANGED active
          /\ UNCHANGED <<mouth, lock, spent>>
     ELSE LET call == Head(turn[t].calls)
              rest == [turn EXCEPT ![t].calls = Tail(@)]
          IN \/ call = "finish" /\ SayLine([rest EXCEPT ![t].finished = TRUE], t, "tools", 0) /\ UNCHANGED <<active, lock>>
             \/ /\ call = "act" \/ (call = "resume" /\ paused = NotPaused)      \* skipped, blocked, or nothing to resume
                /\ turn' = rest /\ UNCHANGED <<active, mouth, lock, spent>>
             \/ call = "act" /\ MayTouch(t) /\ Enqueued(rest, t, "act", 0) /\ UNCHANGED <<active, mouth, spent>>
             \/ call = "flow" /\ Enqueued(rest, t, "flow", 0) /\ UNCHANGED <<active, mouth, spent>>
             \/ /\ call = "resume" /\ paused # NotPaused          \* from the start when the screen has moved on
                /\ Enqueued(rest, t, "flow", 0) /\ UNCHANGED <<active, mouth, spent>>
             \/ /\ call = "resume" /\ paused # NotPaused
                /\ SayLine(rest, t, "rejoin", paused) /\ UNCHANGED <<active, lock>>
  /\ UNCHANGED <<live, gen, aside, paused>>
Rejoin(t) ==
  /\ turn[t].at = "rejoin" /\ Enqueued(turn, t, "flow", turn[t].i)
  /\ UNCHANGED <<live, active, Speech, paused, spent>>

-----------------------------------------------------------------------------
(* Under the lock of the browser *)

Owns(t) == lock # <<>> /\ Head(lock) = t
LockGranted(t) ==
  /\ turn[t].at = "queue" /\ Owns(t)
  /\ Goes(t, IF turn[t].job = "act" THEN "expect" ELSE "begin")
  /\ UNCHANGED <<live, active, Speech, Page, spent>>

Touched(t) == [turn EXCEPT ![t].late = IF turn[t].aborted THEN @ + 1 ELSE @]

\* A single action: the screen is looked at again, the lock was waited for.
Expect(t) ==
  /\ turn[t].at = "expect"
  /\ turn' = NextCall(turn, t) \/ turn' = NextCall(Touched(t), t)
  /\ lock' = Tail(lock)
  /\ UNCHANGED <<live, active, Speech, paused, spent>>

\* The replay is over; the screenshot after it may fail the turn.
Replayed(ts, t, left) ==
  /\ paused' = left /\ lock' = Tail(lock)
  /\ \/ turn[t].job = "flow" /\ turn' = NextCall(ts, t) /\ UNCHANGED active
     \/ turn' = [ts EXCEPT ![t].at = "over"] /\ active' = (IF active = t THEN NoTurn ELSE active)
PausesAt(t) == Replayed(turn, t, turn[t].i)

\* WorkflowExecutor.execute: preconditions and the navigation to the start.
Begin(t) ==
  /\ turn[t].at = "begin"
  /\ \/ PausesAt(t)
     \/ Goes(t, "next") /\ UNCHANGED <<active, Page>>
     \/ ~turn[t].aborted /\ Goes(t, "navigate") /\ UNCHANGED <<active, Page>>
  /\ UNCHANGED <<live, Speech, spent>>
\* An action is done, or fails before or after it touched the page.
Navigate(t) ==
  /\ turn[t].at = "navigate"
  /\ \/ \E ts \in {turn, Touched(t)} : Replayed(ts, t, turn[t].i)
     \/ turn' = [Touched(t) EXCEPT ![t].at = "next"] /\ UNCHANGED <<active, Page>>
  /\ UNCHANGED <<live, Speech, spent>>

\* Each step: ensureActive, its line, ensureActive, an observation, the action.
NextFlowStep(t) ==
  /\ turn[t].at = "next"
  /\ \/ Cut(t) /\ PausesAt(t) /\ UNCHANGED <<mouth, spent>>
     \/ ~Cut(t) /\ turn[t].i = FlowSteps /\ Replayed(turn, t, NotPaused) /\ UNCHANGED <<mouth, spent>>
     \/ ~Cut(t) /\ turn[t].i < FlowSteps /\ SayLine(turn, t, "check", turn[t].i) /\ UNCHANGED <<active, Page>>
  /\ UNCHANGED <<live, gen, aside>>
\* An assertion, or an optional step that fails, counts as a step that was done.
Passed(ts, t) == turn' = [ts EXCEPT ![t].at = "next", ![t].i = @ + 1] /\ UNCHANGED <<active, Page>>
CheckStep(t) ==
  /\ turn[t].at = "check"
  /\ IF Cut(t) THEN PausesAt(t) ELSE Passed(turn, t) \/ (Goes(t, "aim") /\ UNCHANGED <<active, Page>>)
  /\ UNCHANGED <<live, Speech, spent>>
Aim(t) ==
  /\ turn[t].at = "aim"
  /\ IF turn[t].aborted THEN PausesAt(t) \/ Passed(turn, t) ELSE Goes(t, "drive") /\ UNCHANGED <<active, Page>>
  /\ UNCHANGED <<live, Speech, spent>>
Drive(t) ==
  /\ turn[t].at = "drive"
  /\ \E ts \in {turn, Touched(t)} : Replayed(ts, t, turn[t].i) \/ Passed(ts, t)
  /\ UNCHANGED <<live, Speech, spent>>

-----------------------------------------------------------------------------
Works(t) ==
  \/ WaitIsOver(t) \/ Synthesized(t) \/ Heard(t)
  \/ Ground(t) \/ Loop(t) \/ Model(t) \/ Talk(t) \/ Tools(t) \/ Rejoin(t) \/ LockGranted(t) \/ Expect(t)
  \/ Begin(t) \/ Navigate(t) \/ NextFlowStep(t) \/ CheckStep(t) \/ Aim(t) \/ Drive(t)
HostedNext ==
  \/ \E t \in Turns : UserMessage(t) \/ Works(t)
  \/ StopTurn \/ UserSpeaking \/ SetMode \/ Drained \/ Interject \/ Interjected

HostedSpec == HostedInit /\ [][HostedNext]_hostedVars

HostedTypeOK ==
  /\ \A t \in Turns : turn[t].at \in Places /\ turn[t].i \in 0 .. FlowSteps
  /\ active \in Turns \cup {NoTurn} /\ paused \in 0 .. NotPaused
  /\ mouth.state \in {"idle", "listening", "thinking", "speaking"}

\* A turn that was cut off by a stop, a barge-in or a newer message touches the
\* page at most once more: the one action that was already on its way, whether
\* it waited for the lock, for a line to be heard or for a look at the screen
\* (agent.ts "STOP MEANS STOP", executor.ts ensureActive).
CutOffTurnsActOnce == \A t \in Turns : turn[t].late =< 1
=============================================================================
