---------------------------- MODULE ExecutionProofs ----------------------------
(***************************************************************************)
(* What is stopped stops: a turn of a hosted demo that was cut off touches *)
(* the page at most once more, nothing risky a workflow does happens       *)
(* unapproved or after its stop, and a conversation that changes hands     *)
(* between pages starts no turn that was ended, for any number of turns,   *)
(* pages and interruptions and every workflow, however its steps nest.     *)
(***************************************************************************)
EXTENDS HostedTurns, WorkflowExecutor, Continuity, FiniteSetTheorems, TLAPS

\* Where an action is on its way to the page, and where a turn goes on when its
\* line was heard.
Acting == {"expect", "navigate", "drive"}
Thens == {"talk", "tools", "rejoin", "check"}
Jobs == {"none", "act", "flow", "only"}

Turn == [at : Places, aborted : BOOLEAN, round : Nat, calls : Seq(STRING), finished : BOOLEAN, job : Jobs,
         i : Nat, then : Thens, gen : Nat, late : {0, 1}]

\* The strengthening: once a turn touched the page after it was cut off, it is
\* still cut off, and nothing of it is on its way to the page or waits for the
\* browser to act on its own.
Quiet(x) == x.late = 1 => x.aborted /\ x.at \notin Acting /\ ~(x.at = "queue" /\ x.job = "act")
Spared(ts) == \A t \in Turns : Quiet(ts[t])
AllSpared(ts) == ts \in [Turns -> Turn] /\ Spared(ts)
SparedInv == AllSpared(turn) /\ gen \in Nat /\ paused \in Nat

\* All but one turn are spared, and that one is not marked without being cut off.
Leaving(ts, t) == (\A u \in Turns \ {t} : Quiet(ts[u])) /\ (ts[t].late = 1 => ts[t].aborted)

-----------------------------------------------------------------------------
(* How the records change *)

\* One turn becomes another spared one.
LEMMA Replaced ==
  ASSUME NEW ts \in [Turns -> Turn], Spared(ts), NEW t \in Turns, NEW x \in Turn, Quiet(x), NEW us, us = [ts EXCEPT ![t] = x]
  PROVE  AllSpared(us)
  BY DEF AllSpared, Spared

\* Whoever waits to be heard goes on; the active turn is cut off.
LEMMA ReleasedSpared ==
  ASSUME NEW ts \in [Turns -> Turn], Spared(ts)
  PROVE  AllSpared(Released(ts))
  <1>1. Thens \subseteq Places
    BY DEF Thens, Places
  <1>2. ASSUME NEW u \in Turns
        PROVE  Released(ts)[u] \in Turn /\ Quiet(Released(ts)[u])
    <2>1. ts[u] \in Turn /\ Quiet(ts[u])
      BY DEF Spared
    <2>2. [ts[u] EXCEPT !.at = ts[u].then] \in Turn
      BY <2>1, <1>1 DEF Turn
    <2>3. Quiet([ts[u] EXCEPT !.at = ts[u].then])
      BY <2>1, <2>2 DEF Turn, Quiet, Acting, Thens
    <2> QED BY <2>1, <2>2, <2>3 DEF Released
  <1> QED BY <1>2 DEF AllSpared, Spared, Released

\* Cutting a turn off spares every turn.
LEMMA AbortedSpared ==
  ASSUME NEW ts \in [Turns -> Turn], Spared(ts)
  PROVE  AllSpared(Aborted(ts))
  <1>1. ASSUME NEW u \in Turns
        PROVE  Aborted(ts)[u] \in Turn /\ Quiet(Aborted(ts)[u])
    <2>1. ts[u] \in Turn /\ Quiet(ts[u])
      BY DEF Spared
    <2>2. [ts[u] EXCEPT !.aborted = TRUE] \in Turn /\ Quiet([ts[u] EXCEPT !.aborted = TRUE])
      BY <2>1 DEF Turn, Quiet
    <2> QED BY <2>1, <2>2 DEF Aborted
  <1> QED BY <1>1 DEF AllSpared, Spared, Aborted

\* A turn goes to a place from which nothing reaches the page directly.
LEMMA Moved ==
  ASSUME NEW ts \in [Turns -> Turn], NEW t \in Turns, Leaving(ts, t), NEW at \in Places \ (Acting \cup {"queue"})
  PROVE  AllSpared([ts EXCEPT ![t].at = at])
  <1> DEFINE x == [ts[t] EXCEPT !.at = at]
  <1>1. x \in Turn /\ [ts EXCEPT ![t].at = at] = [ts EXCEPT ![t] = x]
    BY DEF Turn
  <1>2. Quiet(x)
    BY DEF Turn, Quiet, Leaving
  <1> QED BY <1>1, <1>2 DEF AllSpared, Spared, Leaving

\* A turn goes on to the next step of its flow.
LEMMA MovedOn ==
  ASSUME NEW ts \in [Turns -> Turn], NEW t \in Turns, Leaving(ts, t), Passed(ts, t)
  PROVE  AllSpared(turn')
  <1> DEFINE i == ts[t].i + 1
             x == [ts[t] EXCEPT !.at = "next", !.i = i]
  <1>0. "next" \in Places /\ i \in Nat
    BY DEF Places, Turn
  <1>1. turn' = [ts EXCEPT ![t] = x]
    BY DEF Turn, Passed
  <1> HIDE DEF i
  <1>2. x \in Turn /\ Quiet(x)
    BY <1>0 DEF Turn, Quiet, Leaving, Acting
  <1> QED BY <1>1, <1>2 DEF AllSpared, Spared, Leaving

\* A turn that was not cut off goes anywhere.
LEMMA MovedFreely ==
  ASSUME AllSpared(turn), NEW t \in Turns, NEW at \in Places, ~turn[t].aborted, Goes(t, at)
  PROVE  AllSpared(turn')
  <1> DEFINE x == [turn[t] EXCEPT !.at = at]
  <1>0. turn \in [Turns -> Turn] /\ Spared(turn)
    BY DEF AllSpared
  <1>1. x \in Turn /\ turn' = [turn EXCEPT ![t] = x]
    BY <1>0 DEF Turn, Goes
  <1>2. Quiet(x)
    BY <1>0 DEF Turn, Quiet, Spared
  <1> QED BY <1>0, <1>1, <1>2, Replaced

\* The common case: from a spared state to a quiet place.
LEMMA Settled ==
  ASSUME AllSpared(turn), NEW t \in Turns, NEW at \in Places \ (Acting \cup {"queue"}), Goes(t, at)
  PROVE  AllSpared(turn')
  <1>1. turn \in [Turns -> Turn] /\ Leaving(turn, t)
    BY DEF AllSpared, Spared, Leaving, Quiet
  <1> QED BY <1>1, Moved DEF Goes

\* An action whose turn had not been spent reaches the page, or does not.
LEMMA Touching ==
  ASSUME AllSpared(turn), NEW t \in Turns, turn[t].at \in Acting, NEW ts \in {turn, Touched(t)}
  PROVE  ts \in [Turns -> Turn] /\ Leaving(ts, t) /\ ts[t].i = turn[t].i
  <1>0. turn \in [Turns -> Turn] /\ Spared(turn) /\ turn[t] \in Turn /\ Quiet(turn[t])
    BY DEF AllSpared, Spared
  <1>1. CASE ts = turn
    BY <1>0, <1>1 DEF Leaving, Spared, Quiet
  <1>2. CASE ts = Touched(t)
    <2> DEFINE late == IF turn[t].aborted THEN turn[t].late + 1 ELSE turn[t].late
               x == [turn[t] EXCEPT !.late = late]
    <2>1. late \in {0, 1} /\ (late = 1 => turn[t].aborted)
      BY <1>0 DEF Turn, Quiet
    <2>2. ts = [turn EXCEPT ![t] = x]
      BY <1>0, <1>2 DEF Touched, Turn
    <2> HIDE DEF late
    <2>3. x \in Turn /\ x.i = turn[t].i /\ (x.late = 1 => x.aborted)
      BY <1>0, <2>1 DEF Turn
    <2> QED BY <1>0, <2>2, <2>3 DEF Leaving, Spared
  <1> QED BY <1>1, <1>2

\* The replay is over, wherever the turn goes on.
LEMMA ReplayOver ==
  ASSUME NEW ts \in [Turns -> Turn], NEW t \in Turns, Leaving(ts, t), NEW left, Replayed(ts, t, left)
  PROVE  AllSpared(turn') /\ paused' = left
  <1>1. {"tools", "over"} \subseteq Places \ (Acting \cup {"queue"})
    BY DEF Places, Acting
  <1> QED BY <1>1, Moved DEF Replayed, NextCall

\* A line is said, or is not, and the turn goes on.
LEMMA Speaking ==
  ASSUME SparedInv, NEW ts \in [Turns -> Turn], Spared(ts), NEW t \in Turns, NEW then \in Thens, NEW i \in Nat, SayLine(ts, t, then, i)
  PROVE  AllSpared(turn')
  <1>0. then \in Places /\ "synth" \in Places /\ gen \in Nat /\ ts[t] \in Turn /\ Quiet(ts[t])
    BY DEF Thens, Places, SparedInv, Spared
  <1>1. CASE turn' = [ts EXCEPT ![t].at = then, ![t].i = i]
    <2> DEFINE x == [ts[t] EXCEPT !.at = then, !.i = i]
    <2>1. turn' = [ts EXCEPT ![t] = x]
      BY <1>1 DEF Turn
    <2>2. x \in Turn
      BY <1>0 DEF Turn
    <2>3. Quiet(x)
      BY <1>0 DEF Turn, Thens, Quiet, Acting
    <2> QED BY <2>1, <2>2, <2>3, Replaced
  <1>2. CASE turn' = [ts EXCEPT ![t].at = "synth", ![t].then = then, ![t].gen = gen, ![t].i = i]
    <2> DEFINE x == [ts[t] EXCEPT !.at = "synth", !.then = then, !.gen = gen, !.i = i]
    <2>1. turn' = [ts EXCEPT ![t] = x]
      BY <1>2 DEF Turn
    <2>2. x \in Turn
      BY <1>0 DEF Turn
    <2>3. Quiet(x)
      BY <1>0 DEF Turn, Thens, Quiet, Acting
    <2> QED BY <2>1, <2>2, <2>3, Replaced
  <1> QED BY <1>1, <1>2 DEF SayLine

\* Whoever queues to act on his own was not cut off.
LEMMA Queueing ==
  ASSUME NEW ts \in [Turns -> Turn], Spared(ts), NEW t \in Turns, NEW job \in Jobs, NEW i \in Nat, job = "act" => ~ts[t].aborted,
         Enqueued(ts, t, job, i)
  PROVE  AllSpared(turn')
  <1> DEFINE x == [ts[t] EXCEPT !.at = "queue", !.job = job, !.i = i]
  <1>0. "queue" \in Places /\ ts[t] \in Turn /\ Quiet(ts[t])
    BY DEF Places, Spared
  <1>1. turn' = [ts EXCEPT ![t] = x]
    BY DEF Turn, Enqueued
  <1>2. x \in Turn
    BY <1>0 DEF Turn
  <1>3. Quiet(x)
    BY <1>0 DEF Turn, Quiet, Acting
  <1> QED BY <1>1, <1>2, <1>3, Replaced

\* The state of the turns after the next call was taken from the answer.
LEMMA CallTaken ==
  ASSUME AllSpared(turn), NEW t \in Turns, turn[t].calls # <<>>,
         NEW rest, rest = [turn EXCEPT ![t].calls = Tail(@)]
  PROVE  /\ rest \in [Turns -> Turn] /\ Spared(rest) /\ rest[t].aborted = turn[t].aborted
         /\ AllSpared([rest EXCEPT ![t].finished = TRUE])
  <1> DEFINE x == [turn[t] EXCEPT !.calls = Tail(@)]
             y == [x EXCEPT !.finished = TRUE]
  <1>0. turn \in [Turns -> Turn] /\ Spared(turn) /\ turn[t] \in Turn /\ Quiet(turn[t])
    BY DEF AllSpared, Spared
  <1>1. Tail(turn[t].calls) \in Seq(STRING)
    BY <1>0 DEF Turn
  <1>2. x \in Turn /\ Quiet(x) /\ x.aborted = turn[t].aborted
    BY <1>0, <1>1 DEF Turn, Quiet
  <1>3. rest = [turn EXCEPT ![t] = x]
    BY <1>0 DEF Turn
  <1>4. rest \in [Turns -> Turn] /\ Spared(rest) /\ rest[t] = x
    BY <1>0, <1>2, <1>3, Replaced DEF AllSpared
  <1>5. y \in Turn /\ Quiet(y)
    BY <1>2 DEF Turn, Quiet
  <1>6. [rest EXCEPT ![t].finished = TRUE] = [rest EXCEPT ![t] = y]
    BY <1>4
  <1> QED BY <1>2, <1>4, <1>5, <1>6, Replaced

-----------------------------------------------------------------------------
(* The invariant is inductive *)

\* Nothing was said yet.
LEMMA InitSpares ==
  ASSUME HostedInit
  PROVE  SparedInv
  <1>1. NewTurn \in Turn /\ Quiet(NewTurn)
    BY DEF NewTurn, Turn, Quiet, Places, Thens, Jobs
  <1>2. NotPaused \in Nat
    BY TurnsAssumption DEF NotPaused
  <1> QED BY <1>1, <1>2 DEF HostedInit, SparedInv, AllSpared, Spared

\* What the visitor and the speech do.
LEMMA OutsideSpares ==
  ASSUME SparedInv,
         (\E t \in Turns : UserMessage(t)) \/ StopTurn \/ UserSpeaking \/ SetMode \/ Drained \/ Interject \/ Interjected
  PROVE  SparedInv'
  <1>0. AllSpared(turn) /\ turn \in [Turns -> Turn] /\ Spared(turn) /\ gen \in Nat /\ paused \in Nat
    BY DEF SparedInv, AllSpared
  <1>1. AllSpared(Released(turn)) /\ AllSpared(Released(Aborted(turn)))
    BY <1>0, ReleasedSpared, AbortedSpared DEF AllSpared
  <1>2. ASSUME NEW t \in Turns, UserMessage(t)
        PROVE  SparedInv'
    <2>1. CASE active = NoTurn
      <3>1. Goes(t, "ground") /\ UNCHANGED <<gen, paused>>
        BY <1>2, <2>1 DEF UserMessage, Begun, Goes, Page
      <3>2. "ground" \in Places \ (Acting \cup {"queue"})
        BY DEF Places, Acting
      <3> QED BY <1>0, <3>1, <3>2, Settled DEF SparedInv
    <2>2. CASE active # NoTurn
      <3> DEFINE ts == Released(Aborted(turn))
      <3>1. turn' = [ts EXCEPT ![t].at = "wait"] /\ gen' = gen + 1 /\ paused' = paused
        BY <1>2, <2>2 DEF UserMessage, Page
      <3>2. "wait" \in Places \ (Acting \cup {"queue"})
        BY DEF Places, Acting
      <3>3. ts \in [Turns -> Turn] /\ Leaving(ts, t)
        BY <1>1 DEF AllSpared, Spared, Leaving, Quiet
      <3>4. AllSpared(turn')
        BY <3>1, <3>2, <3>3, Moved
      <3> QED BY <1>0, <3>1, <3>4 DEF SparedInv
    <2> QED BY <2>1, <2>2
  <1>3. CASE StopTurn \/ UserSpeaking
    BY <1>0, <1>1, <1>3 DEF StopTurn, UserSpeaking, SparedInv, Page
  <1>4. CASE SetMode \/ Drained
    BY <1>0, <1>1, <1>4 DEF SetMode, Drained, SparedInv, Page
  <1>5. CASE Interject \/ Interjected
    BY <1>0, <1>5 DEF Interject, Interjected, SparedInv, Page
  <1> QED BY <1>2, <1>3, <1>4, <1>5

\* A turn that goes elsewhere in another round is a turn.
LEMMA RoundTyped ==
  ASSUME NEW x \in Turn, NEW at \in Places, NEW n \in Nat
  PROVE  [x EXCEPT !.at = at, !.round = n] \in Turn
  BY DEF Turn

\* A turn that waits, asks the model, and takes the calls of its answer.
LEMMA AgentSpares ==
  ASSUME SparedInv, NEW t \in Turns,
         \/ WaitIsOver(t) \/ Synthesized(t) \/ Heard(t)
         \/ Ground(t) \/ Loop(t) \/ Model(t) \/ Talk(t) \/ Tools(t) \/ Rejoin(t)
  PROVE  SparedInv'
  <1>0. AllSpared(turn) /\ turn \in [Turns -> Turn] /\ Spared(turn) /\ gen \in Nat /\ paused \in Nat
        /\ turn[t] \in Turn /\ Quiet(turn[t])
    BY DEF SparedInv, AllSpared, Spared
  <1>1. {"ground", "hear", "over", "loop", "model", "talk", "tools", "rejoin", "check"} \subseteq Places \ (Acting \cup {"queue"})
    BY DEF Places, Acting
  <1>2. gen' = gen /\ paused' = paused
    BY DEF WaitIsOver, Begun, Synthesized, Heard, Ground, Loop, Model, Talk, Tools, Rejoin, Page, Speech
  <1>3. SUFFICES AllSpared(turn')
    BY <1>0, <1>2 DEF SparedInv
  <1>4. CASE Ends(t)
    BY <1>0, <1>1, <1>4, Settled DEF Ends
  <1>5. CASE WaitIsOver(t) \/ Synthesized(t) \/ Heard(t)
    <2>1. turn[t].then \in Places \ (Acting \cup {"queue"})
      BY <1>0, <1>1 DEF Turn, Thens
    <2> QED BY <1>0, <1>1, <1>5, <2>1, Settled DEF WaitIsOver, Begun, Synthesized, Heard, Goes
  <1>6. CASE Ground(t)
    <2>1. CASE Goes(t, "loop")
      BY <1>0, <1>1, <2>1, Settled
    <2>2. CASE Enqueued(turn, t, "only", 0)
      BY <1>0, <2>2, Queueing DEF Jobs
    <2> QED BY <1>4, <1>6, <2>1, <2>2 DEF Ground
  <1>7. CASE Loop(t)
    <2> DEFINE x == [turn[t] EXCEPT !.at = "model", !.round = @ + 1]
    <2>1. ASSUME turn' = [turn EXCEPT ![t].at = "model", ![t].round = @ + 1]
          PROVE  AllSpared(turn')
      <3>1. turn' = [turn EXCEPT ![t] = x]
        BY <2>1
      <3>2. turn[t] \in Turn /\ "model" \in Places
        BY <1>0 DEF Places
      <3>3. turn[t].round + 1 \in Nat
        BY <3>2 DEF Turn
      <3>5. x \in Turn
        BY <3>2, <3>3, RoundTyped
      <3>4. Quiet(x)
        BY <1>0 DEF Turn, Quiet, Acting
      <3> QED BY <1>0, <3>1, <3>5, <3>4, Replaced
    <2> QED BY <1>4, <1>7, <2>1 DEF Loop
  <1>8. CASE Model(t)
    <2>1. ASSUME NEW b \in Batches, turn' = [turn EXCEPT ![t].at = "talk", ![t].calls = b]
          PROVE  AllSpared(turn')
      <3> DEFINE x == [turn[t] EXCEPT !.at = "talk", !.calls = b]
      <3>1. b \in Seq(STRING)
        BY TurnsAssumption
      <3>2. x \in Turn /\ turn' = [turn EXCEPT ![t] = x]
        BY <1>0, <1>1, <2>1, <3>1 DEF Turn
      <3>3. Quiet(x)
        BY <1>0 DEF Turn, Quiet, Acting
      <3> QED BY <1>0, <3>2, <3>3, Replaced
    <2> QED BY <1>4, <1>8, <2>1 DEF Model
  <1>9. CASE Talk(t)
    <2>1. "talk" \in Thens
      BY DEF Thens
    <2>2. CASE SayLine(turn, t, "talk", 0)
      BY <1>0, <2>1, <2>2, Speaking
    <2>3. CASE Goes(t, "tools")
      BY <1>0, <1>1, <2>3, Settled
    <2> QED BY <1>4, <1>9, <2>2, <2>3 DEF Talk
  <1>10. CASE Tools(t)
    <2>1. CASE turn[t].calls = <<>>
      <3>1. CASE Goes(t, "loop")
        BY <1>0, <1>1, <3>1, Settled
      <3> QED BY <1>4, <1>10, <2>1, <3>1 DEF Tools
    <2>2. CASE turn[t].calls # <<>>
      <3> DEFINE rest == [turn EXCEPT ![t].calls = Tail(@)]
                 told == [rest EXCEPT ![t].finished = TRUE]
      <3>1. /\ rest \in [Turns -> Turn] /\ Spared(rest) /\ rest[t].aborted = turn[t].aborted
            /\ told \in [Turns -> Turn] /\ Spared(told)
        BY <1>0, <2>2, CallTaken DEF AllSpared
      <3>2. \/ SayLine(told, t, "tools", 0)
            \/ turn' = rest
            \/ ~Cut(t) /\ Enqueued(rest, t, "act", 0)
            \/ Enqueued(rest, t, "flow", 0)
            \/ SayLine(rest, t, "rejoin", paused)
        BY <1>10, <2>2 DEF Tools, MayTouch
      <3>3. "tools" \in Thens /\ "rejoin" \in Thens
        BY DEF Thens
      <3>4. CASE SayLine(told, t, "tools", 0)
        BY <3>1, <3>3, <3>4, Speaking
      <3>5. CASE turn' = rest
        BY <3>1, <3>5 DEF AllSpared
      <3>6. CASE ~Cut(t) /\ Enqueued(rest, t, "act", 0)
        BY <3>1, <3>6, Queueing DEF Cut, Jobs
      <3>7. CASE Enqueued(rest, t, "flow", 0)
        BY <3>1, <3>7, Queueing DEF Jobs
      <3>8. CASE SayLine(rest, t, "rejoin", paused)
        BY <1>0, <3>1, <3>3, <3>8, Speaking
      <3> QED BY <3>2, <3>4, <3>5, <3>6, <3>7, <3>8
    <2> QED BY <2>1, <2>2
  <1>11. CASE Rejoin(t)
    <2>1. turn[t].i \in Nat
      BY <1>0 DEF Turn
    <2> QED BY <1>0, <1>11, <2>1, Queueing DEF Rejoin, Jobs
  <1> QED BY <1>5, <1>6, <1>7, <1>8, <1>9, <1>10, <1>11

\* A turn that holds the browser.
LEMMA BrowserSpares ==
  ASSUME SparedInv, NEW t \in Turns,
         \/ LockGranted(t) \/ Expect(t) \/ Begin(t) \/ Navigate(t) \/ NextFlowStep(t) \/ CheckStep(t) \/ Aim(t) \/ Drive(t)
  PROVE  SparedInv'
  <1>0. AllSpared(turn) /\ turn \in [Turns -> Turn] /\ Spared(turn) /\ gen \in Nat /\ paused \in Nat
        /\ turn[t] \in Turn /\ Quiet(turn[t]) /\ turn[t].i \in Nat
    BY DEF SparedInv, AllSpared, Spared, Turn
  <1>1. {"tools", "over", "begin", "next", "check", "aim"} \subseteq Places \ (Acting \cup {"queue"})
    BY DEF Places, Acting
  <1>2. {"expect", "navigate", "drive"} \subseteq Places
    BY DEF Places
  <1>3. Leaving(turn, t)
    BY <1>0 DEF Leaving, Spared, Quiet
  <1>4. ASSUME NEW at, Goes(t, at), at \in {"next", "begin", "aim"}, UNCHANGED <<gen, paused>>
        PROVE  SparedInv'
    BY <1>0, <1>1, <1>4, Settled DEF SparedInv
  <1>5. ASSUME NEW at, Goes(t, at), at \in Acting, ~turn[t].aborted, UNCHANGED <<gen, paused>>
        PROVE  SparedInv'
    BY <1>0, <1>2, <1>5, MovedFreely DEF SparedInv, Acting
  <1>6. ASSUME NEW ts \in [Turns -> Turn], Leaving(ts, t), NEW left \in Nat, Replayed(ts, t, left), gen' = gen
        PROVE  SparedInv'
    BY <1>0, <1>6, ReplayOver DEF SparedInv
  <1>7. ASSUME NEW ts \in [Turns -> Turn], Leaving(ts, t), Passed(ts, t), gen' = gen
        PROVE  SparedInv'
    BY <1>0, <1>7, MovedOn DEF SparedInv, Passed, Page
  <1>8. gen' = gen
    BY DEF LockGranted, Expect, Begin, Navigate, NextFlowStep, CheckStep, Aim, Drive, Speech
  <1>9. CASE LockGranted(t)
    <2>1. CASE turn[t].job = "act"
      <3> DEFINE x == [turn[t] EXCEPT !.at = "expect"]
      <3>1. turn' = [turn EXCEPT ![t] = x] /\ x \in Turn
        BY <1>0, <1>2, <1>9, <2>1 DEF LockGranted, Goes, Turn
      <3>2. Quiet(x)
        BY <1>0, <1>9, <2>1 DEF LockGranted, Turn, Quiet
      <3> QED BY <1>0, <1>8, <1>9, <3>1, <3>2, Replaced DEF LockGranted, SparedInv, Page
    <2>2. CASE turn[t].job # "act"
      BY <1>4, <1>8, <1>9, <2>2 DEF LockGranted, Page
    <2> QED BY <2>1, <2>2
  <1>10. CASE Expect(t)
    <2>1. PICK ts \in {turn, Touched(t)} : turn' = NextCall(ts, t)
      BY <1>10 DEF Expect
    <2>2. ts \in [Turns -> Turn] /\ Leaving(ts, t)
      BY <1>0, <1>10, Touching DEF Expect, Acting
    <2>3. AllSpared(turn')
      BY <1>1, <2>1, <2>2, Moved DEF NextCall
    <2> QED BY <1>0, <1>8, <1>10, <2>3 DEF Expect, SparedInv
  <1>11. CASE Begin(t)
    BY <1>0, <1>3, <1>4, <1>5, <1>6, <1>8, <1>11 DEF Begin, PausesAt, Page, Acting
  <1>12. CASE Navigate(t)
    <2>1. ASSUME NEW ts \in {turn, Touched(t)}
          PROVE  ts \in [Turns -> Turn] /\ Leaving(ts, t)
      BY <1>0, <1>12, Touching DEF Navigate, Acting
    <2>2. CASE \E ts \in {turn, Touched(t)} : Replayed(ts, t, turn[t].i)
      BY <1>0, <1>6, <1>8, <2>1, <2>2
    <2>3. CASE turn' = [Touched(t) EXCEPT ![t].at = "next"] /\ UNCHANGED Page
      BY <1>0, <1>1, <1>8, <2>1, <2>3, Moved DEF SparedInv, Page
    <2> QED BY <1>12, <2>2, <2>3 DEF Navigate, Page
  <1>13. CASE NextFlowStep(t)
    <2>1. CASE SayLine(turn, t, "check", turn[t].i) /\ UNCHANGED Page
      <3>1. "check" \in Thens
        BY DEF Thens
      <3> QED BY <1>0, <1>8, <2>1, <3>1, Speaking DEF SparedInv, Page
    <2>2. NotPaused \in Nat
      BY TurnsAssumption DEF NotPaused
    <2> QED BY <1>0, <1>3, <1>6, <1>8, <1>13, <2>1, <2>2 DEF NextFlowStep, PausesAt, Page
  <1>14. CASE CheckStep(t)
    BY <1>0, <1>3, <1>4, <1>6, <1>7, <1>8, <1>14 DEF CheckStep, PausesAt, Page
  <1>15. CASE Aim(t)
    BY <1>0, <1>3, <1>5, <1>6, <1>7, <1>8, <1>15 DEF Aim, PausesAt, Page, Acting
  <1>16. CASE Drive(t)
    <2>1. PICK ts \in {turn, Touched(t)} : Replayed(ts, t, turn[t].i) \/ Passed(ts, t)
      BY <1>16 DEF Drive
    <2>2. ts \in [Turns -> Turn] /\ Leaving(ts, t)
      BY <1>0, <1>16, Touching DEF Drive, Acting
    <2> QED BY <1>0, <1>6, <1>7, <1>8, <2>1, <2>2
  <1> QED BY <1>9, <1>10, <1>11, <1>12, <1>13, <1>14, <1>15, <1>16

\* Every step spares all turns but the one it acts for, and that one too.
LEMMA NextSpares ==
  ASSUME SparedInv, [HostedNext]_hostedVars
  PROVE  SparedInv'
  <1>1. CASE UNCHANGED hostedVars
    BY <1>1 DEF hostedVars, SparedInv, AllSpared, Spared
  <1>2. CASE HostedNext
    BY <1>2, OutsideSpares, AgentSpares, BrowserSpares DEF HostedNext, Works
  <1> QED BY <1>1, <1>2

\* A turn that was cut off by a stop, a barge-in or a newer message touches the
\* page at most once more (agent.ts "STOP MEANS STOP", executor.ts
\* ensureActive), whatever the number of turns, steps, rounds and interruptions.
THEOREM CutOffActsOnce ==
  HostedSpec => []CutOffTurnsActOnce
  <1>1. HostedInit => SparedInv
    BY InitSpares
  <1>2. SparedInv /\ [HostedNext]_hostedVars => SparedInv'
    BY NextSpares
  <1>3. SparedInv => CutOffTurnsActOnce
    <2>1. ASSUME SparedInv, NEW t \in Turns
          PROVE  turn[t].late =< 1
      <3>1. turn[t] \in Turn
        BY <2>1 DEF SparedInv, AllSpared
      <3> QED BY <3>1 DEF Turn
    <2> QED BY <2>1 DEF CutOffTurnsActOnce
  <1> QED BY <1>1, <1>2, <1>3, PTL DEF HostedSpec

-----------------------------------------------------------------------------
(* The executor of workflows *)

Names == DOMAIN wf.steps
Frame == [step : Names \cup {"workflow"}, run : Nat, scope : Nat, block : Seq(Names), at : Nat \ {0}, turns : Nat]
StackOK(st) == st \in Seq(Frame) /\ Len(st) >= 1 /\ \A i \in 2 .. Len(st) : st[i].step \in Names

\* The approval scope of an open step comes from an approval step that is still open.
Backed(i, st) ==
  \E g \in grants :
    /\ g.risk \in Nat /\ g.risk >= st[i].scope /\ wf.steps[g.step].kind = "approval"
    /\ \E k \in 1 .. i : st[k].run = g.run
ScopesBacked(st) == \A i \in 1 .. Len(st) : st[i].scope # NoScope => Backed(i, st)

\* At these points of a step nothing of it has reached the page.
Unperformed == {"observe", "authorize", "ask"}
Within == Unperformed \cup {"consent", "act", "check"}

Typed ==
  /\ wf \in Workflows /\ executed \in Nat /\ phase \in Phases /\ stopped \in BOOLEAN /\ aborted \in BOOLEAN
  /\ StackOK(stack)
  /\ phase \in Within => InStep
  /\ phase = "announce" => Top.at =< Len(Top.block)
  /\ phase = "consent" => Step(Top).kind = "approval"
AbortIsFinal == aborted => (phase = "throw" /\ error = "abort") \/ (phase = "done" /\ result = "failed")
StoppedOnce ==
  /\ \A e \in effects : e.stopped => stopped /\ phase \notin Unperformed
  /\ \A e, f \in effects : e.stopped /\ f.stopped => e = f
  /\ \A e \in effects : ~e.aborted
StillRuns == result = "running" \/ phase = "done"
HeardInv == Typed /\ ScopesBacked(stack) /\ EffectsAreSanctioned /\ AbortIsFinal /\ StoppedOnce /\ StillRuns

-----------------------------------------------------------------------------
(* The stack *)

\* Frames above a cut are gone; what backed the rest still does.
LEMMA CutStack ==
  ASSUME StackOK(stack), ScopesBacked(stack), NEW n \in 1 .. Len(stack)
  PROVE  StackOK(SubSeq(stack, 1, n)) /\ ScopesBacked(SubSeq(stack, 1, n))
  <1> DEFINE st == SubSeq(stack, 1, n)
  <1>1. st \in Seq(Frame) /\ Len(st) = n /\ \A i \in 1 .. n : st[i] = stack[i]
    BY DEF StackOK
  <1> HIDE DEF st
  <1>2. StackOK(st)
    BY <1>1 DEF StackOK
  <1>3. ScopesBacked(st)
    <2> SUFFICES ASSUME NEW i \in 1 .. n, st[i].scope # NoScope
                 PROVE  Backed(i, st)
      BY <1>1 DEF ScopesBacked
    <2>1. Backed(i, stack)
      BY <1>1 DEF ScopesBacked, StackOK
    <2> QED BY <1>1, <2>1 DEF Backed
  <1> QED BY <1>2, <1>3 DEF st

\* The innermost open step becomes another.
LEMMA TopReplaced ==
  ASSUME NEW s, StackOK(s), ScopesBacked(s), NEW f \in Frame,
         f.step = s[Len(s)].step, f.run = s[Len(s)].run, f.scope = s[Len(s)].scope
  PROVE  LET st == [s EXCEPT ![Len(s)] = f]
         IN  StackOK(st) /\ ScopesBacked(st) /\ Len(st) = Len(s) /\ st[Len(st)] = f
  <1> DEFINE n == Len(s)
             st == [s EXCEPT ![n] = f]
  <1>1. st \in Seq(Frame) /\ Len(st) = n /\ st[n] = f /\ n \in 1 .. n /\ \A i \in 1 .. n - 1 : st[i] = s[i]
    BY DEF StackOK
  <1>2. \A i \in 1 .. n : st[i].step = s[i].step /\ st[i].run = s[i].run /\ st[i].scope = s[i].scope
    BY <1>1 DEF StackOK
  <1> HIDE DEF st
  <1>3. StackOK(st)
    BY <1>1, <1>2 DEF StackOK
  <1>4. ScopesBacked(st)
    <2> SUFFICES ASSUME NEW i \in 1 .. n, st[i].scope # NoScope
                 PROVE  Backed(i, st)
      BY <1>1 DEF ScopesBacked
    <2>1. Backed(i, s)
      BY <1>2 DEF ScopesBacked
    <2> QED BY <1>1, <1>2, <2>1 DEF Backed
  <1> QED BY <1>1, <1>3, <1>4 DEF st

\* A step is opened on top.
LEMMA Pushed ==
  ASSUME StackOK(stack), ScopesBacked(stack), NEW f \in Frame, f.step \in Names, f.scope = Top.scope
  PROVE  StackOK(Append(stack, f)) /\ ScopesBacked(Append(stack, f)) /\ Len(Append(stack, f)) = Len(stack) + 1
  <1> DEFINE st == Append(stack, f)
             n == Len(stack)
  <1>1. st \in Seq(Frame) /\ Len(st) = n + 1 /\ st[n + 1] = f /\ (\A i \in 1 .. n : st[i] = stack[i]) /\ n \in 1 .. n
    BY DEF StackOK
  <1> HIDE DEF st
  <1>2. StackOK(st)
    BY <1>1 DEF StackOK
  <1>3. ScopesBacked(st)
    <2> SUFFICES ASSUME NEW i \in 1 .. n + 1, st[i].scope # NoScope
                 PROVE  Backed(i, st)
      BY <1>1 DEF ScopesBacked
    <2>1. CASE i \in 1 .. n
      <3>1. Backed(i, stack)
        BY <1>1, <2>1 DEF ScopesBacked
      <3> QED BY <1>1, <2>1, <3>1 DEF Backed
    <2>2. CASE i = n + 1
      <3>1. Backed(n, stack)
        BY <1>1, <2>2 DEF ScopesBacked, Top
      <3> QED BY <1>1, <2>2, <3>1 DEF Backed, Top
    <2> QED BY <2>1, <2>2
  <1> QED BY <1>1, <1>2, <1>3 DEF st

\* A step is closed.
LEMMA ClosedOK ==
  ASSUME StackOK(stack), ScopesBacked(stack), InStep
  PROVE  StackOK(Closed) /\ ScopesBacked(Closed)
  <1> DEFINE n == Len(stack) - 1
             s == SubSeq(stack, 1, n)
             at == s[n].at + 1
             f == [s[n] EXCEPT !.at = at]
  <1>1. n \in 1 .. Len(stack) /\ StackOK(s) /\ ScopesBacked(s)
    BY CutStack DEF InStep, StackOK
  <1>2. Len(s) = n /\ s \in Seq(Frame) /\ s[n] \in Frame
    BY <1>1 DEF StackOK
  <1> HIDE DEF s
  <1>3. at \in Nat \ {0}
    BY <1>2 DEF Frame
  <1>4. Closed = [s EXCEPT ![n] = f]
    BY <1>2 DEF Closed, s
  <1> HIDE DEF at
  <1>5. f \in Frame /\ f.step = s[n].step /\ f.run = s[n].run /\ f.scope = s[n].scope
    BY <1>2, <1>3 DEF Frame
  <1> HIDE DEF f
  <1> QED BY <1>1, <1>2, <1>4, <1>5, TopReplaced

-----------------------------------------------------------------------------
(* The steps of the executor *)

\* The risk of a step is a number.
LEMMA Risks ==
  ASSUME Typed, NEW s \in Names
  PROVE  /\ StepRisk(s) \in Nat
         /\ wf.steps[s].then \in Seq(Names) /\ wf.steps[s].other \in Seq(Names)
  BY WorkflowsAssumption DEF WellFormed, Typed, Names, StepRisk, Larger

\* The innermost open step is a frame with its scope backed.
LEMMA TopOK ==
  ASSUME HeardInv
  PROVE  /\ Top \in Frame /\ StackOK(stack) /\ ScopesBacked(stack) /\ Len(stack) \in Nat /\ Len(stack) >= 1
         /\ InStep => Top.step \in Names
         /\ phase \notin {"throw", "done"} => ~aborted /\ result = "running"
  BY DEF HeardInv, Typed, StackOK, Top, InStep, AbortIsFinal, StillRuns

\* A step that grants nothing and hands nothing to the driver.
LEMMA QuietStep ==
  ASSUME HeardInv, UNCHANGED <<wf, grants, effects>>,
         StackOK(stack'), ScopesBacked(stack'), executed' \in Nat, phase' \in Phases, stopped' \in BOOLEAN, aborted' \in BOOLEAN,
         phase' \in Within => Len(stack') > 1,
         phase' = "announce" => stack'[Len(stack')].at =< Len(stack'[Len(stack')].block),
         phase' = "consent" => wf.steps[stack'[Len(stack')].step].kind = "approval",
         stopped => stopped', stopped /\ phase' \in Unperformed => phase \in Unperformed,
         AbortIsFinal', StillRuns'
  PROVE  HeardInv'
  <1>1. Typed'
    BY DEF HeardInv, Typed, StackOK, Names, Frame, Top, InStep, Step
  <1>2. ScopesBacked(stack)'
    BY DEF ScopesBacked, Backed
  <1>3. EffectsAreSanctioned'
    BY DEF HeardInv, EffectsAreSanctioned, StepRisk
  <1>4. StoppedOnce'
    BY DEF HeardInv, StoppedOnce
  <1> QED BY <1>1, <1>2, <1>3, <1>4 DEF HeardInv

\* The same, with the stack and the signals as they were, at a point where no error is thrown.
LEMMA SameStack ==
  ASSUME HeardInv, UNCHANGED <<wf, stack, executed, aborted, stopped, grants, effects>>,
         phase \notin {"throw", "done"}, phase' \in Phases \ {"announce"},
         phase' \in Within => InStep, phase' = "consent" => Step(Top).kind = "approval",
         stopped /\ phase' \in Unperformed => phase \in Unperformed,
         result' = result \/ phase' = "done"
  PROVE  HeardInv'
  <1>1. AbortIsFinal' /\ StillRuns'
    BY TopOK DEF AbortIsFinal, StillRuns
  <1> QED BY <1>1, TopOK, QuietStep DEF HeardInv, Typed, InStep, Step, Top

\* The walk from step to step.
LEMMA WalkOK ==
  ASSUME HeardInv, Prepare \/ NextStep \/ Announce \/ Observe \/ Report \/ Finish \/ Stop
  PROVE  HeardInv'
  <1>0. /\ Top \in Frame /\ StackOK(stack) /\ ScopesBacked(stack) /\ Len(stack) \in Nat /\ Len(stack) >= 1
        /\ phase \notin {"throw", "done"} => ~aborted /\ result = "running"
        /\ executed \in Nat /\ stopped \in BOOLEAN /\ aborted \in BOOLEAN
    BY TopOK DEF HeardInv, Typed
  <1>1. CASE Prepare
    <2>1. phase' \in {"throw", "pre", "start", "next"}
      BY <1>1 DEF Prepare, Throw, Await
    <2>2. phase' \in Phases \ {"announce"} /\ phase' \notin Within
      BY <2>1 DEF Phases, Awaiting, Within, Unperformed
    <2> QED BY <1>1, <2>2, SameStack DEF Prepare, Signals, History, Within
  <1>2. CASE NextStep
    <2>1. phase' = "throw" \/ (phase' = "announce" /\ executed' = executed + 1)
      BY <1>2 DEF NextStep, Throw
    <2>2. executed' \in Nat /\ UNCHANGED <<wf, stack, aborted, stopped, grants, effects, result>>
      BY <1>0, <1>2 DEF NextStep, Signals, History
    <2>3. Top.at =< Len(Top.block) /\ phase = "next"
      BY <1>2 DEF NextStep
    <2>4. phase' \in Phases /\ phase' \notin Within
      BY <2>1 DEF Phases, Awaiting, Within, Unperformed
    <2>5. AbortIsFinal' /\ StillRuns'
      BY <1>0, <2>2, <2>3 DEF AbortIsFinal, StillRuns
    <2> QED BY <1>0, <2>2, <2>3, <2>4, <2>5, QuietStep DEF Top, Within
  <1>3. CASE Announce
    <2>1. CASE phase' = "throw" /\ UNCHANGED stack
      BY <1>3, <2>1, SameStack DEF Announce, Signals, History, Phases, Within, Unperformed
    <2>2. CASE Inactive = "none" /\ stack' = Append(stack, Child) /\ phase' = "observe"
      <3>1. Top.at \in 1 .. Len(Top.block)
        BY <1>0, <1>3 DEF Announce, HeardInv, Typed, Frame
      <3>2. Top.block[Top.at] \in Names
        BY <1>0, <3>1 DEF Frame
      <3>3. Child \in Frame /\ Child.step \in Names /\ Child.scope = Top.scope
        BY <1>0, <3>2 DEF Child, Frame
      <3>4. StackOK(stack') /\ ScopesBacked(stack') /\ Len(stack') = Len(stack) + 1
        BY <1>0, <2>2, <3>3, Pushed
      <3>5. ~stopped
        BY <1>0, <2>2 DEF Inactive
      <3>6. UNCHANGED <<wf, executed, aborted, stopped, grants, effects, result>> /\ phase = "announce"
        BY <1>3 DEF Announce, Signals, History
      <3>7. AbortIsFinal' /\ StillRuns'
        BY <1>0, <3>6 DEF AbortIsFinal, StillRuns
      <3>8. phase' \in Phases
        BY <2>2 DEF Phases, Awaiting
      <3> QED BY <1>0, <2>2, <3>4, <3>5, <3>6, <3>7, <3>8, QuietStep
    <2> QED BY <1>3, <2>1, <2>2 DEF Announce, Throw
  <1>4. CASE Observe
    <2>1. phase = "observe" /\ phase' \in {"throw", "authorize"}
      BY <1>4 DEF Observe, Throw
    <2>2. InStep
      BY <2>1 DEF HeardInv, Typed, Within, Unperformed
    <2>3. phase' \in Phases \ {"announce"} /\ phase \in Unperformed
      BY <2>1 DEF Phases, Awaiting, Unperformed
    <2> QED BY <1>4, <2>1, <2>2, <2>3, SameStack DEF Observe, Signals, History
  <1>5. CASE Report
    <2>1. phase = "report" /\ phase' \in {"throw", "next"}
      BY <1>5 DEF Report, Throw
    <2>2. phase' \in Phases \ {"announce"} /\ phase' \notin Within
      BY <2>1 DEF Phases, Within, Unperformed
    <2> QED BY <1>5, <2>1, <2>2, SameStack DEF Report, Signals, History, Within
  <1>6. CASE Finish
    <2>1. phase \in {"final", "post"} /\ phase' \in {"throw", "post", "done"} /\ (result' = result \/ phase' = "done")
      BY <1>6 DEF Finish, Throw, Await
    <2>2. phase' \in Phases \ {"announce"} /\ phase' \notin Within
      BY <2>1 DEF Phases, Awaiting, Within, Unperformed
    <2> QED BY <1>6, <2>1, <2>2, SameStack DEF Finish, Signals, History, Within
  <1>7. CASE Stop
    <2>1. stopped' = TRUE /\ phase \in Awaiting /\ ~stopped /\ UNCHANGED <<wf, stack, phase, executed, aborted, grants, effects, result>>
      BY <1>7 DEF Stop, History
    <2>2. phase \notin {"throw", "done"} /\ phase \in Phases
      BY <2>1 DEF Awaiting, Phases
    <2>3. AbortIsFinal' /\ StillRuns'
      BY <1>0, <2>1, <2>2 DEF AbortIsFinal, StillRuns
    <2>4. phase \in Within => Len(stack) > 1
      BY DEF HeardInv, Typed, InStep
    <2>5. phase = "announce" => Top.at =< Len(Top.block)
      BY DEF HeardInv, Typed
    <2>6. phase = "consent" => Step(Top).kind = "approval"
      BY DEF HeardInv, Typed
    <2> QED BY <1>0, <2>1, <2>2, <2>3, <2>4, <2>5, <2>6, QuietStep DEF Top, Step
  <1> QED BY <1>1, <1>2, <1>3, <1>4, <1>5, <1>6, <1>7

\* An authorized step begins its own work: an action is sanctioned when it is
\* handed to the driver, and none was handed to it since the stop.
LEMMA PerformOK ==
  ASSUME HeardInv, phase \in {"authorize", "ask"}, Perform, grants \subseteq grants',
         UNCHANGED <<wf, stack, executed, aborted, stopped, result>>,
         StepRisk(Top.step) >= ConfirmAt =>
           \E g \in grants' :
             /\ g.risk >= StepRisk(Top.step)
             /\ \/ g.run = Top.run
                \/ wf.steps[g.step].kind = "approval" /\ \E k \in 1 .. Len(stack) : stack[k].run = g.run
  PROVE  HeardInv'
  <1> DEFINE e == [step |-> Top.step, run |-> Top.run, stopped |-> stopped, aborted |-> aborted,
                   within |-> {stack[i].run : i \in 1 .. Len(stack)}]
  <1>0. /\ Top \in Frame /\ StackOK(stack) /\ ScopesBacked(stack) /\ InStep /\ ~aborted /\ result = "running"
        /\ executed \in Nat /\ stopped \in BOOLEAN /\ aborted \in BOOLEAN
    BY TopOK DEF HeardInv, Typed, Within, Unperformed
  <1>1. \/ effects' = effects \cup {e} /\ phase' = "act"
        \/ effects' = effects /\ phase' \in {"throw", "consent", "check"} /\ (phase' = "consent" => Step(Top).kind = "approval")
    BY DEF Perform, Throw, Await
  <1>2. phase' \in Phases /\ phase' \notin Unperformed /\ phase' # "announce" /\ phase \in Unperformed
    BY <1>1 DEF Phases, Awaiting, Unperformed
  <1>3. Typed'
    BY <1>0, <1>1, <1>2 DEF HeardInv, Typed, StackOK, Names, Frame, InStep, Step, Top
  <1>4. ScopesBacked(stack)'
    BY <1>0 DEF ScopesBacked, Backed
  <1>5. AbortIsFinal' /\ StillRuns'
    BY <1>0 DEF AbortIsFinal, StillRuns
  <1>6. StoppedOnce'
    <2>1. \A x \in effects : ~x.stopped /\ ~x.aborted
      BY <1>2 DEF HeardInv, StoppedOnce
    <2>2. e.stopped = stopped /\ e.aborted = aborted
      OBVIOUS
    <2> HIDE DEF e
    <2> QED BY <1>0, <1>1, <1>2, <2>1, <2>2 DEF StoppedOnce
  <1>7. EffectsAreSanctioned'
    <2> DEFINE Sanctioned(x) ==
                 StepRisk(x.step) >= ConfirmAt =>
                   \E g \in grants' : /\ g.risk >= StepRisk(x.step)
                                      /\ g.run = x.run \/ (wf.steps[g.step].kind = "approval" /\ g.run \in x.within)
    <2>1. \A x \in effects : Sanctioned(x)
      BY DEF HeardInv, EffectsAreSanctioned
    <2>2. Sanctioned(e)
      OBVIOUS
    <2>3. \A x \in effects' : Sanctioned(x)
      <3> HIDE DEF e, Sanctioned
      <3> QED BY <1>1, <2>1, <2>2
    <2> QED BY <2>3 DEF EffectsAreSanctioned, StepRisk
  <1> QED BY <1>3, <1>4, <1>5, <1>6, <1>7 DEF HeardInv

\* The policy decides.
LEMMA AuthorizeOK ==
  ASSUME HeardInv, Authorize
  PROVE  HeardInv'
  <1>0. phase = "authorize" /\ InStep
    BY DEF Authorize, HeardInv, Typed, Within, Unperformed
  <1>1. CASE phase' \in {"throw", "ask"} /\ UNCHANGED effects
    <2>1. phase' \in Phases \ {"announce"} /\ phase \in Unperformed
      BY <1>0, <1>1 DEF Phases, Awaiting, Unperformed
    <2> QED BY <1>0, <1>1, <2>1, SameStack DEF Authorize, Signals, History
  <1>2. CASE ~NeedsApproval(Top) /\ Perform
    <2>1. /\ UNCHANGED <<wf, stack, executed, aborted, stopped, result, grants>>
          /\ Top \in Frame /\ Top.step \in Names /\ ScopesBacked(stack) /\ Len(stack) >= 1 /\ Len(stack) \in Nat
      BY <1>0, TopOK DEF Authorize, Signals
    <2>2. StepRisk(Top.step) \in Nat /\ ConfirmAt \in Nat \ {0} /\ Top.scope \in Nat
      BY <2>1, Risks, WorkflowsAssumption DEF HeardInv, Frame
    <2>3. CASE Step(Top).kind = "approval"
      <3>1. phase' = "consent" /\ UNCHANGED effects
        BY <1>2, <2>3 DEF Perform
      <3>2. phase' \in Phases \ {"announce"} /\ phase' \notin Unperformed
        BY <3>1 DEF Phases, Awaiting, Unperformed
      <3> QED BY <1>0, <2>1, <2>3, <3>1, <3>2, SameStack
    <2>4. CASE Step(Top).kind # "approval"
      <3>1. ASSUME StepRisk(Top.step) >= ConfirmAt
            PROVE  \E g \in grants' :
                     /\ g.risk >= StepRisk(Top.step)
                     /\ wf.steps[g.step].kind = "approval" /\ \E k \in 1 .. Len(stack) : stack[k].run = g.run
        <4>1. Top.scope >= StepRisk(Top.step) /\ Top.scope # NoScope
          BY <1>2, <2>2, <2>4, <3>1 DEF NeedsApproval, Granted, NoScope
        <4>2. Backed(Len(stack), stack)
          BY <2>1, <4>1 DEF ScopesBacked, Top
        <4> QED BY <2>1, <2>2, <4>1, <4>2 DEF Backed, Top
      <3> QED BY <1>0, <1>2, <2>1, <3>1, PerformOK
    <2> QED BY <2>3, <2>4
  <1> QED BY <1>1, <1>2 DEF Authorize, Throw

\* A person decides.
LEMMA AskOK ==
  ASSUME HeardInv, Ask
  PROVE  HeardInv'
  <1>0. phase = "ask" /\ InStep
    BY DEF Ask, HeardInv, Typed, Within, Unperformed
  <1>1. CASE phase' = "throw" /\ UNCHANGED <<grants, effects>>
    <2>1. phase' \in Phases \ {"announce"} /\ phase' \notin Unperformed
      BY <1>1 DEF Phases, Awaiting, Unperformed
    <2> QED BY <1>0, <1>1, <2>1, SameStack DEF Ask, Signals, Within
  <1>2. CASE grants' = grants \cup {Grant} /\ Perform
    <2>1. UNCHANGED <<wf, stack, executed, aborted, stopped, result>>
      BY DEF Ask, Signals
    <2>2. StepRisk(Top.step) \in Nat
      BY <1>0, TopOK, Risks DEF HeardInv
    <2>3. Grant.run = Top.run /\ Grant.risk = StepRisk(Top.step)
      BY DEF Grant
    <2> QED BY <1>0, <1>2, <2>1, <2>2, <2>3, PerformOK
  <1> QED BY <1>1, <1>2 DEF Ask, Throw

\* The innermost open step, with another block.
WithBlock(f, block, scope, turns) == [f EXCEPT !.block = block, !.at = 1, !.scope = scope, !.turns = turns]
\* A block is entered, with the scope of its approval or the one it inherits.
LEMMA Opened ==
  ASSUME NEW t \in Frame, NEW b \in Seq(Names), NEW scope \in Nat, NEW turns \in Nat
  PROVE  LET f == WithBlock(t, b, scope, turns)
         IN  f \in Frame /\ f.step = t.step /\ f.run = t.run /\ f.scope = scope
  <1>1. PICK one \in Nat \ {0} : one = 1
    OBVIOUS
  <1> DEFINE f == [t EXCEPT !.block = b, !.at = one, !.scope = scope, !.turns = turns]
  <1>2. f \in Frame /\ f.step = t.step /\ f.run = t.run /\ f.scope = scope
    BY DEF Frame
  <1> QED BY <1>1, <1>2 DEF WithBlock

\* A decision opens the block of its step, at the risk it was given for.
LEMMA ConsentOK ==
  ASSUME HeardInv, Consent
  PROVE  HeardInv'
  <1>0. /\ phase = "consent" /\ InStep /\ Step(Top).kind = "approval"
        /\ UNCHANGED <<wf, executed, aborted, stopped, effects, result>>
        /\ ~aborted /\ result = "running"
    BY TopOK DEF Consent, HeardInv, Typed, Within, Signals
  <1>1. CASE phase' = "throw" /\ UNCHANGED <<grants, stack>>
    <2>1. phase' \in Phases \ {"announce"} /\ phase' \notin Unperformed /\ phase' \notin Within
      BY <1>1 DEF Phases, Unperformed, Within
    <2> QED BY <1>0, <1>1, <2>1, SameStack DEF Within
  <1>2. CASE /\ grants' = grants \cup {Grant}
             /\ stack' = Open(Step(Top).then, Larger(Top.scope, StepRisk(Top.step)), 0) /\ phase' = "next"
    <2> DEFINE n == Len(stack)
               risk == StepRisk(Top.step)
               scope == Larger(Top.scope, risk)
               f == WithBlock(Top, Step(Top).then, scope, 0)
    <2>1. /\ Top \in Frame /\ Top.step \in Names /\ StackOK(stack) /\ ScopesBacked(stack) /\ n \in Nat /\ n >= 1
      BY <1>0, TopOK
    <2>2. risk \in Nat /\ Step(Top).then \in Seq(Names) /\ Top.scope \in Nat
      BY <2>1, Risks DEF HeardInv, Frame, Step
    <2>3. scope \in Nat /\ (scope = Top.scope \/ scope = risk)
      BY <2>2 DEF Larger
    <2>4. stack' = [stack EXCEPT ![n] = f]
      BY <1>2 DEF Open, WithTop, WithBlock
    <2> HIDE DEF scope
    <2>5. f \in Frame /\ f.step = Top.step /\ f.run = Top.run /\ f.scope = scope
      <3>1. \A turns \in Nat : LET g == WithBlock(Top, Step(Top).then, scope, turns)
                               IN  g \in Frame /\ g.step = Top.step /\ g.run = Top.run /\ g.scope = scope
        BY <2>1, <2>2, <2>3, Opened
      <3>2. 0 \in Nat
        OBVIOUS
      <3> QED BY <3>1, <3>2
    <2> HIDE DEF f
    <2>6. stack' \in Seq(Frame) /\ Len(stack') = n /\ stack'[n] = f /\ n \in 1 .. n /\ \A i \in 1 .. n - 1 : stack'[i] = stack[i]
      BY <2>1, <2>4, <2>5 DEF StackOK
    <2>7. \A i \in 1 .. n : stack'[i].step = stack[i].step /\ stack'[i].run = stack[i].run
      BY <2>5, <2>6 DEF Top
    <2>8. StackOK(stack')
      BY <2>1, <2>6, <2>7 DEF StackOK
    <2>9. ScopesBacked(stack)'
      <3> SUFFICES ASSUME NEW i \in 1 .. n, stack'[i].scope # NoScope
                   PROVE  \E g \in grants' :
                            /\ g.risk \in Nat /\ g.risk >= stack'[i].scope /\ wf.steps[g.step].kind = "approval"
                            /\ \E k \in 1 .. i : stack'[k].run = g.run
        BY <1>0, <2>6 DEF ScopesBacked, Backed
      <3>1. CASE stack'[i].scope = stack[i].scope
        <4>1. Backed(i, stack)
          BY <2>1, <3>1 DEF ScopesBacked
        <4> QED BY <1>2, <2>7, <3>1, <4>1 DEF Backed
      <3>2. CASE i = n /\ scope = risk
        <4>1. Grant \in grants' /\ Grant.risk = risk /\ Grant.step = Top.step /\ Grant.run = Top.run
          BY <1>2 DEF Grant
        <4> QED BY <1>0, <2>2, <2>5, <2>6, <3>2, <4>1 DEF Step
      <3>3. stack'[i].scope = stack[i].scope \/ (i = n /\ scope = risk)
        BY <2>3, <2>5, <2>6 DEF Top
      <3> QED BY <3>1, <3>2, <3>3
    <2>10. Typed'
      <3>1. phase' \in Phases /\ phase' \notin Within /\ phase' # "announce" /\ phase' # "consent"
        BY <1>2 DEF Phases, Within, Unperformed
      <3> QED BY <1>0, <2>8, <3>1 DEF HeardInv, Typed, StackOK, Names, Frame
    <2>11. AbortIsFinal' /\ StillRuns'
      BY <1>0 DEF AbortIsFinal, StillRuns
    <2>12. StoppedOnce'
      BY <1>0, <1>2 DEF HeardInv, StoppedOnce, Unperformed
    <2>13. EffectsAreSanctioned'
      BY <1>0, <1>2 DEF HeardInv, EffectsAreSanctioned, StepRisk
    <2> QED BY <2>9, <2>10, <2>11, <2>12, <2>13 DEF HeardInv
  <1> QED BY <1>1, <1>2 DEF Consent, Throw

\* Between the steps: a block opens, goes on, or is over.
LEMMA BlockOK ==
  ASSUME HeardInv, Act \/ Check \/ BlockEnds
  PROVE  HeardInv'
  <1>0. /\ Top \in Frame /\ StackOK(stack) /\ ScopesBacked(stack) /\ Len(stack) \in Nat /\ Len(stack) >= 1
        /\ phase \in {"act", "check", "next"} /\ ~aborted /\ result = "running"
        /\ InStep => Top.step \in Names
        /\ phase \in {"act", "check"} => InStep
        /\ executed \in Nat /\ stopped \in BOOLEAN /\ aborted \in BOOLEAN
        /\ UNCHANGED <<wf, executed, aborted, stopped, grants, effects, result>>
    BY TopOK DEF HeardInv, Typed, Act, Check, BlockEnds, Signals, Within
  <1>1. AbortIsFinal' /\ StillRuns'
    BY <1>0 DEF AbortIsFinal, StillRuns
  <1>2. ASSUME phase' \in {"throw", "final", "check"}, UNCHANGED stack, phase' = "check" => InStep
        PROVE  HeardInv'
    <2>1. phase' \in Phases \ {"announce"} /\ phase' \notin Unperformed /\ phase' # "consent" /\ (phase' \in Within => InStep)
      BY <1>2 DEF Phases, Awaiting, Unperformed, Within
    <2> QED BY <1>0, <1>2, <2>1, SameStack
  <1>3. ASSUME StackOK(stack'), ScopesBacked(stack'), phase' \in {"next", "report"}
        PROVE  HeardInv'
    <2>1. phase' \in Phases /\ phase' \notin Within /\ phase' # "announce" /\ phase' # "consent" /\ phase' \notin Unperformed
      BY <1>3 DEF Phases, Awaiting, Unperformed, Within
    <2> QED BY <1>0, <1>1, <1>3, <2>1, QuietStep
  <1>4. ASSUME InStep, Complete
        PROVE  HeardInv'
    BY <1>0, <1>3, <1>4, ClosedOK DEF Complete
  <1>5. ASSUME NEW b \in Seq(Names), NEW turns \in Nat, stack' = Open(b, Top.scope, turns), phase' = "next"
        PROVE  HeardInv'
    <2> DEFINE f == WithBlock(Top, b, Top.scope, turns)
    <2>1. f \in Frame /\ f.step = Top.step /\ f.run = Top.run /\ f.scope = Top.scope
      <3>1. Top \in Frame
        BY <1>0
      <3>2. Top.scope \in Nat
        BY <3>1 DEF Frame
      <3> QED BY <3>1, <3>2, Opened
    <2>2. stack' = [stack EXCEPT ![Len(stack)] = f]
      BY <1>5 DEF Open, WithTop, WithBlock
    <2> HIDE DEF f
    <2>3. StackOK(stack') /\ ScopesBacked(stack')
      BY <1>0, <2>1, <2>2, TopReplaced DEF Top
    <2> QED BY <1>3, <1>5, <2>3
  <1>6. CASE Act
    BY <1>0, <1>2, <1>4, <1>6 DEF Act, Throw
  <1>7. CASE Check
    <2>1. InStep /\ Top.step \in Names
      BY <1>0, <1>7 DEF Check
    <2>2. Step(Top).then \in Seq(Names) /\ Step(Top).other \in Seq(Names) /\ Top.turns + 1 \in Nat
      BY <1>0, <2>1, Risks DEF HeardInv, Step, Frame
    <2>3. CASE phase' = "throw" /\ UNCHANGED stack
      BY <1>2, <2>3
    <2>4. CASE Complete
      BY <1>4, <2>1, <2>4
    <2>5. CASE \E b \in {Step(Top).then, Step(Top).other} : stack' = Open(b, Top.scope, 0) /\ phase' = "next"
      BY <1>5, <2>2, <2>5
    <2>6. CASE stack' = Open(Step(Top).then, Top.scope, Top.turns + 1) /\ phase' = "next"
      BY <1>5, <2>2, <2>6
    <2> QED BY <1>7, <2>3, <2>4, <2>5, <2>6 DEF Check, Throw
  <1>8. CASE BlockEnds
    BY <1>2, <1>4, <1>8 DEF BlockEnds, Await, Throw
  <1> QED BY <1>6, <1>7, <1>8

\* An error is caught by an optional step, an AbortError by nobody.
LEMMA CatchOK ==
  ASSUME HeardInv, Catch
  PROVE  HeardInv'
  <1>0. /\ StackOK(stack) /\ ScopesBacked(stack) /\ Len(stack) \in Nat /\ Len(stack) >= 1
        /\ phase = "throw" /\ (aborted => error = "abort") /\ result = "running"
        /\ executed \in Nat /\ stopped \in BOOLEAN /\ aborted \in BOOLEAN
        /\ UNCHANGED <<wf, executed, aborted, stopped, grants, effects>>
    BY TopOK DEF HeardInv, Typed, Catch, Signals, History, AbortIsFinal, StillRuns
  <1>1. ASSUME StackOK(stack'), ScopesBacked(stack'), phase' \in {"next", "done", "throw"}, AbortIsFinal', StillRuns'
        PROVE  HeardInv'
    <2>1. phase' \in Phases /\ phase' \notin Within /\ phase' # "announce" /\ phase' # "consent" /\ phase' \notin Unperformed
      BY <1>1 DEF Phases, Awaiting, Unperformed, Within
    <2> QED BY <1>0, <1>1, <2>1, QuietStep
  <1>2. CASE phase' = "done" /\ result' = "failed" /\ UNCHANGED stack
    <2>1. AbortIsFinal' /\ StillRuns'
      BY <1>2 DEF AbortIsFinal, StillRuns
    <2> QED BY <1>0, <1>1, <1>2, <2>1
  <1>3. CASE InStep /\ Skips(Top) /\ stack' = Closed /\ phase' = "next" /\ UNCHANGED result
    <2>1. AbortIsFinal' /\ StillRuns'
      BY <1>0, <1>3 DEF AbortIsFinal, StillRuns, Skips
    <2> QED BY <1>0, <1>1, <1>3, <2>1, ClosedOK
  <1>4. CASE InStep /\ stack' = SubSeq(stack, 1, Len(stack) - 1) /\ UNCHANGED <<phase, error, result>>
    <2>1. AbortIsFinal' /\ StillRuns'
      BY <1>0, <1>4 DEF AbortIsFinal, StillRuns
    <2>2. Len(stack) - 1 \in 1 .. Len(stack)
      BY <1>0, <1>4 DEF InStep
    <2>3. StackOK(stack') /\ ScopesBacked(stack')
      BY <1>0, <1>4, <2>2, CutStack
    <2> QED BY <1>0, <1>1, <1>4, <2>1, <2>3
  <1> QED BY <1>2, <1>3, <1>4 DEF Catch

\* Stop and abort.
LEMMA InterruptOK ==
  ASSUME HeardInv, Timeout \/ Abort
  PROVE  HeardInv'
  <1>0. /\ StackOK(stack) /\ ScopesBacked(stack) /\ Len(stack) \in Nat /\ Len(stack) >= 1
        /\ executed \in Nat /\ stopped \in BOOLEAN /\ aborted \in BOOLEAN
        /\ phase \notin {"throw", "done"} /\ ~aborted /\ result = "running"
    BY TopOK DEF HeardInv, Typed, Timeout, Abort, Awaiting
  <1>1. /\ phase' = "throw" /\ UNCHANGED <<wf, executed, stopped, grants, effects, result>>
    BY DEF Timeout, Abort, Throw, Signals, History
  <1>2. phase' \in Phases /\ phase' \notin Within /\ phase' \notin Unperformed
    BY <1>1 DEF Phases, Within, Unperformed
  <1>3. AbortIsFinal' /\ StillRuns' /\ aborted' \in BOOLEAN
    <2>1. CASE Timeout
      BY <1>0, <1>1, <2>1 DEF AbortIsFinal, StillRuns, Timeout, Signals
    <2>2. CASE Abort
      BY <1>0, <1>1, <2>2 DEF AbortIsFinal, StillRuns, Abort, Throw
    <2> QED BY <2>1, <2>2
  <1>4. StackOK(stack') /\ ScopesBacked(stack')
    <2>1. ASSUME NEW i \in 2 .. Len(stack), stack' = SubSeq(stack, 1, i)
          PROVE  StackOK(stack') /\ ScopesBacked(stack')
      <3>1. i \in 1 .. Len(stack)
        BY <1>0
      <3> QED BY <1>0, <2>1, <3>1, CutStack
    <2>2. stack' = stack \/ \E i \in 2 .. Len(stack) : stack' = SubSeq(stack, 1, i)
      BY DEF Timeout, Abort
    <2> QED BY <1>0, <2>1, <2>2
  <1> QED BY <1>0, <1>1, <1>2, <1>3, <1>4, QuietStep

-----------------------------------------------------------------------------
\* A sound workflow before anything runs.
LEMMA InitOK ==
  ASSUME Init
  PROVE  HeardInv
  <1> DEFINE n == Len(wf.top)
             from == Smaller(wf.startAt, n)
             to == Larger(from, Smaller(wf.endAt, n))
             block == SubSeq(wf.top, from + 1, to)
  <1>1. /\ wf \in Workflows /\ WellFormed(wf) /\ stack = <<Base(wf)>> /\ phase = "baseline" /\ executed = 0
        /\ aborted = FALSE /\ stopped = FALSE /\ grants = {} /\ effects = {} /\ result = "running"
    BY WorkflowsAssumption DEF Init
  <1>2. n \in Nat /\ from \in 0 .. n /\ to \in from .. n
    BY <1>1 DEF WellFormed, Smaller, Larger
  <1>3. block \in Seq(Names)
    <2>1. wf.top \in Seq(Names)
      BY <1>1 DEF WellFormed, Names
    <2> HIDE DEF from, to
    <2>2. \A i \in 1 .. to - from : wf.top[i + from] \in Names
      BY <1>2, <2>1
    <2> QED BY <1>2, <2>1, <2>2
  <1>4. Base(wf) = [step |-> "workflow", run |-> 0, scope |-> NoScope, block |-> block, at |-> 1, turns |-> 0]
    BY DEF Base
  <1> HIDE DEF block
  <1>5. Base(wf) \in Frame /\ Base(wf).scope = NoScope
    BY <1>3, <1>4 DEF Frame, NoScope
  <1>6. StackOK(stack) /\ ScopesBacked(stack)
    BY <1>1, <1>5 DEF StackOK, ScopesBacked
  <1>7. phase \in Phases /\ phase \notin Within
    BY <1>1 DEF Phases, Awaiting, Within, Unperformed
  <1>8. Typed
    BY <1>1, <1>6, <1>7 DEF Typed
  <1> QED BY <1>1, <1>6, <1>8 DEF HeardInv, EffectsAreSanctioned, AbortIsFinal, StoppedOnce, StillRuns

\* Every step keeps the invariant.
LEMMA NextOK ==
  ASSUME HeardInv, [Next]_vars
  PROVE  HeardInv'
  <1>1. CASE UNCHANGED vars
    BY <1>1 DEF vars, HeardInv, Typed, ScopesBacked, Backed, EffectsAreSanctioned, AbortIsFinal, StoppedOnce, StillRuns,
                StackOK, Frame, Names, InStep, Top, Step, StepRisk
  <1>2. CASE Next
    BY <1>2, WalkOK, AuthorizeOK, AskOK, ConsentOK, BlockOK, CatchOK, InterruptOK DEF Next
  <1> QED BY <1>1, <1>2

\* The inductive invariant.
LEMMA Inductive ==
  Spec => []HeardInv
  <1>1. Init => HeardInv
    BY InitOK
  <1>2. HeardInv /\ [Next]_vars => HeardInv'
    BY NextOK
  <1> QED BY <1>1, <1>2, PTL DEF Spec

\* An action at or above the confirmation risk was approved for that very
\* execution, or inside the block of an approval step that was approved at that
\* risk or above in the same execution of that block (executor.ts authorize,
\* runSteps), for every workflow and however deep its steps nest.
THEOREM RiskIsSanctioned ==
  Spec => []EffectsAreSanctioned
  <1>1. HeardInv => EffectsAreSanctioned
    BY DEF HeardInv
  <1> QED BY <1>1, Inductive, PTL

\* Nothing is handed to the driver after an abort, and after shouldStop at most
\* the one action that had already been observed for, whichever steps are
\* optional, timed or looping (executor.ts ensureActive, catch).
THEOREM StopsAreHeard ==
  Spec => []StopIsHeard
  <1>1. ASSUME HeardInv
        PROVE  StopIsHeard
    <2> DEFINE S == {e \in effects : e.stopped}
    <2>1. (\A e \in effects : ~e.aborted) /\ \A e, f \in S : e = f
      BY <1>1 DEF HeardInv, StoppedOnce
    <2>2. aborted => result # "ok"
      BY <1>1 DEF HeardInv, AbortIsFinal, StillRuns
    <2>3. Cardinality(S) =< 1
      <3>1. CASE S = {}
        BY <3>1, FS_EmptySet
      <3>2. CASE S # {}
        <4>1. PICK x : S = {x}
          BY <2>1, <3>2
        <4> QED BY <4>1, FS_Singleton
      <3> QED BY <3>1, <3>2
    <2> QED BY <2>1, <2>2, <2>3 DEF StopIsHeard
  <1>2. HeardInv => StopIsHeard
    BY <1>1
  <1> QED BY <1>2, Inductive, PTL

-----------------------------------------------------------------------------
(***************************************************************************)
(* One person, many pages: the inductive invariant of Continuity.          *)
(***************************************************************************)

\* What a page may run, what it may have pending, what a write holds.
AllTurns == JourneyTurns \cup NavTurns
Marks == [journey : JourneyTurns \cup {Nil}, nav : NavTurns \cup {Nil}]
Pends == [journey : JourneyTurns \cup {Nil}, nav : NavTurns \cup {Nil}, plan : NavTurns \cup {Nil}]
Writes == [pend : Pends, ends : SUBSET AllTurns]
Named(p) == {p.journey, p.nav, p.plan} \ {Nil}
Differ(a, b) == a = b => a = Nil

\* A connection has its fields, those that matter of their types.
Fields == {"at", "up", "proc", "prev", "holds", "rev", "own", "auth", "plan", "asked", "ends", "writes", "flying", "awaits", "tell",
           "known", "age", "lost", "heirOf"}
Shaped(c) == c = [f \in Fields |-> c[f]]
FieldTypes(c) ==
  /\ c.holds \in BOOLEAN /\ c.flying \in BOOLEAN /\ c.lost \in BOOLEAN
  /\ c.rev \in Nat /\ c.age \in Nat
  /\ c.own \in Marks /\ c.auth \in Marks /\ c.plan \in NavTurns \cup {Nil}
  /\ c.ends \in SUBSET AllTurns /\ c.known \in SUBSET AllTurns /\ c.writes \in Seq(Writes)
Formed(c) == Shaped(c) /\ FieldTypes(c)

\* Before it adopted the record a page has nothing.
Blank(c) == c.own = NoMark /\ c.auth = NoMark /\ c.plan = Nil /\ c.ends = {} /\ c.writes = <<>> /\ ~c.holds /\ c.tell = Nil /\ c.known = {}

\* What runs on a page is what the page has as its own.
Mine(x, c) == \/ x = Nil
              \/ x \in JourneyTurns /\ c.own.journey = x
              \/ x \in NavTurns /\ c.own.nav = x

\* The queue: no write ends what it or a later one holds, or what is pending now.
Ordered(ws, hot, begun) ==
  /\ \A i \in DOMAIN ws : Differ(ws[i].pend.nav, ws[i].pend.plan) /\ ws[i].ends \subseteq begun /\ Named(ws[i].pend) \subseteq begun
                          /\ ws[i].ends \cap hot = {}
  /\ \A i, j \in DOMAIN ws : i <= j => ws[i].ends \cap Named(ws[j].pend) = {}
Untouched(ws, done) == \A i \in DOMAIN ws : Named(ws[i].pend) \cap done = {}

\* In the age of the record, and at its revision.
Current(c, age, rev) == c.age = age /\ c.rev = rev
Core(c, age, rev, done, begun) ==
  /\ Formed(c)
  /\ c.flying => c.writes # <<>>
  /\ Mine(c.tell, c)
  /\ Differ(c.own.nav, c.auth.nav) /\ Differ(c.own.nav, c.plan) /\ Differ(c.auth.nav, c.plan)
  /\ Pending(c) \cup c.ends \cup c.known \subseteq begun
  /\ Pending(c) \cap (c.ends \cup c.known) = {}
  /\ c.age <= age /\ (c.age = age => c.rev <= rev)
  /\ Ordered(c.writes, Pending(c), begun)
  /\ Current(c, age, rev) => Pending(c) \cap done = {} /\ Untouched(c.writes, done)
ConnInv(c, age, rev, done, begun) == Core(c, age, rev, done, begun) /\ (c.at # "live" => Blank(c))

RowFields == {"rev", "pend", "expired", "by", "age"}
RowInv(r, done, begun) ==
  /\ r = [f \in RowFields |-> r[f]]
  /\ r.rev \in Nat /\ r.age \in Nat /\ r.pend \in Pends
  /\ Differ(r.pend.nav, r.pend.plan)
  /\ Named(r.pend) \cup done \subseteq begun /\ begun \subseteq AllTurns
  /\ Named(r.pend) \cap done = {}
  /\ r.by # Nil => r.rev > 0

\* Whoever took a conversation over waits for the writes of its former page, and has seen the last of them.
Waits(cs, t) == cs[t].at = "await" => cs[t].prev \in Tabs \ {t}
HeirLink(cs, t) ==
  LET u == cs[t].heirOf
  IN u # Nil =>
       /\ u \in Tabs \ {t} /\ cs[u].at = "live" /\ ~cs[u].holds
       /\ cs[t].at \in {"await", "read", "live"}
       /\ cs[t].at = "await" => cs[t].prev = u
       /\ cs[t].at \in {"read", "live"} => cs[u].writes = <<>>
HeirSeen(cs, t, r) ==
  cs[t].heirOf # Nil /\ cs[t].at = "live" /\ r.by = cs[t].heirOf /\ ~r.expired => cs[t].rev = r.rev

PageFields == {"at", "mem", "run"}
PageInv(x, c) ==
  /\ x = [f \in PageFields |-> x[f]]
  /\ x.at = "none" => c.at = "none"
  /\ Mine(x.run, c)

VisitInv ==
  /\ conn = [t \in Tabs |-> conn[t]] /\ page = [t \in Tabs |-> page[t]]
  /\ acts = [n |-> acts.n, begun |-> acts.begun]
  /\ RowInv(row, ended, acts.begun)
  /\ \A t \in Tabs : ConnInv(conn[t], row.age, row.rev, ended, acts.begun)
  /\ \A t \in Tabs : PageInv(page[t], conn[t])
  /\ \A t \in Tabs : Waits(conn, t) /\ HeirLink(conn, t) /\ HeirSeen(conn, t, row)

-----------------------------------------------------------------------------
(* Connections *)

\* A connection that differs only in what the invariant does not look at.
Alike(c, d) ==
  /\ Formed(d)
  /\ d.rev = c.rev /\ d.age = c.age /\ d.own = c.own /\ d.auth = c.auth /\ d.plan = c.plan /\ d.ends = c.ends /\ d.writes = c.writes
  /\ d.known = c.known
LEMMA AlikeCore ==
  ASSUME NEW c, NEW d, NEW age, NEW rev, NEW done, NEW begun, Core(c, age, rev, done, begun), Alike(c, d),
         Mine(d.tell, d), d.flying => d.writes # <<>>
  PROVE  Core(d, age, rev, done, begun)
  <1>1. Pending(d) = Pending(c)
    BY DEF Alike, Pending
  <1> QED BY <1>1 DEF Core, Alike, Current

\* More turns have begun.
LEMMA GrownCore ==
  ASSUME NEW c, NEW age, NEW rev, NEW done, NEW begun, NEW more, Core(c, age, rev, done, begun), begun \subseteq more
  PROVE  Core(c, age, rev, done, more)
  <1>1. Ordered(c.writes, Pending(c), more)
    BY DEF Core, Ordered
  <1> QED BY <1>1 DEF Core

\* The record moved on without the connection.
LEMMA OutdatedCore ==
  ASSUME NEW c, NEW age \in Nat, NEW rev \in Nat, NEW done, NEW begun, NEW age2 \in Nat, NEW rev2 \in Nat, NEW done2,
         Core(c, age, rev, done, begun), age2 > age \/ (age2 = age /\ rev2 > rev)
  PROVE  Core(c, age2, rev2, done2, begun)
  <1>1. c.rev \in Nat /\ c.age \in Nat /\ c.age <= age /\ (c.age = age => c.rev <= rev)
    BY DEF Core, Formed, FieldTypes
  <1>2. c.age <= age2 /\ (c.age = age2 => c.rev <= rev2) /\ ~Current(c, age2, rev2)
    BY <1>1 DEF Current
  <1> QED BY <1>2 DEF Core

\* What a write holds was pending.
LEMMA Captured ==
  ASSUME NEW c, Formed(c), Differ(c.own.nav, c.plan), Differ(c.auth.nav, c.plan)
  PROVE  /\ Pend(c) \in Pends /\ Named(Pend(c)) \subseteq Pending(c)
         /\ Differ(Pend(c).nav, Pend(c).plan)
  BY DEF Formed, FieldTypes, Pend, Kept, Pends, Marks, Named, Pending, Differ

LEMMA AddedWrite ==
  ASSUME NEW ws \in Seq(Writes), NEW w \in Writes, NEW hot, NEW begun, Ordered(ws, hot, begun),
         Differ(w.pend.nav, w.pend.plan), w.ends \subseteq begun, hot \subseteq begun, Named(w.pend) \subseteq hot, w.ends \cap hot = {}
  PROVE  Ordered(Append(ws, w), hot, begun)
  <1> DEFINE vs == Append(ws, w)
  <1>0. vs \in Seq(Writes) /\ Len(vs) = Len(ws) + 1 /\ vs[Len(ws) + 1] = w /\ \A i \in 1 .. Len(ws) : vs[i] = ws[i]
    OBVIOUS
  <1>1. DOMAIN vs = 1 .. Len(ws) + 1 /\ DOMAIN ws = 1 .. Len(ws) /\ Len(ws) \in Nat
    BY <1>0
  <1> HIDE DEF vs
  <1>2. ASSUME NEW i \in DOMAIN vs
        PROVE  Differ(vs[i].pend.nav, vs[i].pend.plan) /\ vs[i].ends \subseteq begun /\ Named(vs[i].pend) \subseteq begun /\ vs[i].ends \cap hot = {}
    <2>1. CASE i = Len(ws) + 1
      BY <2>1, <1>0
    <2>2. CASE i # Len(ws) + 1
      <3>1. i \in DOMAIN ws /\ vs[i] = ws[i]
        BY <2>2, <1>0, <1>1
      <3> QED BY <3>1 DEF Ordered
    <2> QED BY <2>1, <2>2
  <1>3. ASSUME NEW i \in DOMAIN vs, NEW j \in DOMAIN vs, i <= j
        PROVE  vs[i].ends \cap Named(vs[j].pend) = {}
    <2>1. CASE j = Len(ws) + 1
      BY <2>1, <1>0, <1>2
    <2>2. CASE j # Len(ws) + 1
      <3>1. j \in DOMAIN ws /\ vs[j] = ws[j] /\ i \in DOMAIN ws /\ vs[i] = ws[i]
        BY <2>2, <1>0, <1>1, <1>3
      <3> QED BY <3>1, <1>3 DEF Ordered
    <2> QED BY <2>1, <2>2
  <1> QED BY <1>2, <1>3 DEF Ordered, vs

LEMMA UntouchedAdded ==
  ASSUME NEW ws \in Seq(Writes), NEW w \in Writes, NEW done, Untouched(ws, done), Named(w.pend) \cap done = {}
  PROVE  Untouched(Append(ws, w), done)
  <1> DEFINE vs == Append(ws, w)
  <1>0. Len(vs) = Len(ws) + 1 /\ vs[Len(ws) + 1] = w /\ DOMAIN vs = 1 .. Len(ws) + 1 /\ DOMAIN ws = 1 .. Len(ws) /\ Len(ws) \in Nat
        /\ \A i \in 1 .. Len(ws) : vs[i] = ws[i]
    OBVIOUS
  <1> HIDE DEF vs
  <1>1. ASSUME NEW i \in DOMAIN vs
        PROVE  Named(vs[i].pend) \cap done = {}
    <2>1. CASE i = Len(ws) + 1
      BY <2>1, <1>0
    <2>2. CASE i # Len(ws) + 1
      <3>1. i \in DOMAIN ws /\ vs[i] = ws[i]
        BY <2>2, <1>0
      <3> QED BY <3>1 DEF Untouched
    <2> QED BY <2>1, <2>2
  <1> QED BY <1>1 DEF Untouched, vs

\* The first write is gone.
LEMMA FewerWrites ==
  ASSUME NEW ws \in Seq(Writes), ws # <<>>, NEW hot, NEW begun, Ordered(ws, hot, begun)
  PROVE  /\ Tail(ws) \in Seq(Writes) /\ Ordered(Tail(ws), hot, begun)
         /\ \A done : Untouched(ws, done) => Untouched(Tail(ws), done)
         /\ Untouched(Tail(ws), Head(ws).ends)
         /\ Head(ws) = ws[1] /\ Head(ws) \in Writes /\ 1 \in DOMAIN ws
  <1> DEFINE vs == Tail(ws)
  <1>0. vs \in Seq(Writes) /\ Len(ws) \in Nat /\ Len(ws) > 0 /\ Len(vs) = Len(ws) - 1 /\ DOMAIN ws = 1 .. Len(ws) /\ DOMAIN vs = 1 .. Len(vs)
        /\ Head(ws) = ws[1] /\ ws[1] \in Writes
    OBVIOUS
  <1>1. \A i \in DOMAIN vs : vs[i] = ws[i + 1] /\ i + 1 \in DOMAIN ws /\ i \in Nat
    BY <1>0
  <1> HIDE DEF vs
  <1>2. Ordered(vs, hot, begun)
    BY <1>0, <1>1 DEF Ordered
  <1>3. ASSUME NEW done, Untouched(ws, done) PROVE Untouched(vs, done)
    BY <1>3, <1>0, <1>1 DEF Untouched
  <1>4. 1 \in DOMAIN ws /\ \A i \in DOMAIN vs : 1 <= i + 1
    BY <1>0, <1>1
  <1>5. Untouched(vs, Head(ws).ends)
    BY <1>0, <1>1, <1>4 DEF Untouched, Ordered
  <1> QED BY <1>0, <1>2, <1>3, <1>4, <1>5 DEF vs

\* What happens to the parts of a connection that a save or the end of a write leaves alone.
Same(c, d) ==
  /\ d.at = c.at /\ d.up = c.up /\ d.holds = c.holds /\ d.rev = c.rev /\ d.age = c.age /\ d.own = c.own /\ d.auth = c.auth /\ d.plan = c.plan
  /\ d.ends = c.ends /\ d.tell = c.tell /\ d.known = c.known /\ d.prev = c.prev /\ d.heirOf = c.heirOf /\ d.lost = c.lost /\ d.asked = c.asked
LEMMA Saved ==
  ASSUME NEW c, NEW wait, NEW age, NEW rev, NEW done, NEW begun, Core(c, age, rev, done, begun)
  PROVE  /\ Core(Save(c, wait), age, rev, done, begun) /\ Same(c, Save(c, wait))
         /\ ~c.holds => Save(c, wait) = c
  <1>1. CASE ~c.holds
    BY <1>1 DEF Save, Same
  <1>2. CASE c.holds
    <2> DEFINE w == [pend |-> Pend(c), ends |-> c.ends]
               q == Append(c.writes, w)
               d == [c EXCEPT !.writes = q, !.awaits = wait]
    <2>1. Formed(c) /\ Differ(c.own.nav, c.plan) /\ Differ(c.auth.nav, c.plan) /\ Ordered(c.writes, Pending(c), begun)
          /\ Pending(c) \cup c.ends \subseteq begun /\ Pending(c) \cap c.ends = {}
      BY DEF Core
    <2>2. Pend(c) \in Pends /\ Named(Pend(c)) \subseteq Pending(c) /\ Differ(Pend(c).nav, Pend(c).plan)
      BY <2>1, Captured
    <2>3. w \in Writes /\ c.writes \in Seq(Writes) /\ w.pend = Pend(c) /\ w.ends = c.ends
      BY <2>1, <2>2 DEF Writes, Formed, FieldTypes
    <2> HIDE DEF w
    <2>4. Ordered(Append(c.writes, w), Pending(c), begun)
      BY <2>1, <2>2, <2>3, AddedWrite
    <2>5. q \in Seq(Writes) /\ q # <<>> /\ q = Append(c.writes, w)
      BY <2>3
    <2>9. Save(c, wait) = d
      BY <1>2 DEF Save, w
    <2> HIDE DEF q
    <2>10. d.writes = q /\ Same(c, d) /\ d.flying = c.flying
      BY <2>1 DEF Formed, Shaped, Fields, Same
    <2>11. Shaped(d)
      BY <2>1 DEF Formed, Shaped
    <2>12. FieldTypes(d)
      BY <2>1, <2>5, <2>10 DEF Formed, FieldTypes, Same
    <2>6. d.writes = q /\ Same(c, d) /\ d.flying = c.flying /\ Formed(d)
      BY <2>10, <2>11, <2>12 DEF Formed
    <2>7. Pending(d) = Pending(c) /\ Mine(d.tell, d)
      BY <2>6 DEF Pending, Same, Mine, Core
    <2>8. ASSUME Current(d, age, rev)
          PROVE  Pending(d) \cap done = {} /\ Untouched(d.writes, done)
      <3>1. Pending(c) \cap done = {} /\ Untouched(c.writes, done)
        BY <2>6, <2>8 DEF Current, Same, Core
      <3> QED BY <3>1, <2>2, <2>3, <2>5, <2>6, <2>7, UntouchedAdded
    <2> HIDE DEF d
    <2>13. Core(d, age, rev, done, begun)
      BY <2>4, <2>5, <2>6, <2>7, <2>8 DEF Core, Same
    <2> QED BY <1>2, <2>6, <2>9, <2>13
  <1>3. c.holds \in BOOLEAN
    BY DEF Core, Formed, FieldTypes
  <1> QED BY <1>1, <1>2, <1>3

\* A connection is given other turns: some it had, some that never began before.
LEMMA ChangedCore ==
  ASSUME NEW c, NEW d, NEW age, NEW rev, NEW done, NEW begun, NEW more, NEW fresh, Core(c, age, rev, done, begun),
         done \subseteq begun, begun \cup fresh \subseteq more, fresh \cap begun = {},
         Formed(d), d.rev = c.rev, d.age = c.age, d.writes = c.writes, d.known = c.known, d.flying = c.flying, Mine(d.tell, d),
         Pending(d) \subseteq Pending(c) \cup fresh, d.ends \subseteq c.ends \cup Pending(c), Pending(d) \cap d.ends = {},
         Differ(d.own.nav, d.auth.nav), Differ(d.own.nav, d.plan), Differ(d.auth.nav, d.plan)
  PROVE  Core(d, age, rev, done, more)
  <1>1. Pending(c) \cup c.ends \cup c.known \subseteq begun /\ Pending(c) \cap c.known = {} /\ Ordered(c.writes, Pending(c), begun)
        /\ (Current(c, age, rev) => Pending(c) \cap done = {} /\ Untouched(c.writes, done))
        /\ c.age <= age /\ (c.age = age => c.rev <= rev) /\ (c.flying => c.writes # <<>>)
    BY DEF Core
  <1>2. Ordered(d.writes, Pending(d), more)
    BY <1>1 DEF Ordered
  <1>3. Pending(d) \cup d.ends \cup d.known \subseteq more /\ Pending(d) \cap (d.ends \cup d.known) = {}
    BY <1>1
  <1>4. Current(d, age, rev) => Pending(d) \cap done = {} /\ Untouched(d.writes, done)
    BY <1>1 DEF Current
  <1> QED BY <1>1, <1>2, <1>3, <1>4 DEF Core

\* A write came to its end, whatever becomes of the rest.
LEMMA DroppedCore ==
  ASSUME NEW c, NEW d, NEW age, NEW rev, NEW done, NEW begun, Core(c, age, rev, done, begun), c.writes # <<>>,
         Formed(d), d.rev = c.rev, d.age = c.age, d.own = c.own, d.auth = c.auth, d.plan = c.plan, d.ends = c.ends, d.known = c.known,
         d.tell = c.tell, d.writes = Tail(c.writes), ~d.flying
  PROVE  Core(d, age, rev, done, begun)
  <1>1. c.writes \in Seq(Writes) /\ Ordered(c.writes, Pending(c), begun)
    BY DEF Core, Formed, FieldTypes
  <1>2. Ordered(d.writes, Pending(c), begun) /\ (Untouched(c.writes, done) => Untouched(d.writes, done))
    BY <1>1, FewerWrites
  <1>3. Pending(d) = Pending(c) /\ Mine(d.tell, d)
    BY DEF Pending, Mine, Core
  <1> QED BY <1>2, <1>3 DEF Core, Current

-----------------------------------------------------------------------------
(* A step of one page *)

Steady(c, d) ==
  /\ d.at = c.at /\ d.heirOf = c.heirOf /\ d.prev = c.prev
  /\ ~c.holds => ~d.holds /\ (c.writes = <<>> => d.writes = <<>>)

LEMMA LinkSteady ==
  ASSUME NEW cs, cs = [s \in Tabs |-> cs[s]], NEW t \in Tabs, NEW d, Steady(cs[t], d), NEW ds, ds = [cs EXCEPT ![t] = d],
         NEW s \in Tabs, Waits(cs, s), HeirLink(cs, s)
  PROVE  Waits(ds, s) /\ HeirLink(ds, s)
  <1>1. ds[t] = d /\ \A u \in Tabs \ {t} : ds[u] = cs[u]
    OBVIOUS
  <1>2. ds[s].heirOf = cs[s].heirOf /\ ds[s].at = cs[s].at /\ ds[s].prev = cs[s].prev
    BY <1>1 DEF Steady
  <1>3. ASSUME NEW u \in Tabs, cs[u].at = "live", ~cs[u].holds
        PROVE  ds[u].at = "live" /\ ~ds[u].holds /\ (cs[u].writes = <<>> => ds[u].writes = <<>>)
    BY <1>1, <1>3 DEF Steady
  <1> QED BY <1>2, <1>3 DEF HeirLink, Waits

LEMMA SeenSteady ==
  ASSUME NEW cs, cs = [s \in Tabs |-> cs[s]], NEW t \in Tabs, NEW d, Steady(cs[t], d), d.rev = cs[t].rev, NEW ds, ds = [cs EXCEPT ![t] = d],
         NEW r, NEW q, q.by # Nil /\ ~q.expired => q.by = r.by /\ ~r.expired /\ q.rev = r.rev,
         NEW s \in Tabs, HeirLink(cs, s), HeirSeen(cs, s, r)
  PROVE  HeirSeen(ds, s, q)
  <1>1. ds[s].heirOf = cs[s].heirOf /\ ds[s].at = cs[s].at /\ ds[s].rev = cs[s].rev
    BY DEF Steady
  <1> QED BY <1>1 DEF HeirSeen

\* One page takes a step of its own, the record stays as it is.
LEMMA Locally ==
  ASSUME VisitInv, NEW t \in Tabs, NEW d, NEW x, conn' = [conn EXCEPT ![t] = d], page' = [page EXCEPT ![t] = x], row' = row, ended' = ended,
         acts' = [n |-> acts'.n, begun |-> acts'.begun], acts.begun \subseteq acts'.begun, acts'.begun \subseteq AllTurns,
         ConnInv(d, row.age, row.rev, ended, acts'.begun), Steady(conn[t], d), d.rev = conn[t].rev, PageInv(x, d)
  PROVE  VisitInv'
  <1>1. conn' = [s \in Tabs |-> conn'[s]] /\ page' = [s \in Tabs |-> page'[s]] /\ conn'[t] = d /\ page'[t] = x
        /\ \A s \in Tabs \ {t} : conn'[s] = conn[s] /\ page'[s] = page[s]
    BY DEF VisitInv
  <1>2. RowInv(row', ended', acts'.begun)
    BY DEF VisitInv, RowInv
  <1>3. ASSUME NEW s \in Tabs
        PROVE  ConnInv(conn'[s], row'.age, row'.rev, ended', acts'.begun) /\ PageInv(page'[s], conn'[s])
    <2>1. CASE s = t
      BY <1>1, <2>1
    <2>2. CASE s # t
      <3>1. ConnInv(conn[s], row.age, row.rev, ended, acts.begun) /\ PageInv(page[s], conn[s])
        BY DEF VisitInv
      <3>2. ConnInv(conn[s], row.age, row.rev, ended, acts'.begun)
        BY <3>1, GrownCore DEF ConnInv
      <3> QED BY <1>1, <2>2, <3>1, <3>2
    <2> QED BY <2>1, <2>2
  <1>4. ASSUME NEW s \in Tabs
        PROVE  Waits(conn', s) /\ HeirLink(conn', s) /\ HeirSeen(conn', s, row')
    <2>1. Waits(conn, s) /\ HeirLink(conn, s) /\ HeirSeen(conn, s, row) /\ conn = [u \in Tabs |-> conn[u]]
      BY DEF VisitInv
    <2> QED BY <2>1, LinkSteady, SeenSteady
  <1> QED BY <1>1, <1>2, <1>3, <1>4 DEF VisitInv

\* ... and what it changed is saved.
LEMMA SavedLocally ==
  ASSUME VisitInv, NEW t \in Tabs, NEW d, NEW wait, NEW x, conn' = [conn EXCEPT ![t] = Save(d, wait)], page' = [page EXCEPT ![t] = x],
         row' = row, ended' = ended, acts' = [n |-> acts'.n, begun |-> acts'.begun], acts.begun \subseteq acts'.begun, acts'.begun \subseteq AllTurns,
         Core(d, row.age, row.rev, ended, acts'.begun), d.at = "live", Steady(conn[t], d), d.rev = conn[t].rev, PageInv(x, d)
  PROVE  VisitInv'
  <1> DEFINE e == Save(d, wait)
  <1>1. Core(e, row.age, row.rev, ended, acts'.begun) /\ Same(d, e) /\ (~d.holds => e = d)
    BY Saved
  <1> HIDE DEF e
  <1>2. ConnInv(e, row.age, row.rev, ended, acts'.begun)
    BY <1>1 DEF ConnInv, Same
  <1>3. Steady(conn[t], e) /\ e.rev = conn[t].rev
    BY <1>1 DEF Steady, Same
  <1>4. PageInv(x, e)
    BY <1>1 DEF PageInv, Mine, Same
  <1>5. conn' = [conn EXCEPT ![t] = e]
    BY DEF e
  <1> QED BY <1>2, <1>3, <1>4, <1>5, Locally

\* The record of a page's run and of its storage changes.
LEMMA PageStep ==
  ASSUME NEW x, NEW c, NEW d, PageInv(x, c), d.at = c.at, NEW r, NEW m, Mine(r, d)
  PROVE  /\ PageInv([x EXCEPT !.run = r, !.mem = m], d) /\ PageInv([x EXCEPT !.run = r], d)
         /\ r = x.run => PageInv([x EXCEPT !.mem = m], d) /\ PageInv(x, d)
  <1> DEFINE y == [x EXCEPT !.run = r, !.mem = m]
             z == [x EXCEPT !.run = r]
             w == [x EXCEPT !.mem = m]
  <1>0. x = [f \in PageFields |-> x[f]] /\ (x.at = "none" => d.at = "none")
    BY DEF PageInv
  <1>1. y.at = x.at /\ y.run = r /\ y = [f \in PageFields |-> y[f]]
    BY <1>0 DEF PageFields
  <1>2. z.at = x.at /\ z.run = r /\ z = [f \in PageFields |-> z[f]]
    BY <1>0 DEF PageFields
  <1>3. w.at = x.at /\ w.run = x.run /\ w = [f \in PageFields |-> w[f]]
    BY <1>0 DEF PageFields
  <1> HIDE DEF y, z, w
  <1>4. PageInv(y, d) /\ PageInv(z, d)
    BY <1>0, <1>1, <1>2 DEF PageInv
  <1>5. r = x.run => PageInv(w, d) /\ PageInv(x, d)
    BY <1>0, <1>3 DEF PageInv
  <1> QED BY <1>4, <1>5 DEF y, z, w

LEMMA Facts ==
  ASSUME VisitInv, NEW t \in Tabs
  PROVE  /\ ConnInv(conn[t], row.age, row.rev, ended, acts.begun) /\ Core(conn[t], row.age, row.rev, ended, acts.begun)
         /\ Formed(conn[t]) /\ PageInv(page[t], conn[t])
         /\ Waits(conn, t) /\ HeirLink(conn, t) /\ HeirSeen(conn, t, row)
         /\ acts = [n |-> acts.n, begun |-> acts.begun] /\ acts.begun \subseteq AllTurns /\ ended \subseteq acts.begun
         /\ RowInv(row, ended, acts.begun) /\ row.age \in Nat /\ row.rev \in Nat
         /\ conn = [s \in Tabs |-> conn[s]] /\ page = [s \in Tabs |-> page[s]]
  BY DEF VisitInv, ConnInv, Core, RowInv

-----------------------------------------------------------------------------
(* The operations *)

LEMMA StartWriteKeeps ==
  ASSUME VisitInv, NEW t \in Tabs, StartWrite(t)
  PROVE  VisitInv'
  <1> DEFINE c == conn[t]
             d == IF c.holds THEN [c EXCEPT !.flying = TRUE] ELSE Dropped(c)
  <1>1. Core(c, row.age, row.rev, ended, acts.begun) /\ Formed(c) /\ PageInv(page[t], c) /\ ConnInv(c, row.age, row.rev, ended, acts.begun)
        /\ page = [s \in Tabs |-> page[s]] /\ acts = [n |-> acts.n, begun |-> acts.begun] /\ acts.begun \subseteq AllTurns
    BY Facts
  <1>2. conn' = [conn EXCEPT ![t] = d] /\ c.writes # <<>> /\ page' = [page EXCEPT ![t] = page[t]] /\ row' = row /\ ended' = ended /\ acts' = acts
    BY <1>1 DEF StartWrite, With, Browser
  <1> HIDE DEF c
  <1>3. /\ Formed(d) /\ Steady(c, d) /\ d.rev = c.rev /\ Core(d, row.age, row.rev, ended, acts.begun)
        /\ d.at = c.at /\ d.own = c.own /\ d.auth = c.auth /\ d.plan = c.plan /\ d.ends = c.ends /\ d.tell = c.tell /\ d.known = c.known
    <2>1. CASE c.holds
      <3>1. Alike(c, d) /\ d.writes # <<>> /\ d.tell = c.tell /\ d.at = c.at /\ Steady(c, d)
        BY <1>1, <1>2, <2>1 DEF Alike, Formed, Shaped, Fields, FieldTypes, Steady
      <3>2. Mine(d.tell, d)
        BY <1>1, <3>1 DEF Mine, Core, Alike
      <3> QED BY <1>1, <3>1, <3>2, AlikeCore DEF Alike
    <2>2. CASE ~c.holds
      <3>0. c.writes \in Seq(Writes) /\ Tail(c.writes) \in Seq(Writes)
        BY <1>1, <1>2 DEF Formed, FieldTypes
      <3> DEFINE q == Tail(c.writes)
      <3>1. d = [c EXCEPT !.writes = q, !.flying = FALSE]
        BY <2>2 DEF Dropped
      <3> HIDE DEF d, q
      <3>2. /\ d.rev = c.rev /\ d.age = c.age /\ d.own = c.own /\ d.auth = c.auth /\ d.plan = c.plan /\ d.ends = c.ends /\ d.known = c.known
            /\ d.tell = c.tell /\ d.writes = q /\ ~d.flying /\ d.at = c.at /\ d.holds = c.holds /\ d.lost = c.lost /\ d.flying = FALSE
            /\ d.heirOf = c.heirOf /\ d.prev = c.prev
        BY <1>1, <3>1 DEF Formed, Shaped, Fields
      <3>3. Shaped(d)
        BY <1>1, <3>1 DEF Formed, Shaped
      <3>4. Formed(d)
        BY <1>1, <3>0, <3>2, <3>3 DEF Formed, FieldTypes, q
      <3>5. Core(d, row.age, row.rev, ended, acts.begun)
        BY <1>1, <1>2, <3>2, <3>4, DroppedCore DEF q
      <3> QED BY <1>2, <3>2, <3>4, <3>5 DEF Steady
    <2> QED BY <2>1, <2>2, <1>1 DEF Formed, FieldTypes
  <1> HIDE DEF d
  <1>4. ConnInv(d, row.age, row.rev, ended, acts.begun)
    BY <1>1, <1>2, <1>3 DEF ConnInv, Blank
  <1>5. PageInv(page[t], d)
    BY <1>1, <1>3 DEF PageInv, Mine
  <1> QED BY <1>1, <1>2, <1>3, <1>4, <1>5, Locally DEF c

\* Only the turns of a connection change, and what the browser asked for.
Edited(c, d) ==
  /\ Shaped(d)
  /\ d.at = c.at /\ d.holds = c.holds /\ d.rev = c.rev /\ d.age = c.age /\ d.known = c.known /\ d.tell = c.tell /\ d.flying = c.flying
  /\ d.writes = c.writes /\ d.lost = c.lost /\ d.heirOf = c.heirOf /\ d.prev = c.prev
LEMMA GivenCore ==
  ASSUME NEW c, NEW d, NEW age, NEW rev, NEW done, NEW begun, NEW more, NEW fresh, Core(c, age, rev, done, begun), Edited(c, d),
         done \subseteq begun, begun \cup fresh \subseteq more, fresh \cap begun = {}, more \subseteq AllTurns,
         d.own \in Marks, d.auth \in Marks, d.plan \in NavTurns \cup {Nil}, Mine(d.tell, d),
         Pending(d) \subseteq Pending(c) \cup fresh, d.ends \subseteq c.ends \cup Pending(c), Pending(d) \cap d.ends = {},
         Differ(d.own.nav, d.auth.nav), Differ(d.own.nav, d.plan), Differ(d.auth.nav, d.plan)
  PROVE  Core(d, age, rev, done, more) /\ Steady(c, d)
  <1>1. FieldTypes(d)
    <2>1. d.ends \in SUBSET AllTurns
      BY DEF Core
    <2>2. Formed(c)
      BY DEF Core
    <2> QED BY <2>1, <2>2 DEF Edited, Formed, FieldTypes
  <1>2. Formed(d) /\ d.rev = c.rev /\ d.age = c.age /\ d.writes = c.writes /\ d.known = c.known /\ d.flying = c.flying
    BY <1>1 DEF Edited, Formed
  <1>3. Core(d, age, rev, done, more)
    BY <1>2, ChangedCore
  <1> QED BY <1>3 DEF Edited, Steady

LEMMA EditedCore ==
  ASSUME NEW c, NEW d, NEW age, NEW rev, NEW done, NEW begun, Core(c, age, rev, done, begun), Edited(c, d),
         done \subseteq begun, begun \subseteq AllTurns,
         d.own \in Marks, d.auth \in Marks, d.plan \in NavTurns \cup {Nil}, Mine(d.tell, d),
         Pending(d) \subseteq Pending(c), d.ends \subseteq c.ends \cup Pending(c), Pending(d) \cap d.ends = {},
         Differ(d.own.nav, d.auth.nav), Differ(d.own.nav, d.plan), Differ(d.auth.nav, d.plan)
  PROVE  Core(d, age, rev, done, begun) /\ Steady(c, d)
  <1> DEFINE fresh == {}
             more == begun
  <1>1. begun \cup fresh \subseteq more /\ fresh \cap begun = {} /\ Pending(d) \subseteq Pending(c) \cup fresh /\ more \subseteq AllTurns
    OBVIOUS
  <1> HIDE DEF fresh, more
  <1>2. Core(d, age, rev, done, more) /\ Steady(c, d)
    BY <1>1, GivenCore
  <1> QED BY <1>2 DEF more

LEMMA ResumeKeeps ==
  ASSUME VisitInv, NEW t \in Tabs, ResumeJourney(t)
  PROVE  VisitInv'
  <1> DEFINE c == conn[t]
             j == c.asked.journey
             a == [c.asked EXCEPT !.journey = Nil]
             e == [c EXCEPT !.asked = a]
             own == [c.own EXCEPT !.journey = j]
             auth == [c.auth EXCEPT !.journey = Nil]
             d == [c EXCEPT !.asked = a, !.own = own, !.auth = auth]
  <1>1. Core(c, row.age, row.rev, ended, acts.begun) /\ Formed(c) /\ PageInv(page[t], c)
        /\ page = [s \in Tabs |-> page[s]] /\ acts = [n |-> acts.n, begun |-> acts.begun] /\ acts.begun \subseteq AllTurns /\ ended \subseteq acts.begun
    BY Facts
  <1>2. c.at = "live" /\ c.tell = Nil /\ j # Nil /\ row' = row /\ ended' = ended /\ acts' = acts
    BY DEF ResumeJourney, Live, Hearing
  <1>3. CASE /\ Believed(e.auth, j) /\ conn' = [conn EXCEPT ![t] = [e EXCEPT !.own.journey = j, !.auth.journey = Nil]]
             /\ page' = [page EXCEPT ![t].run = j]
    <2>1. e.auth = c.auth /\ e.own = c.own
      BY <1>1 DEF Formed, Shaped, Fields
    <2>2. conn' = [conn EXCEPT ![t] = d] /\ c.auth.journey = j
      BY <1>1, <1>3, <2>1 DEF Formed, Shaped, Fields, Believed
    <2> DEFINE y == [page[t] EXCEPT !.run = j]
    <2>3. page' = [page EXCEPT ![t] = y]
      BY <1>3
    <2>4. c.own \in Marks /\ c.auth \in Marks /\ j \in JourneyTurns
      BY <1>1, <1>2, <2>2 DEF Formed, FieldTypes, Marks
    <2>5. own \in Marks /\ auth \in Marks /\ own.journey = j /\ own.nav = c.own.nav /\ auth.journey = Nil /\ auth.nav = c.auth.nav
      BY <2>4 DEF Marks
    <2> HIDE DEF own, auth, a, j, c
    <2>6. /\ d.rev = c.rev /\ d.age = c.age /\ d.plan = c.plan /\ d.ends = c.ends /\ d.known = c.known /\ d.tell = c.tell /\ d.flying = c.flying
          /\ d.at = c.at /\ d.holds = c.holds /\ d.lost = c.lost /\ d.heirOf = c.heirOf /\ d.prev = c.prev /\ d.writes = c.writes
          /\ d.own = own /\ d.auth = auth
      BY <1>1 DEF Formed, Shaped, Fields
    <2>7. Shaped(d)
      BY <1>1 DEF Formed, Shaped
    <2> HIDE DEF d
    <2>8. Formed(d)
      BY <1>1, <2>5, <2>6, <2>7 DEF Formed, FieldTypes
    <2>9. Pending(d) \subseteq Pending(c)
      BY <2>2, <2>5, <2>6 DEF Pending
    <2>10. Differ(d.own.nav, d.auth.nav) /\ Differ(d.own.nav, d.plan) /\ Differ(d.auth.nav, d.plan) /\ Pending(d) \cap d.ends = {}
      BY <1>1, <2>5, <2>6, <2>9 DEF Core
    <2>11. Mine(d.tell, d) /\ Mine(j, d)
      BY <1>2, <2>4, <2>5, <2>6 DEF Mine
    <2>12. Core(d, row.age, row.rev, ended, acts.begun)
      BY <1>1, <2>6, <2>8, <2>9, <2>10, <2>11, ChangedCore
    <2>13. PageInv(y, d)
      BY <1>1, <2>6, <2>11, PageStep
    <2>14. ConnInv(d, row.age, row.rev, ended, acts.begun) /\ Steady(c, d)
      BY <1>2, <2>6, <2>12 DEF ConnInv, Steady
    <2> QED BY <1>1, <1>2, <2>2, <2>3, <2>6, <2>13, <2>14, Locally DEF c
  <1>4. CASE conn' = [conn EXCEPT ![t] = e] /\ Mark(t, [page[t].mem EXCEPT !.journey = Nil])
    <2> DEFINE m == [page[t].mem EXCEPT !.journey = Nil]
               y == [page[t] EXCEPT !.mem = m]
    <2>1. page' = [page EXCEPT ![t] = y]
      BY <1>4 DEF Mark
    <2> HIDE DEF a, j, c
    <2>2. Alike(c, e) /\ e.tell = c.tell /\ e.at = c.at /\ e.flying = c.flying /\ Steady(c, e)
      BY <1>1 DEF Formed, Shaped, Fields, FieldTypes, Alike, Steady
    <2> HIDE DEF e, m
    <2>3. Mine(e.tell, e) /\ (e.flying => e.writes # <<>>) /\ Mine(page[t].run, e)
      BY <1>1, <2>2 DEF Mine, Core, Alike, PageInv
    <2>4. Core(e, row.age, row.rev, ended, acts.begun)
      BY <1>1, <2>2, <2>3, AlikeCore
    <2>5. PageInv(y, e)
      BY <1>1, <2>2, <2>3, PageStep
    <2>6. ConnInv(e, row.age, row.rev, ended, acts.begun) /\ e.rev = c.rev
      BY <1>2, <2>2, <2>4 DEF ConnInv, Alike
    <2> QED BY <1>1, <1>2, <1>4, <2>1, <2>2, <2>5, <2>6, Locally DEF c
  <1> QED BY <1>3, <1>4 DEF ResumeJourney, With

LEMMA FinishKeeps ==
  ASSUME VisitInv, NEW t \in Tabs, FinishNavigation(t)
  PROVE  VisitInv'
  <1> DEFINE c == conn[t]
             n == c.asked.nav
             told == c.auth.nav
             a == [c.asked EXCEPT !.nav = Nil]
             auth == [c.auth EXCEPT !.nav = Nil]
             e == [c EXCEPT !.asked = a, !.auth = auth]
             m == [page[t].mem EXCEPT !.nav = Nil]
             y == [page[t] EXCEPT !.mem = m]
  <1>1. Core(c, row.age, row.rev, ended, acts.begun) /\ Formed(c) /\ PageInv(page[t], c)
        /\ page = [s \in Tabs |-> page[s]] /\ acts = [n |-> acts.n, begun |-> acts.begun] /\ acts.begun \subseteq AllTurns /\ ended \subseteq acts.begun
    BY Facts
  <1>2. c.at = "live" /\ c.tell = Nil /\ n # Nil /\ row' = row /\ ended' = ended /\ acts' = acts
    BY DEF FinishNavigation, Hearing
  <1>3. page' = [page EXCEPT ![t] = y]
    BY DEF FinishNavigation, Mark
  <1>4. c.own \in Marks /\ c.auth \in Marks /\ auth \in Marks /\ auth.nav = Nil /\ auth.journey = c.auth.journey /\ told \in NavTurns \cup {Nil}
    BY <1>1 DEF Formed, FieldTypes, Marks
  <1>5. e = [conn[t] EXCEPT !.asked.nav = Nil, !.auth.nav = Nil]
    BY <1>1 DEF Formed, Shaped, Fields
  <1>6. ASSUME NEW d, Edited(c, d), d.own = c.own, d.auth = auth, conn' = [conn EXCEPT ![t] = Save(d, TRUE)],
               \/ d.plan = told /\ d.ends = c.ends
               \/ d.plan = c.plan /\ d.ends = c.ends \cup ({told} \ {Nil})
        PROVE  VisitInv'
    <2> HIDE DEF c, auth, a, y, e
    <2> USE DEF told
    <2>1. Pending(d) \subseteq Pending(c) /\ d.ends \subseteq c.ends \cup Pending(c) /\ d.plan \in NavTurns \cup {Nil}
      BY <1>1, <1>4, <1>6 DEF Pending, Formed, FieldTypes
    <2>2. Differ(d.own.nav, d.auth.nav) /\ Differ(d.own.nav, d.plan) /\ Differ(d.auth.nav, d.plan) /\ Mine(d.tell, d)
      BY <1>1, <1>2, <1>4, <1>6 DEF Core, Differ, Mine, Edited
    <2>3. Pending(d) \cap d.ends = {}
      <3>1. CASE d.plan = told /\ d.ends = c.ends
        BY <2>1, <3>1, <1>1 DEF Core
      <3>2. CASE d.plan = c.plan /\ d.ends = c.ends \cup ({told} \ {Nil})
        <4>1. told # Nil => told \notin Pending(d)
          <5>1. told # Nil => told \in NavTurns /\ told \notin JourneyTurns /\ c.own.journey \in JourneyTurns \cup {Nil}
                              /\ c.auth.journey \in JourneyTurns \cup {Nil}
            BY <1>4, TurnsAreDistinct DEF Marks
          <5>2. told # Nil => told # c.own.nav /\ told # c.plan
            BY <1>1 DEF Core, Differ
          <5> QED BY <1>4, <1>6, <3>2, <5>1, <5>2 DEF Pending
        <4> QED BY <2>1, <3>2, <4>1, <1>1 DEF Core
      <3> QED BY <3>1, <3>2, <1>6
    <2>4. Core(d, row.age, row.rev, ended, acts.begun) /\ Steady(c, d)
      <3>1. acts.begun \cup {} \subseteq acts.begun /\ {} \cap acts.begun = {} /\ Pending(d) \subseteq Pending(c) \cup {} /\ d.own \in Marks /\ d.auth \in Marks
        BY <1>4, <1>6, <2>1
      <3> QED BY <1>1, <1>6, <2>1, <2>2, <2>3, <3>1, EditedCore
    <2>5. Mine(page[t].run, d) /\ d.at = c.at /\ d.rev = c.rev
      BY <1>1, <1>6 DEF PageInv, Mine, Edited
    <2>6. PageInv(y, d)
      BY <1>1, <2>5, PageStep DEF y
    <2> QED BY <1>1, <1>2, <1>3, <1>6, <2>4, <2>5, <2>6, SavedLocally DEF c
  <1>7. CASE told = n /\ conn' = [conn EXCEPT ![t] = Save([e EXCEPT !.plan = n], TRUE)]
    <2> DEFINE d == [e EXCEPT !.plan = n]
    <2>1. Edited(c, d) /\ d.own = c.own /\ d.auth = auth /\ d.plan = told /\ d.ends = c.ends
      <3> HIDE DEF c, auth, a, n, told
      <3> QED BY <1>1, <1>7 DEF Edited, Formed, Shaped, Fields
    <2> HIDE DEF d
    <2> QED BY <2>1, <1>6, <1>7 DEF d
  <1>8. CASE conn' = [conn EXCEPT ![t] = Save([e EXCEPT !.ends = @ \cup ({told} \ {Nil})], TRUE)]
    <2> DEFINE d == [e EXCEPT !.ends = @ \cup ({told} \ {Nil})]
    <2>1. Edited(c, d) /\ d.own = c.own /\ d.auth = auth /\ d.plan = c.plan /\ d.ends = c.ends \cup ({told} \ {Nil})
      <3> HIDE DEF c, auth, a, n, told
      <3> QED BY <1>1 DEF Edited, Formed, Shaped, Fields
    <2> HIDE DEF d
    <2> QED BY <2>1, <1>6, <1>8 DEF d
  <1> QED BY <1>5, <1>7, <1>8 DEF FinishNavigation, With

LEMMA RunKeeps ==
  ASSUME VisitInv, NEW t \in Tabs, NEW task \in AllTurns, Run(t, task)
  PROVE  VisitInv'
  <1> DEFINE c == conn[t]
             begun == acts.begun \cup {task}
  <1>1. Core(c, row.age, row.rev, ended, acts.begun) /\ Formed(c) /\ PageInv(page[t], c)
        /\ page = [s \in Tabs |-> page[s]] /\ acts = [n |-> acts.n, begun |-> acts.begun] /\ acts.begun \subseteq AllTurns /\ ended \subseteq acts.begun
    BY Facts
  <1>2. c.at = "live" /\ c.tell = Nil /\ page[t].run = Nil /\ row' = row /\ ended' = ended /\ page' = [page EXCEPT ![t] = page[t]]
        /\ acts' = [n |-> acts.n + 1, begun |-> begun]
    BY <1>1 DEF Run, Live, Hearing, Browser
  <1>3. task # Nil /\ (task \in JourneyTurns <=> task \notin NavTurns) /\ Nil \notin JourneyTurns /\ Nil \notin NavTurns
    BY TurnsAreDistinct DEF AllTurns
  <1>4. c.own \in Marks /\ c.auth \in Marks /\ c.plan \in NavTurns \cup {Nil}
    BY <1>1 DEF Formed, FieldTypes
  <1>5. begun \subseteq AllTurns /\ acts.begun \subseteq begun /\ acts'.begun = begun /\ acts' = [n |-> acts'.n, begun |-> acts'.begun]
    BY <1>1, <1>2
  <1> HIDE DEF begun
  <1>6. ASSUME NEW d, Edited(c, d), Core(d, row.age, row.rev, ended, begun), Steady(c, d), Mine(task, d),
               conn' = [conn EXCEPT ![t] = [Save(d, TRUE) EXCEPT !.tell = task]]
        PROVE  VisitInv'
    <2> DEFINE e == Save(d, TRUE)
               f == [e EXCEPT !.tell = task]
    <2>1. Core(e, row.age, row.rev, ended, begun) /\ Same(d, e) /\ (~d.holds => e = d)
      BY <1>6, Saved
    <2> HIDE DEF e, c
    <2>2. /\ Shaped(f) /\ f.tell = task /\ f.at = e.at /\ f.holds = e.holds /\ f.rev = e.rev /\ f.age = e.age /\ f.known = e.known /\ f.flying = e.flying
          /\ f.writes = e.writes /\ f.lost = e.lost /\ f.heirOf = e.heirOf /\ f.prev = e.prev /\ f.own = e.own /\ f.auth = e.auth /\ f.plan = e.plan
          /\ f.ends = e.ends
      BY <2>1 DEF Core, Formed, Shaped, Fields
    <2> HIDE DEF f
    <2>3. Alike(e, f)
      BY <2>1, <2>2 DEF Alike, Core, Formed, FieldTypes
    <2>4. Mine(f.tell, f) /\ (f.flying => f.writes # <<>>)
      BY <1>6, <2>1, <2>2 DEF Mine, Same, Core
    <2>5. Core(f, row.age, row.rev, ended, begun)
      BY <2>1, <2>3, <2>4, AlikeCore
    <2>6. f.at = "live" /\ f.rev = c.rev /\ Steady(c, f)
      BY <1>2, <1>6, <2>1, <2>2 DEF Edited, Same, Steady
    <2>7. ConnInv(f, row.age, row.rev, ended, begun) /\ PageInv(page[t], f)
      BY <1>1, <1>2, <2>5, <2>6 DEF ConnInv, PageInv, Mine
    <2> QED BY <1>2, <1>5, <1>6, <2>6, <2>7, Locally DEF c, e, f
  <1>7. CASE task \notin acts.begun /\ task \in JourneyTurns /\ conn' = [conn EXCEPT ![t] = [Save([c EXCEPT !.own.journey = task], TRUE) EXCEPT !.tell = task]]
    <2> DEFINE own == [c.own EXCEPT !.journey = task]
               d == [c EXCEPT !.own = own]
               fresh == {task}
    <2>1. own \in Marks /\ own.journey = task /\ own.nav = c.own.nav /\ [c EXCEPT !.own.journey = task] = d
      BY <1>1, <1>4, <1>7 DEF Marks, Formed, Shaped, Fields
    <2> HIDE DEF c, own
    <2>2. Edited(c, d) /\ d.own = own /\ d.auth = c.auth /\ d.plan = c.plan /\ d.ends = c.ends
      BY <1>1 DEF Edited, Formed, Shaped, Fields
    <2> HIDE DEF d
    <2>3. Pending(d) \subseteq Pending(c) \cup fresh /\ Pending(d) \cap d.ends = {}
      BY <1>1, <1>7, <2>1, <2>2 DEF Pending, Core
    <2>4. Differ(d.own.nav, d.auth.nav) /\ Differ(d.own.nav, d.plan) /\ Differ(d.auth.nav, d.plan) /\ Mine(d.tell, d) /\ Mine(task, d)
      BY <1>1, <1>2, <1>7, <2>1, <2>2 DEF Core, Differ, Mine, Edited
    <2>5. acts.begun \cup fresh \subseteq begun /\ fresh \cap acts.begun = {}
      BY <1>7 DEF begun
    <2> HIDE DEF fresh
    <2>6. Core(d, row.age, row.rev, ended, begun) /\ Steady(c, d)
      <3>1. /\ Core(c, row.age, row.rev, ended, acts.begun) /\ ended \subseteq acts.begun /\ begun \subseteq AllTurns
            /\ d.own \in Marks /\ d.auth \in Marks /\ d.plan \in NavTurns \cup {Nil} /\ d.ends \subseteq c.ends \cup Pending(c)
            /\ acts.begun \cup fresh \subseteq begun /\ fresh \cap acts.begun = {}
        BY <1>1, <1>4, <1>5, <2>1, <2>2, <2>5
      <3> QED BY <2>2, <2>3, <2>4, <3>1, GivenCore
    <2> QED BY <1>6, <1>7, <2>1, <2>2, <2>4, <2>6 DEF c
  <1>8. CASE task \notin acts.begun /\ task \notin JourneyTurns /\ conn' = [conn EXCEPT ![t] = [Save([c EXCEPT !.own.nav = task], TRUE) EXCEPT !.tell = task]]
    <2> DEFINE own == [c.own EXCEPT !.nav = task]
               d == [c EXCEPT !.own = own]
               fresh == {task}
    <2>1. own \in Marks /\ own.nav = task /\ own.journey = c.own.journey /\ [c EXCEPT !.own.nav = task] = d
      BY <1>1, <1>3, <1>4, <1>8 DEF Marks, Formed, Shaped, Fields, AllTurns
    <2> HIDE DEF c, own
    <2>2. Edited(c, d) /\ d.own = own /\ d.auth = c.auth /\ d.plan = c.plan /\ d.ends = c.ends
      BY <1>1 DEF Edited, Formed, Shaped, Fields
    <2> HIDE DEF d
    <2>3. Pending(d) \subseteq Pending(c) \cup fresh /\ Pending(d) \cap d.ends = {}
      BY <1>1, <1>8, <2>1, <2>2 DEF Pending, Core
    <2>0. Pending(c) \subseteq acts.begun
      BY <1>1 DEF Core
    <2>7. task # c.auth.nav /\ task # c.plan
      BY <1>3, <1>8, <2>0 DEF Pending
    <2>4. Differ(d.own.nav, d.auth.nav) /\ Differ(d.own.nav, d.plan) /\ Differ(d.auth.nav, d.plan) /\ Mine(d.tell, d) /\ Mine(task, d)
      BY <1>1, <1>2, <1>3, <1>8, <2>1, <2>2, <2>7 DEF Core, Differ, Mine, Edited
    <2>5. acts.begun \cup fresh \subseteq begun /\ fresh \cap acts.begun = {}
      BY <1>8 DEF begun
    <2> HIDE DEF fresh
    <2>6. Core(d, row.age, row.rev, ended, begun) /\ Steady(c, d)
      <3>1. /\ Core(c, row.age, row.rev, ended, acts.begun) /\ ended \subseteq acts.begun /\ begun \subseteq AllTurns
            /\ d.own \in Marks /\ d.auth \in Marks /\ d.plan \in NavTurns \cup {Nil} /\ d.ends \subseteq c.ends \cup Pending(c)
            /\ acts.begun \cup fresh \subseteq begun /\ fresh \cap acts.begun = {}
        BY <1>1, <1>4, <1>5, <2>1, <2>2, <2>5
      <3> QED BY <2>2, <2>3, <2>4, <3>1, GivenCore
    <2> QED BY <1>6, <1>8, <2>1, <2>2, <2>4, <2>6 DEF c
  <1>9. CASE c.plan = task /\ conn' = [conn EXCEPT ![t] = [Save([c EXCEPT !.own.nav = task, !.plan = Nil], TRUE) EXCEPT !.tell = task]]
    <2> DEFINE own == [c.own EXCEPT !.nav = task]
               d == [c EXCEPT !.own = own, !.plan = Nil]
    <2>0. task \in NavTurns
      BY <1>3, <1>4, <1>9
    <2>1. own \in Marks /\ own.nav = task /\ own.journey = c.own.journey /\ [c EXCEPT !.own.nav = task, !.plan = Nil] = d
      BY <1>1, <1>4, <2>0 DEF Marks, Formed, Shaped, Fields
    <2> HIDE DEF c, own
    <2>2. Edited(c, d) /\ d.own = own /\ d.auth = c.auth /\ d.plan = Nil /\ d.ends = c.ends
      BY <1>1 DEF Edited, Formed, Shaped, Fields
    <2> HIDE DEF d
    <2>3. Pending(d) \subseteq Pending(c) /\ Pending(d) \cap d.ends = {}
      <3>1. Pending(d) \subseteq Pending(c)
        BY <1>9, <2>1, <2>2 DEF Pending
      <3> QED BY <1>1, <2>2, <3>1 DEF Core
    <2>4. Differ(d.own.nav, d.auth.nav) /\ Differ(d.own.nav, d.plan) /\ Differ(d.auth.nav, d.plan) /\ Mine(d.tell, d) /\ Mine(task, d)
      BY <1>1, <1>2, <1>9, <2>0, <2>1, <2>2 DEF Core, Differ, Mine, Edited
    <2>6. Core(d, row.age, row.rev, ended, begun) /\ Steady(c, d)
      <3>1. /\ Core(c, row.age, row.rev, ended, acts.begun) /\ ended \subseteq acts.begun /\ acts.begun \subseteq AllTurns
            /\ d.own \in Marks /\ d.auth \in Marks /\ d.plan \in NavTurns \cup {Nil} /\ d.ends \subseteq c.ends \cup Pending(c)
        BY <1>1, <1>4, <2>1, <2>2
      <3>2. Core(d, row.age, row.rev, ended, acts.begun) /\ Steady(c, d)
        BY <2>2, <2>3, <2>4, <3>1, EditedCore
      <3> QED BY <1>5, <3>2, GrownCore
    <2> QED BY <1>6, <1>9, <2>1, <2>2, <2>4, <2>6 DEF c
  <1> QED BY <1>7, <1>8, <1>9 DEF Run, With

\* A step that changes nothing of a connection that the invariant looks at, except what is to be told.
LEMMA AlikeLocally ==
  ASSUME VisitInv, NEW t \in Tabs, NEW d, NEW x, conn' = [conn EXCEPT ![t] = d], page' = [page EXCEPT ![t] = x], row' = row, ended' = ended,
         acts' = [n |-> acts'.n, begun |-> acts.begun], Alike(conn[t], d), Steady(conn[t], d), d.flying = conn[t].flying,
         d.tell \in {conn[t].tell, Nil}, PageInv(x, d)
  PROVE  VisitInv'
  <1> DEFINE c == conn[t]
  <1>1. Core(c, row.age, row.rev, ended, acts.begun) /\ ConnInv(c, row.age, row.rev, ended, acts.begun) /\ Formed(c) /\ PageInv(page[t], c)
        /\ page = [s \in Tabs |-> page[s]] /\ acts = [n |-> acts.n, begun |-> acts.begun] /\ acts.begun \subseteq AllTurns /\ ended \subseteq acts.begun
    BY Facts
  <1> HIDE DEF c
  <1>2. Alike(c, d) /\ Steady(c, d) /\ d.flying = c.flying /\ d.tell \in {c.tell, Nil}
    BY DEF c
  <1>3. Mine(d.tell, d) /\ (d.flying => d.writes # <<>>)
    BY <1>1, <1>2 DEF Mine, Core, Alike
  <1>4. Core(d, row.age, row.rev, ended, acts.begun)
    BY <1>1, <1>2, <1>3, AlikeCore
  <1>5. d.at # "live" => Blank(d)
    BY <1>1, <1>2 DEF ConnInv, Blank, Alike, Steady
  <1>6. ConnInv(d, row.age, row.rev, ended, acts'.begun) /\ d.rev = c.rev /\ acts'.begun = acts.begun
    BY <1>2, <1>4, <1>5 DEF ConnInv, Alike
  <1> QED BY <1>1, <1>2, <1>6, Locally DEF c

LEMMA TellKeeps ==
  ASSUME VisitInv, NEW t \in Tabs, Tell(t)
  PROVE  VisitInv'
  <1> DEFINE c == conn[t]
             d == [c EXCEPT !.tell = Nil]
             r == IF c.up THEN c.tell ELSE page[t].run
             y == [page[t] EXCEPT !.run = r]
  <1>1. Core(c, row.age, row.rev, ended, acts.begun) /\ ConnInv(c, row.age, row.rev, ended, acts.begun) /\ Formed(c) /\ PageInv(page[t], c)
        /\ page = [s \in Tabs |-> page[s]] /\ acts = [n |-> acts.n, begun |-> acts.begun] /\ acts.begun \subseteq AllTurns /\ ended \subseteq acts.begun
    BY Facts
  <1>2. conn' = [conn EXCEPT ![t] = d] /\ row' = row /\ ended' = ended /\ acts' = acts
    BY DEF Tell, With
  <1>3. page' = [page EXCEPT ![t] = y]
    <2>1. CASE c.up
      BY <2>1 DEF Tell
    <2>2. CASE ~c.up
      <3>1. page' = page /\ page' = [page EXCEPT ![t] = page[t]]
        BY <1>1, <2>2 DEF Tell
      <3>2. y = page[t]
        BY <1>1, <2>2 DEF PageInv, PageFields
      <3> QED BY <3>1, <3>2
    <2> QED BY <2>1, <2>2
  <1> HIDE DEF c, y, r
  <1>4. Alike(c, d) /\ d.tell = Nil /\ d.flying = c.flying /\ Steady(c, d) /\ d.at = c.at
    BY <1>1 DEF Formed, Shaped, Fields, FieldTypes, Alike, Steady
  <1> HIDE DEF d
  <1>5. Mine(r, d)
    BY <1>1, <1>4 DEF r, Mine, Core, PageInv, Alike
  <1>6. PageInv(y, d)
    BY <1>1, <1>4, <1>5, PageStep DEF y
  <1> QED BY <1>1, <1>2, <1>3, <1>4, <1>6, AlikeLocally DEF c

LEMMA ChatKeeps ==
  ASSUME VisitInv, NEW t \in Tabs, Chat(t)
  PROVE  VisitInv'
  <1> DEFINE c == conn[t]
             y == [page[t] EXCEPT !.mem = page[t].mem]
  <1>1. Core(c, row.age, row.rev, ended, acts.begun) /\ ConnInv(c, row.age, row.rev, ended, acts.begun) /\ Formed(c) /\ PageInv(page[t], c)
        /\ page = [s \in Tabs |-> page[s]] /\ acts = [n |-> acts.n, begun |-> acts.begun] /\ acts.begun \subseteq AllTurns /\ ended \subseteq acts.begun
    BY Facts
  <1>2. conn' = [conn EXCEPT ![t] = Save(c, FALSE)] /\ row' = row /\ ended' = ended /\ c.at = "live" /\ page' = [page EXCEPT ![t] = y]
        /\ acts' = [n |-> acts.n + 1, begun |-> acts.begun]
    BY <1>1 DEF Chat, With, Mark, Live, Hearing, Counted
  <1>3. Steady(c, c) /\ PageInv(y, c)
    BY <1>1, PageStep DEF Steady, PageInv
  <1> QED BY <1>1, <1>2, <1>3, SavedLocally

\* A page leaves, whatever it runs and stores.
LEMMA GoneKeeps ==
  ASSUME VisitInv, NEW t \in Tabs, Gone(t), NEW y, page' = [page EXCEPT ![t] = y], row' = row, ended' = ended,
         acts' = [n |-> acts'.n, begun |-> acts.begun],
         \A d : d.at = conn[t].at /\ Mine(page[t].run, d) => PageInv(y, d)
  PROVE  VisitInv'
  <1> DEFINE c == conn[t]
             d == [c EXCEPT !.up = FALSE]
  <1>1. Core(c, row.age, row.rev, ended, acts.begun) /\ ConnInv(c, row.age, row.rev, ended, acts.begun) /\ Formed(c) /\ PageInv(page[t], c)
        /\ page = [s \in Tabs |-> page[s]] /\ acts = [n |-> acts.n, begun |-> acts.begun] /\ acts.begun \subseteq AllTurns /\ ended \subseteq acts.begun
    BY Facts
  <1>2. conn' = [conn EXCEPT ![t] = d]
    BY DEF Gone, With
  <1>0. \A e : e.at = c.at /\ Mine(page[t].run, e) => PageInv(y, e)
    OBVIOUS
  <1> HIDE DEF c
  <1>3. Alike(c, d) /\ d.tell = c.tell /\ d.flying = c.flying /\ Steady(c, d) /\ d.at = c.at
    BY <1>1 DEF Formed, Shaped, Fields, FieldTypes, Alike, Steady
  <1> HIDE DEF d
  <1>4. Mine(page[t].run, d)
    BY <1>1, <1>3 DEF Mine, PageInv, Alike
  <1>5. PageInv(y, d)
    BY <1>0, <1>3, <1>4
  <1> QED BY <1>1, <1>2, <1>3, <1>5, AlikeLocally DEF c

LEMMA LeaveKeeps ==
  ASSUME VisitInv, NEW t \in Tabs, Leave(t)
  PROVE  VisitInv'
  <1> DEFINE c == conn[t]
  <1>1. Core(c, row.age, row.rev, ended, acts.begun) /\ ConnInv(c, row.age, row.rev, ended, acts.begun) /\ Formed(c) /\ PageInv(page[t], c)
        /\ page = [s \in Tabs |-> page[s]] /\ acts = [n |-> acts.n, begun |-> acts.begun] /\ acts.begun \subseteq AllTurns /\ ended \subseteq acts.begun
    BY Facts
  <1>2. Gone(t) /\ page' = [page EXCEPT ![t] = page[t]] /\ row' = row /\ ended' = ended /\ acts' = [n |-> acts.n + 1, begun |-> acts.begun]
    BY <1>1 DEF Leave, Counted, Browser
  <1>3. \A d : d.at = c.at /\ Mine(page[t].run, d) => PageInv(page[t], d)
    BY <1>1 DEF PageInv
  <1> QED BY <1>2, <1>3, GoneKeeps

LEMMA NavigateKeeps ==
  ASSUME VisitInv, NEW t \in Tabs, NavigateAway(t)
  PROVE  VisitInv'
  <1> DEFINE c == conn[t]
             m == IF page[t].run \in JourneyTurns THEN [page[t].mem EXCEPT !.journey = page[t].run] ELSE [journey |-> Nil, nav |-> page[t].run]
             y == [page[t] EXCEPT !.run = Nil, !.mem = m]
  <1>1. Core(c, row.age, row.rev, ended, acts.begun) /\ ConnInv(c, row.age, row.rev, ended, acts.begun) /\ Formed(c) /\ PageInv(page[t], c)
        /\ page = [s \in Tabs |-> page[s]] /\ acts = [n |-> acts.n, begun |-> acts.begun] /\ acts.begun \subseteq AllTurns /\ ended \subseteq acts.begun
    BY Facts
  <1>2. Gone(t) /\ page' = [page EXCEPT ![t] = y] /\ row' = row /\ ended' = ended /\ acts' = acts
    BY <1>1 DEF NavigateAway, PageInv, PageFields
  <1> HIDE DEF m
  <1>3. \A d : d.at = c.at /\ Mine(page[t].run, d) => PageInv(y, d)
    <2>1. ASSUME NEW d, d.at = c.at
          PROVE  PageInv(y, d)
      <3>1. Mine(Nil, d)
        BY DEF Mine
      <3> QED BY <1>1, <2>1, <3>1, PageStep
    <2> QED BY <2>1
  <1> HIDE DEF y
  <1> QED BY <1>1, <1>2, <1>3, GoneKeeps

\* All that is pending is dropped.
LEMMA ClearedCore ==
  ASSUME NEW c, NEW age, NEW rev, NEW done, NEW begun, Core(c, age, rev, done, begun), done \subseteq begun, begun \subseteq AllTurns, c.tell = Nil
  PROVE  /\ Core(Cleared(c), age, rev, done, begun) /\ Steady(c, Cleared(c)) /\ Edited(c, Cleared(c))
         /\ Pending(Cleared(c)) = {}
  <1> DEFINE d == Cleared(c)
             ends == c.ends \cup Pending(c)
  <1>1. d = [c EXCEPT !.own = NoMark, !.auth = NoMark, !.plan = Nil, !.asked = NoMark, !.ends = ends]
    BY DEF Cleared
  <1> HIDE DEF d, ends
  <1>2. Formed(c) /\ NoMark \in Marks /\ NoMark.nav = Nil /\ NoMark.journey = Nil
    BY DEF Core, Marks, NoMark
  <1>3. d.own = NoMark /\ d.auth = NoMark /\ d.plan = Nil /\ d.ends = ends /\ Edited(c, d)
    BY <1>1, <1>2 DEF Formed, Shaped, Fields, Edited
  <1>4. Pending(d) = {}
    BY <1>2, <1>3 DEF Pending
  <1>5. /\ d.own \in Marks /\ d.auth \in Marks /\ d.plan \in NavTurns \cup {Nil} /\ Mine(d.tell, d)
        /\ Pending(d) \subseteq Pending(c) /\ d.ends \subseteq c.ends \cup Pending(c) /\ Pending(d) \cap d.ends = {}
        /\ Differ(d.own.nav, d.auth.nav) /\ Differ(d.own.nav, d.plan) /\ Differ(d.auth.nav, d.plan)
    BY <1>2, <1>3, <1>4 DEF ends, Mine, Differ, Edited
  <1>6. Core(d, age, rev, done, begun) /\ Steady(c, d)
    BY <1>3, <1>5, EditedCore
  <1> QED BY <1>3, <1>4, <1>6 DEF d

LEMMA StopKeeps ==
  ASSUME VisitInv, NEW t \in Tabs, StopAll(t)
  PROVE  VisitInv'
  <1> DEFINE c == conn[t]
             m == [page[t].mem EXCEPT !.journey = Nil]
             y == [page[t] EXCEPT !.run = Nil, !.mem = m]
  <1>1. Core(c, row.age, row.rev, ended, acts.begun) /\ ConnInv(c, row.age, row.rev, ended, acts.begun) /\ Formed(c) /\ PageInv(page[t], c)
        /\ page = [s \in Tabs |-> page[s]] /\ acts = [n |-> acts.n, begun |-> acts.begun] /\ acts.begun \subseteq AllTurns /\ ended \subseteq acts.begun
    BY Facts
  <1>2. row' = row /\ ended' = ended /\ c.at = "live" /\ c.tell = Nil /\ page' = [page EXCEPT ![t] = y] /\ acts' = [n |-> acts.n + 1, begun |-> acts.begun]
        /\ conn' \in {[conn EXCEPT ![t] = c], [conn EXCEPT ![t] = Save(Cleared(c), TRUE)]}
    BY <1>1 DEF StopAll, With, Live, Hearing, Counted, PageInv, PageFields
  <1>3. \A d : d.at = c.at => PageInv(y, d)
    <2>1. ASSUME NEW d, d.at = c.at
          PROVE  PageInv(y, d)
      <3>1. Mine(Nil, d)
        BY DEF Mine
      <3> HIDE DEF m, c
      <3> QED BY <1>1, <2>1, <3>1, PageStep
    <2> QED BY <2>1
  <1> HIDE DEF y
  <1>4. CASE conn' = [conn EXCEPT ![t] = c]
    <2>1. Steady(c, c) /\ PageInv(y, c)
      BY <1>3 DEF Steady
    <2> QED BY <1>1, <1>2, <1>4, <2>1, Locally
  <1>5. CASE conn' = [conn EXCEPT ![t] = Save(Cleared(c), TRUE)]
    <2> DEFINE d == Cleared(c)
    <2>1. Core(d, row.age, row.rev, ended, acts.begun) /\ Steady(c, d) /\ Edited(c, d)
      BY <1>1, <1>2, ClearedCore
    <2> HIDE DEF d
    <2>2. d.at = "live" /\ d.rev = c.rev /\ PageInv(y, d)
      BY <1>2, <1>3, <2>1 DEF Edited
    <2> QED BY <1>1, <1>2, <1>5, <2>1, <2>2, SavedLocally DEF d
  <1> QED BY <1>2, <1>4, <1>5

LEMMA ResultKeeps ==
  ASSUME VisitInv, NEW t \in Tabs, Result(t)
  PROVE  VisitInv'
  <1> DEFINE c == conn[t]
             task == page[t].run
             m == [page[t].mem EXCEPT !.journey = Nil]
             y == [page[t] EXCEPT !.run = Nil, !.mem = m]
  <1>1. Core(c, row.age, row.rev, ended, acts.begun) /\ ConnInv(c, row.age, row.rev, ended, acts.begun) /\ Formed(c) /\ PageInv(page[t], c)
        /\ page = [s \in Tabs |-> page[s]] /\ acts = [n |-> acts.n, begun |-> acts.begun] /\ acts.begun \subseteq AllTurns /\ ended \subseteq acts.begun
    BY Facts
  <1>2. row' = row /\ ended' = ended /\ acts' = acts /\ c.at = "live" /\ c.tell = Nil /\ task # Nil /\ page' = [page EXCEPT ![t] = y]
    BY <1>1 DEF Result, Live, Hearing, PageInv, PageFields
  <1>3. \A d : d.at = c.at => PageInv(y, d)
    <2>1. ASSUME NEW d, d.at = c.at
          PROVE  PageInv(y, d)
      <3>1. Mine(Nil, d)
        BY DEF Mine
      <3> HIDE DEF m, c
      <3> QED BY <1>1, <2>1, <3>1, PageStep
    <2> QED BY <2>1
  <1> HIDE DEF y
  <1>4. c.own \in Marks /\ c.auth \in Marks /\ c.plan \in NavTurns \cup {Nil}
    BY <1>1 DEF Formed, FieldTypes
  <1>5. Nil \notin JourneyTurns /\ Nil \notin NavTurns /\ JourneyTurns \cap NavTurns = {} /\ Mine(task, c)
    BY <1>1, TurnsAreDistinct DEF PageInv
  <1>6. ASSUME NEW d, NEW wait, NEW more, Edited(c, d), d.own \in Marks, d.auth \in Marks, d.plan = c.plan, d.ends = c.ends \cup more,
               more \subseteq Pending(c), Pending(d) \subseteq Pending(c), Pending(d) \cap more = {},
               Differ(d.own.nav, d.auth.nav) /\ Differ(d.own.nav, d.plan) /\ Differ(d.auth.nav, d.plan),
               conn' = [conn EXCEPT ![t] = Save(d, wait)]
        PROVE  VisitInv'
    <2> HIDE DEF c
    <2>1. Mine(d.tell, d) /\ d.ends \subseteq c.ends \cup Pending(c) /\ d.plan \in NavTurns \cup {Nil} /\ Pending(d) \cap d.ends = {}
      BY <1>1, <1>2, <1>4, <1>6 DEF Mine, Edited, Core
    <2>2. Core(d, row.age, row.rev, ended, acts.begun) /\ Steady(c, d)
      BY <1>1, <1>6, <2>1, EditedCore
    <2>3. d.at = "live" /\ d.rev = c.rev /\ PageInv(y, d)
      BY <1>2, <1>3, <1>6 DEF Edited
    <2> QED BY <1>1, <1>2, <1>6, <2>2, <2>3, SavedLocally DEF c
  <1>7. CASE task \in JourneyTurns
    <2> DEFINE own == [c.own EXCEPT !.journey = Nil]
               auth == [c.auth EXCEPT !.journey = Nil]
               more == {task, c.auth.journey} \ {Nil}
               ends == c.ends \cup more
               d == [c EXCEPT !.own = own, !.auth = auth, !.ends = ends]
    <2>1. own \in Marks /\ auth \in Marks /\ own.journey = Nil /\ own.nav = c.own.nav /\ auth.journey = Nil /\ auth.nav = c.auth.nav
      BY <1>4 DEF Marks
    <2>2. d = [c EXCEPT !.own.journey = Nil, !.auth.journey = Nil, !.ends = @ \cup ({task, c.auth.journey} \ {Nil})]
      BY <1>1 DEF Formed, Shaped, Fields
    <2>3. conn' = [conn EXCEPT ![t] = Save(d, FALSE)]
      BY <1>7, <2>2 DEF Result, With
    <2> HIDE DEF c, own, auth, ends
    <2>4. Edited(c, d) /\ d.own = own /\ d.auth = auth /\ d.plan = c.plan /\ d.ends = ends
      BY <1>1 DEF Edited, Formed, Shaped, Fields
    <2> HIDE DEF d, task
    <2>5. task = c.own.journey
      BY <1>2, <1>5, <1>7 DEF Mine
    <2>6. Pending(d) = {c.own.nav, c.auth.nav, c.plan} \ {Nil} /\ more \subseteq JourneyTurns /\ Pending(d) \subseteq NavTurns
      BY <1>4, <1>7, <2>1, <2>4 DEF Pending, Marks
    <2>7. Pending(d) \subseteq Pending(c) /\ more \subseteq Pending(c) /\ Pending(d) \cap more = {}
      BY <1>5, <2>5, <2>6 DEF Pending
    <2>8. Differ(d.own.nav, d.auth.nav) /\ Differ(d.own.nav, d.plan) /\ Differ(d.auth.nav, d.plan)
      BY <1>1, <2>1, <2>4 DEF Core
    <2> QED BY <1>6, <2>1, <2>3, <2>4, <2>7, <2>8 DEF ends
  <1>8. CASE task \notin JourneyTurns
    <2> DEFINE own == [c.own EXCEPT !.nav = Nil]
               auth == [c.auth EXCEPT !.nav = Nil]
               more == {task, c.auth.nav} \ {Nil}
               ends == c.ends \cup more
               d == [c EXCEPT !.own = own, !.auth = auth, !.ends = ends]
    <2>1. own \in Marks /\ auth \in Marks /\ own.nav = Nil /\ own.journey = c.own.journey /\ auth.nav = Nil /\ auth.journey = c.auth.journey
      BY <1>4 DEF Marks
    <2>2. d = [c EXCEPT !.own.nav = Nil, !.auth.nav = Nil, !.ends = @ \cup ({task, c.auth.nav} \ {Nil})]
      BY <1>1 DEF Formed, Shaped, Fields
    <2>3. conn' = [conn EXCEPT ![t] = Save(d, TRUE)]
      BY <1>8, <2>2 DEF Result, With
    <2> HIDE DEF c, own, auth, ends
    <2>4. Edited(c, d) /\ d.own = own /\ d.auth = auth /\ d.plan = c.plan /\ d.ends = ends
      BY <1>1 DEF Edited, Formed, Shaped, Fields
    <2> HIDE DEF d, task
    <2>5. task = c.own.nav /\ task \in NavTurns
      BY <1>2, <1>5, <1>8 DEF Mine
    <2>6. Pending(d) = {c.own.journey, c.auth.journey, c.plan} \ {Nil}
      BY <2>1, <2>4 DEF Pending
    <2>9. c.own.journey \notin more /\ c.auth.journey \notin more
      BY <1>4, <1>5, <2>5 DEF Marks
    <2>10. c.plan \notin more
      BY <1>1, <2>5 DEF Core, Differ
    <2>7. Pending(d) \subseteq Pending(c) /\ more \subseteq Pending(c) /\ Pending(d) \cap more = {}
      BY <2>5, <2>6, <2>9, <2>10 DEF Pending
    <2>8. Differ(d.own.nav, d.auth.nav) /\ Differ(d.own.nav, d.plan) /\ Differ(d.auth.nav, d.plan)
      BY <2>1, <2>4 DEF Differ
    <2> QED BY <1>6, <2>1, <2>3, <2>4, <2>7, <2>8 DEF ends
  <1> QED BY <1>7, <1>8

\* The record moves on with a write of a page, or is deleted by it.
LEMMA Beyond ==
  ASSUME VisitInv, NEW t \in Tabs, NEW d, NEW x, conn' = [conn EXCEPT ![t] = d], page' = [page EXCEPT ![t] = x],
         acts' = [n |-> acts'.n, begun |-> acts.begun], row'.age \in Nat, row'.rev \in Nat,
         row'.age > row.age \/ (row'.age = row.age /\ row'.rev > row.rev),
         RowInv(row', ended', acts.begun), ConnInv(d, row'.age, row'.rev, ended', acts.begun), Steady(conn[t], d), PageInv(x, d),
         \A s \in Tabs : HeirSeen(conn', s, row')
  PROVE  VisitInv'
  <1>1. conn' = [s \in Tabs |-> conn'[s]] /\ page' = [s \in Tabs |-> page'[s]] /\ conn'[t] = d /\ page'[t] = x
        /\ \A s \in Tabs \ {t} : conn'[s] = conn[s] /\ page'[s] = page[s]
    BY DEF VisitInv
  <1>2. acts'.begun = acts.begun /\ acts' = [n |-> acts'.n, begun |-> acts'.begun] /\ row.age \in Nat /\ row.rev \in Nat
    BY DEF VisitInv, RowInv
  <1>3. ASSUME NEW s \in Tabs
        PROVE  ConnInv(conn'[s], row'.age, row'.rev, ended', acts.begun) /\ PageInv(page'[s], conn'[s])
    <2>1. CASE s = t
      BY <1>1, <2>1
    <2>2. CASE s # t
      <3>1. ConnInv(conn[s], row.age, row.rev, ended, acts.begun) /\ PageInv(page[s], conn[s])
        BY DEF VisitInv
      <3>2. Core(conn[s], row'.age, row'.rev, ended', acts.begun)
        BY <1>2, <3>1, OutdatedCore DEF ConnInv
      <3>3. ConnInv(conn[s], row'.age, row'.rev, ended', acts.begun)
        BY <3>1, <3>2 DEF ConnInv
      <3> QED BY <1>1, <2>2, <3>1, <3>3
    <2> QED BY <2>1, <2>2
  <1>4. ASSUME NEW s \in Tabs
        PROVE  Waits(conn', s) /\ HeirLink(conn', s) /\ HeirSeen(conn', s, row')
    <2>1. Waits(conn, s) /\ HeirLink(conn, s) /\ conn = [u \in Tabs |-> conn[u]]
      BY DEF VisitInv
    <2> QED BY <2>1, LinkSteady
  <1> QED BY <1>1, <1>2, <1>3, <1>4 DEF VisitInv

\* The first write of a queue becomes the record, in its own age or after a logout.
Becomes(c, d, w, age, done, age2, done2) ==
  /\ \/ c.age = age /\ age2 = age /\ done2 = done \cup w.ends /\ d.known = done2
     \/ c.age # age /\ age2 = age + 1 /\ done2 = w.ends /\ d.known = c.known
  /\ Shaped(d) /\ d.at = c.at /\ d.rev = c.rev + 1 /\ d.age = c.age /\ d.own = c.own /\ d.auth = c.auth /\ d.plan = c.plan /\ d.ends = c.ends
  /\ d.holds = c.holds /\ d.tell = c.tell /\ d.writes = Tail(c.writes) /\ d.flying = FALSE /\ d.lost = c.lost
Yields(c, d, w, age, age2, done2, begun) ==
  /\ Core(d, age2, c.rev + 1, done2, begun) /\ age2 \in Nat /\ age2 >= age /\ c.rev \in Nat
  /\ w.pend \in Pends /\ Differ(w.pend.nav, w.pend.plan) /\ Named(w.pend) \cup done2 \subseteq begun /\ Named(w.pend) \cap done2 = {}
LEMMA FirstWrite ==
  ASSUME NEW c, NEW d, NEW age \in Nat, NEW done, NEW begun, Core(c, age, c.rev, done, begun), done \subseteq begun, begun \subseteq AllTurns,
         c.writes # <<>>, NEW w, w = Head(c.writes), NEW age2, NEW done2,
         Becomes(c, d, w, age, done, age2, done2)
  PROVE  Yields(c, d, w, age, age2, done2, begun)
  <1> USE DEF Becomes
  <1>1. c.writes \in Seq(Writes) /\ Ordered(c.writes, Pending(c), begun) /\ c.rev \in Nat /\ c.age \in Nat /\ c.age <= age /\ Formed(c)
        /\ (c.age = age => Pending(c) \cap done = {} /\ Untouched(c.writes, done))
        /\ Pending(c) \cup c.ends \cup c.known \subseteq begun /\ Pending(c) \cap (c.ends \cup c.known) = {}
    BY DEF Core, Formed, FieldTypes, Current
  <1>2. /\ Tail(c.writes) \in Seq(Writes) /\ Ordered(Tail(c.writes), Pending(c), begun)
        /\ \A x : Untouched(c.writes, x) => Untouched(Tail(c.writes), x)
        /\ Untouched(Tail(c.writes), w.ends) /\ w = c.writes[1] /\ w \in Writes /\ 1 \in DOMAIN c.writes
    BY <1>1, FewerWrites
  <1>3. /\ Differ(w.pend.nav, w.pend.plan) /\ w.ends \subseteq begun /\ Named(w.pend) \subseteq begun /\ w.ends \cap Pending(c) = {}
        /\ w.ends \cap Named(w.pend) = {} /\ w.pend \in Pends
    BY <1>1, <1>2 DEF Ordered, Writes
  <1>4. c.age = age => Named(w.pend) \cap done = {}
    BY <1>1, <1>2 DEF Untouched
  <1>5. Pending(d) = Pending(c) /\ Mine(d.tell, d)
    BY DEF Pending, Mine, Core
  <1>6. d.known \subseteq begun /\ done2 \subseteq begun /\ Pending(d) \cap d.known = {}
    BY <1>1, <1>3, <1>5
  <1>7. Formed(d)
    <2>1. FieldTypes(c) /\ c.rev + 1 \in Nat /\ d.known \in SUBSET AllTurns
      BY <1>1, <1>6 DEF Formed
    <2>2. FieldTypes(d)
      BY <1>2, <2>1 DEF FieldTypes
    <2> QED BY <2>2 DEF Formed
  <1>8. Current(d, age2, c.rev + 1) => Pending(d) \cap done2 = {} /\ Untouched(d.writes, done2)
    <2>1. Current(d, age2, c.rev + 1) => c.age = age
      BY <1>1 DEF Current
    <2>2. ASSUME c.age = age
          PROVE  Pending(d) \cap done2 = {} /\ Untouched(d.writes, done2)
      BY <1>1, <1>2, <1>3, <1>5, <2>2 DEF Untouched
    <2> QED BY <2>1, <2>2
  <1>9. d.age <= age2 /\ (d.age = age2 => d.rev <= c.rev + 1) /\ age2 \in Nat /\ age2 >= age
    BY <1>1
  <1>10. Core(d, age2, c.rev + 1, done2, begun)
    BY <1>1, <1>2, <1>5, <1>6, <1>7, <1>8, <1>9 DEF Core
  <1>11. Named(w.pend) \cap done2 = {}
    BY <1>3, <1>4
  <1> QED BY <1>1, <1>3, <1>6, <1>9, <1>10, <1>11 DEF Yields

LEMMA PutKeeps ==
  ASSUME VisitInv, NEW t \in Tabs, PutRecord(t)
  PROVE  VisitInv'
  <1> DEFINE c == conn[t]
             w == Head(c.writes)
             q == Tail(c.writes)
  <1>1. Core(c, row.age, row.rev, ended, acts.begun) /\ ConnInv(c, row.age, row.rev, ended, acts.begun) /\ Formed(c) /\ PageInv(page[t], c)
        /\ conn = [s \in Tabs |-> conn[s]] /\ page = [s \in Tabs |-> page[s]] /\ acts = [n |-> acts.n, begun |-> acts.begun]
        /\ acts.begun \subseteq AllTurns /\ ended \subseteq acts.begun /\ RowInv(row, ended, acts.begun) /\ row.age \in Nat /\ row.rev \in Nat
    BY Facts
  <1>2. c.flying /\ c.writes # <<>> /\ c.at = "live" /\ acts' = [n |-> acts.n, begun |-> acts.begun] /\ t # Nil
    BY <1>1, TurnsAreDistinct DEF PutRecord, ConnInv, Core, Blank
  <1>3. CASE ~Matches(c.rev)
    <2> DEFINE d == [c EXCEPT !.writes = q, !.flying = FALSE, !.holds = FALSE, !.lost = TRUE, !.up = FALSE]
               y == [page[t] EXCEPT !.run = Nil]
    <2>1. conn' = [conn EXCEPT ![t] = d] /\ page' = [page EXCEPT ![t] = y] /\ row' = row /\ ended' = ended
      <3>1. d = [Dropped(c) EXCEPT !.holds = FALSE, !.lost = TRUE, !.up = FALSE]
        BY <1>1 DEF Dropped, Formed, Shaped, Fields
      <3> QED BY <1>3, <3>1 DEF PutRecord, With
    <2>0. q \in Seq(Writes)
      BY <1>1, <1>2 DEF Formed, FieldTypes
    <2> HIDE DEF c, q
    <2>2. /\ Shaped(d) /\ d.rev = c.rev /\ d.age = c.age /\ d.own = c.own /\ d.auth = c.auth /\ d.plan = c.plan /\ d.ends = c.ends
          /\ d.known = c.known /\ d.tell = c.tell /\ d.writes = q /\ d.flying = FALSE /\ d.at = c.at /\ d.heirOf = c.heirOf /\ d.prev = c.prev
          /\ d.holds = FALSE /\ d.lost = TRUE
      BY <1>1 DEF Formed, Shaped, Fields
    <2> HIDE DEF d
    <2>3. Formed(d)
      BY <1>1, <2>0, <2>2 DEF Formed, FieldTypes
    <2>4. Core(d, row.age, row.rev, ended, acts.begun)
      BY <1>1, <1>2, <2>2, <2>3, DroppedCore DEF q
    <2>5. Steady(c, d) /\ ConnInv(d, row.age, row.rev, ended, acts.begun)
      BY <1>2, <2>2, <2>4 DEF Steady, ConnInv
    <2>6. PageInv(y, d)
      <3>1. Mine(Nil, d)
        BY DEF Mine
      <3> QED BY <1>1, <2>2, <3>1, PageStep
    <2> QED BY <1>1, <1>2, <2>1, <2>2, <2>5, <2>6, Locally DEF c
  <1>4. CASE Matches(c.rev)
    <2> DEFINE known == IF c.age = row.age THEN ended' ELSE c.known
               rev == c.rev + 1
               d == [c EXCEPT !.writes = q, !.flying = FALSE, !.rev = rev, !.known = known]
               age == IF c.age = row.age THEN row.age ELSE row.age + 1
    <2>1. conn' = [conn EXCEPT ![t] = d] /\ page' = [page EXCEPT ![t] = page[t]] /\ row.rev = c.rev
          /\ row' = [rev |-> rev, pend |-> w.pend, expired |-> FALSE, by |-> t, age |-> age]
          /\ ended' = IF c.age = row.age THEN ended \cup w.ends ELSE w.ends
      <3>1. d = [Dropped(c) EXCEPT !.rev = @ + 1, !.known = IF c.age = row.age THEN ended' ELSE @]
        BY <1>1 DEF Dropped, Formed, Shaped, Fields
      <3>2. /\ row' = [rev |-> rev, pend |-> w.pend, expired |-> FALSE, by |-> t, age |-> age]
            /\ ended' = IF c.age = row.age THEN ended \cup w.ends ELSE w.ends
            /\ conn' = [conn EXCEPT ![t] = [Dropped(c) EXCEPT !.rev = @ + 1, !.known = IF c.age = row.age THEN ended' ELSE @]] /\ page' = page
        BY <1>4 DEF PutRecord, With
      <3>3. page' = [page EXCEPT ![t] = page[t]]
        BY <1>1, <3>2
      <3> QED BY <1>4, <3>1, <3>2, <3>3 DEF Matches
    <2> HIDE DEF c, q, known, rev, age, w
    <2>2. /\ Shaped(d) /\ d.rev = rev /\ d.age = c.age /\ d.own = c.own /\ d.auth = c.auth /\ d.plan = c.plan /\ d.ends = c.ends
          /\ d.known = known /\ d.tell = c.tell /\ d.writes = q /\ d.flying = FALSE /\ d.at = c.at /\ d.heirOf = c.heirOf /\ d.prev = c.prev
          /\ d.holds = c.holds /\ d.lost = c.lost
      BY <1>1 DEF Formed, Shaped, Fields
    <2> HIDE DEF d
    <2>3. \/ c.age = row.age /\ age = row.age /\ ended' = ended \cup w.ends /\ d.known = ended'
          \/ c.age # row.age /\ age = row.age + 1 /\ ended' = w.ends /\ d.known = c.known
      BY <2>1, <2>2 DEF age, known
    <2>4. /\ Core(d, age, rev, ended', acts.begun) /\ age \in Nat /\ age >= row.age /\ c.rev \in Nat
          /\ w.pend \in Pends /\ Differ(w.pend.nav, w.pend.plan) /\ Named(w.pend) \cup ended' \subseteq acts.begun /\ Named(w.pend) \cap ended' = {}
      <3> DEFINE done2 == ended'
      <3>1. Core(c, row.age, c.rev, ended, acts.begun)
        BY <1>1, <2>1
      <3>2. \/ c.age = row.age /\ age = row.age /\ done2 = ended \cup w.ends /\ d.known = done2
            \/ c.age # row.age /\ age = row.age + 1 /\ done2 = w.ends /\ d.known = c.known
        BY <2>3
      <3> HIDE DEF done2
      <3>3. Yields(c, d, w, row.age, age, done2, acts.begun)
        <4>1. w = Head(c.writes) /\ q = Tail(c.writes) /\ rev = c.rev + 1
          BY DEF w, q, rev
        <4>2. row.age \in Nat /\ ended \subseteq acts.begun /\ acts.begun \subseteq AllTurns /\ c.writes # <<>>
          BY <1>1, <1>2
        <4>3. Becomes(c, d, w, row.age, ended, age, done2)
          BY <2>2, <3>2, <4>1 DEF Becomes
        <4> QED BY <3>1, <4>1, <4>2, <4>3, FirstWrite
      <3> QED BY <3>3 DEF Yields, done2, rev
    <2>5. row'.age = age /\ row'.rev = rev /\ row'.by = t /\ rev \in Nat /\ rev > row.rev /\ row'.pend = w.pend
      BY <2>1, <2>4 DEF rev
    <2>6. RowInv(row', ended', acts.begun)
      <3>1. row' = [f \in RowFields |-> row'[f]]
        BY <2>1 DEF RowFields
      <3>2. rev > 0
        BY <2>4 DEF rev
      <3> QED BY <1>1, <2>4, <2>5, <3>1, <3>2 DEF RowInv
    <2>7. ConnInv(d, row'.age, row'.rev, ended', acts.begun) /\ Steady(c, d) /\ PageInv(page[t], d)
      <3>1. ConnInv(d, row'.age, row'.rev, ended', acts.begun)
        BY <1>2, <2>2, <2>4, <2>5 DEF ConnInv
      <3>2. Steady(c, d)
        BY <1>2, <2>2 DEF Steady
      <3>3. PageInv(page[t], d)
        BY <1>1, <2>2 DEF PageInv, Mine
      <3> QED BY <3>1, <3>2, <3>3
    <2>8. ASSUME NEW s \in Tabs
          PROVE  HeirSeen(conn', s, row')
      <3>1. HeirLink(conn, s) /\ conn'[s].heirOf = conn[s].heirOf /\ conn'[s].at = conn[s].at
        <4>1. HeirLink(conn, s)
          BY Facts
        <4> QED BY <4>1, <1>1, <2>1, <2>2 DEF c
      <3>2. conn[s].heirOf = t /\ conn[s].at = "live" => FALSE
        BY <1>2, <3>1 DEF HeirLink, c
      <3> QED BY <2>5, <3>1, <3>2 DEF HeirSeen
    <2>9. row'.age > row.age \/ (row'.age = row.age /\ row'.rev > row.rev)
      BY <1>1, <2>4, <2>5
    <2>10. row'.age \in Nat /\ row'.rev \in Nat /\ acts' = [n |-> acts'.n, begun |-> acts.begun]
      BY <1>2, <2>4, <2>5
    <2> QED BY <2>1, <2>6, <2>7, <2>8, <2>9, <2>10, Beyond DEF c
  <1> QED BY <1>3, <1>4

LEMMA LogoutKeeps ==
  ASSUME VisitInv, NEW t \in Tabs, Logout(t)
  PROVE  VisitInv'
  <1> DEFINE c == conn[t]
             e == Cleared(c)
             d == [e EXCEPT !.holds = FALSE]
             y == [page[t] EXCEPT !.run = Nil, !.mem = NoMark]
             done == ended \cup Pending(c)
  <1>1. Core(c, row.age, row.rev, ended, acts.begun) /\ ConnInv(c, row.age, row.rev, ended, acts.begun) /\ Formed(c) /\ PageInv(page[t], c)
        /\ conn = [s \in Tabs |-> conn[s]] /\ page = [s \in Tabs |-> page[s]] /\ acts = [n |-> acts.n, begun |-> acts.begun]
        /\ acts.begun \subseteq AllTurns /\ ended \subseteq acts.begun /\ RowInv(row, ended, acts.begun) /\ row.age \in Nat /\ row.rev \in Nat
    BY Facts
  <1>2. /\ c.at = "live" /\ c.tell = Nil /\ c.writes = <<>> /\ acts' = [n |-> acts.n + 1, begun |-> acts.begun]
        /\ row' = [rev |-> 0, pend |-> NothingPending, expired |-> FALSE, by |-> Nil, age |-> row.age + 1]
        /\ ended' = done /\ conn' = [conn EXCEPT ![t] = d] /\ page' = [page EXCEPT ![t] = y]
    BY <1>1 DEF Logout, With, Live, Hearing, Counted, Written, NoRow, PageInv, PageFields
  <1>3. Core(e, row.age, row.rev, ended, acts.begun) /\ Steady(c, e) /\ Edited(c, e) /\ Pending(e) = {}
    BY <1>1, <1>2, ClearedCore
  <1>4. done \subseteq acts.begun
    BY <1>1 DEF Core
  <1> HIDE DEF c, e, y, done
  <1>5. Alike(e, d) /\ d.tell = e.tell /\ d.flying = e.flying /\ d.at = e.at /\ d.holds = FALSE /\ d.heirOf = e.heirOf /\ d.prev = e.prev
    BY <1>3 DEF Core, Formed, Shaped, Fields, FieldTypes, Alike
  <1> HIDE DEF d
  <1>6. Core(d, row.age, row.rev, ended, acts.begun)
    <2>1. Mine(d.tell, d) /\ (d.flying => d.writes # <<>>)
      BY <1>3, <1>5 DEF Mine, Core, Alike
    <2> QED BY <1>3, <1>5, <2>1, AlikeCore
  <1>7. row'.age = row.age + 1 /\ row'.rev = 0 /\ row'.by = Nil /\ row'.pend = NothingPending /\ row'.age \in Nat /\ row'.rev \in Nat
    BY <1>1, <1>2
  <1>8. RowInv(row', ended', acts.begun)
    <2>1. row' = [f \in RowFields |-> row'[f]]
      BY <1>2 DEF RowFields
    <2>2. NothingPending \in Pends /\ Named(NothingPending) = {} /\ Differ(NothingPending.nav, NothingPending.plan)
      BY DEF NothingPending, Pends, Named, Differ
    <2> QED BY <1>1, <1>2, <1>4, <1>7, <2>1, <2>2 DEF RowInv
  <1>9. ConnInv(d, row'.age, row'.rev, ended', acts.begun)
    <2>1. Core(d, row.age + 1, 0, done, acts.begun)
      <3>1. row.age + 1 > row.age /\ row.age + 1 \in Nat /\ 0 \in Nat
        BY <1>1
      <3> QED BY <1>1, <1>6, <3>1, OutdatedCore
    <2>2. d.at = "live"
      BY <1>2, <1>3, <1>5 DEF Edited
    <2> QED BY <1>2, <1>7, <2>1, <2>2 DEF ConnInv
  <1>10. Steady(c, d)
    BY <1>3, <1>5 DEF Steady, Alike
  <1>11. PageInv(y, d)
    <2>1. Mine(Nil, d) /\ d.at = c.at
      BY <1>3, <1>5 DEF Mine, Edited
    <2> QED BY <1>1, <2>1, PageStep DEF y
  <1>12. ASSUME NEW s \in Tabs PROVE HeirSeen(conn', s, row')
    BY <1>7 DEF HeirSeen
  <1>13. acts' = [n |-> acts'.n, begun |-> acts.begun] /\ row'.age > row.age
    BY <1>1, <1>2, <1>7
  <1> QED BY <1>2, <1>7, <1>8, <1>9, <1>10, <1>11, <1>12, <1>13, Beyond DEF c

-----------------------------------------------------------------------------
(* A page loads *)

\* Nobody waits for, or took over from, a page that is not live.
LEMMA Unrelated ==
  ASSUME NEW cs, cs = [s \in Tabs |-> cs[s]], NEW t \in Tabs, cs[t].at # "live", NEW d, NEW ds, ds = [cs EXCEPT ![t] = d],
         NEW s \in Tabs \ {t}, NEW r, Waits(cs, s), HeirLink(cs, s), HeirSeen(cs, s, r)
  PROVE  Waits(ds, s) /\ HeirLink(ds, s) /\ HeirSeen(ds, s, r)
  <1>1. ds[s] = cs[s] /\ \A u \in Tabs \ {t} : ds[u] = cs[u]
    OBVIOUS
  <1> QED BY <1>1 DEF Waits, HeirLink, HeirSeen

\* A page that is not live yet takes a step.
LEMMA Arriving ==
  ASSUME VisitInv, NEW t \in Tabs, conn[t].at # "live", NEW d, NEW x, conn' = [conn EXCEPT ![t] = d], page' = [page EXCEPT ![t] = x],
         row' = row, ended' = ended, acts' = acts, ConnInv(d, row.age, row.rev, ended, acts.begun), PageInv(x, d),
         Waits(conn', t), HeirLink(conn', t), HeirSeen(conn', t, row)
  PROVE  VisitInv'
  <1>1. conn' = [s \in Tabs |-> conn'[s]] /\ page' = [s \in Tabs |-> page'[s]] /\ conn'[t] = d /\ page'[t] = x
        /\ \A s \in Tabs \ {t} : conn'[s] = conn[s] /\ page'[s] = page[s]
    BY DEF VisitInv
  <1>2. RowInv(row', ended', acts'.begun) /\ acts' = [n |-> acts'.n, begun |-> acts'.begun]
    BY DEF VisitInv
  <1>3. ASSUME NEW s \in Tabs
        PROVE  ConnInv(conn'[s], row'.age, row'.rev, ended', acts'.begun) /\ PageInv(page'[s], conn'[s])
    <2>1. CASE s = t
      BY <1>1, <2>1
    <2>2. CASE s # t
      BY <1>1, <2>2 DEF VisitInv
    <2> QED BY <2>1, <2>2
  <1>4. ASSUME NEW s \in Tabs
        PROVE  Waits(conn', s) /\ HeirLink(conn', s) /\ HeirSeen(conn', s, row')
    <2>1. CASE s = t
      BY <2>1
    <2>2. CASE s # t
      <3>1. Waits(conn, s) /\ HeirLink(conn, s) /\ HeirSeen(conn, s, row) /\ conn = [u \in Tabs |-> conn[u]]
        BY DEF VisitInv
      <3> QED BY <2>2, <3>1, Unrelated
    <2> QED BY <2>1, <2>2
  <1> QED BY <1>1, <1>2, <1>3, <1>4 DEF VisitInv

\* A connection that has nothing.
LEMMA EmptyTyped ==
  ASSUME NEW d, d.holds = FALSE, d.flying = FALSE, d.lost = FALSE, d.rev = 0, d.age = 0, d.own = NoMark, d.auth = NoMark, d.plan = Nil,
         d.ends = {}, d.known = {}, d.writes = <<>>
  PROVE  FieldTypes(d)
  <1>1. NoMark \in Marks /\ d.plan \in NavTurns \cup {Nil} /\ 0 \in Nat
    BY DEF Marks, NoMark
  <1>2. d.writes \in Seq(Writes)
    OBVIOUS
  <1>3. d.ends \in SUBSET AllTurns /\ d.known \in SUBSET AllTurns /\ d.holds \in BOOLEAN /\ d.flying \in BOOLEAN /\ d.lost \in BOOLEAN
    OBVIOUS
  <1> QED BY <1>1, <1>2, <1>3 DEF FieldTypes

LEMMA LoadedKeeps ==
  ASSUME VisitInv, NEW t \in Tabs, NEW p, NEW o \in Origins, NEW mark, page[t].at = "none", Loaded(t, p, o, mark)
  PROVE  VisitInv'
  <1> DEFINE c == conn[t]
             d == [NoConn EXCEPT !.at = "open", !.up = TRUE, !.proc = p, !.asked = mark]
             x == [at |-> o, mem |-> mark, run |-> Nil]
  <1>1. Core(c, row.age, row.rev, ended, acts.begun) /\ ConnInv(c, row.age, row.rev, ended, acts.begun) /\ Formed(c) /\ PageInv(page[t], c)
        /\ conn = [s \in Tabs |-> conn[s]] /\ page = [s \in Tabs |-> page[s]] /\ acts = [n |-> acts.n, begun |-> acts.begun]
        /\ acts.begun \subseteq AllTurns /\ ended \subseteq acts.begun /\ RowInv(row, ended, acts.begun) /\ row.age \in Nat /\ row.rev \in Nat
    BY Facts
  <1>2. conn' = [conn EXCEPT ![t] = d] /\ page' = [page EXCEPT ![t] = x] /\ row' = row /\ ended' = ended /\ acts' = acts /\ c.at # "live"
    BY <1>1 DEF Loaded, With, PageInv
  <1>3. /\ Shaped(d) /\ d.at = "open" /\ d.holds = FALSE /\ d.rev = 0 /\ d.own = NoMark /\ d.auth = NoMark /\ d.plan = Nil /\ d.ends = {}
        /\ d.writes = <<>> /\ d.flying = FALSE /\ d.tell = Nil /\ d.known = {} /\ d.age = 0 /\ d.lost = FALSE /\ d.heirOf = Nil
    BY DEF NoConn, Shaped, Fields
  <1> HIDE DEF d, c
  <1>4. NoMark \in Marks /\ NoMark.nav = Nil /\ NoMark.journey = Nil
    BY DEF Marks, NoMark
  <1>5. Formed(d) /\ Blank(d)
    <2>1. <<>> \in Seq(Writes) /\ {} \in SUBSET AllTurns
      OBVIOUS
    <2>2. FieldTypes(d)
      BY <1>3, <1>4, <2>1, EmptyTyped
    <2> QED BY <1>3, <2>2 DEF Formed, Blank
  <1>6. Pending(d) = {} /\ Ordered(d.writes, Pending(d), acts.begun) /\ Untouched(d.writes, ended)
    BY <1>3, <1>4 DEF Pending, Ordered, Untouched
  <1>7. Core(d, row.age, row.rev, ended, acts.begun)
    BY <1>1, <1>3, <1>4, <1>5, <1>6 DEF Core, Mine, Differ
  <1>8. ConnInv(d, row.age, row.rev, ended, acts.begun) /\ PageInv(x, d)
    <2>1. o # "none"
      BY TurnsAreDistinct
    <2> QED BY <1>5, <1>7, <2>1 DEF ConnInv, PageInv, PageFields, Mine
  <1>9. Waits(conn', t) /\ HeirLink(conn', t) /\ HeirSeen(conn', t, row)
    <2>1. conn'[t] = d
      BY <1>1, <1>2
    <2> QED BY <1>3, <2>1 DEF Waits, HeirLink, HeirSeen
  <1> QED BY <1>2, <1>8, <1>9, Arriving DEF c

LEMMA LoadKeeps ==
  ASSUME VisitInv, NEW t \in Tabs, NEW p, NEW o \in Origins, Load(t, p, o) \/ LoadWithToken(t, p, o)
  PROVE  VisitInv'
  <1>1. page[t].at = "none"
    BY DEF Load, LoadWithToken, NextLoad
  <1>2. PICK mark : Loaded(t, p, o, mark)
    BY DEF Load, LoadWithToken
  <1> QED BY <1>1, <1>2, LoadedKeeps

\* What became of the place of a page, or of its hold on the conversation.
LEMMA MovedConn ==
  ASSUME NEW c, NEW d, NEW age, NEW rev, NEW done, NEW begun, ConnInv(c, age, rev, done, begun), Alike(c, d), d.tell = c.tell, d.flying = c.flying,
         d.at # "live" => c.at # "live", ~c.holds => ~d.holds
  PROVE  ConnInv(d, age, rev, done, begun)
  <1>1. Core(c, age, rev, done, begun) /\ Mine(d.tell, d) /\ (d.flying => d.writes # <<>>)
    BY DEF ConnInv, Core, Mine, Alike
  <1>2. Core(d, age, rev, done, begun)
    BY <1>1, AlikeCore
  <1> QED BY <1>2 DEF ConnInv, Blank, Alike

LEMMA RestoreKeeps ==
  ASSUME VisitInv, NEW t \in Tabs, Restore(t)
  PROVE  VisitInv'
  <1> DEFINE c == conn[t]
             u == owner[c.proc]
             d == [c EXCEPT !.at = "read"]
  <1>1. Core(c, row.age, row.rev, ended, acts.begun) /\ ConnInv(c, row.age, row.rev, ended, acts.begun) /\ Formed(c) /\ PageInv(page[t], c)
        /\ conn = [s \in Tabs |-> conn[s]] /\ page = [s \in Tabs |-> page[s]] /\ acts = [n |-> acts.n, begun |-> acts.begun]
        /\ acts.begun \subseteq AllTurns /\ ended \subseteq acts.begun /\ RowInv(row, ended, acts.begun) /\ row.age \in Nat /\ row.rev \in Nat
    BY Facts
  <1>2. c.at = "open" /\ row' = row /\ ended' = ended /\ acts' = acts /\ page' = page /\ page' = [page EXCEPT ![t] = page[t]] /\ c.heirOf = Nil
    <2>1. HeirLink(conn, t)
      BY Facts
    <2> QED BY <1>1, <2>1 DEF Restore, Browser, HeirLink
  <1>3. CASE u \notin Controls(c.proc) \ {t}
    <2>1. conn' = [conn EXCEPT ![t] = d] /\ conn'[t] = d
      BY <1>1, <1>3 DEF Restore, With
    <2> HIDE DEF c, u
    <2>2. Alike(c, d) /\ d.tell = c.tell /\ d.flying = c.flying /\ d.at = "read" /\ d.holds = c.holds /\ d.heirOf = c.heirOf
      BY <1>1 DEF Formed, Shaped, Fields, FieldTypes, Alike
    <2> HIDE DEF d
    <2>3. ConnInv(d, row.age, row.rev, ended, acts.begun)
      BY <1>1, <1>2, <2>2, MovedConn
    <2>4. PageInv(page[t], d)
      BY <1>1, <1>2, <2>2 DEF PageInv, Mine, Alike
    <2>5. Waits(conn', t) /\ HeirLink(conn', t) /\ HeirSeen(conn', t, row)
      BY <1>2, <2>1, <2>2 DEF Waits, HeirLink, HeirSeen
    <2> QED BY <1>2, <2>1, <2>3, <2>4, <2>5, Arriving DEF c
  <1>4. CASE u \in Controls(c.proc) \ {t}
    <2> DEFINE b == conn[u]
               heir == IF b.holds THEN u ELSE Nil
               e == [c EXCEPT !.at = "await", !.prev = u, !.heirOf = heir]
               f == [b EXCEPT !.holds = FALSE]
    <2>1. u \in Tabs /\ u # t
      BY <1>4 DEF Controls
    <2>2. ConnInv(b, row.age, row.rev, ended, acts.begun) /\ Formed(b) /\ PageInv(page[u], b)
      BY <2>1, Facts
    <2>3. conn' = [s \in Tabs |-> IF s = t THEN e ELSE IF s = u THEN f ELSE conn[s]]
      <3>1. conn' = [conn EXCEPT ![u].holds = FALSE, ![t].at = "await", ![t].prev = u, ![t].heirOf = IF conn[u].holds THEN u ELSE Nil]
        BY <1>4 DEF Restore
      <3>2. Shaped(c)
        BY <1>1 DEF Formed
      <3> QED BY <1>1, <2>1, <3>1, <3>2 DEF Shaped, Fields
    <2> HIDE DEF b, c, u, heir
    <2>4. Alike(c, e) /\ e.tell = c.tell /\ e.flying = c.flying /\ e.at = "await" /\ e.holds = c.holds /\ e.heirOf = heir /\ e.prev = u
      BY <1>1 DEF Formed, Shaped, Fields, FieldTypes, Alike
    <2>5. Alike(b, f) /\ f.tell = b.tell /\ f.flying = b.flying /\ f.at = b.at /\ f.holds = FALSE /\ f.heirOf = b.heirOf /\ f.prev = b.prev
      BY <2>2 DEF Formed, Shaped, Fields, FieldTypes, Alike
    <2> HIDE DEF e, f
    <2>6. ConnInv(e, row.age, row.rev, ended, acts.begun) /\ PageInv(page[t], e)
      <3>1. ConnInv(e, row.age, row.rev, ended, acts.begun)
        BY <1>1, <1>2, <2>4, MovedConn
      <3> QED BY <1>1, <1>2, <2>4, <3>1 DEF PageInv, Mine, Alike
    <2>7. ConnInv(f, row.age, row.rev, ended, acts.begun) /\ PageInv(page[u], f)
      <3>1. ConnInv(f, row.age, row.rev, ended, acts.begun)
        BY <2>2, <2>5, MovedConn
      <3> QED BY <2>2, <2>5, <3>1 DEF PageInv, Mine, Alike
    <2>8. conn'[t] = e /\ conn'[u] = f /\ \A s \in Tabs \ {t, u} : conn'[s] = conn[s]
      BY <2>1, <2>3
    <2>9. ASSUME NEW s \in Tabs
          PROVE  ConnInv(conn'[s], row.age, row.rev, ended, acts.begun) /\ PageInv(page[s], conn'[s])
      <3>1. ConnInv(conn[s], row.age, row.rev, ended, acts.begun) /\ PageInv(page[s], conn[s])
        BY Facts
      <3> QED BY <2>6, <2>7, <2>8, <3>1
    <2>10. ASSUME NEW s \in Tabs
           PROVE  Waits(conn', s) /\ HeirLink(conn', s) /\ HeirSeen(conn', s, row)
      <3>1. Waits(conn, s) /\ HeirLink(conn, s) /\ HeirSeen(conn, s, row)
        BY Facts
      <3>2. CASE s = t
        <4>1. b.holds => b.at = "live"
          BY <2>2 DEF ConnInv, Blank
        <4>2. heir # Nil => b.holds /\ heir = u
          BY DEF heir
        <4> QED BY <2>1, <2>4, <2>5, <2>8, <3>2, <4>1, <4>2 DEF Waits, HeirLink, HeirSeen
      <3>3. CASE s # t
        <4>1. conn'[s].at = conn[s].at /\ conn'[s].prev = conn[s].prev /\ conn'[s].heirOf = conn[s].heirOf /\ conn'[s].rev = conn[s].rev
          BY <2>1, <2>5, <2>8, <3>3 DEF Alike, b
        <4>2. ASSUME NEW v \in Tabs, conn[v].at = "live", ~conn[v].holds
              PROVE  conn'[v].at = "live" /\ ~conn'[v].holds /\ conn'[v].writes = conn[v].writes
          <5>1. v # t
            BY <1>2, <4>2 DEF c
          <5> QED BY <2>1, <2>5, <2>8, <4>2, <5>1 DEF Alike, b
        <4> QED BY <3>1, <4>1, <4>2 DEF Waits, HeirLink, HeirSeen
      <3> QED BY <3>2, <3>3
    <2>11. conn' = [s \in Tabs |-> conn'[s]] /\ page' = [s \in Tabs |-> page'[s]]
      BY <1>1, <1>2, <2>3
    <2> QED BY <1>1, <1>2, <2>9, <2>10, <2>11 DEF VisitInv
  <1> QED BY <1>3, <1>4

LEMMA ClaimKeeps ==
  ASSUME VisitInv, NEW t \in Tabs, Claim(t)
  PROVE  VisitInv'
  <1> DEFINE c == conn[t]
             u == c.prev
             b == conn[u]
             e == [c EXCEPT !.at = "read"]
             f == [b EXCEPT !.up = FALSE]
             y == [page[u] EXCEPT !.run = Nil]
  <1>1. ConnInv(c, row.age, row.rev, ended, acts.begun) /\ Formed(c) /\ PageInv(page[t], c) /\ acts = [n |-> acts.n, begun |-> acts.begun]
        /\ conn = [s \in Tabs |-> conn[s]] /\ page = [s \in Tabs |-> page[s]] /\ RowInv(row, ended, acts.begun) /\ Waits(conn, t) /\ HeirLink(conn, t)
    BY Facts
  <1>2. c.at = "await" /\ row' = row /\ ended' = ended /\ acts' = acts /\ b.writes = <<>>
    BY DEF Claim, Written
  <1>3. u \in Tabs /\ u # t
    BY <1>1, <1>2 DEF Waits
  <1>4. ConnInv(b, row.age, row.rev, ended, acts.begun) /\ Formed(b) /\ PageInv(page[u], b)
    BY <1>3, Facts
  <1>5. conn' = [s \in Tabs |-> IF s = t THEN e ELSE IF s = u THEN f ELSE conn[s]] /\ page' = [page EXCEPT ![u] = y]
    BY <1>1, <1>3 DEF Claim
  <1> HIDE DEF c, u, b
  <1>6. Alike(c, e) /\ e.tell = c.tell /\ e.flying = c.flying /\ e.at = "read" /\ e.holds = c.holds /\ e.heirOf = c.heirOf
    BY <1>1 DEF Formed, Shaped, Fields, FieldTypes, Alike
  <1>7. Alike(b, f) /\ f.tell = b.tell /\ f.flying = b.flying /\ f.at = b.at /\ f.holds = b.holds /\ f.heirOf = b.heirOf /\ f.prev = b.prev
    BY <1>4 DEF Formed, Shaped, Fields, FieldTypes, Alike
  <1> HIDE DEF e, f
  <1>8. ConnInv(e, row.age, row.rev, ended, acts.begun) /\ PageInv(page[t], e)
    <2>1. ConnInv(e, row.age, row.rev, ended, acts.begun)
      BY <1>1, <1>2, <1>6, MovedConn
    <2>2. page[t].at # "none"
      BY <1>1, <1>2 DEF PageInv
    <2> QED BY <1>1, <1>6, <2>1, <2>2 DEF PageInv, Mine, Alike
  <1>9. ConnInv(f, row.age, row.rev, ended, acts.begun) /\ PageInv(y, f)
    <2>1. ConnInv(f, row.age, row.rev, ended, acts.begun)
      BY <1>4, <1>7, MovedConn
    <2>2. Mine(Nil, f)
      BY DEF Mine
    <2> QED BY <1>4, <1>7, <2>1, <2>2, PageStep
  <1> HIDE DEF y
  <1>10. /\ conn'[t] = e /\ conn'[u] = f /\ page'[u] = y /\ page'[t] = page[t]
         /\ \A s \in Tabs \ {t, u} : conn'[s] = conn[s] /\ page'[s] = page[s]
         /\ conn' = [s \in Tabs |-> conn'[s]] /\ page' = [s \in Tabs |-> page'[s]]
    BY <1>1, <1>3, <1>5
  <1>11. ASSUME NEW s \in Tabs
         PROVE  ConnInv(conn'[s], row.age, row.rev, ended, acts.begun) /\ PageInv(page'[s], conn'[s])
    <2>1. ConnInv(conn[s], row.age, row.rev, ended, acts.begun) /\ PageInv(page[s], conn[s])
      BY Facts
    <2> QED BY <1>8, <1>9, <1>10, <2>1
  <1>12. ASSUME NEW s \in Tabs
         PROVE  Waits(conn', s) /\ HeirLink(conn', s) /\ HeirSeen(conn', s, row)
    <2>1. Waits(conn, s) /\ HeirLink(conn, s) /\ HeirSeen(conn, s, row)
      BY Facts
    <2>2. ASSUME NEW v \in Tabs, conn[v].at = "live", ~conn[v].holds
          PROVE  conn'[v].at = "live" /\ ~conn'[v].holds /\ conn'[v].writes = conn[v].writes
      <3>1. v # t
        BY <1>2, <2>2 DEF c
      <3> QED BY <1>3, <1>7, <1>10, <2>2, <3>1 DEF Alike, b
    <2>3. CASE s = t
      <3>1. c.heirOf # Nil => c.heirOf = u /\ u \in Tabs \ {t} /\ conn[u].at = "live" /\ ~conn[u].holds
        BY <1>1, <1>2 DEF HeirLink, c, u
      <3>2. c.heirOf # Nil => conn'[u].at = "live" /\ ~conn'[u].holds /\ conn'[u].writes = <<>>
        BY <1>2, <2>2, <3>1 DEF b
      <3> QED BY <1>6, <1>10, <2>3, <3>1, <3>2 DEF Waits, HeirLink, HeirSeen
    <2>4. CASE s # t
      <3>1. conn'[s].at = conn[s].at /\ conn'[s].prev = conn[s].prev /\ conn'[s].heirOf = conn[s].heirOf /\ conn'[s].rev = conn[s].rev
        BY <1>3, <1>7, <1>10, <2>4 DEF Alike, b
      <3> QED BY <2>1, <2>2, <3>1 DEF Waits, HeirLink, HeirSeen
    <2> QED BY <2>3, <2>4
  <1> QED BY <1>1, <1>2, <1>10, <1>11, <1>12 DEF VisitInv

Taken(c) == [c EXCEPT !.holds = TRUE, !.rev = IF Present THEN row.rev ELSE 0,
                      !.auth = IF Present THEN [journey |-> row.pend.journey, nav |-> row.pend.nav] ELSE @,
                      !.plan = IF Present THEN row.pend.plan ELSE @, !.age = row.age]
\* A page that takes the record over has pending what the record has.
LEMMA AdoptedCore ==
  ASSUME VisitInv, NEW t \in Tabs, conn[t].at = "read", NEW c, c = Taken(conn[t])
  PROVE  /\ Core(c, row.age, row.rev, ended, acts.begun) /\ Shaped(c)
         /\ c.at = "read" /\ c.heirOf = conn[t].heirOf /\ c.prev = conn[t].prev /\ c.own = NoMark /\ (Present => c.rev = row.rev)
  <1> DEFINE b == conn[t]
             rev == IF Present THEN row.rev ELSE 0
             auth == IF Present THEN [journey |-> row.pend.journey, nav |-> row.pend.nav] ELSE b.auth
             plan == IF Present THEN row.pend.plan ELSE b.plan
  <1>1. ConnInv(b, row.age, row.rev, ended, acts.begun) /\ Core(b, row.age, row.rev, ended, acts.begun) /\ Formed(b) /\ RowInv(row, ended, acts.begun)
        /\ row.age \in Nat /\ row.rev \in Nat
    BY Facts
  <1>2. Blank(b) /\ b.at = "read"
    BY <1>1 DEF ConnInv
  <1>3. c = [b EXCEPT !.holds = TRUE, !.rev = rev, !.auth = auth, !.plan = plan, !.age = row.age]
    BY <1>1 DEF Taken, Formed, Shaped, Fields
  <1>4. /\ rev \in Nat /\ rev <= row.rev /\ (Present => rev = row.rev)
        /\ auth \in Marks /\ plan \in NavTurns \cup {Nil}
        /\ {auth.journey, auth.nav, plan} \ {Nil} \subseteq Named(row.pend) /\ Differ(auth.nav, plan)
    <2>1. CASE Present
      <3>1. row.pend \in Pends /\ Differ(row.pend.nav, row.pend.plan)
        BY <1>1 DEF RowInv
      <3> QED BY <1>1, <2>1, <3>1 DEF Pends, Marks, Named
    <2>2. CASE ~Present
      <3>1. NoMark \in Marks /\ NoMark.nav = Nil /\ NoMark.journey = Nil /\ auth = NoMark /\ plan = Nil
        BY <1>2, <2>2 DEF NoMark, Marks, Blank
      <3> QED BY <1>1, <2>2, <3>1 DEF Differ
    <2> QED BY <2>1, <2>2
  <1> HIDE DEF b, rev, auth, plan
  <1>5. /\ Shaped(c) /\ c.at = b.at /\ c.heirOf = b.heirOf /\ c.prev = b.prev /\ c.own = b.own /\ c.auth = auth /\ c.plan = plan /\ c.rev = rev
        /\ c.age = row.age /\ c.ends = b.ends /\ c.writes = b.writes /\ c.tell = b.tell /\ c.known = b.known /\ c.flying = b.flying
        /\ c.holds = TRUE /\ c.lost = b.lost
    BY <1>1, <1>3 DEF Formed, Shaped, Fields
  <1>6. Formed(c)
    <2>1. FieldTypes(b)
      BY <1>1 DEF Formed
    <2>2. FieldTypes(c)
      BY <1>1, <1>4, <1>5, <2>1 DEF FieldTypes
    <2> QED BY <1>5, <2>2 DEF Formed
  <1>7. Pending(c) \subseteq Named(row.pend) /\ c.own = NoMark /\ NoMark.nav = Nil /\ c.ends = {} /\ c.known = {} /\ c.writes = <<>> /\ c.tell = Nil
    BY <1>2, <1>4, <1>5 DEF Pending, Blank, NoMark
  <1>8. Pending(c) \subseteq acts.begun /\ Pending(c) \cap ended = {}
    BY <1>1, <1>7 DEF RowInv
  <1>9. Ordered(c.writes, Pending(c), acts.begun) /\ Untouched(c.writes, ended) /\ Mine(c.tell, c)
    BY <1>7 DEF Ordered, Untouched, Mine
  <1>10. (c.flying => c.writes # <<>>) /\ Differ(c.own.nav, c.auth.nav) /\ Differ(c.own.nav, c.plan) /\ Differ(c.auth.nav, c.plan)
    BY <1>1, <1>4, <1>5, <1>7 DEF Core, Differ
  <1>11. c.age <= row.age /\ (c.age = row.age => c.rev <= row.rev)
    BY <1>1, <1>4, <1>5
  <1>12. Core(c, row.age, row.rev, ended, acts.begun)
    BY <1>6, <1>7, <1>8, <1>9, <1>10, <1>11 DEF Core
  <1> QED BY <1>2, <1>4, <1>5, <1>7, <1>12 DEF b

LEMMA AdoptKeeps ==
  ASSUME VisitInv, NEW t \in Tabs, Adopt(t)
  PROVE  VisitInv'
  <1> DEFINE b == conn[t]
             c == Taken(b)
  <1>1. /\ b.at = "read" /\ row' = row /\ ended' = ended /\ acts' = acts /\ page' = page
        /\ conn' \in {[conn EXCEPT ![t] = [c EXCEPT !.at = "live", !.asked = NoMark]], [conn EXCEPT ![t] = [Save(c, TRUE) EXCEPT !.at = "live"]]}
    BY DEF Adopt, With, Browser, Taken
  <1>0. c = Taken(conn[t])
    OBVIOUS
  <1> HIDE DEF c
  <1>2. /\ Core(c, row.age, row.rev, ended, acts.begun) /\ Shaped(c) /\ c.at = "read" /\ c.heirOf = b.heirOf /\ c.prev = b.prev
        /\ c.own = NoMark /\ (Present => c.rev = row.rev)
    BY <1>0, <1>1, AdoptedCore
  <1>3. Core(Save(c, TRUE), row.age, row.rev, ended, acts.begun) /\ Same(c, Save(c, TRUE))
    BY <1>2, Saved
  <1>4. PICK e : /\ Core(e, row.age, row.rev, ended, acts.begun) /\ e.heirOf = b.heirOf /\ e.prev = b.prev /\ e.own = NoMark /\ (Present => e.rev = row.rev)
                 /\ conn' \in {[conn EXCEPT ![t] = [e EXCEPT !.at = "live", !.asked = NoMark]], [conn EXCEPT ![t] = [e EXCEPT !.at = "live"]]}
    BY <1>1, <1>2, <1>3 DEF Same
  <1> HIDE DEF b
  <1>5. PICK d : d \in {[e EXCEPT !.at = "live", !.asked = NoMark], [e EXCEPT !.at = "live"]} /\ conn' = [conn EXCEPT ![t] = d]
    BY <1>4
  <1>6. Alike(e, d) /\ d.tell = e.tell /\ d.flying = e.flying /\ d.at = "live" /\ d.heirOf = e.heirOf /\ d.prev = e.prev
    BY <1>4, <1>5 DEF Core, Formed, Shaped, Fields, FieldTypes, Alike
  <1>7. ConnInv(d, row.age, row.rev, ended, acts.begun)
    <2>1. Mine(d.tell, d) /\ (d.flying => d.writes # <<>>)
      BY <1>4, <1>6 DEF Core, Mine, Alike
    <2>2. Core(d, row.age, row.rev, ended, acts.begun)
      BY <1>4, <1>6, <2>1, AlikeCore
    <2> QED BY <1>6, <2>2 DEF ConnInv
  <1>8. /\ ConnInv(b, row.age, row.rev, ended, acts.begun) /\ RowInv(row, ended, acts.begun) /\ PageInv(page[t], b) /\ HeirLink(conn, t)
        /\ conn = [s \in Tabs |-> conn[s]] /\ page = [s \in Tabs |-> page[s]]
    BY Facts DEF b
  <1>9. PageInv(page[t], d)
    <2>1. b.own = NoMark /\ NoMark.journey = Nil /\ NoMark.nav = Nil
      BY <1>1, <1>8 DEF ConnInv, Blank, NoMark
    <2>2. page[t].at # "none" /\ page[t].run = Nil
      BY <1>1, <1>8, <2>1, TurnsAreDistinct DEF PageInv, Mine
    <2> QED BY <1>8, <2>2 DEF PageInv, Mine
  <1>10. Waits(conn', t) /\ HeirLink(conn', t) /\ HeirSeen(conn', t, row)
    <2>1. conn'[t] = d /\ \A u \in Tabs \ {t} : conn'[u] = conn[u]
      BY <1>5, <1>8
    <2>2. d.rev = e.rev /\ d.heirOf = b.heirOf
      BY <1>4, <1>6 DEF Alike
    <2>3. row.by # Nil /\ ~row.expired => d.rev = row.rev
      BY <1>4, <1>8, <2>2 DEF RowInv, Present
    <2>4. HeirLink(conn', t)
      BY <1>1, <1>6, <1>8, <2>1, <2>2 DEF HeirLink, b
    <2> QED BY <1>6, <2>1, <2>2, <2>3, <2>4 DEF Waits, HeirSeen
  <1>11. page' = [page EXCEPT ![t] = page[t]] /\ conn[t].at # "live"
    BY <1>1, <1>8 DEF b
  <1> QED BY <1>1, <1>5, <1>7, <1>9, <1>10, <1>11, Arriving

LEMMA ExpireKeeps ==
  ASSUME VisitInv, RecordExpires
  PROVE  VisitInv'
  <1>1. /\ row = [f \in RowFields |-> row[f]] /\ RowInv(row, ended, acts.begun) /\ acts = [n |-> acts.n, begun |-> acts.begun]
        /\ row' = [row EXCEPT !.expired = TRUE] /\ conn' = conn /\ page' = page /\ ended' = ended /\ acts' = [acts EXCEPT !.n = @ + 1]
    BY DEF VisitInv, RowInv, RecordExpires, Counted, Browser
  <1>2. /\ row'.rev = row.rev /\ row'.age = row.age /\ row'.pend = row.pend /\ row'.by = row.by /\ row'.expired = TRUE
        /\ row' = [f \in RowFields |-> row'[f]]
    BY <1>1 DEF RowFields
  <1>3. acts'.begun = acts.begun /\ acts' = [n |-> acts'.n, begun |-> acts'.begun]
    BY <1>1
  <1>4. RowInv(row', ended', acts'.begun)
    BY <1>1, <1>2, <1>3 DEF RowInv
  <1>5. \A t \in Tabs : HeirSeen(conn', t, row')
    BY <1>2 DEF HeirSeen
  <1> QED BY <1>1, <1>2, <1>3, <1>4, <1>5 DEF VisitInv, Waits, HeirLink

-----------------------------------------------------------------------------
LEMMA VisitInvInit == VisitInit => VisitInv
  <1> SUFFICES ASSUME VisitInit PROVE VisitInv
    OBVIOUS
  <1>1. /\ row = [rev |-> 0, pend |-> NothingPending, expired |-> FALSE, by |-> Nil, age |-> 0] /\ conn = [t \in Tabs |-> NoConn]
        /\ page = [t \in Tabs |-> Unloaded] /\ ended = {} /\ acts = [n |-> 0, begun |-> {}]
    BY DEF VisitInit, NoRow
  <1>2. NothingPending \in Pends /\ Named(NothingPending) = {} /\ Differ(NothingPending.nav, NothingPending.plan)
    BY DEF NothingPending, Pends, Named, Differ
  <1>3. RowInv(row, ended, acts.begun)
    BY <1>1, <1>2 DEF RowInv, RowFields
  <1> DEFINE d == NoConn
  <1>4. /\ Shaped(d) /\ d.at = "none" /\ d.holds = FALSE /\ d.rev = 0 /\ d.own = NoMark /\ d.auth = NoMark /\ d.plan = Nil /\ d.ends = {}
        /\ d.writes = <<>> /\ d.flying = FALSE /\ d.tell = Nil /\ d.known = {} /\ d.age = 0 /\ d.lost = FALSE /\ d.heirOf = Nil
    BY DEF NoConn, Shaped, Fields
  <1> HIDE DEF d
  <1>5. NoMark \in Marks /\ NoMark.nav = Nil /\ NoMark.journey = Nil /\ <<>> \in Seq(Writes) /\ {} \in SUBSET AllTurns
    BY DEF Marks, NoMark
  <1>6. Formed(d) /\ Blank(d)
    <2>1. FieldTypes(d)
      BY <1>4, <1>5, EmptyTyped
    <2> QED BY <1>4, <2>1 DEF Formed, Blank
  <1>7. Pending(d) = {} /\ Ordered(d.writes, Pending(d), {}) /\ Untouched(d.writes, {})
    BY <1>4, <1>5 DEF Pending, Ordered, Untouched
  <1>8. ConnInv(d, 0, 0, {}, {})
    BY <1>4, <1>5, <1>6, <1>7 DEF ConnInv, Core, Mine, Differ
  <1>9. PageInv(Unloaded, d)
    BY <1>4 DEF Unloaded, PageInv, PageFields, Mine
  <1>10. \A t \in Tabs : conn[t] = d /\ page[t] = Unloaded
    BY <1>1 DEF d
  <1>11. \A t \in Tabs : Waits(conn, t) /\ HeirLink(conn, t) /\ HeirSeen(conn, t, row)
    BY <1>4, <1>10 DEF Waits, HeirLink, HeirSeen
  <1>12. row.age = 0 /\ row.rev = 0 /\ acts.begun = {} /\ conn = [t \in Tabs |-> conn[t]] /\ page = [t \in Tabs |-> page[t]]
         /\ acts = [n |-> acts.n, begun |-> acts.begun]
    BY <1>1
  <1> QED BY <1>1, <1>3, <1>8, <1>9, <1>10, <1>11, <1>12 DEF VisitInv

LEMMA VisitInvNext == VisitInv /\ [VisitNext]_visitVars => VisitInv'
  <1> SUFFICES ASSUME VisitInv, [VisitNext]_visitVars PROVE VisitInv'
    OBVIOUS
  <1>1. CASE RecordExpires
    BY <1>1, ExpireKeeps
  <1>2. ASSUME NEW t \in Tabs, \/ StartWrite(t) \/ PutRecord(t) \/ Restore(t) \/ Claim(t) \/ Adopt(t) \/ ResumeJourney(t) \/ FinishNavigation(t)
        PROVE  VisitInv'
    BY <1>2, StartWriteKeeps, PutKeeps, RestoreKeeps, ClaimKeeps, AdoptKeeps, ResumeKeeps, FinishKeeps
  <1>3. ASSUME NEW t \in Tabs, Tell(t) \/ Chat(t) \/ StopAll(t) \/ Logout(t) \/ Result(t) \/ Leave(t) \/ NavigateAway(t)
        PROVE  VisitInv'
    BY <1>3, TellKeeps, ChatKeeps, StopKeeps, LogoutKeeps, ResultKeeps, LeaveKeeps, NavigateKeeps
  <1>4. ASSUME NEW t \in Tabs, NEW task \in JourneyTurns \cup NavTurns, Run(t, task)
        PROVE  VisitInv'
    BY <1>4, RunKeeps DEF AllTurns
  <1>5. ASSUME NEW t \in Tabs, NEW p \in Procs, NEW o \in Origins, Load(t, p, o) \/ LoadWithToken(t, p, o)
        PROVE  VisitInv'
    BY <1>5, LoadKeeps
  <1>6. CASE UNCHANGED visitVars
    BY <1>6 DEF visitVars, VisitInv, Waits, HeirLink, HeirSeen
  <1> QED BY <1>1, <1>2, <1>3, <1>4, <1>5, <1>6 DEF VisitNext

-----------------------------------------------------------------------------
(* The property *)

\* What starts on a page was told to it or believed.
LEMMA StartsKnown ==
  ASSUME VisitInv, [VisitNext]_visitVars, NEW t \in Tabs, page'[t].run # page[t].run, page'[t].run # Nil
  PROVE  \/ Tell(t) /\ page'[t].run = conn[t].tell
         \/ page'[t].run = conn[t].auth.journey
  <1>1. page = [s \in Tabs |-> page[s]] /\ \A s \in Tabs : page[s] = [f \in PageFields |-> page[s][f]]
    BY DEF VisitInv, PageInv
  <1>2. ASSUME NEW x, NEW s \in Tabs, page' = [page EXCEPT ![s] = x], x.run # page[s].run => x.run = Nil
        PROVE  FALSE
    BY <1>1, <1>2
  <1>3. ASSUME page' = page PROVE FALSE
    BY <1>3
  <1>4. CASE RecordExpires \/ UNCHANGED visitVars
    BY <1>3, <1>4 DEF RecordExpires, Browser, visitVars
  <1>5. ASSUME NEW s \in Tabs, StartWrite(s) \/ Restore(s) \/ Adopt(s) \/ Leave(s) \/ \E task \in JourneyTurns \cup NavTurns : Run(s, task)
        PROVE  FALSE
    BY <1>3, <1>5 DEF StartWrite, Restore, Adopt, Leave, Run, Browser
  <1>6. ASSUME NEW s \in Tabs, PutRecord(s) PROVE FALSE
    <2> DEFINE x == [page[s] EXCEPT !.run = Nil]
    <2>1. page' = page \/ page' = [page EXCEPT ![s] = x]
      BY <1>6 DEF PutRecord
    <2>2. x.run = Nil
      BY <1>1 DEF PageFields
    <2> QED BY <1>2, <1>3, <2>1, <2>2
  <1>7. ASSUME NEW s \in Tabs, Claim(s) PROVE FALSE
    <2> DEFINE u == conn[s].prev
               x == [page[u] EXCEPT !.run = Nil]
    <2>1. page' = [page EXCEPT ![u] = x] /\ conn[s].at = "await"
      BY <1>7 DEF Claim
    <2>0. Waits(conn, s)
      BY Facts
    <2>3. u \in Tabs
      BY <2>0, <2>1 DEF Waits
    <2>2. x.run = Nil
      BY <1>1, <2>3 DEF PageFields
    <2> QED BY <1>2, <2>1, <2>2, <2>3
  <1>8. ASSUME NEW s \in Tabs, NEW mark, Mark(s, mark) PROVE FALSE
    <2> DEFINE x == [page[s] EXCEPT !.mem = mark]
    <2>1. page' = [page EXCEPT ![s] = x]
      BY <1>8 DEF Mark
    <2>2. x.run = page[s].run
      BY <1>1 DEF PageFields
    <2> QED BY <1>2, <2>1, <2>2
  <1>9. ASSUME NEW s \in Tabs, FinishNavigation(s) \/ Chat(s) PROVE FALSE
    BY <1>8, <1>9 DEF FinishNavigation, Chat
  <1>10. ASSUME NEW s \in Tabs, StopAll(s) \/ Result(s) \/ Logout(s) \/ NavigateAway(s) PROVE FALSE
    <2>1. PICK m : page' = [page EXCEPT ![s] = [page[s] EXCEPT !.run = Nil, !.mem = m]]
      <3>1. CASE StopAll(s) \/ Result(s)
        <4>0. page' = [page EXCEPT ![s].run = Nil, ![s].mem.journey = Nil]
          BY <3>1 DEF StopAll, Result
        <4>1. page' = [page EXCEPT ![s] = [page[s] EXCEPT !.run = Nil, !.mem = [page[s].mem EXCEPT !.journey = Nil]]]
          BY <1>1, <4>0 DEF PageFields
        <4> QED BY <4>1
      <3>2. CASE Logout(s)
        BY <3>2 DEF Logout
      <3>3. CASE NavigateAway(s)
        <4> DEFINE m == IF page[s].run \in JourneyTurns THEN [page[s].mem EXCEPT !.journey = page[s].run] ELSE [journey |-> Nil, nav |-> page[s].run]
        <4>1. page' = [page EXCEPT ![s] = [page[s] EXCEPT !.run = Nil, !.mem = m]]
          BY <1>1, <3>3 DEF NavigateAway, PageFields
        <4> QED BY <4>1
      <3> QED BY <1>10, <3>1, <3>2, <3>3
    <2> DEFINE x == [page[s] EXCEPT !.run = Nil, !.mem = m]
    <2>2. x.run = Nil
      BY <1>1 DEF PageFields
    <2> QED BY <1>2, <2>1, <2>2
  <1>11. ASSUME NEW s \in Tabs, NEW p \in Procs, NEW o \in Origins, Load(s, p, o) \/ LoadWithToken(s, p, o) PROVE FALSE
    <2>1. PICK mark : page' = [page EXCEPT ![s] = [at |-> o, mem |-> mark, run |-> Nil]]
      BY <1>11 DEF Load, LoadWithToken, Loaded
    <2> QED BY <1>2, <2>1
  <1>12. ASSUME NEW s \in Tabs, Tell(s)
         PROVE  Tell(t) /\ page'[t].run = conn[t].tell
    <2>1. page' = page \/ page' = [page EXCEPT ![s].run = conn[s].tell]
      BY <1>12 DEF Tell
    <2>2. s = t /\ page' = [page EXCEPT ![s].run = conn[s].tell]
      BY <1>1, <1>3, <2>1
    <2> QED BY <1>1, <1>12, <2>2 DEF PageFields
  <1>13. ASSUME NEW s \in Tabs, ResumeJourney(s)
         PROVE  page'[t].run = conn[t].auth.journey
    <2>0. Formed(conn[s])
      BY Facts
    <2>1. CASE Believed(conn[s].auth, conn[s].asked.journey) /\ page' = [page EXCEPT ![s].run = conn[s].asked.journey]
      <3>1. s = t
        BY <1>1, <2>1
      <3> QED BY <1>1, <2>1, <3>1 DEF Believed, PageFields
    <2>2. CASE Mark(s, [page[s].mem EXCEPT !.journey = Nil])
      BY <1>8, <2>2
    <2>3. [conn[s] EXCEPT !.asked.journey = Nil].auth = conn[s].auth
      BY <2>0 DEF Formed, Shaped, Fields
    <2> QED BY <1>13, <2>1, <2>2, <2>3 DEF ResumeJourney
  <1> QED BY <1>4, <1>5, <1>6, <1>7, <1>9, <1>10, <1>11, <1>12, <1>13 DEF VisitNext

LEMMA NothingEnded ==
  ASSUME VisitInv, [VisitNext]_visitVars
  PROVE  NothingEndedStarts
  <1>1. ASSUME NEW t \in Tabs, page'[t].run # page[t].run, page'[t].run # Nil
        PROVE  page'[t].run \notin conn[t].known
    <2>1. Core(conn[t], row.age, row.rev, ended, acts.begun)
      BY Facts
    <2>2. page'[t].run = conn[t].tell \/ page'[t].run = conn[t].auth.journey
      BY <1>1, StartsKnown
    <2>3. page'[t].run \in Pending(conn[t])
      BY <1>1, <2>1, <2>2 DEF Core, Mine, Pending
    <2> QED BY <2>1, <2>3 DEF Core
  <1>2. DOMAIN page = Tabs
    BY DEF VisitInv
  <1> QED BY <1>1, <1>2 DEF NothingEndedStarts

\* Saving and clearing leave alone whether the conversation was lost.
LEMMA KeepsLost ==
  ASSUME NEW c, Shaped(c), NEW wait
  PROVE  Save(c, wait).lost = c.lost /\ Shaped(Save(c, wait)) /\ Cleared(c).lost = c.lost /\ Shaped(Cleared(c))
  BY DEF Save, Cleared, Shaped, Fields

LEMMA OnlyPutLoses ==
  ASSUME VisitInv, [VisitNext]_visitVars, NEW t \in Tabs, conn'[t].lost, ~conn[t].lost
  PROVE  PutRecord(t) /\ row.rev # conn[t].rev
  <1>1. conn = [s \in Tabs |-> conn[s]] /\ \A s \in Tabs : Formed(conn[s]) /\ Shaped(conn[s])
    BY Facts DEF Formed
  <1>2. ASSUME NEW s \in Tabs, NEW d, conn' = [conn EXCEPT ![s] = d], d.lost = conn[s].lost \/ ~d.lost PROVE FALSE
    BY <1>1, <1>2
  <1>3. ASSUME conn' = conn PROVE FALSE
    BY <1>3
  <1>4. ASSUME NEW s \in Tabs, NEW c, NEW wait, Shaped(c), c.lost = conn[s].lost, conn' = [conn EXCEPT ![s] = Save(c, wait)] PROVE FALSE
    BY <1>2, <1>4, KeepsLost
  <1>5. CASE RecordExpires \/ UNCHANGED visitVars
    BY <1>3, <1>5 DEF RecordExpires, visitVars
  <1>6. ASSUME NEW s \in Tabs, StartWrite(s) PROVE FALSE
    <2>1. [conn[s] EXCEPT !.flying = TRUE].lost = conn[s].lost /\ Dropped(conn[s]).lost = conn[s].lost
      BY <1>1 DEF Dropped, Shaped, Fields
    <2> QED BY <1>2, <1>6, <2>1 DEF StartWrite, With
  <1>7. ASSUME NEW s \in Tabs, PutRecord(s)
        PROVE  PutRecord(t) /\ row.rev # conn[t].rev
    <2> DEFINE known == IF conn[s].age = row.age THEN ended' ELSE conn[s].known
               d == [Dropped(conn[s]) EXCEPT !.rev = @ + 1, !.known = known]
    <2>1. CASE Matches(conn[s].rev)
      <3>1. conn' = [conn EXCEPT ![s] = d]
        <4>1. [Dropped(conn[s]) EXCEPT !.rev = @ + 1, !.known = IF conn[s].age = row.age THEN ended' ELSE @] = d
          BY <1>1 DEF Dropped, Shaped, Fields
        <4> QED BY <1>7, <2>1, <4>1 DEF PutRecord, With
      <3> HIDE DEF known
      <3>2. d.lost = conn[s].lost
        BY <1>1 DEF Dropped, Shaped, Fields
      <3> QED BY <1>2, <3>1, <3>2
    <2>2. CASE ~Matches(conn[s].rev)
      <3>1. conn' = [conn EXCEPT ![s] = [Dropped(conn[s]) EXCEPT !.holds = FALSE, !.lost = TRUE, !.up = FALSE]]
        BY <1>7, <2>2 DEF PutRecord, With
      <3>2. s = t
        BY <1>1, <3>1
      <3> QED BY <1>7, <2>2, <3>2 DEF Matches
    <2> QED BY <2>1, <2>2
  <1>8. ASSUME NEW s \in Tabs, Restore(s) PROVE FALSE
    <2> DEFINE u == owner[conn[s].proc]
    <2>1. CASE u \in Controls(conn[s].proc) \ {s}
      <3>0. u \in Tabs
        BY <2>1 DEF Controls
      <3>1. conn' = [conn EXCEPT ![u].holds = FALSE, ![s].at = "await", ![s].prev = u, ![s].heirOf = IF conn[u].holds THEN u ELSE Nil]
        BY <1>8, <2>1 DEF Restore
      <3> HIDE DEF u
      <3> DEFINE heir == IF conn[u].holds THEN u ELSE Nil
                 d == [conn[s] EXCEPT !.at = "await", !.prev = u, !.heirOf = heir]
                 e == [conn[u] EXCEPT !.holds = FALSE]
      <3>2. conn' = [v \in Tabs |-> IF v = s THEN d ELSE IF v = u THEN e ELSE conn[v]]
        <4>1. u # s
          BY <2>1 DEF u
        <4> QED BY <1>1, <3>0, <3>1, <4>1 DEF Shaped, Fields
      <3> HIDE DEF heir
      <3>3. d.lost = conn[s].lost /\ e.lost = conn[u].lost
        BY <1>1, <3>0 DEF Shaped, Fields
      <3> HIDE DEF d, e
      <3> QED BY <3>2, <3>3
    <2>2. CASE u \notin Controls(conn[s].proc) \ {s}
      <3>1. [conn[s] EXCEPT !.at = "read"].lost = conn[s].lost
        BY <1>1 DEF Shaped, Fields
      <3> QED BY <1>2, <1>8, <2>2, <3>1 DEF Restore, With
    <2> QED BY <2>1, <2>2
  <1>9. ASSUME NEW s \in Tabs, Claim(s) PROVE FALSE
    <2> DEFINE u == conn[s].prev
    <2>1. conn' = [conn EXCEPT ![s].at = "read", ![u].up = FALSE] /\ conn[s].at = "await"
      BY <1>9 DEF Claim
    <2>2. Waits(conn, s)
      BY Facts
    <2>3. u \in Tabs
      BY <2>1, <2>2 DEF Waits
    <2> HIDE DEF u
    <2> QED BY <1>1, <2>1, <2>3 DEF Shaped, Fields
  <1>10. ASSUME NEW s \in Tabs, Adopt(s) PROVE FALSE
    <2> DEFINE c == Taken(conn[s])
    <2>1. conn' \in {[conn EXCEPT ![s] = [c EXCEPT !.at = "live", !.asked = NoMark]], [conn EXCEPT ![s] = [Save(c, TRUE) EXCEPT !.at = "live"]]}
      BY <1>10 DEF Adopt, With, Taken
    <2>2. Shaped(c) /\ c.lost = conn[s].lost
      <3> DEFINE rev == IF Present THEN row.rev ELSE 0
                 auth == IF Present THEN [journey |-> row.pend.journey, nav |-> row.pend.nav] ELSE conn[s].auth
                 plan == IF Present THEN row.pend.plan ELSE conn[s].plan
      <3>1. c = [conn[s] EXCEPT !.holds = TRUE, !.rev = rev, !.auth = auth, !.plan = plan, !.age = row.age]
        BY <1>1 DEF Taken, Shaped, Fields
      <3> HIDE DEF rev, auth, plan, c
      <3> QED BY <1>1, <3>1 DEF Shaped, Fields
    <2> HIDE DEF c
    <2>3. Shaped(Save(c, TRUE)) /\ Save(c, TRUE).lost = c.lost
      BY <2>2, KeepsLost
    <2>4. [c EXCEPT !.at = "live", !.asked = NoMark].lost = c.lost /\ [Save(c, TRUE) EXCEPT !.at = "live"].lost = c.lost
      BY <2>2, <2>3 DEF Shaped, Fields
    <2> QED BY <1>2, <2>1, <2>2, <2>4
  <1>11. ASSUME NEW s \in Tabs, ResumeJourney(s) PROVE FALSE
    <2> DEFINE c == [conn[s] EXCEPT !.asked.journey = Nil]
               d == [c EXCEPT !.own.journey = conn[s].asked.journey, !.auth.journey = Nil]
    <2>1. c.lost = conn[s].lost /\ d.lost = conn[s].lost
      BY <1>1 DEF Shaped, Fields
    <2>2. conn' = [conn EXCEPT ![s] = c] \/ conn' = [conn EXCEPT ![s] = d]
      BY <1>11 DEF ResumeJourney, With
    <2> HIDE DEF c, d
    <2> QED BY <1>2, <2>1, <2>2
  <1>12. ASSUME NEW s \in Tabs, FinishNavigation(s) PROVE FALSE
    <2> DEFINE c == [conn[s] EXCEPT !.asked.nav = Nil, !.auth.nav = Nil]
               d == [c EXCEPT !.plan = conn[s].asked.nav]
               e == [c EXCEPT !.ends = @ \cup ({conn[s].auth.nav} \ {Nil})]
    <2>3. Shaped(c) /\ c.lost = conn[s].lost
      BY <1>1 DEF Shaped, Fields
    <2>4. Shaped(d) /\ d.lost = conn[s].lost
      <3> HIDE DEF c
      <3> QED BY <2>3 DEF Shaped, Fields
    <2>5. Shaped(e) /\ e.lost = conn[s].lost
      <3> HIDE DEF c
      <3> QED BY <2>3 DEF Shaped, Fields
    <2>1. Shaped(d) /\ Shaped(e) /\ d.lost = conn[s].lost /\ e.lost = conn[s].lost
      BY <2>4, <2>5
    <2>2. conn' = [conn EXCEPT ![s] = Save(d, TRUE)] \/ conn' = [conn EXCEPT ![s] = Save(e, TRUE)]
      BY <1>12 DEF FinishNavigation, With
    <2> HIDE DEF d, e
    <2> QED BY <1>4, <2>1, <2>2
  <1>13. ASSUME NEW s \in Tabs, NEW task, Run(s, task) PROVE FALSE
    <2> DEFINE own == [conn[s].own EXCEPT !.nav = task]
               jown == [conn[s].own EXCEPT !.journey = task]
               d == [conn[s] EXCEPT !.own.journey = task]
               e == [conn[s] EXCEPT !.own.nav = task]
               f == [conn[s] EXCEPT !.own.nav = task, !.plan = Nil]
    <2>1. PICK c \in {d, e, f} : conn' = [conn EXCEPT ![s] = [Save(c, TRUE) EXCEPT !.tell = task]]
      BY <1>13 DEF Run, With
    <2>5. Shaped(d) /\ d.lost = conn[s].lost
      <3>1. d = [conn[s] EXCEPT !.own = jown]
        BY <1>1 DEF Shaped, Fields
      <3> HIDE DEF d, jown
      <3> QED BY <1>1, <3>1 DEF Shaped, Fields
    <2>6. Shaped(e) /\ e.lost = conn[s].lost
      <3>1. e = [conn[s] EXCEPT !.own = own]
        BY <1>1 DEF Shaped, Fields
      <3> HIDE DEF e, own
      <3> QED BY <1>1, <3>1 DEF Shaped, Fields
    <2>7. Shaped(f) /\ f.lost = conn[s].lost
      <3>1. f = [conn[s] EXCEPT !.own = own, !.plan = Nil]
        BY <1>1 DEF Shaped, Fields
      <3> HIDE DEF f, own
      <3>2. Shaped(f)
        BY <1>1, <3>1 DEF Shaped
      <3>3. f.lost = conn[s].lost
        BY <1>1, <3>1 DEF Shaped, Fields
      <3> QED BY <3>2, <3>3
    <2> HIDE DEF d, e, f
    <2>2. Shaped(c) /\ c.lost = conn[s].lost
      BY <2>1, <2>5, <2>6, <2>7
    <2>3. Shaped(Save(c, TRUE)) /\ Save(c, TRUE).lost = c.lost
      BY <2>2, KeepsLost
    <2>4. [Save(c, TRUE) EXCEPT !.tell = task].lost = conn[s].lost
      BY <2>2, <2>3 DEF Shaped, Fields
    <2> QED BY <1>2, <2>1, <2>4
  <1>14. ASSUME NEW s \in Tabs, Tell(s) \/ Leave(s) \/ NavigateAway(s) PROVE FALSE
    <2>1. [conn[s] EXCEPT !.tell = Nil].lost = conn[s].lost /\ [conn[s] EXCEPT !.up = FALSE].lost = conn[s].lost
      BY <1>1 DEF Shaped, Fields
    <2> QED BY <1>2, <1>14, <2>1 DEF Tell, Leave, NavigateAway, Gone, With
  <1>15. ASSUME NEW s \in Tabs, Chat(s) PROVE FALSE
    BY <1>1, <1>4, <1>15 DEF Chat, With
  <1>16. ASSUME NEW s \in Tabs, StopAll(s) \/ Logout(s) PROVE FALSE
    <2> DEFINE c == Cleared(conn[s])
    <2>1. Shaped(c) /\ c.lost = conn[s].lost
      BY <1>1, KeepsLost
    <2>2. \/ conn' = [conn EXCEPT ![s] = conn[s]] \/ conn' = [conn EXCEPT ![s] = Save(c, TRUE)]
          \/ conn' = [conn EXCEPT ![s] = [c EXCEPT !.holds = FALSE]]
      BY <1>16 DEF StopAll, Logout, With
    <2> HIDE DEF c
    <2>3. [c EXCEPT !.holds = FALSE].lost = conn[s].lost
      BY <2>1 DEF Shaped, Fields
    <2> QED BY <1>2, <1>4, <2>1, <2>2, <2>3
  <1>17. ASSUME NEW s \in Tabs, Result(s) PROVE FALSE
    <2> DEFINE task == page[s].run
               d == [conn[s] EXCEPT !.own.journey = Nil, !.auth.journey = Nil, !.ends = @ \cup ({task, conn[s].auth.journey} \ {Nil})]
               e == [conn[s] EXCEPT !.own.nav = Nil, !.auth.nav = Nil, !.ends = @ \cup ({task, conn[s].auth.nav} \ {Nil})]
               jown == [conn[s].own EXCEPT !.journey = Nil]
               nown == [conn[s].own EXCEPT !.nav = Nil]
               jauth == [conn[s].auth EXCEPT !.journey = Nil]
               nauth == [conn[s].auth EXCEPT !.nav = Nil]
               jends == conn[s].ends \cup ({task, conn[s].auth.journey} \ {Nil})
               nends == conn[s].ends \cup ({task, conn[s].auth.nav} \ {Nil})
    <2>3. Shaped(d) /\ d.lost = conn[s].lost
      <3>1. d = [conn[s] EXCEPT !.own = jown, !.auth = jauth, !.ends = jends]
        BY <1>1 DEF Shaped, Fields
      <3> HIDE DEF d, jown, jauth, jends
      <3> QED BY <1>1, <3>1 DEF Shaped, Fields
    <2>4. Shaped(e) /\ e.lost = conn[s].lost
      <3>1. e = [conn[s] EXCEPT !.own = nown, !.auth = nauth, !.ends = nends]
        BY <1>1 DEF Shaped, Fields
      <3> HIDE DEF e, nown, nauth, nends
      <3> QED BY <1>1, <3>1 DEF Shaped, Fields
    <2>1. Shaped(d) /\ Shaped(e) /\ d.lost = conn[s].lost /\ e.lost = conn[s].lost
      BY <2>3, <2>4
    <2>2. conn' = [conn EXCEPT ![s] = Save(d, FALSE)] \/ conn' = [conn EXCEPT ![s] = Save(e, TRUE)]
      BY <1>17 DEF Result, With
    <2> HIDE DEF d, e
    <2> QED BY <1>4, <2>1, <2>2
  <1>18. ASSUME NEW s \in Tabs, NEW p \in Procs, NEW o \in Origins, Load(s, p, o) \/ LoadWithToken(s, p, o) PROVE FALSE
    <2>1. PICK mark : conn' = [conn EXCEPT ![s] = [NoConn EXCEPT !.at = "open", !.up = TRUE, !.proc = p, !.asked = mark]]
      BY <1>18 DEF Load, LoadWithToken, Loaded, With
    <2> DEFINE d == [NoConn EXCEPT !.at = "open", !.up = TRUE, !.proc = p, !.asked = mark]
    <2>2. ~d.lost
      BY DEF NoConn
    <2> HIDE DEF d
    <2> QED BY <1>2, <2>1, <2>2 DEF d
  <1> QED BY <1>5, <1>6, <1>7, <1>8, <1>9, <1>10, <1>11, <1>12, <1>13, <1>14, <1>15, <1>16, <1>17, <1>18 DEF VisitNext

LEMMA NoHeirLoses ==
  ASSUME VisitInv, [VisitNext]_visitVars
  PROVE  NoHeirTurnedAway
  <1>1. ASSUME NEW t \in Tabs, conn'[t].lost, ~conn[t].lost, ~row.expired
        PROVE  conn[t].heirOf = Nil \/ row.by # conn[t].heirOf
    <2>1. PutRecord(t) /\ row.rev # conn[t].rev
      BY <1>1, OnlyPutLoses
    <2>2. ConnInv(conn[t], row.age, row.rev, ended, acts.begun) /\ HeirSeen(conn, t, row)
      BY Facts
    <2>3. conn[t].at = "live"
      BY <2>1, <2>2 DEF PutRecord, ConnInv, Core, Blank
    <2> QED BY <1>1, <2>1, <2>2, <2>3 DEF HeirSeen
  <1>2. DOMAIN conn = Tabs
    BY DEF VisitInv
  <1> QED BY <1>1, <1>2 DEF NoHeirTurnedAway

(***************************************************************************)
(* Turns change hands cleanly, for any pages, processes, origins and turns: *)
(* a page starts or resumes only a turn that nobody had ended before its   *)
(* own last write, and a page that takes a conversation over is not turned *)
(* away because of the page it took it from (server.ts restore_context,    *)
(* persistContinuity).                                                     *)
(***************************************************************************)
THEOREM HandedOverCleanly == VisitSpec => TurnsChangeHandsCleanly
  <1>1. VisitInit => VisitInv
    BY VisitInvInit
  <1>2. VisitInv /\ [VisitNext]_visitVars => VisitInv'
    BY VisitInvNext
  <1>3. VisitInv /\ [VisitNext]_visitVars => [NothingEndedStarts /\ NoHeirTurnedAway]_visitVars
    BY NothingEnded, NoHeirLoses
  <1> QED BY <1>1, <1>2, <1>3, PTL DEF VisitSpec, TurnsChangeHandsCleanly
=============================================================================
