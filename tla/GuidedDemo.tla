----------------------------- MODULE GuidedDemo -----------------------------
(***************************************************************************)
(* A guided demo played over one control socket: the session actor of the  *)
(* cloud runtime (src/server.ts), the guided-demo half of the browser SDK  *)
(* (web-sdk, runtime.ts and guided-demo.ts), the socket between them, and  *)
(* a visitor who talks, barges in and presses buttons at any moment.       *)
(*                                                                         *)
(* The server handles one control message to its end before the next       *)
(* (controlQueue), so each handler is one step, whatever it awaits; only   *)
(* its timers run in between.  The SDK's handlers are not serialised: a    *)
(* journey runs step by step while other commands are taken.               *)
(***************************************************************************)
EXTENDS DemoDirector

CONSTANTS
  Playable,       \* modules whose journey is approved, demo-safe and allowed
  LastStep,       \* steps of a journey
  Faults,         \* what may fail: "step", "planner", "responder"
  InputBudget,    \* bound: visitor inputs after the intake
  QueueBound      \* bound: messages in flight when the visitor acts

ASSUME DemoAssumption ==
  /\ Playable \subseteq Modules
  /\ LastStep \in Nat \ {0}
  /\ Steps = 1..LastStep
  /\ Faults \subseteq {"step", "planner", "responder"}
  /\ InputBudget \in Nat
  /\ QueueBound \in Nat

VARIABLES
  srv,    \* the server's session state (ControlState)
  sdk,    \* the browser SDK
  up,     \* messages from the SDK to the server, in order
  down,   \* commands from the server to the SDK, in order
  left    \* visitor inputs left

vars == <<srv, sdk, up, down, left>>

-----------------------------------------------------------------------------
(* Server state.  A command id is a number, 0 when there is none.          *)
Directives == {"remain_paused", "resume_now", "stop", "replace_module"}
NoInterruption == [directive |-> "none", module |-> NoModule, observe |-> FALSE]
Heard == [NoInterruption EXCEPT !.directive = "unplanned"]
Plans ==
  [directive : Directives \ {"replace_module"}, module : {NoModule}, observe : BOOLEAN]
  \union [directive : {"replace_module"}, module : Playable, observe : BOOLEAN]
Planned(s) == s.interruption.directive \in Directives

NoJourney == [cmd |-> 0, module |-> NoModule, paused |-> FALSE]

InitServer ==
  [demo |-> Idle,
   journey |-> NoJourney,             \* pendingJourney
   interruption |-> NoInterruption,   \* pendingDemoInterruption
   observing |-> 0,                   \* pendingDemoObservation
   late |-> FALSE,                    \* an answer after an observation timeout is due
   timer |-> FALSE,                   \* demoClosingTimer
   issued |-> 0,                      \* command ids drawn
   out |-> << >>]                     \* commands sent by the current handler

Send(s, command) == [s EXCEPT !.out = Append(@, command)]

StateCommand(d) ==
  [kind |-> "demo_state", phase |-> d.phase, module |-> d.module, buttons |-> Buttons(d)]
StopCommand == [kind |-> "stop_journey"]
PauseCommand(journey) == [kind |-> "pause_journey", journey |-> journey]
RunCommandNextStep(cmd, o) ==   \* wrong: resumes one step late
  [kind |-> "run_journey", cmd |-> cmd, journey |-> JourneyOf[o.module],
   resume |-> IF o.kind = "resume" THEN o.checkpoint.next + 1 ELSE 0]
RunCommand(cmd, o) ==
  [kind |-> "run_journey", cmd |-> cmd, journey |-> JourneyOf[o.module],
   resume |-> IF o.kind = "resume" THEN o.checkpoint.next ELSE 0]

(* persistDemoState: store, then show the browser.                         *)
Persist(s, d) == Send([s EXCEPT !.demo = d], StateCommand(d))

NeverScheduleClosing(s) == s    \* wrong: the closing timer is not set
ScheduleClosing(s) == [s EXCEPT !.timer = @ \/ s.demo.phase = "closing"]

RunDemoModuleOrNext(s, o) ==       \* wrong: an unavailable module is skipped
  LET cmd == s.issued + 1
  IN  IF o.module \notin Playable THEN Persist(s, AdvanceModule(s.demo).state)
      ELSE Send([s EXCEPT !.issued = cmd,
                          !.journey = [cmd |-> cmd, module |-> o.module, paused |-> FALSE]],
                RunCommand(cmd, o))

RunDemoModule(s, o) ==
  IF o.module \notin Playable
  THEN Persist(s, JourneyResult(s.demo, FALSE).state)
  ELSE LET cmd == s.issued + 1
       IN  Send([s EXCEPT !.issued = cmd,
                          !.journey = [cmd |-> cmd, module |-> o.module, paused |-> FALSE]],
                RunCommand(cmd, o))

(* The tail of every handler that takes a transition.                      *)
Dispatch(s, t) ==
  IF t.order.kind \in {"run", "resume"} THEN RunDemoModule(s, t.order) ELSE ScheduleClosing(s)
Follow(s, t) == Dispatch(Persist(s, t.state), t)

CancelObservationOnly(s) == [s EXCEPT !.observing = 0]   \* wrong: keeps the generation

(* A new demoPlanningGeneration: the pending observation and the answer    *)
(* that was about to be applied are void.                                  *)
CancelPlanning(s) == [s EXCEPT !.observing = 0, !.late = FALSE]

ApplyDirectiveQuietly(s, plan) ==   \* wrong: a demo left paused is not shown
  LET d == FinishInterruptionAnswer(s.demo).state
      r == [s EXCEPT !.interruption = NoInterruption]
  IN  CASE plan.directive = "remain_paused" -> [r EXCEPT !.demo = d]
        [] plan.directive = "resume_now" -> Follow(r, Continue(d))
        [] plan.directive = "stop" ->
             Send(Persist([r EXCEPT !.journey = NoJourney], Stop(d).state), StopCommand)
        [] plan.directive = "replace_module" ->
             Follow(Send([r EXCEPT !.journey = NoJourney], StopCommand),
                    ReplaceAfterInterruption(d, plan.module))

ApplyDirective(s, plan) ==
  LET d == FinishInterruptionAnswer(s.demo).state
      r == [s EXCEPT !.interruption = NoInterruption]
  IN  CASE plan.directive = "remain_paused" -> Persist(r, d)
        [] plan.directive = "resume_now" -> Follow(r, Continue(d))
        [] plan.directive = "stop" ->
             Send(Persist([r EXCEPT !.journey = NoJourney], Stop(d).state), StopCommand)
        [] plan.directive = "replace_module" ->
             Follow(Send([r EXCEPT !.journey = NoJourney], StopCommand),
                    ReplaceAfterInterruption(d, plan.module))

RequestObservation(s) ==
  Send([s EXCEPT !.issued = @ + 1, !.observing = s.issued + 1],
       [kind |-> "request_observation", cmd |-> s.issued + 1])

(* The position of a waiting demo that an answer may leave from.           *)
PositionVerified(s) ==
  /\ s.demo.phase = "awaiting_resume"
  /\ s.demo.reason = "module_complete" \/ VerifiedInterruption(s.demo)

(* planPausedDemoInterruption.  outcome is the plan of the pending turn,   *)
(* or NoInterruption when the planner fails; answered says whether the     *)
(* wording model answers.                                                  *)
PlanInterruption(s, outcome, answered) ==
  LET g == CancelPlanning(s)
      a == IF g.demo.phase = "answering"
           THEN [g EXCEPT !.demo = FinishInterruptionAnswer(g.demo).state]
           ELSE g
      p == [a EXCEPT !.interruption = outcome]
      b == Persist(p, BeginInterruptionAnswer(p.demo).state)
  IN  IF s.interruption = NoInterruption THEN s
      ELSE IF a.demo.phase # "pausing" /\ ~PositionVerified(a) THEN a
      ELSE IF outcome = NoInterruption THEN a
      ELSE IF a.demo.phase = "pausing" THEN p
      ELSE IF outcome.observe THEN RequestObservation(b)
      ELSE IF answered THEN ApplyDirective(b, outcome)
      ELSE Persist(b, FinishInterruptionAnswer(b.demo).state)

(* continuePersistedDemoInterruption: the turn was planned while the       *)
(* browser was pausing.  Nothing catches a failing wording model here.     *)
ContinueInterruption(s, answered) ==
  LET a == IF s.demo.phase = "awaiting_resume"
           THEN Persist(s, BeginInterruptionAnswer(s.demo).state) ELSE s
      g == CancelPlanning(a)
  IN  IF s.demo.phase = "awaiting_resume" /\ ~PositionVerified(s) THEN s
      ELSE IF s.interruption.observe THEN RequestObservation(g)
      ELSE IF answered THEN ApplyDirective(g, s.interruption)
      ELSE g

Settle(s, outcome, answered) ==
  IF Planned(s) THEN ContinueInterruption(s, answered) ELSE PlanInterruption(s, outcome, answered)

-----------------------------------------------------------------------------
(* Handlers of client messages, on the server state.                       *)
HandleControl(s, action) ==
  LET t == Control(s.demo, action)
      r == [CancelPlanning(s) EXCEPT !.interruption = NoInterruption, !.timer = FALSE]
      dropped == Persist([r EXCEPT !.journey = NoJourney], t.state)
      abandons == action \in {"retry", "skip"} /\ s.journey.paused
  IN  IF ~MayControl(s.demo, action) THEN s
      ELSE IF action = "stop" THEN Send(dropped, StopCommand)
      ELSE IF abandons THEN Dispatch(Send(dropped, StopCommand), t)
      ELSE Follow(r, t)

(* A turn heard in the intake either asks something, which is answered and *)
(* changes nothing, or answers the question.                               *)
HandleIntakeTurn(s, asks, persona) ==
  IF asks \/ ~MayCaptureIntake(s.demo) THEN s ELSE Follow(s, CaptureIntake(s.demo, persona))

(* A turn heard later; it may be a plain "continue".                       *)
HandleTurn(s, continues, outcome, answered) ==
  LET d == s.demo
      h == [s EXCEPT !.interruption = Heard]
      pausing == Send(Persist(h, BeginInterruption(d).state),
                      PauseCommand(JourneyOf[s.journey.module]))
  IN  IF d.phase = "playing" /\ s.journey # NoJourney /\ ~s.journey.paused
      THEN PlanInterruption(pausing, outcome, answered)
      ELSE IF d.phase = "awaiting_resume" /\ d.reason = "module_complete" /\ continues
      THEN Follow(s, Continue(d))
      ELSE IF \/ d.phase \in {"pausing", "answering"}
              \/ d.phase = "awaiting_resume" /\ d.reason \in {"interruption", "module_complete"}
      THEN PlanInterruption(h, outcome, answered)
      ELSE s

HandlePaused(s, m, outcome, answered) ==
  LET r == [s EXCEPT !.journey.paused = TRUE]
      c == [journey |-> JourneyOf[s.journey.module], next |-> m.next]
      at == Persist(r, CheckpointInterruption(s.demo, c).state)
  IN  IF s.journey.cmd # m.cmd THEN s
      ELSE IF s.demo.phase = "playing" THEN at
      ELSE IF s.demo.phase = "pausing" THEN Settle(at, outcome, answered)
      ELSE r

(* A result the director refuses leaves the journey cleared all the same.  *)
HandleResult(s, m, outcome, answered) ==
  LET r == [s EXCEPT !.journey = NoJourney]
  IN  IF s.journey.cmd # m.cmd THEN s
      ELSE IF m.ok /\ s.demo.phase = "pausing" /\ s.interruption # NoInterruption
      THEN Settle(Persist(r, CompleteModuleDuringInterruption(s.demo).state), outcome, answered)
      ELSE IF MayTakeResult(s.demo) THEN Follow(r, JourneyResult(s.demo, m.ok))
      ELSE r

HandleObservation(s, m, answered) ==
  LET r == [s EXCEPT !.observing = 0]
  IN  IF s.observing = 0 \/ s.observing # m.cmd THEN s
      ELSE IF answered THEN ApplyDirective(r, s.interruption)
      ELSE r

HandleInterruptQuietly(s) ==    \* wrong: the browser is not told to stop
  LET r == [CancelPlanning(s) EXCEPT !.interruption = NoInterruption, !.timer = FALSE]
      e == IF s.demo.phase \in TerminalPhases THEN s ELSE Persist(r, Stop(s.demo).state)
  IN  [e EXCEPT !.journey = NoJourney]

HandleInterrupt(s) ==
  LET r == [CancelPlanning(s) EXCEPT !.interruption = NoInterruption, !.timer = FALSE]
      e == IF s.demo.phase \in TerminalPhases THEN s ELSE Persist(r, Stop(s.demo).state)
  IN  Send([e EXCEPT !.journey = NoJourney], StopCommand)

-----------------------------------------------------------------------------
(* SDK state.  The journey the browser runs, the checkpoint of a paused    *)
(* one, and a result held back until its closing cue has been heard.       *)
NoRun == [cmd |-> 0, module |-> NoModule, journey |-> NoModule, next |-> 0, inStep |-> FALSE]
NoResult == [cmd |-> 0, ok |-> FALSE]

InitSdk ==
  [phase |-> "idle", module |-> NoModule, buttons |-> {}, pending |-> "none",
   run |-> NoRun,
   pauseRequested |-> FALSE,
   paused |-> NoCheckpoint,   \* pausedJourney
   staged |-> NoResult,       \* pendingJourneyResult
   intro |-> FALSE,           \* the introduction of the module is being played
   asked |-> {}]              \* observation requests being answered

ResultMessage(cmd, ok) == [kind |-> "journey_result", cmd |-> cmd, ok |-> ok]

MaximumButtons(phase) ==
  {a \in ControlActions :
     CASE a = "start" -> phase \in TerminalPhases
       [] a = "stop"  -> phase \notin TerminalPhases
       [] a = "continue" -> phase \in {"paused", "awaiting_resume"}
       [] OTHER -> phase = "awaiting_resume"}

MayPause(k) == k.phase = "playing" /\ k.module # NoModule

(* requestDemoPause: ask for a pause and cut what is being said.           *)
RequestPause(k) ==
  IF MayPause(k)
  THEN [k EXCEPT !.phase = "pausing", !.buttons = {"stop"},
                 !.pauseRequested = TRUE, !.intro = FALSE]
  ELSE k

(* The journey has ended: its result is sent at once when it was overtaken *)
(* by an interruption or a stop, and otherwise waits for the closing cue.  *)
ReportsAtOnce(k, ok) ==
  \/ ok /\ (k.pauseRequested \/ k.phase = "pausing")
  \/ k.run.module = NoModule
  \/ k.pending = "stop"
AfterRun(k, ok) ==
  LET e == [k EXCEPT !.run = NoRun]
  IN  IF ~ReportsAtOnce(k, ok) THEN [e EXCEPT !.staged = [cmd |-> k.run.cmd, ok |-> ok]]
      ELSE IF ok THEN [e EXCEPT !.pauseRequested = FALSE] ELSE e
Report(k, ok) == IF ReportsAtOnce(k, ok) THEN <<ResultMessage(k.run.cmd, ok)>> ELSE << >>

AfterAbort(k) == IF k.run = NoRun THEN k ELSE AfterRun(k, FALSE)
ReportAbort(k) == IF k.run = NoRun THEN << >> ELSE Report(k, FALSE)

(* flushPendingJourneyResult.                                              *)
Flushed(k) ==
  IF k.staged = NoResult THEN k
  ELSE [k EXCEPT !.staged = NoResult, !.pauseRequested = FALSE]
FlushMessages(k) ==
  IF k.staged = NoResult THEN << >> ELSE <<ResultMessage(k.staged.cmd, k.staged.ok)>>

-----------------------------------------------------------------------------
Init ==
  /\ srv = InitServer
  /\ sdk = InitSdk
  /\ up = << >>
  /\ down = <<StateCommand(Idle)>>    \* the answer to client.ready
  /\ left = InputBudget

(* The visitor.                                                            *)
Acts ==
  /\ Len(up) + Len(down) < QueueBound
  /\ IF sdk.phase = "intake" THEN left' = left ELSE left > 0 /\ left' = left - 1
  /\ UNCHANGED <<srv, down>>

Say ==
  /\ Acts
  /\ LET k == RequestPause(sdk)
     IN  sdk' = Flushed(k) /\ up' = Append(up, [kind |-> "user_turn"]) \o FlushMessages(k)

(* Opening the microphone, or a barge-in heard by the browser.             *)
StartVoice(granted) ==
  /\ Acts
  /\ sdk.run # NoRun \/ MayPause(sdk)
  /\ sdk' = IF ~granted THEN [RequestPause(sdk) EXCEPT !.pauseRequested = FALSE]
            ELSE IF MayPause(sdk) THEN RequestPause(sdk)
            ELSE [sdk EXCEPT !.pauseRequested = TRUE]
  /\ UNCHANGED up

(* controlDemo.  seen is a history field: the module the visitor saw.      *)
Press(action) ==
  /\ Acts
  /\ sdk.pending = "none"
  /\ action \in sdk.buttons
  /\ LET k == [sdk EXCEPT !.pending = action, !.buttons = {}]
         e == [AfterAbort(k) EXCEPT !.pauseRequested = FALSE, !.paused = NoCheckpoint,
                                    !.intro = FALSE]
         m == [kind |-> "demo_control", action |-> action, seen |-> sdk.module]
     IN  IF action = "stop"
         THEN sdk' = e /\ up' = Append(up, m) \o ReportAbort(k)
         ELSE sdk' = k /\ up' = Append(up, m)

(* The host page stops the agent.                                          *)
HostStops ==
  /\ Acts
  /\ sdk' = AfterAbort(sdk)
  /\ up' = Append(up, [kind |-> "interrupt"]) \o ReportAbort(sdk)

-----------------------------------------------------------------------------
(* The SDK on its own: cues end, the journey advances, the page is read.   *)
Browser == UNCHANGED <<srv, down, left>>

EndIntroduction ==
  /\ Browser
  /\ sdk.intro
  /\ sdk' = [sdk EXCEPT !.intro = FALSE]
  /\ UNCHANGED up

(* Cues play in order, so a result waits for the introduction too.         *)
EndClosingCue ==
  /\ Browser
  /\ sdk.staged # NoResult
  /\ ~sdk.intro
  /\ sdk' = Flushed(sdk)
  /\ up' = up \o FlushMessages(sdk)

AtBoundary == sdk.run # NoRun /\ ~sdk.run.inStep


PauseAtBoundary ==
  /\ Browser
  /\ AtBoundary
  /\ sdk.pauseRequested
  /\ LET c == [journey |-> sdk.run.journey, next |-> sdk.run.next]
         k == [sdk EXCEPT !.pauseRequested = FALSE, !.paused = c, !.run = NoRun]
     IN  sdk' = IF sdk.phase = "pausing" /\ PlaysJourney(sdk, c.journey)
                THEN [k EXCEPT !.phase = "paused", !.buttons = {"stop"}]
                ELSE k
  /\ up' = Append(up, [kind |-> "paused", cmd |-> sdk.run.cmd, next |-> sdk.run.next])

BeginStep ==
  /\ Browser
  /\ AtBoundary
  /\ ~sdk.pauseRequested
  /\ sdk' = [sdk EXCEPT !.run.inStep = TRUE]
  /\ UNCHANGED up

EndStep ==
  /\ Browser
  /\ sdk.run.inStep
  /\ IF sdk.run.next < LastStep
     THEN sdk' = [sdk EXCEPT !.run.next = @ + 1, !.run.inStep = FALSE] /\ UNCHANGED up
     ELSE sdk' = AfterRun(sdk, TRUE) /\ up' = up \o Report(sdk, TRUE)

FailStep ==
  /\ Browser
  /\ "step" \in Faults
  /\ sdk.run.inStep
  /\ sdk' = AfterRun(sdk, FALSE)
  /\ up' = up \o Report(sdk, FALSE)

Observe ==
  /\ Browser
  /\ \E cmd \in sdk.asked :
       /\ sdk' = [sdk EXCEPT !.asked = @ \ {cmd}]
       /\ up' = Append(up, [kind |-> "observation", cmd |-> cmd])

-----------------------------------------------------------------------------
(* The SDK takes the next command.                                         *)
Take(kind) ==
  /\ down # << >>
  /\ Head(down).kind = kind
  /\ down' = Tail(down)
  /\ UNCHANGED <<srv, left>>

(* applyServerState: a state that enables more than its phase admits is    *)
(* refused.                                                                *)
TakeState ==
  /\ Take("demo_state")
  /\ LET c == Head(down)
         enters == c.phase = "playing" /\ c.module # NoModule
                   /\ (sdk.phase # "playing" \/ sdk.module # c.module)
     IN  sdk' = IF c.buttons \subseteq MaximumButtons(c.phase)
                THEN [sdk EXCEPT !.phase = c.phase, !.module = c.module,
                                 !.buttons = c.buttons, !.pending = "none",
                                 !.intro = (@ \/ enters) /\ c.phase \notin {"stopped", "completed"}]
                ELSE sdk
  /\ UNCHANGED up

ResumeMatches(k, c) == k.paused = [journey |-> c.journey, next |-> c.resume]

MayRun(k, c) ==
  /\ k.phase \in TerminalPhases \/ (k.phase = "playing" /\ PlaysJourney(k, c.journey))
  /\ IF c.resume = 0 THEN k.paused = NoCheckpoint ELSE ResumeMatches(k, c)
  /\ k.run = NoRun

TakeRun ==
  /\ Take("run_journey")
  /\ LET c == Head(down)
     IN  IF MayRun(sdk, c)
         THEN /\ sdk' = [sdk EXCEPT !.paused = NoCheckpoint, !.pauseRequested = FALSE,
                           !.run = [cmd |-> c.cmd, module |-> sdk.module, journey |-> c.journey,
                                    next |-> IF c.resume = 0 THEN 1 ELSE c.resume,
                                    inStep |-> FALSE]]
              /\ UNCHANGED up
         ELSE /\ UNCHANGED sdk
              /\ up' = Append(up, ResultMessage(c.cmd, FALSE))

TakePause ==
  /\ Take("pause_journey")
  /\ sdk' = IF sdk.run = NoRun \/ sdk.run.journey # Head(down).journey THEN sdk
            ELSE IF MayPause(sdk) THEN RequestPause(sdk)
            ELSE [sdk EXCEPT !.pauseRequested = TRUE]
  /\ UNCHANGED up

TakeStop ==
  /\ Take("stop_journey")
  /\ sdk' = [AfterAbort(sdk) EXCEPT !.pauseRequested = FALSE, !.paused = NoCheckpoint]
  /\ up' = up \o ReportAbort(sdk)

TakeRequest ==
  /\ Take("request_observation")
  /\ sdk' = [sdk EXCEPT !.asked = @ \union {Head(down).cmd}]
  /\ UNCHANGED up

-----------------------------------------------------------------------------
(* The server handles the next message.                                    *)
Receive(kind) ==
  /\ up # << >>
  /\ Head(up).kind = kind
  /\ up' = Tail(up)
  /\ UNCHANGED <<sdk, left>>

Reply(s) == srv' = [s EXCEPT !.out = << >>] /\ down' = down \o s.out

Outcomes == Plans \union (IF "planner" \in Faults THEN {NoInterruption} ELSE {})
Answers == IF "responder" \in Faults THEN BOOLEAN ELSE {TRUE}

OnControl == Receive("demo_control") /\ Reply(HandleControl(srv, Head(up).action))

OnIntakeTurn ==
  /\ Receive("user_turn")
  /\ srv.demo.phase = "intake"
  /\ \E asks \in BOOLEAN, persona \in Personas \union {NoPersona} :
       Reply(HandleIntakeTurn(srv, asks, persona))

OnTurn ==
  /\ Receive("user_turn")
  /\ srv.demo.phase # "intake"
  /\ \E s \in {HandleTurn(srv, continues, outcome, answered) :
                continues \in BOOLEAN, outcome \in Outcomes, answered \in Answers} : Reply(s)

OnPaused ==
  /\ Receive("paused")
  /\ \E s \in {HandlePaused(srv, Head(up), outcome, answered) :
                outcome \in Outcomes, answered \in Answers} : Reply(s)

OnResult ==
  /\ Receive("journey_result")
  /\ \E s \in {HandleResult(srv, Head(up), outcome, answered) :
                outcome \in Outcomes, answered \in Answers} : Reply(s)

OnObservation ==
  /\ Receive("observation")
  /\ \E s \in {HandleObservation(srv, Head(up), answered) : answered \in Answers} : Reply(s)

OnInterrupt == Receive("interrupt") /\ Reply(HandleInterrupt(srv))

(* Timers of the server.                                                   *)
Timer == UNCHANGED <<sdk, up, left>>

ClosingTimerQuietly ==          \* wrong: the browser is not told of the completion
  /\ Timer
  /\ srv.timer
  /\ Reply([srv EXCEPT !.timer = FALSE,
                       !.demo = IF MayCompleteClosing(srv.demo)
                                THEN CompleteClosing(srv.demo).state ELSE srv.demo])

ClosingTimer ==
  /\ Timer
  /\ srv.timer
  /\ LET r == [srv EXCEPT !.timer = FALSE]
     IN  Reply(IF MayCompleteClosing(srv.demo)
               THEN Persist(r, CompleteClosing(srv.demo).state) ELSE r)

ObservationTimeoutQuietly ==    \* wrong: gives up waiting and answers nothing
  /\ Timer
  /\ srv.observing # 0
  /\ Reply([srv EXCEPT !.observing = 0])

(* No fresh view came in time: the visitor is told so, and the demo stays  *)
(* paused once that has been said.                                         *)
ObservationTimeout ==
  /\ Timer
  /\ srv.observing # 0
  /\ Reply([srv EXCEPT !.observing = 0, !.late = TRUE])

LateAnswer ==
  /\ Timer
  /\ srv.late
  /\ Reply(ApplyDirective([srv EXCEPT !.late = FALSE],
                          [srv.interruption EXCEPT !.directive = "remain_paused"]))

Visitor ==
  \/ Say \/ HostStops
  \/ \E granted \in BOOLEAN : StartVoice(granted)
  \/ \E action \in ControlActions : Press(action)
SdkTakes == TakeState \/ TakeRun \/ TakePause \/ TakeStop \/ TakeRequest
SdkWorks ==
  \/ EndIntroduction \/ EndClosingCue
  \/ PauseAtBoundary \/ BeginStep \/ EndStep \/ FailStep
ServerHandles ==
  \/ OnControl \/ OnIntakeTurn \/ OnTurn
  \/ OnPaused \/ OnResult \/ OnObservation \/ OnInterrupt
ServerTimers == ClosingTimer \/ ObservationTimeout \/ LateAnswer

Next == Visitor \/ SdkTakes \/ SdkWorks \/ Observe \/ ServerHandles \/ ServerTimers

Spec == Init /\ [][Next]_vars

(* The socket delivers in both directions, a step ends by success, failure *)
(* or its timeout, cues end and timers fire.  Nothing forces the visitor   *)
(* to act or the page to be readable.  Only the receiver shortens a queue, *)
(* so fairness of ServerHandles and SdkTakes is that of the queues.        *)
Delivered(queue, queueNext) == queue # << >> /\ queueNext = Tail(queue)
Fairness ==
  /\ WF_up(Delivered(up, up'))
  /\ WF_down(Delivered(down, down'))
  /\ WF_vars(SdkWorks)
  /\ WF_vars(ServerTimers)

FairSpec == Spec /\ Fairness

-----------------------------------------------------------------------------
(* Types.                                                                  *)
TypeOK ==
  /\ srv.demo \in DemoState
  /\ srv.journey \in [cmd : Nat, module : Modules \union {NoModule}, paused : BOOLEAN]
  /\ srv.interruption \in Plans \union {NoInterruption, Heard}
  /\ srv.observing \in Nat /\ srv.issued \in Nat
  /\ srv.late \in BOOLEAN /\ srv.timer \in BOOLEAN
  /\ srv.out = << >>
  /\ sdk.phase \in Phases \union {"paused"}
  /\ sdk.module \in Modules \union {NoModule}
  /\ sdk.buttons \subseteq MaximumButtons(sdk.phase) \union {"stop"}
  /\ sdk.pending \in ControlActions \union {"none"}
  /\ sdk.run = NoRun \/ sdk.run \in [cmd : Nat \ {0}, module : Modules \union {NoModule},
                                     journey : Journeys, next : Steps, inStep : BOOLEAN]
  /\ sdk.paused \in Checkpoints \union {NoCheckpoint}
  /\ sdk.staged \in [cmd : Nat, ok : BOOLEAN]
  /\ sdk.asked \subseteq Nat
  /\ left \in 0..InputBudget

Coming(kind) == \E i \in 1..Len(down) : down[i].kind = kind
Carries(queue, kinds, cmd) ==
  \E i \in 1..Len(queue) : queue[i].kind \in kinds /\ queue[i].cmd = cmd

(* The browser or the server is about to learn that the journey is off.    *)
StopOnItsWay ==
  \/ Coming("stop_journey")
  \/ \E i \in 1..Len(up) :
       up[i].kind = "interrupt" \/ (up[i].kind = "demo_control" /\ up[i].action = "stop")

(* Server and browser agree on the one journey that runs.  The server      *)
(* never waits for a journey nobody answers for: the one it believes to be *)
(* running is on its way to the browser, running there, or its outcome is  *)
(* being announced or on its way back, whatever barge-in, failure or stop  *)
(* overtook it (pendingJourney against sendJourneyResult,                  *)
(* flushPendingJourneyResult and the paused progress report).  The browser *)
(* never acts for a journey the server has given up, unless the order to   *)
(* stop is on its way.  And a journey starts only when the browser's       *)
(* previous one has ended: the SDK would refuse it, and would forget under *)
(* which command the running one reports (activeCommandId).                *)
AnsweredFor ==
  srv.journey # NoJourney /\ ~srv.journey.paused =>
    LET cmd == srv.journey.cmd
    IN  \/ Carries(down, {"run_journey"}, cmd)
        \/ sdk.run.cmd = cmd
        \/ sdk.staged.cmd = cmd
        \/ Carries(up, {"journey_result", "paused"}, cmd)
OneJourneyOnBothSides ==
  /\ AnsweredFor
  /\ sdk.run # NoRun => srv.journey.cmd = sdk.run.cmd \/ Coming("stop_journey")
  /\ down # << >> /\ Head(down).kind = "run_journey" => sdk.run = NoRun

(* "Continue from the SDK's exact atomic checkpoint" (runtime README): the *)
(* checkpoint of a waiting demo is the one the browser holds, and an order *)
(* to resume meets it there, unless the visitor or the host has stopped.   *)
ResumeIsExact ==
  /\ srv.demo.phase \in {"awaiting_resume", "answering"} /\ srv.demo.checkpoint # NoCheckpoint
       => sdk.paused = srv.demo.checkpoint \/ StopOnItsWay
  /\ down # << >> /\ Head(down).kind = "run_journey" /\ Head(down).resume # 0
       => ResumeMatches(sdk, Head(down)) \/ StopOnItsWay

(* A Continue, Retry or Skip that the server accepts acts on the module    *)
(* the visitor saw when pressing it, although turns spoken before may be   *)
(* handled first and move the demo on.                                     *)
ControlActsOnWhatWasSeen ==
  /\ up # << >>
  /\ Head(up).kind = "demo_control"
  /\ Head(up).action \in {"continue", "retry", "skip"}
  /\ MayControl(srv.demo, Head(up).action)
  => Head(up).seen = srv.demo.module

(* An observation is awaited, and the answer after its timeout is due,     *)
(* only while that very interruption is being answered: the timer outside  *)
(* the control queue never applies a directive to a demo that moved on.    *)
LateAnswerIsCurrent ==
  srv.late \/ srv.observing # 0 => srv.demo.phase = "answering" /\ Planned(srv)

(* Nothing is in flight and the browser is at rest.                        *)
Quiet == up = << >> /\ down = << >> /\ sdk.run = NoRun /\ sdk.staged = NoResult

(* At rest the panel shows the server's phase and its buttons.  It holds   *)
(* when the planner answers: a planner failure leaves the server waiting   *)
(* behind a panel that still says "answering".                             *)
PanelIsCurrent == Quiet => sdk.phase = srv.demo.phase /\ sdk.buttons = Buttons(srv.demo)

(* The session of this system is a playthrough for its visitor.            *)
Session == INSTANCE DemoSession WITH demo <- srv.demo, order <- NoOrder
ImplementsPlaythrough == Session!ImplementsPlaythrough

(* A demo never stays in a phase in which it is its own turn to act: a     *)
(* module ends, and an answer ends even when no fresh view arrives.        *)
ComesToRest ==
  srv.demo.phase \in {"playing", "answering"} ~> srv.demo.phase \notin {"playing", "answering"}

(* A demo that closes completes, unless it is stopped first.               *)
ClosingEnds == srv.demo.phase = "closing" ~> srv.demo.phase \in TerminalPhases

(* Every press of a button is answered by a new state.                     *)
PressIsAnswered == sdk.pending # "none" ~> sdk.pending = "none"

-----------------------------------------------------------------------------
(* What documents, comments and tests say of this protocol, and the code   *)
(* does not do.                                                            *)

(* Answers wait for "a verified checkpoint or terminal journey result"     *)
(* (planPausedDemoInterruption): a pausing demo still gets one of them.    *)
PausingEnds == Quiet => srv.demo.phase # "pausing"
=============================================================================
