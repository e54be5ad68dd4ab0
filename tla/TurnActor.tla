------------------------------ MODULE TurnActor ------------------------------
(***************************************************************************)
(* Ordinary turns of a session, outside a guided demo.  The cloud runtime  *)
(* handles the messages of the control socket one at a time, each to its   *)
(* end, models and speech included; only timers, the voice socket and the  *)
(* HTTP copy of a tool result get in between.  The browser runs, pauses    *)
(* and stops journeys and clicks for the dynamic agent.                    *)
(***************************************************************************)
EXTENDS Naturals, Sequences, FiniteSets

CONSTANTS MaxTurns,       \* bound: what the visitor says
          MaxBarges,      \* bound: barge-ins and stops
          MaxTools,       \* bound: tool commands
          Targets,        \* what the dynamic agent may click
          MaxIterations   \* dynamicMode.maxIterationsPerTurn

VARIABLES srv,    \* ControlState
          actor,  \* the message being handled: where it awaits, for which turn
          dyn,    \* the loop of the dynamic agent
          sdk,    \* the browser's journey and tool
          up, down,
          http,   \* tool results on their way over HTTP
          cut,    \* history: turns a barge-in found with a model, an answer or a tool at work
          count   \* bounds, and the number of the last command

actorVars == <<srv, actor, dyn, sdk, up, down, http, cut, count>>

NoRun == [cmd |-> 0, turn |-> 0, gen |-> 0, paused |-> FALSE, show |-> FALSE]
NoObs == [cmd |-> 0, turn |-> 0, show |-> FALSE, wish |-> "answer"]
IdleActor == [at |-> "idle", turn |-> 0, wish |-> "answer"]
NoLoop == [iter |-> 0, steps |-> <<>>, target |-> "none", cmd |-> 0]
Wishes == {"answer", "run", "show", "nav", "segment"}

ActorInit ==
  /\ srv \in [dynamic : BOOLEAN, gen : {0}, busy : {"none"}, pend : {NoRun}, nav : {0}, queued : {0}, obs : {NoObs}]
  /\ actor = IdleActor /\ dyn = NoLoop
  /\ sdk = [run |-> 0, turn |-> 0, aborted |-> FALSE, pauseSoon |-> FALSE, paused |-> 0, tools |-> {}, left |-> FALSE]
  /\ up = <<>> /\ down = <<>> /\ http = {} /\ cut = {}
  /\ count = [turns |-> 0, barges |-> 0, sends |-> 0, tools |-> 0]

Msg(kind, cmd, turn, ok) == [kind |-> kind, cmd |-> cmd, turn |-> turn, ok |-> ok]
Tell(kind, cmd, turn) == down' = Append(down, Msg(kind, cmd, turn, TRUE))
Say(kind, cmd, turn, ok) == up' = Append(up, Msg(kind, cmd, turn, ok))
Talks == actor' = [IdleActor EXCEPT !.at = "talk"]
NewCmd == count.sends + 1
Sent == count' = [count EXCEPT !.sends = @ + 1]

-----------------------------------------------------------------------------
(* Between two messages nothing else happens on the control socket. *)

Working(s) == s.pend.cmd # 0 \/ s.nav # 0
Cleared(s) == [s EXCEPT !.pend = NoRun, !.nav = 0, !.queued = 0]
Abort(s) == [s EXCEPT !.busy = IF @ = "none" THEN @ ELSE "aborted"]

\* beginTurn, and resolveTurn up to its first await.
Begins(s, turn) == [Abort(s) EXCEPT !.gen = @ + 1, !.obs = NoObs]
Begin(s, turn) ==
  /\ \/ /\ srv' = Begins(s, turn) /\ actor' = [at |-> "plan", turn |-> turn, wish |-> "answer"]
        /\ UNCHANGED <<down, count>>
     \/ /\ s.pend.cmd # 0                     \* a plain "stop"
        /\ srv' = Cleared(Begins(s, turn)) /\ Tell("stop", 0, 0)
        /\ Talks /\ UNCHANGED count
     \/ /\ s.pend.paused              \* a plain "continue"
        /\ srv' = [Begins(s, turn) EXCEPT !.pend.cmd = NewCmd, !.pend.gen = s.gen + 1, !.pend.paused = FALSE]
        /\ Tell("resume", NewCmd, s.pend.turn) /\ Sent /\ actor' = IdleActor

TakeTurn(m) ==
  IF srv.pend.cmd # 0 /\ ~srv.pend.paused
  THEN /\ srv' = [srv EXCEPT !.queued = m.turn] /\ Tell("pause", 0, srv.pend.turn)
       /\ UNCHANGED <<actor, count>>
  ELSE Begin(srv, m.turn)

TakeInterrupt ==
  /\ srv' = IF Working(srv) THEN Cleared(Abort(srv)) ELSE Abort(srv)
  /\ Tell("stop", 0, 0)
  /\ UNCHANGED <<actor, count>>

\* The journey stopped before a step: a waiting turn begins now.
TakePaused(m) ==
  /\ m.cmd = srv.pend.cmd
  /\ LET s == [srv EXCEPT !.pend.paused = TRUE, !.queued = 0]
     IN IF srv.queued # 0 THEN Begin(s, srv.queued)
        ELSE srv' = s /\ UNCHANGED <<actor, down, count>>

RequestObservation(s, turn, show, wish) ==
  /\ Sent /\ Tell("observe", NewCmd, turn)
  /\ srv' = [s EXCEPT !.obs = [cmd |-> NewCmd, turn |-> turn, show |-> show, wish |-> wish]]

TakeResult(m) ==
  /\ m.cmd = srv.pend.cmd
  /\ LET s == [srv EXCEPT !.pend = NoRun, !.queued = 0]
     IN \/ srv.queued # 0 /\ Begin(s, srv.queued)
        \/ /\ srv.queued = 0 /\ srv.pend.gen # srv.gen
           /\ srv' = s /\ UNCHANGED <<actor, down, count>>
        \/ /\ srv.queued = 0 /\ srv.pend.gen = srv.gen /\ m.ok /\ srv.pend.show
           /\ RequestObservation(s, srv.pend.turn, TRUE, "answer") /\ UNCHANGED actor
        \/ /\ srv.queued = 0 /\ srv.pend.gen = srv.gen /\ ~(m.ok /\ srv.pend.show)
           /\ srv' = s /\ Talks /\ UNCHANGED <<down, count>>

TakeNavResult(m) ==
  /\ m.cmd = srv.nav
  /\ srv' = [srv EXCEPT !.nav = 0] /\ Talks
  /\ UNCHANGED <<down, count>>

\* A fresh look: the turn that asked for it goes on with its plan, or the
\* section just reached is explained.
TakeObservation(m) ==
  /\ m.cmd = srv.obs.cmd
  /\ srv' = [srv EXCEPT !.obs = NoObs, !.busy = "live"]
  /\ actor' = [at |-> IF srv.obs.show THEN "explain" ELSE "model", turn |-> srv.obs.turn, wish |-> srv.obs.wish]
  /\ UNCHANGED <<down, count>>

Concerns(m) ==
  \/ m.kind \in {"turn", "interrupt"}
  \/ m.kind \in {"paused", "result"} /\ m.cmd = srv.pend.cmd
  \/ m.kind = "navigated" /\ m.cmd = srv.nav
  \/ m.kind = "observation" /\ m.cmd = srv.obs.cmd

Handle ==
  /\ actor.at = "idle" /\ up # <<>> /\ up' = Tail(up)
  /\ LET m == Head(up)
     IN \/ m.kind = "turn" /\ TakeTurn(m)
        \/ m.kind = "interrupt" /\ TakeInterrupt
        \/ m.kind = "paused" /\ TakePaused(m)
        \/ m.kind = "result" /\ TakeResult(m)
        \/ m.kind = "navigated" /\ TakeNavResult(m)
        \/ m.kind = "observation" /\ TakeObservation(m)
        \* a report nobody waits for; a tool result over the socket has always
        \* queued behind the turn that waited for it
        \/ ~Concerns(m) /\ UNCHANGED <<srv, actor, down, count>>
  /\ UNCHANGED <<dyn, sdk, http, cut>>

-----------------------------------------------------------------------------
(* resolveTurn, await by await. *)

Quiet == UNCHANGED <<dyn, sdk, up, http, cut>>
GoDynamic == actor' = [actor EXCEPT !.at = "dyn"] /\ dyn' = NoLoop /\ srv' = [srv EXCEPT !.busy = "live"]

\* The planner decided; with a journey under way it also says what becomes of it.
Plan ==
  /\ actor.at = "plan"
  /\ \/ /\ actor' = IdleActor /\ ~srv.dynamic          \* failed: logged by beginTurn, nothing is said
        /\ UNCHANGED <<srv, down, count>> /\ Quiet
     \/ /\ srv.dynamic /\ GoDynamic
        /\ UNCHANGED <<sdk, up, down, http, cut, count>>
     \/ /\ srv.pend.cmd # 0                   \* taskControl stop
        /\ srv' = Cleared(srv) /\ Tell("stop", 0, 0) /\ Talks
        /\ UNCHANGED count /\ Quiet
     \/ /\ srv.pend.paused            \* taskControl continue
        /\ srv' = [srv EXCEPT !.pend.cmd = NewCmd, !.pend.gen = srv.gen, !.pend.paused = FALSE]
        /\ Tell("resume", NewCmd, srv.pend.turn) /\ Sent /\ actor' = IdleActor /\ Quiet
     \/ \E wish \in {"answer", "nav", "segment"} :    \* needsFreshObservation; the paused journey stays
          /\ RequestObservation(srv, actor.turn, FALSE, wish) /\ actor' = IdleActor /\ Quiet
     \/ \E wish \in {"answer", "run", "show"} :
          /\ actor' = [actor EXCEPT !.at = "model", !.wish = wish]
          /\ IF wish # "answer" /\ srv.pend.cmd # 0   \* taskControl replace
             THEN srv' = [Cleared(srv) EXCEPT !.busy = "live"] /\ Tell("stop", 0, 0)
             ELSE srv' = [srv EXCEPT !.busy = "live"] /\ UNCHANGED down
          /\ UNCHANGED count /\ Quiet

\* wrong: the wait for the acknowledgement is not followed by a second look
HushedNever == FALSE
Hushed == srv.busy = "aborted"

Model ==
  /\ actor.at = "model"
  /\ \/ /\ Hushed /\ actor' = IdleActor /\ UNCHANGED <<srv, dyn>>
     \/ /\ ~Hushed /\ srv.dynamic /\ GoDynamic            \* failed, or a gap in the catalog
     \/ /\ ~Hushed /\ ~srv.dynamic /\ actor' = IdleActor /\ UNCHANGED <<srv, dyn>>
     \/ /\ ~Hushed /\ actor.wish # "answer"
        /\ actor' = [actor EXCEPT !.at = "ack"] /\ UNCHANGED <<srv, dyn>>
     \/ /\ ~Hushed /\ Talks /\ UNCHANGED <<srv, dyn>>  \* an answer, a question, a refusal
  /\ UNCHANGED <<sdk, up, down, http, cut, count>>

\* The acknowledgement was spoken and heard, or the wait cap passed.
Act ==
  /\ actor.at = "ack"
  /\ actor' = IdleActor
  /\ IF Hushed THEN UNCHANGED <<srv, down, count>>
     ELSE /\ Sent
          /\ IF actor.wish = "nav"
             THEN srv' = [srv EXCEPT !.busy = "none", !.nav = NewCmd] /\ Tell("nav", NewCmd, actor.turn)
             ELSE /\ srv' = [srv EXCEPT !.busy = "none",
                               !.pend = [cmd |-> NewCmd, turn |-> actor.turn, gen |-> srv.gen, paused |-> FALSE,
                                         show |-> actor.wish = "show"]]
                  /\ Tell("run", NewCmd, actor.turn)
  /\ UNCHANGED <<dyn, sdk, up, http, cut>>

\* The model behind an explanation after a journey.
Explain ==
  /\ actor.at = "explain"
  /\ \/ Talks /\ ~Hushed /\ UNCHANGED srv
     \/ actor' = IdleActor /\ Hushed /\ UNCHANGED srv
     \/ Talks /\ srv' = [srv EXCEPT !.busy = "none"]   \* failed or aborted: TURN_FAILED
  /\ UNCHANGED <<dyn, sdk, up, down, http, cut, count>>

Talk ==
  /\ actor.at = "talk"
  /\ actor' = IdleActor /\ srv' = [srv EXCEPT !.busy = "none"]
  /\ UNCHANGED <<dyn, sdk, up, down, http, cut, count>>

-----------------------------------------------------------------------------
(* The dynamic agent *)

Failed(i) == ~dyn.steps[i].ok
\* Two failures in a row, whatever they were aimed at.
GivesUp == Len(dyn.steps) >= 2 /\ \A i \in Len(dyn.steps) - 1 .. Len(dyn.steps) : Failed(i)
FailedAt(t) == Cardinality({i \in DOMAIN dyn.steps : dyn.steps[i] = [target |-> t, ok |-> FALSE]}) >= 2
Repeats(t) == dyn.steps # <<>> /\ dyn.steps[Len(dyn.steps)] = [target |-> t, ok |-> TRUE]

\* Cut off, the loop ends without a word; answered, asked, failed, or out of
\* iterations, it speaks.
EndLoop ==
  /\ dyn' = NoLoop /\ UNCHANGED <<srv, down, count>>
  /\ \/ Hushed /\ actor' = IdleActor
     \/ ~Hushed /\ Talks
Think ==
  /\ actor.at = "dyn"
  /\ \/ EndLoop
     \/ /\ ~Hushed /\ dyn.iter < MaxIterations                   \* a plan or a remark
        /\ dyn' = [dyn EXCEPT !.iter = @ + 1] /\ UNCHANGED <<actor, srv, down, count>>
     \/ /\ ~Hushed /\ dyn.iter < MaxIterations /\ count.tools < MaxTools
        /\ \E t \in Targets :
             IF FailedAt(t) \/ GivesUp \/ Repeats(t)
             THEN EndLoop
             ELSE /\ count' = [count EXCEPT !.sends = @ + 1, !.tools = @ + 1] /\ down' = Append(down, [kind |-> "tool", cmd |-> NewCmd, turn |-> actor.turn, target |-> t])
                  /\ dyn' = [dyn EXCEPT !.iter = @ + 1, !.target = t, !.cmd = NewCmd]
                  /\ actor' = [actor EXCEPT !.at = "tool"] /\ UNCHANGED srv
  /\ UNCHANGED <<sdk, up, http, cut>>

Returned(ok, target) ==
  /\ dyn' = [dyn EXCEPT !.steps = Append(@, [target |-> target, ok |-> ok]), !.target = "none", !.cmd = 0]
  /\ actor' = [actor EXCEPT !.at = "dyn"]
  /\ http' = {}

\* Only the HTTP copy of a result can reach the turn that waits for it.
HttpResult ==
  /\ actor.at = "tool"
  /\ \E r \in http : r.cmd = dyn.cmd /\ Returned(r.ok, dyn.target)
  /\ UNCHANGED <<srv, sdk, up, down, cut, count>>
\* wrong: the wait has no timer
ToolTimeoutNever == FALSE /\ UNCHANGED actorVars
\* Ninety seconds: the step failed, and what it was aimed at is forgotten.
ToolTimeout ==
  /\ actor.at = "tool" /\ Returned(FALSE, "none")
  /\ UNCHANGED <<srv, sdk, up, down, cut, count>>

-----------------------------------------------------------------------------
(* What gets in between *)

ObservationTimeout ==
  /\ srv.obs.cmd # 0 /\ srv' = [srv EXCEPT !.obs = NoObs]
  /\ UNCHANGED <<actor, dyn, sdk, up, down, http, cut, count>>
BargeIn ==
  /\ count.barges < MaxBarges /\ count' = [count EXCEPT !.barges = @ + 1]
  /\ srv' = Abort(srv)
  /\ cut' = IF actor.at \in {"model", "ack", "dyn", "tool"} THEN cut \cup {actor.turn} ELSE cut
  /\ UNCHANGED <<actor, dyn, sdk, up, down, http>>
Speak ==
  /\ count.turns < MaxTurns /\ ~sdk.left
  /\ count' = [count EXCEPT !.turns = @ + 1] /\ Say("turn", 0, count.turns + 1, TRUE)
  /\ UNCHANGED <<srv, actor, dyn, sdk, down, http, cut>>
PressStop ==
  /\ count.barges < MaxBarges /\ count' = [count EXCEPT !.barges = @ + 1]
  /\ sdk' = [sdk EXCEPT !.aborted = sdk.run # 0]
  /\ Say("interrupt", 0, 0, TRUE)
  /\ UNCHANGED <<srv, actor, dyn, down, http, cut>>

-----------------------------------------------------------------------------
(* The browser *)

TakeRun(m) ==
  LET valid == sdk.run = 0 /\ sdk.paused = (IF m.kind = "resume" THEN m.turn ELSE 0)
  IN IF valid
     THEN /\ sdk' = [sdk EXCEPT !.run = m.cmd, !.turn = m.turn, !.aborted = FALSE, !.pauseSoon = FALSE, !.paused = 0]
          /\ UNCHANGED up
     ELSE /\ sdk' = [sdk EXCEPT !.paused = IF m.kind = "resume" /\ @ = m.turn THEN 0 ELSE @]
          /\ Say("result", m.cmd, m.turn, FALSE)

Receive ==
  /\ down # <<>> /\ down' = Tail(down) /\ ~sdk.left
  /\ LET m == Head(down)
     IN \/ m.kind \in {"run", "resume"} /\ TakeRun(m)
        \/ m.kind = "pause" /\ sdk' = [sdk EXCEPT !.pauseSoon = @ \/ (sdk.run # 0 /\ sdk.turn = m.turn)] /\ UNCHANGED up
        \/ /\ m.kind = "stop"
           /\ sdk' = [sdk EXCEPT !.pauseSoon = FALSE, !.paused = 0, !.aborted = sdk.run # 0] /\ UNCHANGED up
        \/ m.kind = "observe" /\ Say("observation", m.cmd, m.turn, TRUE) /\ UNCHANGED sdk
        \/ m.kind = "observe" /\ UNCHANGED <<up, sdk>>           \* the page could not be read
        \/ m.kind = "nav" /\ Say("navigated", m.cmd, m.turn, FALSE) /\ UNCHANGED sdk
        \/ /\ m.kind = "nav" /\ sdk.run = 0 /\ sdk.paused = 0    \* success is a new page
           /\ sdk' = [sdk EXCEPT !.left = TRUE] /\ UNCHANGED up
        \/ m.kind = "tool" /\ sdk' = [sdk EXCEPT !.tools = @ \cup {m}] /\ UNCHANGED up
  /\ UNCHANGED <<srv, actor, dyn, http, cut, count>>

\* At the next step boundary a run pauses, ends, or notices that it was aborted.
Steps ==
  /\ sdk.run # 0 /\ ~sdk.left
  /\ LET over == [sdk EXCEPT !.run = 0, !.turn = 0, !.aborted = FALSE, !.pauseSoon = FALSE]
     IN \/ /\ sdk.pauseSoon /\ ~sdk.aborted
           /\ sdk' = [over EXCEPT !.paused = sdk.turn] /\ Say("paused", sdk.run, sdk.turn, TRUE)
        \/ \E ok \in {~sdk.aborted, FALSE} : sdk' = over /\ Say("result", sdk.run, sdk.turn, ok)
  /\ UNCHANGED <<srv, actor, dyn, down, http, cut, count>>

\* executeDynamicTool: one result, sent over the socket and over HTTP; the
\* HTTP copy may get lost.
Click ==
  /\ ~sdk.left
  /\ \E m \in sdk.tools, ok \in BOOLEAN :
       /\ sdk' = [sdk EXCEPT !.tools = @ \ {m}]
       /\ Say("tool_result", m.cmd, m.turn, ok)
       /\ \/ m.cmd = dyn.cmd /\ http' = {[cmd |-> m.cmd, ok |-> ok]}    \* nobody waits for a late one
          \/ UNCHANGED http
  /\ UNCHANGED <<srv, actor, dyn, down, cut, count>>

Runtime == Handle \/ Plan \/ Model \/ Act \/ Explain \/ Talk \/ Think \/ HttpResult \/ ToolTimeout \/ ObservationTimeout
Browser == Receive \/ Steps \/ Click
ActorNext == Runtime \/ Browser \/ BargeIn \/ Speak \/ PressStop

ActorFairness ==
  /\ WF_actorVars(Handle) /\ WF_actorVars(Plan \/ Model \/ Act \/ Explain \/ Talk \/ Think \/ ToolTimeout)
  /\ WF_actorVars(Receive) /\ WF_actorVars(Steps)
ActorSpec == ActorInit /\ [][ActorNext]_actorVars /\ ActorFairness

-----------------------------------------------------------------------------
ActorTypeOK ==
  /\ srv.busy \in {"none", "live", "aborted"}
  /\ actor.at \in {"idle", "plan", "model", "ack", "explain", "talk", "dyn", "tool"} /\ actor.wish \in Wishes
  /\ sdk.paused =< count.turns /\ srv.queued =< count.turns

(***************************************************************************)
(* Barging in is final: once a person has spoken into a turn that has a    *)
(* model running, an acknowledgement playing or a tool under way, nothing  *)
(* more reaches the page for that turn, however late its model or tool     *)
(* answers (server.ts resolveTurn, dynamic-agent.ts run).  A barge-in      *)
(* while the turn is still being planned finds nothing to abort.           *)
(***************************************************************************)
CutOffTurnsDoNothing ==
  [][Len(down') > Len(down) => LET m == down'[Len(down')]
                               IN m.kind \in {"run", "nav", "tool"} => m.turn \notin cut]_actorVars

(***************************************************************************)
(* A turn said while a journey runs is taken up or dropped by a stop: the  *)
(* journey pauses, ends or is refused, and each of these frees it.  Turns  *)
(* wait for no tool result for ever, though the socket copy of the result  *)
(* queues behind the turn that waits for it.                               *)
(***************************************************************************)
TurnsAreTakenUp == (actor.at # "idle" ~> actor.at = "idle") /\ (srv.queued # 0 ~> srv.queued = 0)
=============================================================================
