-------------------------- MODULE GuidedDemoProofs --------------------------
(***************************************************************************)
(* The safety of a guided demo over one control socket, for every profile, *)
(* every number of steps and inputs, and queues of any length.             *)
(*                                                                         *)
(* The inductive invariant is a predicate of the server's state s, the     *)
(* browser's state k, the messages u on their way up and the commands q on *)
(* their way down.  It is stated on parameters because a handler sends     *)
(* several commands: its effect is taken apart into the few changes every  *)
(* handler is made of, with q standing for what was on the way before and  *)
(* what the handler has sent so far.                                       *)
(***************************************************************************)
EXTENDS GuidedDemo, DemoDirectorProofs

(* Messages and commands.                                                  *)
Turn == [kind : {"user_turn"}]
Pressed == [kind : {"demo_control"}, action : ControlActions, seen : Modules \union {NoModule}]
Interrupted == [kind : {"interrupt"}]
Paused == [kind : {"paused"}, cmd : Nat \ {0}, next : Steps]
Result == [kind : {"journey_result"}, cmd : Nat \ {0}, ok : BOOLEAN]
Observed == [kind : {"observation"}, cmd : Nat]
UpMessages == Turn \union Pressed \union Interrupted \union Paused \union Result \union Observed

State ==
  {m \in [kind : {"demo_state"}, phase : Phases, module : Modules \union {NoModule},
          buttons : SUBSET ControlActions] : m.buttons \subseteq MaximumButtons(m.phase)}
Stopping == [kind : {"stop_journey"}]
Pausing == [kind : {"pause_journey"}, journey : Journeys]
Running == [kind : {"run_journey"}, cmd : Nat \ {0}, journey : Journeys, resume : Steps \union {0}]
Requesting == [kind : {"request_observation"}, cmd : Nat]
DownMessages == State \union Stopping \union Pausing \union Running \union Requesting

IsRun(m) == m.kind = "run_journey"
IsStop(m) == m.kind = "stop_journey"
IsState(m) == m.kind = "demo_state"
IsOutcome(m) == m.kind \in {"journey_result", "paused"}
IsPress(m) == m.kind = "demo_control"

(* The buttons that move a waiting demo on, and those a demo offers once.  *)
Forward == {"continue", "retry", "skip"}
Fresh == {"start", "retry", "skip"}

-----------------------------------------------------------------------------
(* The server between two handlers.  Active: it waits for a journey.       *)
Active(s) == s.journey # NoJourney /\ ~s.journey.paused

Server ==
  [demo : DemoState,
   journey : [cmd : Nat, module : Modules \union {NoModule}, paused : BOOLEAN],
   interruption : Plans \union {NoInterruption, Heard},
   observing : Nat, late : BOOLEAN, timer : BOOLEAN, issued : Nat,
   out : Seq(DownMessages)]
ServerTyped(s) ==
  /\ s \in Server
  /\ Sound(s.demo)
  /\ s.journey = NoJourney \/ (s.journey.cmd # 0 /\ s.journey.module \in Modules)

(* A journey is awaited only while its module plays or pauses, and an      *)
(* answer to an observation only while the interruption is answered.       *)
JourneyOnStage(s) ==
  /\ Active(s) => s.demo.phase \in {"playing", "pausing"} /\ s.demo.module = s.journey.module
  /\ s.journey.paused => s.demo.phase \notin {"playing", "pausing"}
AnswerDue(s) ==
  /\ s.late \/ s.observing # 0 => s.demo.phase = "answering" /\ Planned(s)
  /\ s.late => s.observing = 0
  /\ s.demo.phase = "answering" => s.demo.reason # "failure"

(* The browser.                                                            *)
Runs == [cmd : Nat \ {0}, module : Modules \union {NoModule}, journey : Journeys,
         next : Steps, inStep : BOOLEAN]
BrowserStates ==
  [phase : Phases \union {"paused"}, module : Modules \union {NoModule},
   buttons : SUBSET ControlActions, pending : ControlActions \union {"none"},
   run : Runs \union {NoRun},
   pauseRequested : BOOLEAN, paused : Checkpoints \union {NoCheckpoint},
   staged : [cmd : Nat, ok : BOOLEAN], intro : BOOLEAN, asked : SUBSET Nat]
BrowserOK(k) ==
  /\ k \in BrowserStates
  /\ k.buttons \subseteq MaximumButtons(k.phase) \union {"stop"}
  /\ k.staged = NoResult \/ k.staged.cmd # 0

-----------------------------------------------------------------------------
(* Commands: where the journey of a command is.  Its order is on the way,  *)
(* or it runs, or its result is being announced or on the way back; never  *)
(* two of these.                                                           *)
IdsIssued(s, k, u, q) ==
  /\ s.journey.cmd <= s.issued
  /\ k.run.cmd <= s.issued
  /\ k.staged.cmd <= s.issued
  /\ \A i \in 1..Len(u) : IsOutcome(u[i]) => u[i].cmd <= s.issued
  /\ \A i \in 1..Len(q) : IsRun(q[i]) => q[i].cmd <= s.issued
OrdersAreNew(k, u, q) ==
  \A i \in 1..Len(q) : IsRun(q[i]) =>
    /\ k.run.cmd < q[i].cmd
    /\ k.staged.cmd < q[i].cmd
    /\ \A j \in 1..Len(u) : IsOutcome(u[j]) => u[j].cmd < q[i].cmd
    /\ \A j \in 1..Len(q) : IsRun(q[j]) /\ i < j => q[i].cmd < q[j].cmd
OneOutcome(k, u) ==
  /\ k.run # NoRun => k.run.cmd # k.staged.cmd
  /\ \A i \in 1..Len(u) : IsOutcome(u[i]) =>
       /\ u[i].cmd # k.run.cmd
       /\ u[i].cmd # k.staged.cmd
       /\ \A j \in 1..Len(u) : IsOutcome(u[j]) /\ u[j].cmd = u[i].cmd => j = i

(* Positions in the queue of commands.                                     *)
OrderAfter(q, j, c) == \E i \in 1..Len(q) : j < i /\ IsRun(q[i]) /\ q[i].cmd = c
StopBetween(q, i, l) == \E j \in 1..Len(q) : i < j /\ j < l /\ IsStop(q[j])
StopAfter(q, i) == \E j \in 1..Len(q) : i < j /\ IsStop(q[j])
OutcomeSent(u, c) == \E i \in 1..Len(u) : IsOutcome(u[i]) /\ u[i].cmd = c

(* The journey the server awaits is in one of these places.                *)
Answered(s, k, u, q) ==
  Active(s) => \/ OrderAfter(q, 0, s.journey.cmd)
               \/ k.run.cmd = s.journey.cmd
               \/ k.staged.cmd = s.journey.cmd
               \/ OutcomeSent(u, s.journey.cmd)

(* Whatever the browser runs or is ordered to run is what the server       *)
(* awaits, or a stop follows.                                              *)
Awaited(s, m) == Active(s) /\ m.cmd = s.journey.cmd /\ m.journey = JourneyOf[s.journey.module]
OrdersFollowed(s, q) ==
  \A i \in 1..Len(q) : IsRun(q[i]) => Awaited(s, q[i]) \/ StopAfter(q, i)
RunFollowed(s, k, q) ==
  k.run # NoRun => Awaited(s, k.run) \/ StopAfter(q, 0)
(* Before a journey starts, the one before it is stopped.                  *)
OrdersApart(k, q) ==
  \A i \in 1..Len(q) : IsRun(q[i]) =>
    /\ k.run = NoRun \/ StopBetween(q, 0, i)
    /\ \A l \in 1..Len(q) : IsRun(q[l]) /\ l < i => StopBetween(q, l, i)
(* No stop reaches the browser for a journey the server awaits.            *)
StopsBefore(s, q) ==
  Active(s) => \A j \in 1..Len(q) : IsStop(q[j]) => OrderAfter(q, j, s.journey.cmd)

Commands(s, k, u, q) ==
  /\ IdsIssued(s, k, u, q) /\ OrdersAreNew(k, u, q) /\ OneOutcome(k, u)
  /\ Answered(s, k, u, q)
  /\ OrdersFollowed(s, q) /\ RunFollowed(s, k, q) /\ OrdersApart(k, q) /\ StopsBefore(s, q)

-----------------------------------------------------------------------------
(* Checkpoints: what a waiting server, an order to resume and a report of  *)
(* a pause say is what the browser holds, unless a stop is on its way up.  *)
StopInUp(u) ==
  \E i \in 1..Len(u) : u[i].kind = "interrupt" \/ (IsPress(u[i]) /\ u[i].action = "stop")
NoStop(q) == \A j \in 1..Len(q) : ~IsStop(q[j])
Holds(k, u, c) == k.paused = c \/ StopInUp(u)
Waiting(d) == d.phase \in {"awaiting_resume", "answering"} /\ d.checkpoint # NoCheckpoint

WaitsExactly(s, k, u, q) == Waiting(s.demo) => NoStop(q) /\ Holds(k, u, s.demo.checkpoint)
ResumesExactly(s, k, u, q) ==
  \A i \in 1..Len(q) : IsRun(q[i]) /\ Active(s) /\ q[i].cmd = s.journey.cmd /\ q[i].resume # 0 =>
    NoStop(q) /\ Holds(k, u, [journey |-> q[i].journey, next |-> q[i].resume])
ReportsExactly(s, k, u) ==
  \A i \in 1..Len(u) : u[i].kind = "paused" /\ Active(s) /\ u[i].cmd = s.journey.cmd =>
    Holds(k, u, [journey |-> JourneyOf[s.journey.module], next |-> u[i].next])

-----------------------------------------------------------------------------
(* Buttons.  A button is offered by the panel, by a state on its way to    *)
(* it, or has been pressed and is on its way up.                           *)
Shows(m, a) == IsState(m) /\ a \in m.buttons
Presses(m, a) == IsPress(m) /\ m.action = a
Offered(k, u, q, a, v) ==
  \/ a \in k.buttons /\ k.module = v
  \/ \E i \in 1..Len(q) : Shows(q[i], a) /\ q[i].module = v
  \/ \E i \in 1..Len(u) : Presses(u[i], a) /\ u[i].seen = v

(* What the server may have become since it offered a button.              *)
Current(d, a, v) ==
  CASE a = "continue" ->
         d.module = v \/ d.phase \notin {"awaiting_resume", "answering"} \/ d.reason = "failure"
    [] a = "start" -> d.phase \in TerminalPhases
    [] OTHER -> \/ d.phase \in TerminalPhases
                \/ (d.phase = "awaiting_resume" /\ d.reason = "failure" /\ d.module = v)
OffersCurrent(d, k, u, q) ==
  \A a \in Forward \union {"start"}, v \in Modules \union {NoModule} :
    Offered(k, u, q, a, v) => Current(d, a, v)

(* Start is the last thing offered, and retry and skip are offered once.   *)
After(a) == IF a = "start" THEN Fresh ELSE {"retry", "skip"}
OfferedOnce(k, u, q) ==
  /\ \A i \in 1..Len(u), a \in Fresh, b \in Fresh : Presses(u[i], a) /\ b \in After(a) =>
       /\ \A j \in 1..Len(u) : i < j => ~Presses(u[j], b)
       /\ b \notin k.buttons
       /\ \A j \in 1..Len(q) : ~Shows(q[j], b)
  /\ \A a \in Fresh, b \in Fresh : a \in k.buttons /\ b \in After(a) =>
       \A j \in 1..Len(q) : ~Shows(q[j], b)
  /\ \A i \in 1..Len(q), a \in Fresh, b \in Fresh : Shows(q[i], a) /\ b \in After(a) =>
       \A j \in 1..Len(q) : i < j => ~Shows(q[j], b)

(* While a journey is awaited, a button that moves on is shown only before *)
(* its order has been taken, and pressed only before its outcome is sent.  *)
Moves(buttons) == buttons \intersect Forward # {}
Moving(m) == IsState(m) /\ Moves(m.buttons)
Bare(m) == IsState(m) /\ ~Moves(m.buttons)
MovingPress(m) == IsPress(m) /\ m.action \in Forward
ShownBefore(s, k, q) ==
  Active(s) =>
    /\ Moves(k.buttons) => OrderAfter(q, 0, s.journey.cmd)
    /\ \A j \in 1..Len(q) : Moving(q[j]) => OrderAfter(q, j, s.journey.cmd)
PressedBefore(s, u) ==
  Active(s) => \A i, j \in 1..Len(u) :
    MovingPress(u[i]) /\ IsOutcome(u[j]) /\ u[j].cmd = s.journey.cmd => i < j
(* An order to run is preceded by a state without such buttons.            *)
BareBetween(q, j, i) == \E l \in 1..Len(q) : j < l /\ l < i /\ Bare(q[l])
OrdersAnnounced(k, q) ==
  \A i \in 1..Len(q) : IsRun(q[i]) =>
    /\ Moves(k.buttons) => BareBetween(q, 0, i)
    /\ \A j \in 1..Len(q) : j < i /\ Moving(q[j]) => BareBetween(q, j, i)

Panel(s, k, u, q) ==
  /\ OfferedOnce(k, u, q)
  /\ ShownBefore(s, k, q) /\ PressedBefore(s, u) /\ OrdersAnnounced(k, q)

-----------------------------------------------------------------------------
(* The parts of the invariant that speak of the messages.                  *)
Fine(s, k, u, q) ==
  /\ Commands(s, k, u, q)
  /\ WaitsExactly(s, k, u, q)
  /\ ResumesExactly(s, k, u, q)
  /\ ReportsExactly(s, k, u)
  /\ OffersCurrent(s.demo, k, u, q)
  /\ Panel(s, k, u, q)

IInv ==
  /\ ServerTyped(srv) /\ JourneyOnStage(srv) /\ AnswerDue(srv) /\ srv.out = << >>
  /\ BrowserOK(sdk) /\ up \in Seq(UpMessages) /\ down \in Seq(DownMessages)
  /\ Fine(srv, sdk, up, down)

-----------------------------------------------------------------------------
(* Queues.  p is q with m at its end, or without its head.                 *)
Grown(q, p, m) ==
  Len(p) = Len(q) + 1 /\ p[Len(q) + 1] = m /\ \A i \in 1..Len(q) : p[i] = q[i]
Shrunk(q, p) ==
  Len(p) + 1 = Len(q) /\ \A i \in 1..Len(p) : p[i] = q[i + 1]

(* Append and Tail as changes of a queue.                                  *)
LEMMA Appended ==
  ASSUME NEW S, NEW q \in Seq(S), NEW m \in S
  PROVE  Append(q, m) \in Seq(S) /\ Grown(q, Append(q, m), m)
  BY DEF Grown

(* Taking the head of a queue shortens it from the front.                  *)
LEMMA Removed ==
  ASSUME NEW S, NEW q \in Seq(S), q # << >>
  PROVE  /\ Tail(q) \in Seq(S) /\ Shrunk(q, Tail(q))
         /\ Len(q) \in Nat \ {0} /\ Head(q) = q[1] /\ q[1] \in S
  BY DEF Shrunk

(* What a handler sends comes after what was on the way.                   *)
LEMMA Joined ==
  ASSUME NEW S, NEW q \in Seq(S), NEW o \in Seq(S), NEW m \in S
  PROVE  /\ q \o Append(o, m) = Append(q \o o, m)
         /\ q \o o \in Seq(S) /\ q \o << >> = q
  OBVIOUS

(* What the fields of typed messages are.                                  *)
LEMMA DownFields ==
  ASSUME NEW m \in DownMessages
  PROVE  /\ IsRun(m) => m.cmd \in Nat \ {0} /\ m.journey \in Journeys /\ m.resume \in Steps \union {0}
         /\ IsState(m) => /\ m.phase \in Phases /\ m.module \in Modules \union {NoModule}
                          /\ m.buttons \subseteq ControlActions
         /\ m.kind = "pause_journey" => m.journey \in Journeys
         /\ m.kind = "request_observation" => m.cmd \in Nat
  BY DEF DownMessages, State, Stopping, Pausing, Running, Requesting, IsRun, IsState

(* The same of the messages on their way up.                               *)
LEMMA UpFields ==
  ASSUME NEW m \in UpMessages
  PROVE  /\ IsOutcome(m) => m.cmd \in Nat \ {0}
         /\ m.kind = "paused" => m.cmd \in Nat \ {0} /\ m.next \in Steps
         /\ m.kind = "journey_result" => m.ok \in BOOLEAN
         /\ IsPress(m) => m.action \in ControlActions /\ m.seen \in Modules \union {NoModule}
         /\ m.kind = "observation" => m.cmd \in Nat
  BY DEF UpMessages, Turn, Pressed, Interrupted, Paused, Result, Observed, IsOutcome, IsPress

(* The kinds exclude each other.                                           *)
LEMMA Kinds ==
  ASSUME NEW m
  PROVE  /\ IsState(m) => ~IsRun(m) /\ ~IsStop(m)
         /\ Moving(m) \/ Bare(m) => IsState(m)
         /\ MovingPress(m) => IsPress(m)
         /\ IsRun(m) => ~IsStop(m)
         /\ IsPress(m) => ~IsOutcome(m) /\ m.kind # "interrupt" /\ m.kind # "paused"
         /\ m.kind = "interrupt" => ~IsOutcome(m)
         /\ m.kind = "paused" => IsOutcome(m)
  BY DEF IsState, IsRun, IsStop, IsPress, IsOutcome, Moving, Bare, MovingPress

(* Positions are kept when a queue grows, and shift when it loses its head. *)
LEMMA GrownKeeps ==
  ASSUME NEW q, NEW p, NEW m, Grown(q, p, m), Len(q) \in Nat
  PROVE  /\ Len(p) \in Nat /\ Len(p) = Len(q) + 1
         /\ p[Len(p)] = m
         /\ \A i \in 1..Len(q) : p[i] = q[i]
         /\ \A i \in 1..Len(p) : i \in 1..Len(q) \/ i = Len(p)
         /\ \A j, c : OrderAfter(q, j, c) => OrderAfter(p, j, c)
         /\ \A i, l : StopBetween(q, i, l) => StopBetween(p, i, l)
         /\ \A i : StopAfter(q, i) => StopAfter(p, i)
         /\ \A j, i : BareBetween(q, j, i) => BareBetween(p, j, i)
         /\ \A c : OutcomeSent(q, c) => OutcomeSent(p, c)
<1>1. /\ Len(p) \in Nat /\ Len(p) = Len(q) + 1 /\ p[Len(p)] = m
      /\ \A i \in 1..Len(q) : p[i] = q[i] /\ i \in 1..Len(p)
      /\ \A i \in 1..Len(p) : i \in 1..Len(q) \/ i = Len(p)
  BY DEF Grown
<1>2. \A j, c : OrderAfter(q, j, c) => OrderAfter(p, j, c)
  BY <1>1 DEF OrderAfter
<1>3. \A i, l : StopBetween(q, i, l) => StopBetween(p, i, l)
  BY <1>1 DEF StopBetween
<1>4. \A i : StopAfter(q, i) => StopAfter(p, i)
  BY <1>1 DEF StopAfter
<1>5. \A j, i : BareBetween(q, j, i) => BareBetween(p, j, i)
  BY <1>1 DEF BareBetween
<1>6. \A c : OutcomeSent(q, c) => OutcomeSent(p, c)
  BY <1>1 DEF OutcomeSent
<1>7. QED
  BY <1>1, <1>2, <1>3, <1>4, <1>5, <1>6

(* What holds of a queue holds of it without its head.                     *)
LEMMA ShrunkKeeps ==
  ASSUME NEW q, NEW p, Shrunk(q, p), Len(q) \in Nat, Len(p) \in Nat
  PROVE  /\ \A i \in 1..Len(p) : i + 1 \in 1..Len(q) /\ p[i] = q[i + 1]
         /\ \A i \in 1..Len(q) : i = 1 \/ (i - 1 \in 1..Len(p) /\ q[i] = p[i - 1])
         /\ \A j \in Nat : \A c : OrderAfter(q, j + 1, c) => OrderAfter(p, j, c)
         /\ \A i \in Nat, l \in Nat : StopBetween(q, i + 1, l + 1) => StopBetween(p, i, l)
         /\ \A i \in Nat : StopAfter(q, i + 1) => StopAfter(p, i)
         /\ \A j \in Nat, i \in Nat : BareBetween(q, j + 1, i + 1) => BareBetween(p, j, i)
<1>1. /\ \A i \in 1..Len(p) : i + 1 \in 1..Len(q) /\ p[i] = q[i + 1]
      /\ \A i \in 1..Len(q) : i = 1 \/ (i - 1 \in 1..Len(p) /\ q[i] = p[i - 1])
  BY DEF Shrunk
<1>2. ASSUME NEW j \in Nat, NEW c, OrderAfter(q, j + 1, c) PROVE OrderAfter(p, j, c)
  <2>1. PICK i \in 1..Len(q) : j + 1 < i /\ IsRun(q[i]) /\ q[i].cmd = c
    BY <1>2 DEF OrderAfter
  <2>2. i - 1 \in 1..Len(p) /\ j < i - 1 /\ q[i] = p[i - 1]
    BY <1>1, <2>1
  <2>3. QED
    BY <2>1, <2>2 DEF OrderAfter
<1>3. \A i \in Nat, l \in Nat : StopBetween(q, i + 1, l + 1) => StopBetween(p, i, l)
  BY <1>1 DEF StopBetween
<1>4. \A i \in Nat : StopAfter(q, i + 1) => StopAfter(p, i)
  BY <1>1 DEF StopAfter
<1>5. \A j \in Nat, i \in Nat : BareBetween(q, j + 1, i + 1) => BareBetween(p, j, i)
  BY <1>1 DEF BareBetween
<1>6. QED
  BY <1>1, <1>2, <1>3, <1>4, <1>5

(* The types these lemmas rest on.                                         *)
Shape(s, k, u, q) ==
  /\ u \in Seq(UpMessages) /\ q \in Seq(DownMessages)
  /\ s.issued \in Nat /\ s.journey.cmd \in Nat /\ k.run.cmd \in Nat /\ k.staged.cmd \in Nat

-----------------------------------------------------------------------------
(* What the server does to the messages, one change at a time.             *)

(* It sends a command that is no state, no order to run and no stop.       *)
Neutral(m) == ~IsState(m) /\ ~IsRun(m) /\ ~IsStop(m)
LEMMA OtherSent ==
  ASSUME NEW s, NEW t, NEW k, NEW u, NEW q, NEW p, NEW m,
         Shape(s, k, u, q), Fine(s, k, u, q),
         t.journey = s.journey, t.demo = s.demo, t.issued \in Nat, s.issued <= t.issued,
         Grown(q, p, m), Neutral(m)
  PROVE  Fine(t, k, u, p)
<1> DEFINE old == 1..Len(q)
<1>1. Len(q) \in Nat /\ Len(u) \in Nat
  BY DEF Shape
<1>2. /\ \A i \in 1..Len(q) : IsRun(q[i]) => q[i].cmd \in Nat
      /\ \A i \in 1..Len(u) : IsOutcome(u[i]) => u[i].cmd \in Nat
  BY DownFields, UpFields DEF Shape
<1>3. /\ \A i \in old : p[i] = q[i]
      /\ \A i \in 1..Len(p) : i \in old \/ (Neutral(p[i]) /\ ~Moving(p[i]) /\ \A a : ~Shows(p[i], a))
  BY <1>1, GrownKeeps, Kinds DEF Neutral, Shows
<1>4. Active(t) <=> Active(s)
  BY DEF Active
<1> USE GrownKeeps
<1>5. Commands(t, k, u, p)
  <2>1. IdsIssued(t, k, u, p)
    <3>1. IdsIssued(s, k, u, q)
      BY DEF Fine, Commands
    <3>2. \A n \in Nat : n <= s.issued => n <= t.issued
      BY DEF Shape
    <3>3. QED
      BY <1>1, <1>2, <1>3, <3>1, <3>2 DEF IdsIssued, Neutral, Shape
  <2>2. OrdersAreNew(k, u, p) /\ OneOutcome(k, u)
    BY <1>1, <1>3 DEF Fine, Commands, OrdersAreNew, Neutral
  <2>3. Answered(t, k, u, p)
    BY <1>1, <1>4 DEF Fine, Commands, Answered
  <2>4. OrdersFollowed(t, p)
    BY <1>1, <1>3, <1>4 DEF Fine, Commands, OrdersFollowed, Awaited, Neutral
  <2>5. RunFollowed(t, k, p)
    BY <1>1, <1>4 DEF Fine, Commands, RunFollowed, Awaited
  <2>6. OrdersApart(k, p)
    BY <1>1, <1>3 DEF Fine, Commands, OrdersApart, Neutral
  <2>7. StopsBefore(t, p)
    BY <1>1, <1>3, <1>4 DEF Fine, Commands, StopsBefore, Neutral
  <2>8. QED
    BY <2>1, <2>2, <2>3, <2>4, <2>5, <2>6, <2>7 DEF Commands
<1>6. NoStop(q) => NoStop(p)
  BY <1>1, <1>3 DEF NoStop, Neutral
<1>7. WaitsExactly(t, k, u, p)
  BY <1>6 DEF Fine, WaitsExactly
<1>8. ResumesExactly(t, k, u, p)
  BY <1>1, <1>3, <1>4, <1>6 DEF Fine, ResumesExactly, Neutral
<1>9. ReportsExactly(t, k, u)
  BY <1>4 DEF Fine, ReportsExactly
<1>10. OffersCurrent(t.demo, k, u, p)
  <2>1. \A a, v : Offered(k, u, p, a, v) => Offered(k, u, q, a, v)
    BY <1>1, <1>3 DEF Offered
  <2>2. QED
    BY <2>1 DEF Fine, OffersCurrent
<1>11. Panel(t, k, u, p)
  <2>1. OfferedOnce(k, u, p)
    BY <1>1, <1>3 DEF Fine, Panel, OfferedOnce
  <2>2. ShownBefore(t, k, p)
    BY <1>1, <1>3, <1>4 DEF Fine, Panel, ShownBefore
  <2>3. PressedBefore(t, u)
    BY <1>4 DEF Fine, Panel, PressedBefore
  <2>4. OrdersAnnounced(k, p)
    BY <1>1, <1>3 DEF Fine, Panel, OrdersAnnounced, Neutral
  <2>5. QED
    BY <2>1, <2>2, <2>3, <2>4 DEF Panel
<1>12. QED
  BY <1>5, <1>7, <1>8, <1>9, <1>10, <1>11 DEF Fine

(* The demo changes, or the server's plans do, and nothing is sent.        *)
LEMMA DemoChanged ==
  ASSUME NEW s, NEW t, NEW k, NEW u, NEW q, Fine(s, k, u, q),
         t.journey = s.journey, t.issued = s.issued,
         OffersCurrent(t.demo, k, u, q), WaitsExactly(t, k, u, q)
  PROVE  Fine(t, k, u, q)
<1>1. Active(t) <=> Active(s)
  BY DEF Active
<1>2. Commands(t, k, u, q)
  BY <1>1 DEF Fine, Commands, IdsIssued, Answered, OrdersFollowed, RunFollowed, Awaited, StopsBefore
<1>3. ResumesExactly(t, k, u, q) /\ ReportsExactly(t, k, u)
  BY <1>1 DEF Fine, ResumesExactly, ReportsExactly
<1>4. Panel(t, k, u, q)
  BY <1>1 DEF Fine, Panel, ShownBefore, PressedBefore
<1>5. QED
  BY <1>2, <1>3, <1>4 DEF Fine

(* Some button is offered, of whatever module.                             *)
OfferedAny(k, u, q, a) ==
  \/ a \in k.buttons
  \/ \E i \in 1..Len(q) : Shows(q[i], a)
  \/ \E i \in 1..Len(u) : Presses(u[i], a)
(* A state may be shown whose buttons are not offered already.             *)
MayOffer(d, k, u, q) ==
  \A a \in Fresh, b \in Fresh : b \in Buttons(d) /\ b \in After(a) => ~OfferedAny(k, u, q, a)

(* A button of a state is current in that state.                           *)
LEMMA OwnButtons ==
  ASSUME NEW d, NEW a \in Forward \union {"start"}, a \in Buttons(d)
  PROVE  Current(d, a, d.module)
  BY DEF Buttons, Current, Forward

(* It shows the browser a state.                                           *)
LEMMA StateSent ==
  ASSUME NEW s, NEW t, NEW k, NEW u, NEW q, NEW p, NEW m,
         Shape(s, k, u, q), Fine(s, k, u, q),
         t.journey = s.journey, t.issued = s.issued,
         Grown(q, p, m), IsState(m), m.module = t.demo.module, m.buttons = Buttons(t.demo),
         OffersCurrent(t.demo, k, u, q), WaitsExactly(t, k, u, q), MayOffer(t.demo, k, u, q),
         Moves(m.buttons) => ~Active(s)
  PROVE  Fine(t, k, u, p)
<1> DEFINE old == 1..Len(q)
<1>1. Len(q) \in Nat /\ Len(u) \in Nat
  BY DEF Shape
<1>2. Fine(t, k, u, q)
  BY DemoChanged
<1>3. /\ \A i \in old : p[i] = q[i]
      /\ \A i \in 1..Len(p) : i \in old \/ (p[i] = m /\ i = Len(q) + 1 /\ ~IsRun(p[i]) /\ ~IsStop(p[i]))
  BY <1>1, GrownKeeps, Kinds
<1>4. Active(t) <=> Active(s)
  BY DEF Active
<1> USE GrownKeeps
<1>5. Commands(t, k, u, p)
  <2>1. IdsIssued(t, k, u, p)
    BY <1>1, <1>2, <1>3 DEF Fine, Commands, IdsIssued
  <2>2. OrdersAreNew(k, u, p) /\ OneOutcome(k, u)
    BY <1>1, <1>2, <1>3 DEF Fine, Commands, OrdersAreNew
  <2>3. Answered(t, k, u, p)
    BY <1>1, <1>2 DEF Fine, Commands, Answered
  <2>4. OrdersFollowed(t, p)
    BY <1>1, <1>2, <1>3 DEF Fine, Commands, OrdersFollowed
  <2>5. RunFollowed(t, k, p)
    BY <1>1, <1>2 DEF Fine, Commands, RunFollowed
  <2>6. OrdersApart(k, p)
    BY <1>1, <1>2, <1>3 DEF Fine, Commands, OrdersApart
  <2>7. StopsBefore(t, p)
    BY <1>1, <1>2, <1>3 DEF Fine, Commands, StopsBefore
  <2>8. QED
    BY <2>1, <2>2, <2>3, <2>4, <2>5, <2>6, <2>7 DEF Commands
<1>6. NoStop(q) => NoStop(p)
  BY <1>1, <1>3 DEF NoStop
<1>7. WaitsExactly(t, k, u, p)
  BY <1>6 DEF WaitsExactly
<1>8. ResumesExactly(t, k, u, p)
  BY <1>1, <1>2, <1>3, <1>6 DEF Fine, ResumesExactly
<1>9. ReportsExactly(t, k, u)
  BY <1>2 DEF Fine
<1>10. OffersCurrent(t.demo, k, u, p)
  <2> SUFFICES ASSUME NEW a \in Forward \union {"start"}, NEW v \in Modules \union {NoModule},
                      Offered(k, u, p, a, v)
               PROVE  Current(t.demo, a, v)
    BY DEF OffersCurrent
  <2>1. Offered(k, u, q, a, v) \/ (a \in Buttons(t.demo) /\ v = t.demo.module)
    BY <1>1, <1>3 DEF Offered, Shows
  <2>2. QED
    BY <2>1, OwnButtons DEF OffersCurrent
<1>11. Panel(t, k, u, p)
  <2>1. OfferedOnce(k, u, p)
    <3>1. OfferedOnce(k, u, q)
      BY DEF Fine, Panel
    <3>2. \A i \in 1..Len(u), a \in Fresh, b \in Fresh : Presses(u[i], a) /\ b \in After(a) =>
            \A j \in 1..Len(p) : ~Shows(p[j], b)
      BY <1>1, <1>3, <3>1 DEF OfferedOnce, MayOffer, OfferedAny, Shows
    <3>3. \A a \in Fresh, b \in Fresh : a \in k.buttons /\ b \in After(a) =>
            \A j \in 1..Len(p) : ~Shows(p[j], b)
      BY <1>1, <1>3, <3>1 DEF OfferedOnce, MayOffer, OfferedAny, Shows
    <3>4. ASSUME NEW i \in 1..Len(p), NEW a \in Fresh, NEW b \in Fresh, Shows(p[i], a), b \in After(a),
                 NEW j \in 1..Len(p), i < j
          PROVE  ~Shows(p[j], b)
      <4>1. i \in old /\ p[i] = q[i] /\ Shows(q[i], a)
        BY <1>1, <1>3, <3>4
      <4>2. CASE j \in old
        BY <1>3, <3>1, <3>4, <4>1, <4>2 DEF OfferedOnce
      <4>3. CASE j \notin old
        <5>1. ~(b \in Buttons(t.demo))
          BY <3>4, <4>1 DEF MayOffer, OfferedAny
        <5>2. QED
          BY <1>3, <4>3, <5>1 DEF Shows
      <4>4. QED
        BY <4>2, <4>3
    <3>5. QED
      BY <3>1, <3>2, <3>3, <3>4 DEF OfferedOnce
  <2>2. ShownBefore(t, k, p)
    BY <1>1, <1>2, <1>3, <1>4 DEF Fine, Panel, ShownBefore, Moving
  <2>3. PressedBefore(t, u)
    BY <1>2 DEF Fine, Panel
  <2>4. OrdersAnnounced(k, p)
    BY <1>1, <1>2, <1>3 DEF Fine, Panel, OrdersAnnounced
  <2>5. QED
    BY <2>1, <2>2, <2>3, <2>4 DEF Panel
<1>12. QED
  BY <1>5, <1>7, <1>8, <1>9, <1>10, <1>11 DEF Fine

(* It gives up its journey, or learns of its outcome, which is still at    *)
(* the head of the messages.                                               *)
LEMMA JourneyDropped ==
  ASSUME NEW s, NEW t, NEW k, NEW u, NEW q,
         Shape(s, k, u, q), Fine(s, k, u, q),
         t.demo = s.demo, t.issued = s.issued, ~Active(t), t.journey.cmd <= s.issued,
         Active(s) => /\ u # << >> /\ IsOutcome(u[1]) /\ u[1].cmd = s.journey.cmd
  PROVE  Fine(t, k, u, q)
<1>1. Len(q) \in Nat /\ Len(u) \in Nat /\ (u # << >> => 1 \in 1..Len(u))
  BY DEF Shape
<1>2. /\ \A i \in 1..Len(q) : IsRun(q[i]) => q[i].cmd \in Nat
      /\ \A i \in 1..Len(u) : IsOutcome(u[i]) => u[i].cmd \in Nat
  BY DownFields, UpFields DEF Shape
<1>3. \A i \in 1..Len(q) : IsRun(q[i]) => ~Awaited(s, q[i])
  BY <1>1, <1>2 DEF Fine, Commands, OrdersAreNew, Awaited
<1>4. k.run # NoRun => ~Awaited(s, k.run)
  BY <1>1 DEF Fine, Commands, OneOutcome, Awaited
<1>5. Commands(t, k, u, q)
  <2>1. OrdersFollowed(t, q) /\ RunFollowed(t, k, q)
    BY <1>3, <1>4 DEF Fine, Commands, OrdersFollowed, RunFollowed
  <2>2. QED
    BY <2>1 DEF Fine, Commands, IdsIssued, Answered, StopsBefore
<1>6. WaitsExactly(t, k, u, q) /\ ResumesExactly(t, k, u, q) /\ ReportsExactly(t, k, u)
  BY DEF Fine, WaitsExactly, ResumesExactly, ReportsExactly
<1>7. Panel(t, k, u, q)
  BY DEF Fine, Panel, ShownBefore, PressedBefore
<1>8. QED
  BY <1>5, <1>6, <1>7 DEF Fine

(* It gives up its journey and stops the browser.                          *)
LEMMA StopSent ==
  ASSUME NEW s, NEW t, NEW k, NEW u, NEW q, NEW p, NEW m,
         Shape(s, k, u, q), Fine(s, k, u, q),
         t.demo = s.demo, t.issued = s.issued, t.journey = NoJourney, ~Waiting(t.demo),
         Grown(q, p, m), IsStop(m)
  PROVE  Fine(t, k, u, p)
<1> DEFINE old == 1..Len(q)
<1>1. Len(q) \in Nat /\ Len(u) \in Nat /\ ~Active(t) /\ t.journey.cmd = 0
  BY DEF Shape, Active, NoJourney
<1>3. /\ \A i \in old : p[i] = q[i]
      /\ \A i \in 1..Len(p) : i \in old \/ (~IsRun(p[i]) /\ ~Moving(p[i]) /\ \A a : ~Shows(p[i], a))
  BY <1>1, GrownKeeps, Kinds DEF Shows
<1> USE GrownKeeps
<1>4. \A i \in old : StopAfter(p, i)
  BY <1>1 DEF StopAfter
<1>5. Commands(t, k, u, p)
  <2>1. IdsIssued(t, k, u, p)
    BY <1>1, <1>3 DEF Fine, Commands, IdsIssued, Shape
  <2>a. OrdersAreNew(k, u, q) /\ OneOutcome(k, u)
    BY DEF Fine, Commands
  <2>b. \A i \in 1..Len(p) : IsRun(p[i]) => i \in old /\ p[i] = q[i]
    BY <1>3
  <2>2. OrdersAreNew(k, u, p) /\ OneOutcome(k, u)
    BY <2>a, <2>b DEF OrdersAreNew
  <2>3. OrdersFollowed(t, p)
    BY <1>3, <1>4 DEF OrdersFollowed
  <2>4. RunFollowed(t, k, p)
    BY <1>1 DEF RunFollowed, StopAfter
  <2>5. OrdersApart(k, p)
    BY <1>1, <1>3 DEF Fine, Commands, OrdersApart
  <2>6. QED
    BY <1>1, <2>1, <2>2, <2>3, <2>4, <2>5 DEF Commands, Answered, StopsBefore
<1>6. WaitsExactly(t, k, u, p) /\ ResumesExactly(t, k, u, p) /\ ReportsExactly(t, k, u)
  BY <1>1 DEF WaitsExactly, ResumesExactly, ReportsExactly
<1>7. OffersCurrent(t.demo, k, u, p)
  <2>1. \A a, v : Offered(k, u, p, a, v) => Offered(k, u, q, a, v)
    BY <1>1, <1>3 DEF Offered
  <2>2. QED
    BY <2>1 DEF Fine, OffersCurrent
<1>8. Panel(t, k, u, p)
  <2>a. OfferedOnce(k, u, q)
    BY DEF Fine, Panel
  <2>b. \A i \in 1..Len(p), a \in Fresh : Shows(p[i], a) => i \in old /\ Shows(q[i], a)
    BY <1>3
  <2>1. OfferedOnce(k, u, p)
    BY <2>a, <2>b DEF OfferedOnce
  <2>2. OrdersAnnounced(k, p)
    BY <1>1, <1>3 DEF Fine, Panel, OrdersAnnounced
  <2>3. QED
    BY <1>1, <2>1, <2>2 DEF Panel, ShownBefore, PressedBefore
<1>9. QED
  BY <1>5, <1>6, <1>7, <1>8 DEF Fine

(* The last state shown, or on its way, moves nothing on.                  *)
LastBare(k, q) ==
  /\ Moves(k.buttons) => BareBetween(q, 0, Len(q) + 1)
  /\ \A j \in 1..Len(q) : Moving(q[j]) => BareBetween(q, j, Len(q) + 1)

(* A new state, or anything sent after a bare one, keeps the last one bare. *)
LEMMA LastBareSent ==
  ASSUME NEW k, NEW q, NEW p, NEW m, Len(q) \in Nat, Grown(q, p, m),
         Bare(m) \/ (~IsState(m) /\ LastBare(k, q))
  PROVE  LastBare(k, p)
<1> USE GrownKeeps
<1>1. Moving(m) => ~Bare(m) /\ IsState(m)
  BY DEF Moving, Bare
<1>2. CASE Bare(m)
  BY <1>1, <1>2 DEF LastBare, BareBetween
<1>3. CASE ~IsState(m) /\ LastBare(k, q)
  <2>1. \A j \in Nat : BareBetween(q, j, Len(q) + 1) => BareBetween(p, j, Len(p) + 1)
    BY DEF BareBetween
  <2>2. QED
    BY <1>1, <1>3, <2>1 DEF LastBare
<1>4. QED
  BY <1>2, <1>3

(* It orders the browser to run a journey.                                 *)
LEMMA RunSent ==
  ASSUME NEW s, NEW t, NEW k, NEW u, NEW q, NEW p, NEW m, NEW x,
         Shape(s, k, u, q), Fine(s, k, u, q), ~Active(s),
         t.demo = s.demo, ~Waiting(t.demo), t.issued = s.issued + 1,
         t.journey = [cmd |-> s.issued + 1, module |-> x, paused |-> FALSE],
         Grown(q, p, m), IsRun(m), m.cmd = s.issued + 1, m.journey = JourneyOf[x],
         m.resume # 0 => NoStop(q) /\ Holds(k, u, [journey |-> m.journey, next |-> m.resume]),
         LastBare(k, q)
  PROVE  Fine(t, k, u, p)
<1> DEFINE old == 1..Len(q)
<1>1. /\ Len(q) \in Nat /\ Len(u) \in Nat /\ s.issued \in Nat
      /\ t.journey.cmd = s.issued + 1 /\ t.journey.module = x /\ ~t.journey.paused
  BY DEF Shape
<1>2. Active(t)
  BY <1>1 DEF Active, NoJourney
<1>3. /\ \A i \in old : p[i] = q[i]
      /\ \A i \in 1..Len(p) : i \in old \/ (i = Len(q) + 1 /\ p[i] = m /\ ~IsStop(m) /\ ~Moving(m) /\ \A a : ~Shows(m, a))
      /\ p[Len(q) + 1] = m /\ Len(q) + 1 \in 1..Len(p)
  BY <1>1, GrownKeeps, Kinds DEF Shows
<1>a. IdsIssued(s, k, u, q)
  BY DEF Fine, Commands
<1>b. /\ \A i \in old : q[i] \in DownMessages
      /\ \A i \in 1..Len(u) : u[i] \in UpMessages
  BY DEF Shape
<1>4. /\ \A i \in old : IsRun(q[i]) => q[i].cmd \in Nat /\ q[i].cmd <= s.issued
      /\ \A i \in 1..Len(u) : IsOutcome(u[i]) => u[i].cmd \in Nat /\ u[i].cmd <= s.issued
      /\ k.run.cmd \in Nat /\ k.run.cmd <= s.issued
      /\ k.staged.cmd \in Nat /\ k.staged.cmd <= s.issued
  <2>1. \A i \in old : IsRun(q[i]) => q[i].cmd \in Nat /\ q[i].cmd <= s.issued
    BY <1>a, <1>b, DownFields DEF IdsIssued
  <2>2. \A i \in 1..Len(u) : IsOutcome(u[i]) => u[i].cmd \in Nat /\ u[i].cmd <= s.issued
    BY <1>a, <1>b, UpFields DEF IdsIssued
  <2>3. QED
    BY <1>a, <2>1, <2>2 DEF IdsIssued, Shape
<1>c. \A n \in Nat : n <= s.issued => n <= s.issued + 1 /\ n < s.issued + 1
  BY <1>1
<1> USE GrownKeeps
<1>5. \A i \in old : OrderAfter(p, i, s.issued + 1) /\ OrderAfter(p, 0, s.issued + 1)
  BY <1>1, <1>3 DEF OrderAfter
<1>6. OrderAfter(p, 0, s.issued + 1)
  BY <1>1, <1>3 DEF OrderAfter
<1>7. \A i \in 0..Len(q) : StopAfter(q, i) => StopBetween(p, i, Len(q) + 1)
  BY <1>1, <1>3 DEF StopAfter, StopBetween
<1>8. Commands(t, k, u, p)
  <2>1. IdsIssued(t, k, u, p)
    <3>1. ASSUME NEW i \in 1..Len(p), IsRun(p[i]) PROVE p[i].cmd <= t.issued
      <4>1. CASE i \in old
        BY <1>3, <1>4, <1>c, <3>1, <4>1
      <4>2. CASE i \notin old
        BY <1>1, <1>3, <4>2
      <4>3. QED
        BY <4>1, <4>2
    <3>2. QED
      BY <1>1, <1>4, <1>c, <3>1 DEF IdsIssued
  <2>2. OrdersAreNew(k, u, p)
    <3>1. OrdersAreNew(k, u, q)
      BY DEF Fine, Commands
    <3>2. ASSUME NEW i \in 1..Len(p), IsRun(p[i])
          PROVE  k.run.cmd < p[i].cmd /\ k.staged.cmd < p[i].cmd
                 /\ \A j \in 1..Len(u) : IsOutcome(u[j]) => u[j].cmd < p[i].cmd
      BY <1>3, <1>4, <1>c, <3>1, <3>2 DEF OrdersAreNew
    <3>3. ASSUME NEW i \in 1..Len(p), IsRun(p[i]), NEW j \in 1..Len(p), IsRun(p[j]), i < j
          PROVE  p[i].cmd < p[j].cmd
      <4>1. i \in old /\ p[i] = q[i]
        BY <1>1, <1>3, <3>3
      <4>2. CASE j \in old
        BY <1>3, <3>1, <3>3, <4>1, <4>2 DEF OrdersAreNew
      <4>3. CASE j \notin old
        BY <1>3, <1>4, <1>c, <3>3, <4>1, <4>3
      <4>4. QED
        BY <4>2, <4>3
    <3>4. QED
      BY <3>2, <3>3 DEF OrdersAreNew
  <2>3. OneOutcome(k, u)
    BY DEF Fine, Commands
  <2>4. Answered(t, k, u, p)
    BY <1>1, <1>6 DEF Answered
  <2>5. OrdersFollowed(t, p)
    <3>1. \A i \in old : IsRun(q[i]) => StopAfter(q, i)
      BY DEF Fine, Commands, OrdersFollowed, Awaited
    <3>2. QED
      BY <1>1, <1>2, <1>3, <3>1 DEF OrdersFollowed, Awaited
  <2>6. RunFollowed(t, k, p)
    BY <1>1 DEF Fine, Commands, RunFollowed, Awaited
  <2>7. OrdersApart(k, p)
    <3>1. \A i \in old : IsRun(q[i]) => StopAfter(q, i)
      BY DEF Fine, Commands, OrdersFollowed, Awaited
    <3>2. k.run # NoRun => StopAfter(q, 0)
      BY DEF Fine, Commands, RunFollowed, Awaited
    <3>3. QED
      BY <1>1, <1>3, <1>7, <3>1, <3>2 DEF Fine, Commands, OrdersApart
  <2>8. StopsBefore(t, p)
    BY <1>1, <1>3, <1>5 DEF StopsBefore
  <2>9. QED
    BY <2>1, <2>2, <2>3, <2>4, <2>5, <2>6, <2>7, <2>8 DEF Commands
<1>9. NoStop(q) => NoStop(p)
  BY <1>1, <1>3 DEF NoStop
<1>10. WaitsExactly(t, k, u, p)
  BY DEF WaitsExactly
<1>11. ResumesExactly(t, k, u, p)
  BY <1>1, <1>3, <1>4, <1>9 DEF ResumesExactly
<1>12. ReportsExactly(t, k, u)
  <2>1. ASSUME NEW i \in 1..Len(u), u[i].kind = "paused"
        PROVE  u[i].cmd # s.issued + 1
    <3>1. IsOutcome(u[i])
      BY <2>1 DEF IsOutcome
    <3>2. u[i].cmd \in Nat /\ u[i].cmd <= s.issued
      BY <1>4, <3>1
    <3>3. QED
      BY <1>1, <3>2
  <2>2. t.journey.cmd = s.issued + 1
    OBVIOUS
  <2>3. QED
    BY <2>1, <2>2 DEF ReportsExactly
<1>13. OffersCurrent(t.demo, k, u, p)
  <2>1. \A a, v : Offered(k, u, p, a, v) => Offered(k, u, q, a, v)
    BY <1>1, <1>3 DEF Offered
  <2>2. QED
    BY <2>1 DEF Fine, OffersCurrent
<1>14. Panel(t, k, u, p)
  <2>1. OfferedOnce(k, u, p)
    BY <1>1, <1>3 DEF Fine, Panel, OfferedOnce
  <2>2. ShownBefore(t, k, p)
    BY <1>1, <1>3, <1>5, <1>6 DEF ShownBefore
  <2>3. PressedBefore(t, u)
    BY <1>1, <1>4 DEF PressedBefore
  <2>4. OrdersAnnounced(k, p)
    BY <1>1, <1>3 DEF Fine, Panel, OrdersAnnounced, LastBare
  <2>5. QED
    BY <2>1, <2>2, <2>3, <2>4 DEF Panel
<1>15. QED
  BY <1>8, <1>10, <1>11, <1>12, <1>13, <1>14 DEF Fine

(* It takes the message at the head, which is not the outcome it awaits.   *)
LEMMA HeadTaken ==
  ASSUME NEW s, NEW k, NEW u, NEW v, NEW q,
         Shape(s, k, u, q), v \in Seq(UpMessages), Fine(s, k, u, q), u # << >>, Shrunk(u, v),
         IsOutcome(u[1]) /\ Active(s) => u[1].cmd # s.journey.cmd,
         u[1].kind = "interrupt" \/ (IsPress(u[1]) /\ u[1].action = "stop") => ~Active(s) /\ ~Waiting(s.demo)
  PROVE  Fine(s, k, v, q)
<1>1. Len(q) \in Nat /\ Len(u) \in Nat /\ Len(v) \in Nat
  BY DEF Shape
<1>2. /\ \A i \in 1..Len(v) : i + 1 \in 1..Len(u) /\ v[i] = u[i + 1]
      /\ \A i \in 1..Len(u) : i = 1 \/ (i - 1 \in 1..Len(v) /\ u[i] = v[i - 1])
  BY <1>1, ShrunkKeeps
<1>3. Commands(s, k, v, q)
  <2>1. IdsIssued(s, k, v, q)
    BY <1>1, <1>2 DEF Fine, Commands, IdsIssued
  <2>2. OrdersAreNew(k, v, q)
    BY <1>1, <1>2 DEF Fine, Commands, OrdersAreNew
  <2>3. OneOutcome(k, v)
    <3>1. OneOutcome(k, u)
      BY DEF Fine, Commands
    <3>2. ASSUME NEW i \in 1..Len(v), IsOutcome(v[i]), NEW j \in 1..Len(v), IsOutcome(v[j]), v[j].cmd = v[i].cmd
          PROVE  j = i
      <4>1. i + 1 \in 1..Len(u) /\ j + 1 \in 1..Len(u) /\ v[i] = u[i + 1] /\ v[j] = u[j + 1]
        BY <1>2
      <4>2. j + 1 = i + 1
        BY <3>1, <3>2, <4>1 DEF OneOutcome
      <4>3. QED
        BY <1>1, <4>2
    <3>3. \A i \in 1..Len(v) : IsOutcome(v[i]) => v[i].cmd # k.run.cmd /\ v[i].cmd # k.staged.cmd
      BY <1>2, <3>1 DEF OneOutcome
    <3>4. QED
      BY <3>1, <3>2, <3>3 DEF OneOutcome
  <2>4. Answered(s, k, v, q)
    <3>1. Active(s) /\ OutcomeSent(u, s.journey.cmd) => OutcomeSent(v, s.journey.cmd)
      BY <1>1, <1>2 DEF OutcomeSent
    <3>2. QED
      BY <3>1 DEF Fine, Commands, Answered
  <2>5. QED
    BY <2>1, <2>2, <2>3, <2>4 DEF Fine, Commands
<1>4. Active(s) \/ Waiting(s.demo) => (StopInUp(u) => StopInUp(v))
  BY <1>1, <1>2 DEF StopInUp
<1>5. \A c : Active(s) \/ Waiting(s.demo) => (Holds(k, u, c) => Holds(k, v, c))
  BY <1>4 DEF Holds
<1>6. WaitsExactly(s, k, v, q)
  BY <1>5 DEF Fine, WaitsExactly
<1>7. ResumesExactly(s, k, v, q)
  BY <1>1, <1>5 DEF Fine, ResumesExactly
<1>8. ReportsExactly(s, k, v)
  BY <1>1, <1>2, <1>5 DEF Fine, ReportsExactly
<1>9. OffersCurrent(s.demo, k, v, q)
  <2>1. \A a, x : Offered(k, v, q, a, x) => Offered(k, u, q, a, x)
    BY <1>1, <1>2 DEF Offered
  <2>2. QED
    BY <2>1 DEF Fine, OffersCurrent
<1>10. Panel(s, k, v, q)
  <2>1. OfferedOnce(k, v, q)
    BY <1>1, <1>2 DEF Fine, Panel, OfferedOnce
  <2>2. PressedBefore(s, v)
    <3>1. PressedBefore(s, u)
      BY DEF Fine, Panel
    <3>2. ASSUME Active(s), NEW i \in 1..Len(v), NEW j \in 1..Len(v),
                 MovingPress(v[i]), IsOutcome(v[j]), v[j].cmd = s.journey.cmd
          PROVE  i < j
      <4>1. i + 1 \in 1..Len(u) /\ j + 1 \in 1..Len(u) /\ v[i] = u[i + 1] /\ v[j] = u[j + 1]
        BY <1>2
      <4>2. i + 1 < j + 1
        BY <3>1, <3>2, <4>1 DEF PressedBefore
      <4>3. QED
        BY <1>1, <4>2
    <3>3. QED
      BY <3>2 DEF PressedBefore
  <2>3. QED
    BY <2>1, <2>2 DEF Fine, Panel
<1>11. QED
  BY <1>3, <1>6, <1>7, <1>8, <1>9, <1>10 DEF Fine

-----------------------------------------------------------------------------
(* The server in the middle of a handler: what it has sent so far is on    *)
(* its way behind q.  And between two handlers, or at the end of one.      *)
Amid(s, k, u, q) ==
  /\ ServerTyped(s) /\ BrowserOK(k) /\ u \in Seq(UpMessages) /\ q \in Seq(DownMessages)
  /\ Fine(s, k, u, q \o s.out)
AtRest(s, k, u, q) == Amid(s, k, u, q) /\ JourneyOnStage(s) /\ AnswerDue(s)

(* What every lemma about a server in the middle of a handler begins with. *)
LEMMA AmidShape ==
  ASSUME NEW s, NEW k, NEW u, NEW q, Amid(s, k, u, q)
  PROVE  /\ Shape(s, k, u, q \o s.out) /\ q \o s.out \in Seq(DownMessages)
         /\ s \in Server /\ k \in BrowserStates /\ s.out \in Seq(DownMessages)
<1>1. s \in Server /\ k \in BrowserStates
  BY DEF Amid, ServerTyped, BrowserOK
<1>2. s.out \in Seq(DownMessages) /\ s.issued \in Nat /\ s.journey.cmd \in Nat
  BY <1>1 DEF Server
<1>3. k.run.cmd \in Nat /\ k.staged.cmd \in Nat
  BY <1>1 DEF BrowserStates, Runs, NoRun
<1>4. QED
  BY <1>1, <1>2, <1>3 DEF Shape, Amid

(* A handler changes what no message speaks of.                            *)
LEMMA Silent ==
  ASSUME NEW s, NEW t, NEW k, NEW u, NEW q, Amid(s, k, u, q), ServerTyped(t),
         t.demo = s.demo, t.journey = s.journey, t.issued = s.issued, t.out = s.out
  PROVE  Amid(t, k, u, q)
<1>1. Fine(t, k, u, q \o s.out)
  <2>1. OffersCurrent(t.demo, k, u, q \o s.out) /\ WaitsExactly(t, k, u, q \o s.out)
    BY DEF Amid, Fine, WaitsExactly
  <2>2. QED
    BY <2>1, DemoChanged DEF Amid
<1>2. QED
  BY <1>1 DEF Amid

-----------------------------------------------------------------------------
(* What is offered, and what may be offered next.                          *)
NothingFresh(k, u, q) == \A a \in Fresh : ~OfferedAny(k, u, q, a)

(* A button that is offered is offered for some module.                    *)
LEMMA OfferedSome ==
  ASSUME NEW s, NEW k, NEW u, NEW q, Shape(s, k, u, q), k \in BrowserStates,
         NEW a, OfferedAny(k, u, q, a)
  PROVE  \E v \in Modules \union {NoModule} : Offered(k, u, q, a, v)
<1>1. CASE a \in k.buttons
  <2>1. k.module \in Modules \union {NoModule}
    BY DEF BrowserStates
  <2>2. QED
    BY <1>1, <2>1 DEF Offered
<1>2. CASE \E i \in 1..Len(q) : Shows(q[i], a)
  <2>1. PICK i \in 1..Len(q) : Shows(q[i], a)
    BY <1>2
  <2>2. q[i] \in DownMessages
    BY DEF Shape
  <2>3. q[i].module \in Modules \union {NoModule}
    BY <2>1, <2>2, DownFields DEF Shows
  <2>4. QED
    BY <2>1, <2>3 DEF Offered
<1>3. CASE \E i \in 1..Len(u) : Presses(u[i], a)
  <2>1. PICK i \in 1..Len(u) : Presses(u[i], a)
    BY <1>3
  <2>2. u[i] \in UpMessages
    BY DEF Shape
  <2>3. u[i].seen \in Modules \union {NoModule}
    BY <2>1, <2>2, UpFields DEF Presses
  <2>4. QED
    BY <2>1, <2>3 DEF Offered
<1>4. QED
  BY <1>1, <1>2, <1>3 DEF OfferedAny

(* Start, retry and skip are offered only by a demo that is off or failed. *)
LEMMA NothingFreshOffered ==
  ASSUME NEW s, NEW k, NEW u, NEW q, Shape(s, k, u, q), k \in BrowserStates,
         OffersCurrent(s.demo, k, u, q),
         s.demo.phase \notin TerminalPhases,
         s.demo.phase = "awaiting_resume" => s.demo.reason # "failure"
  PROVE  NothingFresh(k, u, q)
<1> SUFFICES ASSUME NEW a \in Fresh, OfferedAny(k, u, q, a) PROVE FALSE
  BY DEF NothingFresh
<1>1. PICK v \in Modules \union {NoModule} : Offered(k, u, q, a, v)
  BY OfferedSome
<1>2. a \in Forward \union {"start"} /\ a # "continue"
  BY DEF Fresh, Forward
<1>3. Current(s.demo, a, v)
  BY <1>1, <1>2 DEF OffersCurrent
<1>4. QED
  BY <1>2, <1>3 DEF Current

(* A demo d may become e: what is offered stays current, and what e shows  *)
(* is not offered yet.                                                     *)
Keeps(d, e, k, u, q) ==
  /\ e.phase \in TerminalPhases => d.phase \notin TerminalPhases
  /\ e.phase \in TerminalPhases \/ NothingFresh(k, u, q)
  /\ \/ e.phase \notin {"awaiting_resume", "answering"} \/ e.reason = "failure"
     \/ ~OfferedAny(k, u, q, "continue")
     \/ /\ d.phase \in {"awaiting_resume", "answering"} /\ d.reason # "failure"
        /\ e.module = d.module

(* A demo that keeps its module keeps what its buttons mean.               *)
LEMMA KeptOffers ==
  ASSUME NEW s, NEW k, NEW u, NEW q, Shape(s, k, u, q), k \in BrowserStates,
         NEW d, NEW e, OffersCurrent(d, k, u, q), Keeps(d, e, k, u, q)
  PROVE  OffersCurrent(e, k, u, q) /\ MayOffer(e, k, u, q)
<1>1. ASSUME NEW a, NEW v, Offered(k, u, q, a, v) PROVE OfferedAny(k, u, q, a)
  BY <1>1 DEF Offered, OfferedAny
<1>2. ASSUME NEW a \in Fresh, OfferedAny(k, u, q, a) PROVE e.phase \in TerminalPhases /\ d.phase \notin TerminalPhases
  BY <1>2 DEF Keeps, NothingFresh
<1>3. OffersCurrent(e, k, u, q)
  <2> SUFFICES ASSUME NEW a \in Forward \union {"start"}, NEW v \in Modules \union {NoModule},
                      Offered(k, u, q, a, v)
               PROVE  Current(e, a, v)
    BY DEF OffersCurrent
  <2>1. CASE a = "continue"
    <3>1. Current(d, a, v) /\ OfferedAny(k, u, q, "continue")
      BY <1>1, <2>1 DEF OffersCurrent
    <3>2. QED
      BY <2>1, <3>1 DEF Keeps, Current, TerminalPhases
  <2>2. CASE a # "continue"
    <3>1. a \in Fresh
      BY <2>2 DEF Fresh, Forward
    <3>2. QED
      BY <1>1, <1>2, <2>2, <3>1 DEF Current
  <2>3. QED
    BY <2>1, <2>2
<1>4. MayOffer(e, k, u, q)
  <2> SUFFICES ASSUME NEW a \in Fresh, NEW b \in Fresh, b \in Buttons(e), b \in After(a),
                      OfferedAny(k, u, q, a)
               PROVE  FALSE
    BY DEF MayOffer
  <2>1. e.phase \in TerminalPhases /\ d.phase \notin TerminalPhases
    BY <1>2
  <2>2. b = "start"
    BY <2>1 DEF Buttons, TerminalPhases, Fresh
  <2>3. a = "start"
    BY <2>2 DEF After
  <2>4. PICK v \in Modules \union {NoModule} : Offered(k, u, q, "start", v)
    BY <2>3, OfferedSome
  <2>5. Current(d, "start", v)
    BY <2>4 DEF OffersCurrent
  <2>6. QED
    BY <2>1, <2>5 DEF Current
<1>5. QED
  BY <1>3, <1>4

-----------------------------------------------------------------------------
(* The changes a handler is made of.                                       *)

(* Sending a command.                                                      *)
LEMMA Sent ==
  ASSUME NEW s \in Server, NEW m \in DownMessages, NEW q \in Seq(DownMessages)
  PROVE  /\ Send(s, m) \in Server
         /\ Send(s, m).demo = s.demo /\ Send(s, m).journey = s.journey
         /\ Send(s, m).interruption = s.interruption /\ Send(s, m).observing = s.observing
         /\ Send(s, m).late = s.late /\ Send(s, m).timer = s.timer /\ Send(s, m).issued = s.issued
         /\ Grown(q \o s.out, q \o Send(s, m).out, m)
         /\ q \o s.out \in Seq(DownMessages)
<1>1. /\ Send(s, m) \in Server /\ Send(s, m).out = Append(s.out, m) /\ s.out \in Seq(DownMessages)
      /\ Send(s, m).demo = s.demo /\ Send(s, m).journey = s.journey
      /\ Send(s, m).interruption = s.interruption /\ Send(s, m).observing = s.observing
      /\ Send(s, m).late = s.late /\ Send(s, m).timer = s.timer /\ Send(s, m).issued = s.issued
  <2>1. s.out \in Seq(DownMessages)
    BY DEF Server
  <2> DEFINE o == Append(s.out, m)
  <2>2. o \in Seq(DownMessages)
    BY <2>1
  <2>3. Send(s, m) = [s EXCEPT !.out = o]
    BY DEF Send, Server
  <2> HIDE DEF o
  <2>4. /\ [s EXCEPT !.out = o] \in Server /\ [s EXCEPT !.out = o].out = o
        /\ [s EXCEPT !.out = o].demo = s.demo /\ [s EXCEPT !.out = o].journey = s.journey
        /\ [s EXCEPT !.out = o].interruption = s.interruption
        /\ [s EXCEPT !.out = o].observing = s.observing
        /\ [s EXCEPT !.out = o].late = s.late /\ [s EXCEPT !.out = o].timer = s.timer
        /\ [s EXCEPT !.out = o].issued = s.issued
    BY <2>2 DEF Server
  <2>5. QED
    BY <2>1, <2>3, <2>4 DEF o
<1>2. q \o s.out \in Seq(DownMessages) /\ q \o Append(s.out, m) = Append(q \o s.out, m)
  BY <1>1, Joined
<1>3. Grown(q \o s.out, q \o Append(s.out, m), m)
  BY <1>2, Appended
<1>4. QED
  BY <1>1, <1>2, <1>3

(* The demo becomes e, and nobody is told yet.                             *)
LEMMA Hidden ==
  ASSUME NEW s, NEW k, NEW u, NEW q, Amid(s, k, u, q), NEW e, Sound(e),
         Keeps(s.demo, e, k, u, q \o s.out),
         Waiting(e) => NoStop(q \o s.out) /\ Holds(k, u, e.checkpoint)
  PROVE  /\ Amid([s EXCEPT !.demo = e], k, u, q)
         /\ MayOffer(e, k, u, q \o s.out)
<1> DEFINE t == [s EXCEPT !.demo = e]
<1>1. s \in Server /\ e \in DemoState
  BY AmidShape DEF Sound
<1>2. /\ t \in Server /\ t.demo = e /\ t.journey = s.journey /\ t.issued = s.issued
      /\ t.out = s.out
  BY <1>1 DEF Server
<1>3. OffersCurrent(s.demo, k, u, q \o s.out)
  BY DEF Amid, Fine
<1>4. OffersCurrent(e, k, u, q \o s.out) /\ MayOffer(e, k, u, q \o s.out)
  BY <1>3, AmidShape, KeptOffers
<1>5. WaitsExactly(t, k, u, q \o s.out)
  BY <1>2 DEF WaitsExactly
<1> HIDE DEF t
<1>6. Fine(t, k, u, q \o s.out)
  BY <1>2, <1>4, <1>5, DemoChanged DEF Amid
<1>7. ServerTyped(t)
  BY <1>2 DEF ServerTyped, Amid
<1>8. QED
  BY <1>2, <1>4, <1>6, <1>7 DEF Amid, t

(* What the browser is shown is a state of the protocol.                   *)
LEMMA StateTyped ==
  ASSUME NEW e, e \in DemoState
  PROVE  /\ StateCommand(e) \in DownMessages /\ IsState(StateCommand(e))
         /\ StateCommand(e).module = e.module /\ StateCommand(e).buttons = Buttons(e)
         /\ e.phase # "awaiting_resume" => ~Moves(Buttons(e))
<1>1. Buttons(e) \subseteq ControlActions /\ Buttons(e) \subseteq MaximumButtons(e.phase)
  BY DEF Buttons, MaximumButtons
<1>2. e.phase \in Phases /\ e.module \in Modules \union {NoModule}
  BY DEF DemoState
<1>3. StateCommand(e) \in State
  BY <1>1, <1>2 DEF StateCommand, State
<1>4. e.phase # "awaiting_resume" => ~Moves(Buttons(e))
  BY DEF Moves, Buttons, Forward
<1>5. QED
  BY <1>3, <1>4 DEF StateCommand, DownMessages, IsState

(* The demo becomes e, and the browser is shown it (persistDemoState).     *)
LEMMA Shown ==
  ASSUME NEW s, NEW k, NEW u, NEW q, Amid(s, k, u, q), NEW e, Sound(e),
         Keeps(s.demo, e, k, u, q \o s.out),
         Waiting(e) => NoStop(q \o s.out) /\ Holds(k, u, e.checkpoint),
         e.phase = "awaiting_resume" => ~Active(s)
  PROVE  LET t == Persist(s, e)
         IN  /\ Amid(t, k, u, q)
             /\ t.demo = e /\ t.journey = s.journey /\ t.issued = s.issued
             /\ t.interruption = s.interruption /\ t.observing = s.observing
             /\ t.late = s.late /\ t.timer = s.timer
             /\ e.phase # "awaiting_resume" => LastBare(k, q \o t.out)
             /\ NoStop(q \o s.out) => NoStop(q \o t.out)
<1> DEFINE r == [s EXCEPT !.demo = e]
           t == Persist(s, e)
<1>1. s \in Server /\ e \in DemoState /\ q \in Seq(DownMessages)
  BY AmidShape DEF Sound, Amid
<1>2. /\ r \in Server /\ r.demo = e /\ r.journey = s.journey /\ r.issued = s.issued
      /\ r.interruption = s.interruption /\ r.observing = s.observing
      /\ r.late = s.late /\ r.timer = s.timer /\ r.out = s.out
  BY <1>1 DEF Server
<1>3. Amid(r, k, u, q) /\ MayOffer(e, k, u, q \o s.out)
  BY Hidden
<1>4. t = Send(r, StateCommand(e))
  BY DEF Persist
<1> HIDE DEF r, t
<1>5. /\ StateCommand(e) \in DownMessages /\ IsState(StateCommand(e))
      /\ StateCommand(e).module = e.module /\ StateCommand(e).buttons = Buttons(e)
      /\ e.phase # "awaiting_resume" => ~Moves(Buttons(e))
  BY <1>1, StateTyped
<1>6. /\ t \in Server
      /\ t.demo = e /\ t.journey = r.journey /\ t.interruption = r.interruption
      /\ t.observing = r.observing /\ t.late = r.late /\ t.timer = r.timer /\ t.issued = r.issued
      /\ Grown(q \o s.out, q \o t.out, StateCommand(e)) /\ q \o s.out \in Seq(DownMessages)
  BY <1>1, <1>2, <1>4, <1>5, Sent
<1>7. /\ Shape(r, k, u, q \o s.out) /\ Fine(r, k, u, q \o s.out)
      /\ OffersCurrent(e, k, u, q \o s.out) /\ WaitsExactly(t, k, u, q \o s.out)
  BY <1>2, <1>3, <1>6, AmidShape DEF Amid, Fine, WaitsExactly
<1>8. Moves(StateCommand(e).buttons) => ~Active(r)
  BY <1>2, <1>5 DEF Active
<1>9. Fine(t, k, u, q \o t.out)
  BY <1>2, <1>3, <1>5, <1>6, <1>7, <1>8, StateSent
<1>10. ServerTyped(t)
  BY <1>2, <1>3, <1>6 DEF ServerTyped, Amid
<1>11. e.phase # "awaiting_resume" => LastBare(k, q \o t.out)
  <2>1. e.phase # "awaiting_resume" => Bare(StateCommand(e))
    BY <1>5 DEF Bare
  <2>2. QED
    BY <1>6, <2>1, LastBareSent
<1>12. NoStop(q \o s.out) => NoStop(q \o t.out)
  <2> DEFINE a == q \o s.out
             b == q \o t.out
             m == StateCommand(e)
  <2>1. ~IsStop(m) /\ Len(a) \in Nat /\ Grown(a, b, m)
    BY <1>5, <1>6, Kinds
  <2> HIDE DEF a, b, m
  <2>2. ASSUME NoStop(a) PROVE NoStop(b)
    <3>1. Len(b) = Len(a) + 1 /\ b[Len(a) + 1] = m /\ \A i \in 1..Len(a) : b[i] = a[i]
      BY <2>1 DEF Grown
    <3>2. \A i \in 1..Len(b) : i \in 1..Len(a) \/ i = Len(a) + 1
      BY <2>1, <3>1
    <3>3. QED
      BY <2>1, <2>2, <3>1, <3>2 DEF NoStop
  <2>3. QED
    BY <2>2 DEF a, b
<1>13. QED
  BY <1>2, <1>3, <1>6, <1>9, <1>10, <1>11, <1>12 DEF Amid, t

(* The journey is given up, and the browser told to stop.                  *)
LEMMA Stopped ==
  ASSUME NEW s, NEW k, NEW u, NEW q, Amid(s, k, u, q), ~Waiting(s.demo)
  PROVE  LET t == Send([s EXCEPT !.journey = NoJourney], StopCommand)
         IN  /\ Amid(t, k, u, q)
             /\ t.demo = s.demo /\ t.journey = NoJourney /\ t.issued = s.issued
             /\ t.interruption = s.interruption /\ t.observing = s.observing
             /\ t.late = s.late /\ t.timer = s.timer
             /\ LastBare(k, q \o s.out) => LastBare(k, q \o t.out)
<1> DEFINE r == [s EXCEPT !.journey = NoJourney]
           t == Send(r, StopCommand)
<1>1. s \in Server /\ q \in Seq(DownMessages)
  BY AmidShape DEF Amid
<1>2. /\ r \in Server /\ r.demo = s.demo /\ r.journey = NoJourney /\ r.issued = s.issued
      /\ r.interruption = s.interruption /\ r.observing = s.observing
      /\ r.late = s.late /\ r.timer = s.timer /\ r.out = s.out
  BY <1>1 DEF Server, NoJourney
<1>3. StopCommand \in DownMessages /\ IsStop(StopCommand) /\ ~IsState(StopCommand)
  BY DEF StopCommand, DownMessages, Stopping, IsStop, IsState
<1> HIDE DEF r
<1>4. /\ t \in Server
      /\ t.demo = s.demo /\ t.journey = NoJourney /\ t.interruption = s.interruption
      /\ t.observing = s.observing /\ t.late = s.late /\ t.timer = s.timer /\ t.issued = s.issued
      /\ Grown(q \o s.out, q \o t.out, StopCommand) /\ q \o s.out \in Seq(DownMessages)
  BY <1>1, <1>2, <1>3, Sent
<1> HIDE DEF t
<1>5. Shape(s, k, u, q \o s.out) /\ Fine(s, k, u, q \o s.out)
  BY AmidShape DEF Amid
<1>6. Fine(t, k, u, q \o t.out)
  BY <1>3, <1>4, <1>5, StopSent
<1>7. ServerTyped(t)
  BY <1>4 DEF ServerTyped, Amid
<1>8. LastBare(k, q \o s.out) => LastBare(k, q \o t.out)
  BY <1>3, <1>4, LastBareSent
<1>9. QED
  BY <1>4, <1>6, <1>7, <1>8 DEF Amid, t, r

-----------------------------------------------------------------------------
(* The transitions a handler follows with an order to the browser.         *)
Leads(t) ==
  /\ Good(t)
  /\ IF t.order.kind \in {"run", "resume"}
     THEN t.state.phase = "playing" /\ t.order.module = t.state.module /\ t.state.module \in Modules
     ELSE t.state.phase \in {"intake", "closing", "awaiting_resume"}
  /\ t.state.phase = "awaiting_resume" => t.state.checkpoint = NoCheckpoint

(* The phases with a module on stage have one, the others have none.       *)
LEMMA StagedModule ==
  ASSUME NEW d, Sound(d)
  PROVE  /\ d.phase \in ModulePhases => d.module \in Modules /\ d.module # NoModule
         /\ d.phase \notin ModulePhases => d.module = NoModule
         /\ d \in DemoState /\ d.phase \in Phases
<1>1. d \in DemoState /\ d.phase \in Phases
  BY DEF Sound, DemoState
<1>2. CASE d.phase \in ModulePhases
  <2>1. d.index \in Nat /\ d.index < Len(d.playlist) /\ d.module = d.playlist[d.index + 1]
    BY <1>2, <1>1 DEF Sound, OnStage, HasSlot, DemoState
  <2>2. d.playlist \in Seq(Modules)
    BY <1>1 DEF DemoState
  <2>3. d.module \in Modules
    BY <2>1, <2>2
  <2>4. QED
    BY <1>1, <1>2, <2>3, AbsenceAssumption
<1>3. CASE d.phase \notin ModulePhases
  BY <1>1, <1>3 DEF Sound, OnStage
<1>4. QED
  BY <1>2, <1>3

(* The fields of a transition.                                             *)
LEMMA TransitionFields ==
  ASSUME NEW d, NEW o
  PROVE  Transition(d, o).state = d /\ Transition(d, o).order = o
  BY DEF Transition

(* Playing a slot leads to playing or, past the last one, to closing.      *)
LEMMA PlaySlotLeads ==
  ASSUME NEW s, s \in DemoState, NEW i \in Nat
  PROVE  LET t == PlaySlot(s, i)
         IN  /\ IF t.order.kind \in {"run", "resume"}
                THEN t.state.phase = "playing" /\ t.order.module = t.state.module /\ t.state.module \in Modules
                ELSE t.state.phase = "closing"
             /\ t.state.phase \in {"playing", "closing"}
<1> DEFINE r == [s EXCEPT !.index = i, !.reason = "none",
                          !.checkpoint = NoCheckpoint, !.finished = FALSE]
           m == s.playlist[i + 1]
<1>1. s.playlist \in Seq(Modules)
  BY DEF DemoState
<1>2. r \in DemoState
  BY DEF DemoState, ResumeReasons
<1>3. CASE HasSlot(s, i)
  <2>1. m \in Modules
    BY <1>1, <1>3 DEF HasSlot
  <2>2. PlaySlot(s, i) = Transition([r EXCEPT !.phase = "playing", !.module = m], RunOrder(m))
    BY <1>3 DEF PlaySlot
  <2> DEFINE e == [r EXCEPT !.phase = "playing", !.module = m]
  <2> HIDE DEF r, m
  <2>3. e.phase = "playing" /\ e.module = m
    BY <1>2 DEF DemoState
  <2>4. RunOrder(m).kind = "run" /\ RunOrder(m).module = m
    BY DEF RunOrder, NoOrder
  <2> HIDE DEF e
  <2>5. PlaySlot(s, i).state = e /\ PlaySlot(s, i).order = RunOrder(m)
    BY <2>2, TransitionFields DEF e
  <2>6. QED
    BY <2>1, <2>3, <2>4, <2>5
<1>4. CASE ~HasSlot(s, i)
  <2>1. PlaySlot(s, i) = Transition([r EXCEPT !.phase = "closing", !.module = NoModule], NoOrder)
    BY <1>4 DEF PlaySlot
  <2> DEFINE e == [r EXCEPT !.phase = "closing", !.module = NoModule]
  <2> HIDE DEF r
  <2>2. e.phase = "closing"
    BY <1>2 DEF DemoState
  <2> HIDE DEF e
  <2>3. PlaySlot(s, i).state = e /\ PlaySlot(s, i).order = NoOrder
    BY <2>1, TransitionFields DEF e
  <2>4. QED
    BY <2>2, <2>3 DEF NoOrder
<1>5. QED
  BY <1>3, <1>4

(* So does advancing to the next module.                                   *)
LEMMA AdvanceLeads ==
  ASSUME NEW s, Sound(s)
  PROVE  Leads(AdvanceModule(s)) /\ AdvanceModule(s).state.phase \in {"playing", "closing"}
<1>1. s \in DemoState /\ s.index + 1 \in Nat
  BY DEF Sound, DemoState
<1>2. QED
  BY <1>1, AdvanceGood, PlaySlotLeads DEF Leads, AdvanceModule

(* Continue plays on, from the checkpoint or from the next module.         *)
LEMMA ContinueLeads ==
  ASSUME NEW s, Sound(s), MayControl(s, "continue")
  PROVE  /\ Leads(Continue(s)) /\ Continue(s).state.phase \in {"playing", "closing"}
         /\ Continue(s).order.kind = "resume" =>
              Continue(s).order.checkpoint = s.checkpoint /\ Waiting(s)
<1>1. /\ s.phase = "awaiting_resume"
      /\ s.reason = "module_complete" \/ VerifiedInterruption(s)
      /\ s.module \in Modules /\ s \in DemoState
  BY StagedModule DEF MayControl, ModulePhases
<1>2. CASE s.reason = "module_complete" \/ s.finished
  <2>1. Continue(s) = AdvanceModule(s)
    BY <1>2 DEF Continue
  <2>2. AdvanceModule(s).order.kind # "resume"
    BY DEF AdvanceModule, PlaySlot, Transition, RunOrder, NoOrder
  <2>3. QED
    BY <2>1, <2>2, AdvanceLeads
<1>3. CASE ~(s.reason = "module_complete" \/ s.finished)
  <2> DEFINE t == [s EXCEPT !.phase = "playing", !.reason = "none"]
  <2>1. Continue(s) = Transition(t, ResumeOrder(s.module, s.checkpoint))
    BY <1>3 DEF Continue
  <2>2. t.phase = "playing" /\ t.module = s.module
    BY <1>1 DEF DemoState
  <2> HIDE DEF t
  <2>3. /\ Continue(s).state = t /\ Continue(s).order.kind = "resume"
        /\ Continue(s).order.module = s.module /\ Continue(s).order.checkpoint = s.checkpoint
    BY <2>1 DEF Transition, ResumeOrder
  <2>4. Waiting(s)
    BY <1>1, <1>3 DEF Waiting, VerifiedInterruption
  <2>5. QED
    BY <1>1, <2>2, <2>3, <2>4, ContinueGood DEF Leads
<1>4. QED
  BY <1>2, <1>3

(* Retry plays the module on stage again.                                  *)
LEMMA RetryLeads ==
  ASSUME NEW s, Sound(s), s.phase = "awaiting_resume"
  PROVE  Leads(Retry(s)) /\ Retry(s).state.phase = "playing" /\ Retry(s).order.kind = "run"
<1>1. s.module \in Modules /\ s \in DemoState
  BY StagedModule DEF ModulePhases
<1>2. /\ Retry(s).state.phase = "playing" /\ Retry(s).state.module = s.module
      /\ Retry(s).order.kind = "run" /\ Retry(s).order.module = s.module
  BY <1>1 DEF Retry, Transition, RunOrder, NoOrder, DemoState
<1>3. QED
  BY <1>1, <1>2, RetryGood DEF Leads

(* A start begins the intake and orders nothing.                           *)
LEMMA StartLeads == Leads(Start) /\ Start.state.phase = "intake" /\ Start.order.kind = "none"
<1>1. Start.state.phase = "intake" /\ Start.order.kind = "none"
  BY DEF Start, Transition, Idle, NoOrder
<1>2. QED
  BY <1>1, StartGood DEF Leads

(* The last intake answer begins the playlist.                             *)
LEMMA CaptureLeads ==
  ASSUME NEW s, Sound(s), MayCaptureIntake(s), NEW p \in Personas \union {NoPersona}
  PROVE  /\ Leads(CaptureIntake(s, p))
         /\ CaptureIntake(s, p).state.phase \in {"intake", "playing", "closing"}
         /\ CaptureIntake(s, p).order.kind # "resume"
<1>1. s \in DemoState /\ s.phase = "intake"
  BY DEF Sound, MayCaptureIntake
<1>2. ASSUME NEW r, r \in DemoState
      PROVE  LET t == BeginPlaylist(r)
             IN  /\ IF t.order.kind \in {"run", "resume"}
                    THEN t.state.phase = "playing" /\ t.order.module = t.state.module /\ t.state.module \in Modules
                    ELSE t.state.phase = "closing"
                 /\ t.state.phase \in {"playing", "closing"}
                 /\ t.order.kind # "resume"
  <2> DEFINE own == IF r.persona = NoPersona THEN << >> ELSE PersonaPlaylist[r.persona]
             list == IF own = << >> THEN DefaultPlaylist ELSE own
             b == [r EXCEPT !.question = NoQuestion, !.playlist = list]
  <2>1. list \in Seq(Modules)
    BY <1>2, ProfileAssumption DEF DemoState
  <2>2. BeginPlaylist(r) = PlaySlot(b, 0)
    BY DEF BeginPlaylist
  <2> HIDE DEF list
  <2>3. b \in DemoState
    BY <1>2, <2>1 DEF DemoState
  <2> HIDE DEF b
  <2>4. PlaySlot(b, 0).order.kind # "resume"
    BY DEF PlaySlot, Transition, RunOrder, NoOrder
  <2>5. QED
    BY <2>2, <2>3, <2>4, PlaySlotLeads
<1> DEFINE answered == [s EXCEPT !.genericIndex = 2]
           asked == [s EXCEPT !.personaAsked = TRUE]
           second == [s EXCEPT !.persona = p, !.genericIndex = 1, !.question = SecondQuestion]
           third == [answered EXCEPT !.personaAsked = TRUE, !.question = PersonaQuestionOf(s)]
<1>3. /\ answered \in DemoState /\ asked \in DemoState
      /\ second.phase = "intake" /\ third.phase = "intake"
  <2>1. answered \in DemoState /\ answered.phase = "intake"
    BY <1>1 DEF DemoState
  <2>2. asked \in DemoState /\ second.phase = "intake"
    BY <1>1 DEF DemoState
  <2> HIDE DEF answered
  <2>3. third.phase = "intake"
    BY <2>1 DEF DemoState
  <2>4. QED
    BY <2>1, <2>2, <2>3
<1>4. \/ CaptureIntake(s, p) = Transition(second, NoOrder)
      \/ CaptureIntake(s, p) = Transition(third, NoOrder)
      \/ CaptureIntake(s, p) = BeginPlaylist(answered)
      \/ CaptureIntake(s, p) = BeginPlaylist(asked)
  BY DEF CaptureIntake
<1> HIDE DEF answered, asked, second, third
<1>5. Good(CaptureIntake(s, p))
  BY CaptureIntakeGood
<1>6. CASE CaptureIntake(s, p) = Transition(second, NoOrder) \/ CaptureIntake(s, p) = Transition(third, NoOrder)
  BY <1>3, <1>5, <1>6 DEF Leads, Transition, NoOrder
<1>7. CASE CaptureIntake(s, p) = BeginPlaylist(answered)
  BY <1>2, <1>3, <1>5, <1>7 DEF Leads
<1>8. CASE CaptureIntake(s, p) = BeginPlaylist(asked)
  BY <1>2, <1>3, <1>5, <1>8 DEF Leads
<1>9. QED
  BY <1>4, <1>6, <1>7, <1>8

(* A result leads to the next module, to a waiting demo or to the closing. *)
LEMMA ResultLeads ==
  ASSUME NEW s, Sound(s), MayTakeResult(s), NEW ok \in BOOLEAN
  PROVE  /\ Leads(JourneyResult(s, ok))
         /\ JourneyResult(s, ok).order.kind # "resume"
         /\ ~ok => /\ JourneyResult(s, ok).state.phase = "awaiting_resume"
                   /\ JourneyResult(s, ok).state.reason = "failure"
<1>1. s \in DemoState
  BY DEF Sound
<1> DEFINE f == [s EXCEPT !.phase = "awaiting_resume", !.reason = "failure",
                          !.checkpoint = NoCheckpoint]
           c == [s EXCEPT !.phase = "awaiting_resume", !.reason = "module_complete",
                          !.checkpoint = NoCheckpoint, !.finished = FALSE]
<1>2. /\ f.phase = "awaiting_resume" /\ f.reason = "failure" /\ f.checkpoint = NoCheckpoint
      /\ c.phase = "awaiting_resume" /\ c.checkpoint = NoCheckpoint
  BY <1>1 DEF DemoState
<1>3. \/ JourneyResult(s, ok) = Transition(f, NoOrder)
      \/ ok /\ JourneyResult(s, ok) = Transition(c, NoOrder)
      \/ ok /\ JourneyResult(s, ok) = AdvanceModule(s)
  BY DEF JourneyResult
<1> HIDE DEF f, c
<1>4. Good(JourneyResult(s, ok))
  BY JourneyResultGood
<1>5. CASE JourneyResult(s, ok) = Transition(f, NoOrder)
  BY <1>2, <1>4, <1>5 DEF Leads, Transition, NoOrder
<1>6. CASE ok /\ JourneyResult(s, ok) = Transition(c, NoOrder)
  <2>1. JourneyResult(s, ok) = Transition(c, NoOrder)
    BY <1>6
  <2>2. JourneyResult(s, ok).state = c /\ JourneyResult(s, ok).order = NoOrder
    BY <2>1, TransitionFields
  <2>3. Leads(JourneyResult(s, ok)) /\ JourneyResult(s, ok).order.kind # "resume"
    BY <1>2, <1>4, <2>2 DEF Leads, NoOrder
  <2>4. QED
    BY <1>6, <2>3
<1>7. CASE ok /\ JourneyResult(s, ok) = AdvanceModule(s)
  <2>1. AdvanceModule(s).order.kind # "resume"
    BY DEF AdvanceModule, PlaySlot, Transition, RunOrder, NoOrder
  <2>2. QED
    BY <1>7, <2>1, AdvanceLeads
<1>8. QED
  BY <1>3, <1>5, <1>6, <1>7

(* A replaced module is played from its beginning.                         *)
LEMMA ReplaceLeads ==
  ASSUME NEW s, Sound(s), MayReplace(s), NEW m \in Modules
  PROVE  LET t == ReplaceAfterInterruption(s, m)
         IN  Leads(t) /\ t.state.phase = "playing" /\ t.order.kind = "run"
<1> DEFINE t == ReplaceAfterInterruption(s, m)
<1>1. Good(t) /\ t.state.phase = "playing" /\ t.state.module = m
  BY ReplaceFacts
<1>2. t.order = RunOrder(m)
  BY DEF ReplaceAfterInterruption, Transition
<1> HIDE DEF t
<1>3. t.order.kind = "run" /\ t.order.module = m
  BY <1>2 DEF RunOrder, NoOrder
<1>4. QED
  BY <1>1, <1>3 DEF Leads, t

-----------------------------------------------------------------------------
(* The parts of handlers.                                                  *)

(* The order of a transition goes out, or the closing timer is set.        *)
LEMMA Dispatched ==
  ASSUME NEW s, NEW k, NEW u, NEW q, Amid(s, k, u, q), NEW t, Leads(t), s.demo = t.state,
         ~Active(s), s.late = FALSE, s.observing = 0,
         t.order.kind \in {"run", "resume"} => LastBare(k, q \o s.out),
         t.order.kind = "resume" => NoStop(q \o s.out) /\ Holds(k, u, t.order.checkpoint)
  PROVE  AtRest(Dispatch(s, t), k, u, q)
<1> DEFINE r == Dispatch(s, t)
<1>1. s \in Server /\ q \in Seq(DownMessages) /\ ServerTyped(s) /\ Sound(s.demo)
  BY AmidShape DEF Amid, ServerTyped
<1>2. CASE t.order.kind \notin {"run", "resume"}
  <2>1. r = [s EXCEPT !.timer = @ \/ s.demo.phase = "closing"]
    BY <1>2 DEF Dispatch, ScheduleClosing
  <2>2. /\ r \in Server /\ r.demo = s.demo /\ r.journey = s.journey /\ r.issued = s.issued
        /\ r.out = s.out /\ r.late = FALSE /\ r.observing = 0
    BY <1>1, <2>1 DEF Server
  <2>3. ServerTyped(r)
    BY <1>1, <2>2 DEF ServerTyped
  <2>4. Amid(r, k, u, q)
    BY <2>2, <2>3, Silent
  <2>5. s.demo.phase \in {"intake", "closing", "awaiting_resume"}
    BY <1>2 DEF Leads
  <2>6. JourneyOnStage(r) /\ AnswerDue(r)
    BY <2>2, <2>5 DEF JourneyOnStage, AnswerDue, Active
  <2>7. QED
    BY <2>4, <2>6 DEF AtRest
<1>3. CASE t.order.kind \in {"run", "resume"} /\ t.order.module \notin Playable
  <2> DEFINE e == JourneyResult(s.demo, FALSE).state
  <2>1. s.demo.phase = "playing" /\ s.demo.module \in Modules /\ s.demo.module # NoModule
    BY <1>3, AbsenceAssumption DEF Leads
  <2>2. Leads(JourneyResult(s.demo, FALSE)) /\ e.phase = "awaiting_resume" /\ e.reason = "failure"
    BY <1>1, <2>1, ResultLeads DEF MayTakeResult
  <2>3. Sound(e) /\ e.checkpoint = NoCheckpoint
    BY <2>2 DEF Leads, Good
  <2> HIDE DEF e
  <2>4. NothingFresh(k, u, q \o s.out)
    BY <2>1, AmidShape, NothingFreshOffered DEF TerminalPhases, Amid, Fine
  <2>5. Keeps(s.demo, e, k, u, q \o s.out)
    BY <2>2, <2>4 DEF Keeps, TerminalPhases
  <2>6. ~Waiting(e)
    BY <2>3 DEF Waiting
  <2>7. r = Persist(s, e)
    BY <1>3 DEF Dispatch, RunDemoModule, e
  <2>8. /\ Amid(r, k, u, q) /\ r.demo = e /\ r.journey = s.journey
        /\ r.late = FALSE /\ r.observing = 0
    BY <2>3, <2>5, <2>6, <2>7, Shown
  <2>9. JourneyOnStage(r) /\ AnswerDue(r)
    BY <2>2, <2>8 DEF JourneyOnStage, AnswerDue, Active
  <2>10. QED
    BY <2>8, <2>9 DEF AtRest
<1>4. CASE t.order.kind \in {"run", "resume"} /\ t.order.module \in Playable
  <2> DEFINE x == t.order.module
             j == [cmd |-> s.issued + 1, module |-> x, paused |-> FALSE]
             p == [s EXCEPT !.issued = s.issued + 1, !.journey = j]
             m == RunCommand(s.issued + 1, t.order)
  <2>1. /\ s.demo.phase = "playing" /\ x = s.demo.module
        /\ x \in Modules /\ JourneyOf[x] \in Journeys /\ s.issued \in Nat
    BY <1>1, <1>4, DemoAssumption, ProfileAssumption DEF Leads, Server
  <2>2. r = Send(p, m)
    BY <1>4 DEF Dispatch, RunDemoModule
  <2>3. j \in [cmd : Nat, module : Modules \union {NoModule}, paused : BOOLEAN]
    BY <2>1
  <2>4. /\ p \in Server /\ p.demo = s.demo /\ p.journey = j /\ p.issued = s.issued + 1
        /\ p.out = s.out /\ p.late = FALSE /\ p.observing = 0
    BY <1>1, <2>1, <2>3 DEF Server
  <2>5. t.order.kind = "resume" =>
          /\ t.order.checkpoint \in Checkpoints
          /\ t.order.checkpoint.journey = JourneyOf[x]
    BY <2>1 DEF Leads, Good, ResumeFits
  <2>6. /\ m.kind = "run_journey" /\ m.cmd = s.issued + 1 /\ m.journey = JourneyOf[x]
        /\ m.resume = IF t.order.kind = "resume" THEN t.order.checkpoint.next ELSE 0
        /\ m.resume \in Steps \union {0}
        /\ m = [kind |-> "run_journey", cmd |-> s.issued + 1, journey |-> JourneyOf[x], resume |-> m.resume]
    BY <2>5 DEF RunCommand, Checkpoints
  <2>7. m \in DownMessages
    <3>1. s.issued + 1 \in Nat \ {0}
      BY <2>1
    <3> HIDE DEF m
    <3>2. m \in Running
      BY <2>1, <2>6, <3>1 DEF Running
    <3>3. QED
      BY <3>2 DEF DownMessages
  <2>8. m.resume # 0 => NoStop(q \o s.out) /\ Holds(k, u, [journey |-> m.journey, next |-> m.resume])
    <3>1. SUFFICES ASSUME t.order.kind = "resume"
                   PROVE  [journey |-> m.journey, next |-> m.resume] = t.order.checkpoint
      BY <2>6
    <3>2. t.order.checkpoint = [journey |-> t.order.checkpoint.journey, next |-> t.order.checkpoint.next]
      BY <2>5, <3>1 DEF Checkpoints
    <3>3. QED
      BY <2>5, <2>6, <3>1, <3>2
  <2> HIDE DEF m, p
  <2>9. /\ r \in Server /\ r.demo = s.demo /\ r.journey = j /\ r.issued = s.issued + 1
        /\ r.late = FALSE /\ r.observing = 0
        /\ Grown(q \o s.out, q \o r.out, m)
    BY <1>1, <2>2, <2>4, <2>7, Sent
  <2>10. ~Waiting(r.demo)
    BY <2>1, <2>9 DEF Waiting
  <2>11. Shape(s, k, u, q \o s.out) /\ Fine(s, k, u, q \o s.out)
    BY AmidShape DEF Amid
  <2>12. IsRun(m)
    BY <2>6 DEF IsRun
  <2> HIDE DEF r
  <2>13. Fine(r, k, u, q \o r.out)
    BY <1>4, <2>6, <2>8, <2>9, <2>10, <2>11, <2>12, RunSent
  <2>14. ServerTyped(r)
    BY <1>1, <2>1, <2>9 DEF ServerTyped
  <2>15. JourneyOnStage(r) /\ AnswerDue(r)
    BY <2>1, <2>9 DEF JourneyOnStage, AnswerDue
  <2>16. QED
    BY <2>13, <2>14, <2>15 DEF AtRest, Amid, r
<1>5. QED
  BY <1>2, <1>3, <1>4

(* A transition is stored, shown and followed.                             *)
LEMMA Followed ==
  ASSUME NEW s, NEW k, NEW u, NEW q, Amid(s, k, u, q), NEW t, Leads(t),
         Keeps(s.demo, t.state, k, u, q \o s.out),
         ~Active(s), s.late = FALSE, s.observing = 0,
         t.order.kind = "resume" => NoStop(q \o s.out) /\ Holds(k, u, t.order.checkpoint)
  PROVE  AtRest(Follow(s, t), k, u, q)
<1> DEFINE r == Persist(s, t.state)
<1>1. Sound(t.state) /\ ~Waiting(t.state)
  BY DEF Leads, Good, Waiting
<1>2. t.state.phase = "awaiting_resume" => ~Active(s)
  OBVIOUS
<1>3. /\ Amid(r, k, u, q) /\ r.demo = t.state /\ r.journey = s.journey
      /\ r.late = FALSE /\ r.observing = 0
      /\ t.state.phase # "awaiting_resume" => LastBare(k, q \o r.out)
      /\ NoStop(q \o s.out) => NoStop(q \o r.out)
  BY <1>1, <1>2, Shown
<1>4. ~Active(r)
  BY <1>3 DEF Active
<1>5. Follow(s, t) = Dispatch(r, t)
  BY DEF Follow
<1> HIDE DEF r
<1>6. t.order.kind \in {"run", "resume"} => LastBare(k, q \o r.out)
  BY <1>3 DEF Leads
<1>7. QED
  BY <1>3, <1>4, <1>5, <1>6, Dispatched

(* A demo that has neither stopped nor failed offers nothing fresh.        *)
LEMMA Unoffered ==
  ASSUME NEW s, NEW k, NEW u, NEW q, Amid(s, k, u, q),
         s.demo.phase \notin TerminalPhases,
         s.demo.phase = "awaiting_resume" => s.demo.reason # "failure"
  PROVE  NothingFresh(k, u, q \o s.out)
  BY AmidShape, NothingFreshOffered DEF Amid, Fine

(* A waiting demo goes on.                                                 *)
LEMMA Continued ==
  ASSUME NEW s, NEW k, NEW u, NEW q, Amid(s, k, u, q), JourneyOnStage(s),
         s.late = FALSE, s.observing = 0,
         NEW d, Sound(d), MayControl(d, "continue"),
         s.demo.phase \in {"awaiting_resume", "answering"}, s.demo.reason = d.reason,
         s.demo.checkpoint = d.checkpoint
  PROVE  AtRest(Follow(s, Continue(d)), k, u, q)
<1> DEFINE t == Continue(d)
<1>1. Leads(t) /\ t.state.phase \in {"playing", "closing"}
  BY ContinueLeads
<1>2. t.order.kind = "resume" => NoStop(q \o s.out) /\ Holds(k, u, t.order.checkpoint)
  <2>1. t.order.kind = "resume" => t.order.checkpoint = s.demo.checkpoint /\ Waiting(s.demo)
    BY ContinueLeads DEF Waiting
  <2>2. QED
    BY <2>1 DEF Amid, Fine, WaitsExactly
<1>3. ~Active(s)
  BY DEF JourneyOnStage
<1>4. d.reason # "failure"
  BY DEF MayControl, VerifiedInterruption
<1>5. NothingFresh(k, u, q \o s.out)
  BY <1>4, Unoffered DEF TerminalPhases
<1> HIDE DEF t
<1>6. Keeps(s.demo, t.state, k, u, q \o s.out)
  BY <1>1, <1>5 DEF Keeps, TerminalPhases
<1>7. QED
  BY <1>1, <1>2, <1>3, <1>6, Followed DEF t

(* What beginning and finishing an answer leave as it is.                  *)
LEMMA FinishedAnswer ==
  ASSUME NEW d, Sound(d), d.phase = "answering"
  PROVE  LET e == FinishInterruptionAnswer(d).state
         IN  /\ Sound(e) /\ e.phase = "awaiting_resume"
             /\ e.module = d.module /\ e.reason = d.reason /\ e.checkpoint = d.checkpoint
             /\ AnswerablePosition(d) /\ AnswerablePosition(e)
             /\ VerifiedInterruption(e) <=> VerifiedInterruption(d)
             /\ e.playlist = d.playlist /\ e.index = d.index
<1> DEFINE e == FinishInterruptionAnswer(d).state
<1>1. d \in DemoState /\ AnswerablePosition(d)
  BY DEF Sound, WaitsForCause
<1>2. e = [d EXCEPT !.phase = "awaiting_resume"]
  BY DEF FinishInterruptionAnswer, Transition
<1>3. Sound(e)
  BY <1>1, AnswerGood DEF MayFinishAnswer, Good
<1> HIDE DEF e
<1>4. /\ e.phase = "awaiting_resume" /\ e.module = d.module /\ e.reason = d.reason
      /\ e.checkpoint = d.checkpoint /\ e.finished = d.finished
      /\ e.playlist = d.playlist /\ e.index = d.index
  BY <1>1, <1>2 DEF DemoState
<1>5. QED
  BY <1>1, <1>3, <1>4 DEF AnswerablePosition, VerifiedInterruption, e

(* Answering begins only in a demo that is held, and holds it where it was. *)
LEMMA BegunAnswer ==
  ASSUME NEW d, Sound(d), d.phase = "awaiting_resume"
  PROVE  LET e == BeginInterruptionAnswer(d).state
         IN  /\ Sound(e) /\ e.phase = "answering"
             /\ e.module = d.module /\ e.reason = d.reason /\ e.checkpoint = d.checkpoint
             /\ e.playlist = d.playlist /\ e.index = d.index
<1> DEFINE e == BeginInterruptionAnswer(d).state
<1>1. d \in DemoState /\ AnswerablePosition(d)
  BY DEF Sound, WaitsForCause
<1>2. e = [d EXCEPT !.phase = "answering"]
  BY DEF BeginInterruptionAnswer, Transition
<1>3. Sound(e)
  BY <1>1, AnswerGood DEF MayBeginAnswer, Good
<1> HIDE DEF e
<1>4. /\ e.phase = "answering" /\ e.module = d.module /\ e.reason = d.reason
      /\ e.checkpoint = d.checkpoint /\ e.playlist = d.playlist /\ e.index = d.index
  BY <1>1, <1>2 DEF DemoState
<1>5. QED
  BY <1>3, <1>4 DEF e

(* A waiting demo that is shown under another phase of its wait.           *)
LEMMA WaitShown ==
  ASSUME NEW s, NEW k, NEW u, NEW q, Amid(s, k, u, q), JourneyOnStage(s),
         s.demo.phase \in {"awaiting_resume", "answering"},
         NEW e, Sound(e), e.phase \in {"awaiting_resume", "answering"},
         e.module = s.demo.module, e.reason = s.demo.reason, e.checkpoint = s.demo.checkpoint,
         s.demo.reason # "failure"
  PROVE  LET t == Persist(s, e)
         IN  /\ Amid(t, k, u, q) /\ JourneyOnStage(t)
             /\ t.demo = e /\ t.journey = s.journey /\ t.issued = s.issued
             /\ t.interruption = s.interruption /\ t.observing = s.observing /\ t.late = s.late
<1>1. NothingFresh(k, u, q \o s.out)
  BY Unoffered DEF TerminalPhases
<1>2. Keeps(s.demo, e, k, u, q \o s.out)
  BY <1>1 DEF Keeps, TerminalPhases
<1>3. Waiting(e) => NoStop(q \o s.out) /\ Holds(k, u, e.checkpoint)
  BY DEF Waiting, Amid, Fine, WaitsExactly
<1>4. ~Active(s)
  BY DEF JourneyOnStage
<1> DEFINE t == Persist(s, e)
<1>5. /\ Amid(t, k, u, q) /\ t.demo = e /\ t.journey = s.journey /\ t.issued = s.issued
      /\ t.interruption = s.interruption /\ t.observing = s.observing /\ t.late = s.late
  BY <1>2, <1>3, <1>4, Shown
<1> HIDE DEF t
<1>6. JourneyOnStage(t)
  BY <1>4, <1>5 DEF JourneyOnStage, Active
<1>7. QED
  BY <1>5, <1>6 DEF t

(* applyDemoDirective.                                                     *)
LEMMA Applied ==
  ASSUME NEW s, NEW k, NEW u, NEW q, Amid(s, k, u, q), JourneyOnStage(s),
         s.late = FALSE, s.observing = 0,
         s.demo.phase = "answering", s.demo.reason # "failure",
         NEW plan, plan.directive \in Directives,
         plan.directive = "replace_module" => plan.module \in Playable
  PROVE  AtRest(ApplyDirective(s, plan), k, u, q)
<1> DEFINE d == FinishInterruptionAnswer(s.demo).state
           r == [s EXCEPT !.interruption = NoInterruption]
           a == ApplyDirective(s, plan)
<1>1. s \in Server /\ ServerTyped(s) /\ Sound(s.demo) /\ q \in Seq(DownMessages)
  BY AmidShape DEF Amid, ServerTyped
<1>2. /\ Sound(d) /\ d.phase = "awaiting_resume" /\ d.module = s.demo.module
      /\ d.reason = s.demo.reason /\ d.checkpoint = s.demo.checkpoint
      /\ AnswerablePosition(s.demo) /\ AnswerablePosition(d)
  BY <1>1, FinishedAnswer
<1>3. /\ r \in Server /\ r.demo = s.demo /\ r.journey = s.journey /\ r.issued = s.issued
      /\ r.out = s.out /\ r.late = FALSE /\ r.observing = 0
  BY <1>1 DEF Server
<1>4. ServerTyped(r)
  BY <1>1, <1>3 DEF ServerTyped
<1>5. Amid(r, k, u, q) /\ JourneyOnStage(r)
  BY <1>3, <1>4, Silent DEF JourneyOnStage, Active
<1>6. d.module \in Modules /\ d.module # NoModule
  BY <1>2, StagedModule DEF ModulePhases
<1>7. d.reason = "module_complete" \/ VerifiedInterruption(d)
  BY <1>2 DEF AnswerablePosition
<1>8. ~Active(r) /\ NothingFresh(k, u, q \o r.out)
  BY <1>3, <1>5, Unoffered DEF JourneyOnStage, TerminalPhases
<1> HIDE DEF d, r
<1>9. CASE plan.directive = "remain_paused"
  <2>1. a = Persist(r, d)
    BY <1>9 DEF ApplyDirective, d, r
  <2>2. /\ r.demo.phase \in {"awaiting_resume", "answering"} /\ r.demo.reason # "failure"
        /\ d.phase \in {"awaiting_resume", "answering"} /\ d.module = r.demo.module
        /\ d.reason = r.demo.reason /\ d.checkpoint = r.demo.checkpoint
    BY <1>2, <1>3
  <2> DEFINE p == Persist(r, d)
  <2>3. /\ Amid(p, k, u, q) /\ JourneyOnStage(p)
        /\ p.demo = d /\ p.late = r.late /\ p.observing = r.observing
    BY <1>2, <1>5, <2>2, WaitShown
  <2> HIDE DEF p
  <2>4. AnswerDue(p)
    BY <1>2, <1>3, <2>3 DEF AnswerDue
  <2>5. QED
    BY <2>1, <2>3, <2>4 DEF AtRest, p
<1>10. CASE plan.directive = "resume_now"
  <2>1. a = Follow(r, Continue(d))
    BY <1>10 DEF ApplyDirective, d, r
  <2>2. MayControl(d, "continue")
    BY <1>2, <1>6, <1>7 DEF MayControl
  <2>3. QED
    BY <1>2, <1>3, <1>5, <2>1, <2>2, Continued
<1>11. CASE plan.directive = "stop"
  <2> DEFINE e == Stop(d).state
             x == [r EXCEPT !.journey = NoJourney]
             p == Persist(x, e)
  <2>1. a = Send(p, StopCommand)
    BY <1>11 DEF ApplyDirective, d, r
  <2>2. Sound(e) /\ e.phase = "stopped"
    <3>1. e.phase = "stopped"
      BY <1>2 DEF Stop, Transition, Sound, DemoState
    <3>2. QED
      BY <1>2, <3>1, StopGood DEF Good
  <2> HIDE DEF e
  <2>3. /\ x \in Server /\ x.demo = s.demo /\ x.journey = NoJourney /\ x.issued = s.issued
        /\ x.out = s.out /\ x.late = FALSE /\ x.observing = 0
    BY <1>3 DEF Server, NoJourney
  <2> HIDE DEF x
  <2>4. Amid(x, k, u, q)
    <3>1. Shape(r, k, u, q \o r.out) /\ Fine(r, k, u, q \o r.out)
      BY <1>5, AmidShape DEF Amid
    <3>2. ~Active(x) /\ x.journey.cmd <= r.issued
      BY <1>3, <2>3 DEF Active, NoJourney, Server
    <3>3. Fine(x, k, u, q \o x.out)
      BY <1>3, <1>8, <2>3, <3>1, <3>2, JourneyDropped
    <3>4. ServerTyped(x)
      BY <1>4, <1>3, <2>3 DEF ServerTyped
    <3>5. QED
      BY <1>5, <3>3, <3>4 DEF Amid
  <2>5. Keeps(x.demo, e, k, u, q \o x.out) /\ ~Waiting(e)
    BY <2>2, <2>3 DEF Keeps, TerminalPhases, Waiting
  <2>6. /\ Amid(p, k, u, q) /\ p.demo = e /\ p.journey = NoJourney
        /\ p.late = FALSE /\ p.observing = 0
    BY <2>2, <2>3, <2>4, <2>5, Shown
  <2> HIDE DEF p
  <2>7. p = [p EXCEPT !.journey = NoJourney]
    BY <2>6, AmidShape DEF Server
  <2>8. /\ Amid(a, k, u, q) /\ a.demo = e /\ a.journey = NoJourney
        /\ a.late = FALSE /\ a.observing = 0
    BY <2>1, <2>5, <2>6, <2>7, Stopped
  <2>9. QED
    BY <2>2, <2>8 DEF AtRest, JourneyOnStage, AnswerDue, Active, NoJourney
<1>12. CASE plan.directive = "replace_module"
  <2> DEFINE t == ReplaceAfterInterruption(d, plan.module)
             y == [r EXCEPT !.demo = t.state]
             z == Send([y EXCEPT !.journey = NoJourney], StopCommand)
  <2>1. a = Follow(Send([r EXCEPT !.journey = NoJourney], StopCommand), t)
    BY <1>12 DEF ApplyDirective, d, r
  <2>2. Leads(t) /\ t.state.phase = "playing" /\ t.order.kind = "run"
    <3>1. MayReplace(d)
      BY <1>2, <1>6 DEF MayReplace, MayBeginAnswer
    <3>2. plan.module \in Modules
      BY <1>12, DemoAssumption
    <3>3. QED
      BY <1>2, <3>1, <3>2, ReplaceLeads
  <2> HIDE DEF t
  <2>3. Keeps(r.demo, t.state, k, u, q \o r.out) /\ ~Waiting(t.state) /\ Sound(t.state)
    BY <1>8, <2>2 DEF Keeps, TerminalPhases, Waiting, Leads, Good
  <2>4. Amid(y, k, u, q) /\ y \in Server /\ y.demo = t.state /\ y.late = FALSE /\ y.observing = 0
    <3>1. t.state \in DemoState
      BY <2>3 DEF Sound
    <3>2. y \in Server /\ y.demo = t.state /\ y.late = FALSE /\ y.observing = 0
      BY <1>3, <3>1 DEF Server
    <3>3. QED
      BY <1>5, <2>3, <3>2, Hidden
  <2>5. /\ Amid(z, k, u, q) /\ z.demo = t.state /\ z.journey = NoJourney
        /\ z.late = FALSE /\ z.observing = 0
    <3> HIDE DEF y
    <3>1. QED
      BY <2>3, <2>4, Stopped
  <2>6. Follow(z, t) = a
    <3> DEFINE w == Send([r EXCEPT !.journey = NoJourney], StopCommand)
    <3>1. [z EXCEPT !.demo = t.state] = [w EXCEPT !.demo = t.state]
      BY <1>3 DEF Send, Server
    <3>2. Persist(z, t.state) = Persist(w, t.state)
      BY <3>1 DEF Persist
    <3> HIDE DEF z, w
    <3>3. QED
      BY <2>1, <3>2 DEF Follow, w
  <2> HIDE DEF y, z
  <2>7. ~Active(z) /\ NothingFresh(k, u, q \o z.out)
    BY <2>2, <2>5, Unoffered DEF Active, TerminalPhases
  <2>8. Keeps(z.demo, t.state, k, u, q \o z.out)
    BY <2>2, <2>7 DEF Keeps, TerminalPhases
  <2>9. QED
    BY <2>2, <2>5, <2>6, <2>7, <2>8, Followed
<1>13. QED
  BY <1>9, <1>10, <1>11, <1>12 DEF Directives

(* What a plan may ask for.                                                *)
LEMMA PlanFacts ==
  ASSUME NEW plan \in Plans
  PROVE  /\ plan.directive \in Directives /\ plan # NoInterruption
         /\ plan.directive = "replace_module" => plan.module \in Playable
  BY DEF Plans, Directives, NoInterruption

(* A fresh view of the page is asked for.                                  *)
LEMMA Asked ==
  ASSUME NEW s, NEW k, NEW u, NEW q, Amid(s, k, u, q), JourneyOnStage(s), Planned(s),
         s.late = FALSE, s.demo.phase = "answering", s.demo.reason # "failure"
  PROVE  AtRest(RequestObservation(s), k, u, q)
<1> DEFINE n == s.issued + 1
           r == [s EXCEPT !.issued = n, !.observing = n]
           m == [kind |-> "request_observation", cmd |-> n]
           a == RequestObservation(s)
<1>1. s \in Server /\ ServerTyped(s) /\ q \in Seq(DownMessages) /\ s.issued \in Nat
  BY AmidShape DEF Amid, Server
<1>2. n \in Nat /\ s.issued <= n
  BY <1>1
<1>3. a = Send(r, m)
  BY DEF RequestObservation
<1> HIDE DEF n
<1>4. /\ r \in Server /\ r.demo = s.demo /\ r.journey = s.journey /\ r.issued = n
      /\ r.out = s.out /\ r.late = FALSE /\ r.interruption = s.interruption
  BY <1>1, <1>2 DEF Server
<1>5. m \in DownMessages /\ Neutral(m)
  BY <1>2 DEF DownMessages, Requesting, Neutral, IsState, IsRun, IsStop
<1> HIDE DEF r, m
<1>6. /\ a \in Server /\ a.demo = s.demo /\ a.journey = s.journey /\ a.issued = n
      /\ a.late = FALSE /\ a.interruption = s.interruption
      /\ Grown(q \o s.out, q \o a.out, m)
  BY <1>1, <1>3, <1>4, <1>5, Sent
<1>7. Shape(s, k, u, q \o s.out) /\ Fine(s, k, u, q \o s.out)
  BY AmidShape DEF Amid
<1> HIDE DEF a
<1>8. Fine(a, k, u, q \o a.out)
  BY <1>2, <1>5, <1>6, <1>7, OtherSent
<1>9. ServerTyped(a)
  BY <1>1, <1>6 DEF ServerTyped
<1>10. JourneyOnStage(a) /\ AnswerDue(a)
  BY <1>6 DEF JourneyOnStage, AnswerDue, Active, Planned
<1>11. QED
  BY <1>8, <1>9, <1>10 DEF AtRest, Amid, a

(* planPausedDemoInterruption.                                             *)
LEMMA PlanAtRest ==
  ASSUME NEW s, NEW k, NEW u, NEW q, Amid(s, k, u, q), JourneyOnStage(s),
         s.interruption = NoInterruption => AnswerDue(s),
         s.demo.phase \in {"pausing", "awaiting_resume", "answering"},
         s.demo.phase # "pausing" => s.demo.reason # "failure",
         NEW outcome \in Plans \union {NoInterruption}, NEW answered \in BOOLEAN
  PROVE  AtRest(PlanInterruption(s, outcome, answered), k, u, q)
<1> DEFINE g == CancelPlanning(s)
           a == IF g.demo.phase = "answering"
                THEN [g EXCEPT !.demo = FinishInterruptionAnswer(g.demo).state] ELSE g
           p == [a EXCEPT !.interruption = outcome]
           b == Persist(p, BeginInterruptionAnswer(p.demo).state)
           z == PlanInterruption(s, outcome, answered)
<1>1. s \in Server /\ ServerTyped(s) /\ Sound(s.demo) /\ q \in Seq(DownMessages)
  BY AmidShape DEF Amid, ServerTyped
<1>2. /\ g \in Server /\ g.demo = s.demo /\ g.journey = s.journey /\ g.issued = s.issued
      /\ g.out = s.out /\ g.late = FALSE /\ g.observing = 0
  BY <1>1 DEF Server, CancelPlanning
<1>3. z = IF s.interruption = NoInterruption THEN s
          ELSE IF a.demo.phase # "pausing" /\ ~PositionVerified(a) THEN a
          ELSE IF outcome = NoInterruption THEN a
          ELSE IF a.demo.phase = "pausing" THEN p
          ELSE IF outcome.observe THEN RequestObservation(b)
          ELSE IF answered THEN ApplyDirective(b, outcome)
          ELSE Persist(b, FinishInterruptionAnswer(b.demo).state)
  BY DEF PlanInterruption
<1> HIDE DEF g, a, p, b, z
<1>a. /\ s.interruption = NoInterruption => z = s
      /\ s.interruption # NoInterruption /\ outcome = NoInterruption => z = a
  BY <1>3
<1>b. s.interruption # NoInterruption /\ outcome # NoInterruption /\ a.demo.phase = "pausing" => z = p
  BY <1>3
<1>c. s.interruption # NoInterruption /\ outcome # NoInterruption /\ a.demo.phase # "pausing" =>
        z \in {a, RequestObservation(b), ApplyDirective(b, outcome),
              Persist(b, FinishInterruptionAnswer(b.demo).state)}
  BY <1>3
<1>4. ServerTyped(g) /\ Amid(g, k, u, q) /\ JourneyOnStage(g)
  BY <1>1, <1>2, Silent DEF ServerTyped, JourneyOnStage, Active
<1>5. /\ Amid(a, k, u, q) /\ JourneyOnStage(a) /\ a \in Server
      /\ a.late = FALSE /\ a.observing = 0
      /\ a.demo.phase \in {"pausing", "awaiting_resume"}
      /\ a.demo.phase = "awaiting_resume" => a.demo.reason # "failure"
  <2>1. CASE g.demo.phase # "answering"
    BY <1>2, <1>4, <2>1 DEF a
  <2>2. CASE g.demo.phase = "answering"
    <3> DEFINE e == FinishInterruptionAnswer(g.demo).state
    <3>1. /\ Sound(e) /\ e.phase = "awaiting_resume" /\ e.module = g.demo.module
          /\ e.reason = g.demo.reason /\ e.checkpoint = g.demo.checkpoint
      BY <1>1, <1>2, <2>2, FinishedAnswer
    <3>2. a = [g EXCEPT !.demo = e]
      BY <2>2 DEF a
    <3> HIDE DEF e
    <3>3. /\ a \in Server /\ a.demo = e /\ a.journey = g.journey
          /\ a.late = FALSE /\ a.observing = 0
      BY <1>2, <3>1, <3>2 DEF Server, Sound
    <3>4. NothingFresh(k, u, q \o g.out)
      BY <1>4, <2>2, Unoffered DEF TerminalPhases
    <3>5. Keeps(g.demo, e, k, u, q \o g.out)
      BY <1>2, <2>2, <3>1, <3>4 DEF Keeps, TerminalPhases
    <3>6. Waiting(e) => NoStop(q \o g.out) /\ Holds(k, u, e.checkpoint)
      BY <1>4, <2>2, <3>1 DEF Waiting, Amid, Fine, WaitsExactly
    <3>7. Amid(a, k, u, q)
      BY <1>4, <3>1, <3>2, <3>5, <3>6, Hidden
    <3>8. JourneyOnStage(a)
      BY <1>4, <2>2, <3>1, <3>3 DEF JourneyOnStage, Active
    <3>9. QED
      BY <1>2, <2>2, <3>1, <3>3, <3>7, <3>8
  <2>3. QED
    BY <2>1, <2>2
<1>6. AtRest(a, k, u, q)
  BY <1>5 DEF AtRest, AnswerDue
<1>7. CASE outcome \in Plans
  <2>1. /\ p \in Server /\ p.demo = a.demo /\ p.journey = a.journey /\ p.issued = a.issued
        /\ p.out = a.out /\ p.late = FALSE /\ p.observing = 0 /\ p.interruption = outcome
    BY <1>5, <1>7 DEF Server, p
  <2>2. ServerTyped(p)
    BY <1>5, <2>1 DEF ServerTyped, Amid
  <2> DEFINE e == BeginInterruptionAnswer(p.demo).state
             w == FinishInterruptionAnswer(b.demo).state
  <2>3. Amid(p, k, u, q) /\ JourneyOnStage(p) /\ AnswerDue(p)
    BY <1>5, <2>1, <2>2, Silent DEF JourneyOnStage, AnswerDue, Active
  <2>4. CASE p.demo.phase = "pausing"
    <3>1. AtRest(p, k, u, q)
      BY <2>3 DEF AtRest
    <3>2. s.interruption = NoInterruption => AtRest(s, k, u, q)
      BY DEF AtRest
    <3>3. (z = s /\ s.interruption = NoInterruption) \/ z = p
      BY <1>7, <1>a, <1>b, <2>1, <2>4, PlanFacts
    <3>4. QED
      BY <3>1, <3>2, <3>3 DEF z
  <2>5. CASE p.demo.phase = "awaiting_resume"
    <3>1. p.demo.phase \in {"awaiting_resume", "answering"} /\ p.demo.reason # "failure"
      BY <1>5, <2>1, <2>5
    <3>2. /\ Sound(e) /\ e.phase = "answering" /\ e.module = p.demo.module
          /\ e.reason = p.demo.reason /\ e.checkpoint = p.demo.checkpoint
      BY <2>2, <2>5, BegunAnswer DEF ServerTyped
    <3> HIDE DEF e
    <3>3. e.phase \in {"awaiting_resume", "answering"}
      BY <3>2
    <3>4. b = Persist(p, e)
      BY DEF b, e
    <3>5. /\ Amid(b, k, u, q) /\ JourneyOnStage(b)
          /\ b.demo = e /\ b.interruption = p.interruption
          /\ b.observing = p.observing /\ b.late = p.late
      BY <2>3, <3>1, <3>2, <3>3, <3>4, WaitShown
    <3>6. Planned(b) /\ b.demo.reason # "failure" /\ b.late = FALSE /\ b.observing = 0
      BY <1>7, <2>1, <3>1, <3>2, <3>5, PlanFacts DEF Planned
    <3>7. AtRest(RequestObservation(b), k, u, q)
      BY <3>2, <3>5, <3>6, Asked
    <3>8. AtRest(ApplyDirective(b, outcome), k, u, q)
      BY <1>7, <3>2, <3>5, <3>6, Applied, PlanFacts
    <3>9. /\ Sound(w) /\ w.phase = "awaiting_resume" /\ w.module = b.demo.module
          /\ w.reason = b.demo.reason /\ w.checkpoint = b.demo.checkpoint
      BY <3>2, <3>5, FinishedAnswer
    <3> HIDE DEF w
    <3>10. w.phase \in {"awaiting_resume", "answering"} /\ b.demo.phase \in {"awaiting_resume", "answering"}
      BY <3>2, <3>5, <3>9
    <3> DEFINE y == Persist(b, w)
    <3>11. /\ Amid(y, k, u, q) /\ JourneyOnStage(y)
           /\ y.demo = w /\ y.observing = b.observing /\ y.late = b.late
      BY <3>5, <3>6, <3>9, <3>10, WaitShown
    <3> HIDE DEF y
    <3>12. AnswerDue(y)
      BY <3>6, <3>9, <3>11 DEF AnswerDue
    <3>13. AtRest(y, k, u, q)
      BY <3>11, <3>12 DEF AtRest
    <3>14. a.demo.phase # "pausing" /\ outcome # NoInterruption
      BY <1>7, <2>1, <2>5, PlanFacts
    <3>15. CASE s.interruption = NoInterruption
      <4>1. z = s /\ AtRest(s, k, u, q)
        BY <1>a, <3>15 DEF AtRest
      <4>2. QED
        BY <4>1 DEF z
    <3>16. CASE s.interruption # NoInterruption
      <4>1. z \in {a, RequestObservation(b), ApplyDirective(b, outcome), y}
        BY <1>c, <3>14, <3>16 DEF y, w
      <4>2. AtRest(z, k, u, q)
        BY <1>6, <3>7, <3>8, <3>13, <4>1
      <4>3. QED
        BY <4>2 DEF z
    <3>17. QED
      BY <3>15, <3>16
  <2>6. QED
    BY <1>5, <2>1, <2>4, <2>5
<1>8. CASE outcome = NoInterruption
  <2>1. (z = s /\ s.interruption = NoInterruption) \/ z = a
    BY <1>8, <1>a
  <2>2. AtRest(z, k, u, q)
    BY <1>6, <2>1 DEF AtRest
  <2>3. QED
    BY <2>2 DEF z
<1>9. QED
  BY <1>7, <1>8

(* continuePersistedDemoInterruption.                                      *)
LEMMA ContinueAtRest ==
  ASSUME NEW s, NEW k, NEW u, NEW q, AtRest(s, k, u, q), Planned(s),
         s.demo.phase = "awaiting_resume", VerifiedInterruption(s.demo), NEW answered \in BOOLEAN
  PROVE  AtRest(ContinueInterruption(s, answered), k, u, q)
<1> DEFINE e == BeginInterruptionAnswer(s.demo).state
           a == Persist(s, e)
           g == CancelPlanning(a)
           z == ContinueInterruption(s, answered)
<1>1. /\ s \in Server /\ ServerTyped(s) /\ Sound(s.demo) /\ Amid(s, k, u, q)
      /\ JourneyOnStage(s) /\ AnswerDue(s) /\ s.demo.reason = "interruption"
  BY AmidShape DEF AtRest, Amid, ServerTyped, VerifiedInterruption
<1>2. z = IF s.interruption.observe THEN RequestObservation(g)
          ELSE IF answered THEN ApplyDirective(g, s.interruption) ELSE g
  <2>1. PositionVerified(s) /\ a = IF s.demo.phase = "awaiting_resume" THEN a ELSE s
    BY DEF PositionVerified
  <2>2. z = IF s.demo.phase = "awaiting_resume" /\ ~PositionVerified(s) THEN s
            ELSE IF s.interruption.observe THEN RequestObservation(g)
            ELSE IF answered THEN ApplyDirective(g, s.interruption)
            ELSE g
    BY DEF ContinueInterruption
  <2> HIDE DEF z, g, a
  <2>3. QED
    BY <2>1, <2>2
<1>3. /\ Sound(e) /\ e.phase = "answering" /\ e.module = s.demo.module
      /\ e.reason = s.demo.reason /\ e.checkpoint = s.demo.checkpoint
  BY <1>1, BegunAnswer
<1> HIDE DEF e
<1>4. e.phase \in {"awaiting_resume", "answering"} /\ s.demo.phase \in {"awaiting_resume", "answering"}
  BY <1>3
<1>5. /\ Amid(a, k, u, q) /\ JourneyOnStage(a) /\ a.demo = e /\ a.interruption = s.interruption
  BY <1>1, <1>3, <1>4, WaitShown
<1>6. a \in Server /\ ServerTyped(a)
  BY <1>5, AmidShape DEF Amid
<1> HIDE DEF a
<1>7. /\ g \in Server /\ g.demo = a.demo /\ g.journey = a.journey /\ g.issued = a.issued
      /\ g.out = a.out /\ g.late = FALSE /\ g.observing = 0 /\ g.interruption = a.interruption
  BY <1>6 DEF CancelPlanning, Server
<1> HIDE DEF g
<1>8. /\ ServerTyped(g) /\ Amid(g, k, u, q) /\ JourneyOnStage(g) /\ Planned(g)
      /\ g.demo.phase = "answering" /\ g.demo.reason # "failure"
  BY <1>1, <1>3, <1>5, <1>6, <1>7, Silent DEF ServerTyped, JourneyOnStage, Active, Planned
<1>9. AtRest(g, k, u, q)
  BY <1>7, <1>8 DEF AtRest, AnswerDue
<1>10. AtRest(RequestObservation(g), k, u, q)
  BY <1>7, <1>8, Asked
<1>11. s.interruption \in Plans
  BY <1>1 DEF Server, Planned, Directives, NoInterruption, Heard
<1>12. AtRest(ApplyDirective(g, s.interruption), k, u, q)
  BY <1>7, <1>8, <1>11, PlanFacts, Applied
<1>13. QED
  BY <1>2, <1>9, <1>10, <1>12

(* An interruption whose browser outcome has just become known.            *)
LEMMA SettledAtRest ==
  ASSUME NEW s, NEW k, NEW u, NEW q, AtRest(s, k, u, q),
         s.demo.phase = "awaiting_resume", VerifiedInterruption(s.demo),
         NEW outcome \in Plans \union {NoInterruption}, NEW answered \in BOOLEAN
  PROVE  AtRest(Settle(s, outcome, answered), k, u, q)
<1>1. CASE Planned(s)
  BY <1>1, ContinueAtRest DEF Settle
<1>2. CASE ~Planned(s)
  <2>1. s.demo.reason # "failure" /\ s.demo.phase \in {"pausing", "awaiting_resume", "answering"}
    BY DEF VerifiedInterruption
  <2>2. AtRest(PlanInterruption(s, outcome, answered), k, u, q)
    BY <2>1, PlanAtRest DEF AtRest
  <2>3. QED
    BY <1>2, <2>2 DEF Settle
<1>3. QED
  BY <1>1, <1>2

-----------------------------------------------------------------------------
(* The message being handled.                                              *)

(* It is taken off the queue.                                              *)
LEMMA Taken ==
  ASSUME NEW s, NEW k, NEW u, NEW q, Amid(s, k, u, q), u # << >>,
         IsOutcome(Head(u)) /\ Active(s) => Head(u).cmd # s.journey.cmd,
         Head(u).kind = "interrupt" \/ (IsPress(Head(u)) /\ Head(u).action = "stop")
           => ~Active(s) /\ ~Waiting(s.demo)
  PROVE  Amid(s, k, Tail(u), q)
<1>1. /\ Tail(u) \in Seq(UpMessages) /\ Shrunk(u, Tail(u)) /\ Head(u) = u[1]
  BY Removed DEF Amid
<1>2. Shape(s, k, u, q \o s.out) /\ Fine(s, k, u, q \o s.out)
  BY AmidShape DEF Amid
<1>3. Fine(s, k, Tail(u), q \o s.out)
  BY <1>1, <1>2, HeadTaken
<1>4. QED
  BY <1>1, <1>3 DEF Amid

(* The outcome of the journey the server awaits: no stop is on its way to  *)
(* the browser, and no button is offered that would move the demo on.      *)
LEMMA OutcomeAlone ==
  ASSUME NEW s, NEW k, NEW u, NEW q, Shape(s, k, u, q), Fine(s, k, u, q), Active(s),
         u # << >>, IsOutcome(u[1]), u[1].cmd = s.journey.cmd
  PROVE  NoStop(q) /\ \A a \in Forward : ~OfferedAny(k, u, q, a)
<1>1. Len(q) \in Nat /\ Len(u) \in Nat /\ 1 \in 1..Len(u)
  BY DEF Shape
<1>2. u[1].cmd \in Nat
  BY <1>1, UpFields DEF Shape
<1>3. ASSUME NEW j \in Nat PROVE ~OrderAfter(q, j, s.journey.cmd)
  <2>1. SUFFICES ASSUME NEW i \in 1..Len(q), IsRun(q[i]), q[i].cmd = s.journey.cmd PROVE FALSE
    BY DEF OrderAfter
  <2>2. u[1].cmd < q[i].cmd
    BY <1>1, <2>1 DEF Fine, Commands, OrdersAreNew
  <2>3. QED
    BY <1>2, <2>1, <2>2
<1>4. NoStop(q)
  BY <1>1, <1>3 DEF NoStop, Fine, Commands, StopsBefore
<1>5. ~Moves(k.buttons) /\ \A j \in 1..Len(q) : ~Moving(q[j])
  BY <1>1, <1>3 DEF Fine, Panel, ShownBefore
<1>6. \A i \in 1..Len(u) : ~MovingPress(u[i])
  BY <1>1 DEF Fine, Panel, PressedBefore
<1>7. QED
  BY <1>4, <1>5, <1>6 DEF OfferedAny, Moves, Moving, MovingPress, Shows, Presses

(* The outcome is taken: the journey is over, or paused.                   *)
LEMMA OutcomeTaken ==
  ASSUME NEW s, NEW k, NEW u, NEW q, Amid(s, k, u, q), u # << >>,
         IsOutcome(Head(u)), Head(u).cmd = s.journey.cmd,
         NEW t, ServerTyped(t), t.demo = s.demo, t.issued = s.issued, t.out = s.out,
         ~Active(t), t.journey.cmd \in {0, s.journey.cmd}
  PROVE  /\ Amid(t, k, Tail(u), q)
         /\ Active(s) => /\ NoStop(q \o t.out)
                         /\ \A a \in Forward : ~OfferedAny(k, Tail(u), q \o t.out, a)
         /\ Active(s) /\ Head(u).kind = "paused" =>
              Holds(k, Tail(u), [journey |-> JourneyOf[s.journey.module], next |-> Head(u).next])
<1>1. /\ Tail(u) \in Seq(UpMessages) /\ Shrunk(u, Tail(u)) /\ Head(u) = u[1]
      /\ Len(u) \in Nat \ {0} /\ u \in Seq(UpMessages)
  BY Removed DEF Amid
<1>2. Shape(s, k, u, q \o s.out) /\ Fine(s, k, u, q \o s.out) /\ s.issued \in Nat
  BY AmidShape DEF Amid, Shape
<1>3. t.journey.cmd <= s.issued
  <2>1. s.journey.cmd <= s.issued
    BY <1>2 DEF Fine, Commands, IdsIssued
  <2>2. QED
    BY <1>2, <2>1
<1>4. Fine(t, k, u, q \o s.out)
  BY <1>1, <1>2, <1>3, JourneyDropped
<1>5. Amid(t, k, u, q)
  BY <1>4 DEF Amid
<1>6. IsOutcome(Head(u)) => ~IsPress(Head(u)) /\ Head(u).kind # "interrupt"
  BY Kinds
<1>7. Amid(t, k, Tail(u), q)
  BY <1>5, <1>6, Taken
<1>8. ASSUME Active(s)
      PROVE  /\ NoStop(q \o t.out)
             /\ \A a \in Forward : ~OfferedAny(k, Tail(u), q \o t.out, a)
  <2>1. NoStop(q \o s.out) /\ \A a \in Forward : ~OfferedAny(k, u, q \o s.out, a)
    BY <1>1, <1>2, <1>8, OutcomeAlone
  <2>2. \A i \in 1..Len(Tail(u)) : i + 1 \in 1..Len(u) /\ Tail(u)[i] = u[i + 1]
    BY <1>1, ShrunkKeeps
  <2>3. \A a : OfferedAny(k, Tail(u), q \o s.out, a) => OfferedAny(k, u, q \o s.out, a)
    BY <2>2 DEF OfferedAny
  <2>4. QED
    BY <2>1, <2>3
<1>9. ASSUME Active(s), Head(u).kind = "paused"
      PROVE  Holds(k, Tail(u), [journey |-> JourneyOf[s.journey.module], next |-> Head(u).next])
  <2> DEFINE c == [journey |-> JourneyOf[s.journey.module], next |-> Head(u).next]
  <2>1. Holds(k, u, c)
    BY <1>1, <1>2, <1>9 DEF Fine, ReportsExactly
  <2>2. StopInUp(u) => StopInUp(Tail(u))
    <3>1. \A i \in 1..Len(u) : i = 1 \/ (i - 1 \in 1..Len(Tail(u)) /\ u[i] = Tail(u)[i - 1])
      BY <1>1, ShrunkKeeps
    <3>2. QED
      BY <1>1, <1>6, <3>1 DEF StopInUp
  <2>3. QED
    BY <2>1, <2>2 DEF Holds
<1>10. QED
  BY <1>7, <1>8, <1>9

(* Of buttons pressed, start, retry and skip leave nothing of their kind.  *)
LEMMA PressTaken ==
  ASSUME NEW s, NEW k, NEW u, NEW q, AtRest(s, k, u, q), u # << >>,
         IsPress(Head(u)), Head(u).action # "stop"
  PROVE  /\ AtRest(s, k, Tail(u), q)
         /\ Head(u).action \in Fresh => \A b \in After(Head(u).action) : ~OfferedAny(k, Tail(u), q \o s.out, b)
<1>1. /\ Tail(u) \in Seq(UpMessages) /\ Shrunk(u, Tail(u)) /\ Head(u) = u[1]
      /\ Len(u) \in Nat \ {0} /\ u \in Seq(UpMessages)
  BY Removed DEF AtRest, Amid
<1>2. Amid(s, k, Tail(u), q)
  <2>1. ~IsOutcome(Head(u)) /\ Head(u).kind # "interrupt"
    BY Kinds
  <2>2. QED
    BY <2>1, Taken DEF AtRest
<1>3. ASSUME Head(u).action \in Fresh, NEW b \in After(Head(u).action)
      PROVE  ~OfferedAny(k, Tail(u), q \o s.out, b)
  <2>1. OfferedOnce(k, u, q \o s.out)
    BY DEF AtRest, Amid, Fine, Panel
  <2>2. Presses(u[1], Head(u).action) /\ 1 \in 1..Len(u) /\ b \in Fresh
    BY <1>1, <1>3 DEF Presses, After, Fresh
  <2>3. /\ \A j \in 1..Len(u) : 1 < j => ~Presses(u[j], b)
        /\ b \notin k.buttons
        /\ \A j \in 1..Len(q \o s.out) : ~Shows((q \o s.out)[j], b)
    BY <1>3, <2>1, <2>2 DEF OfferedOnce
  <2>4. \A i \in 1..Len(Tail(u)) : i + 1 \in 1..Len(u) /\ 1 < i + 1 /\ Tail(u)[i] = u[i + 1]
    BY <1>1, ShrunkKeeps
  <2>5. QED
    BY <2>3, <2>4 DEF OfferedAny
<1>4. QED
  BY <1>2, <1>3 DEF AtRest

-----------------------------------------------------------------------------
(* Handlers.                                                               *)

(* What was planned is void.                                               *)
Void(s) == [CancelPlanning(s) EXCEPT !.interruption = NoInterruption, !.timer = FALSE]
LEMMA Voided ==
  ASSUME NEW s, NEW k, NEW u, NEW q, Amid(s, k, u, q)
  PROVE  LET r == Void(s)
         IN  /\ Amid(r, k, u, q) /\ r \in Server /\ (JourneyOnStage(s) => JourneyOnStage(r))
             /\ r.demo = s.demo /\ r.journey = s.journey /\ r.issued = s.issued /\ r.out = s.out
             /\ r.late = FALSE /\ r.observing = 0
<1> DEFINE r == Void(s)
<1>1. s \in Server
  BY AmidShape
<1>2. /\ r \in Server /\ r.demo = s.demo /\ r.journey = s.journey /\ r.issued = s.issued
      /\ r.out = s.out /\ r.late = FALSE /\ r.observing = 0
  <2> DEFINE g == CancelPlanning(s)
  <2>1. /\ g \in Server /\ g.demo = s.demo /\ g.journey = s.journey /\ g.issued = s.issued
        /\ g.out = s.out /\ g.late = FALSE /\ g.observing = 0
    BY <1>1 DEF CancelPlanning, Server
  <2>2. r = [g EXCEPT !.interruption = NoInterruption, !.timer = FALSE]
    BY DEF Void
  <2> HIDE DEF g, r
  <2>3. QED
    BY <2>1, <2>2 DEF Server
<1> HIDE DEF r
<1>3. ServerTyped(r)
  BY <1>2 DEF ServerTyped, Amid
<1>4. Amid(r, k, u, q)
  BY <1>2, <1>3, Silent
<1>5. JourneyOnStage(s) => JourneyOnStage(r)
  BY <1>2 DEF JourneyOnStage, Active
<1>6. QED
  BY <1>2, <1>4, <1>5 DEF r

(* The demo is stopped, whatever it was doing.                             *)
LEMMA StoppedDemo ==
  ASSUME NEW s, NEW k, NEW u, NEW q, Amid(s, k, u, q), s.demo.phase \notin TerminalPhases,
         s.late = FALSE, s.observing = 0
  PROVE  LET t == Send([Persist(s, Stop(s.demo).state) EXCEPT !.journey = NoJourney], StopCommand)
         IN  /\ AtRest(t, k, u, q) /\ t.journey = NoJourney /\ t.demo = Stop(s.demo).state
             /\ t.demo.phase = "stopped"
             /\ t = Send(Persist([s EXCEPT !.journey = NoJourney], Stop(s.demo).state), StopCommand)
<1> DEFINE e == Stop(s.demo).state
           p == Persist(s, e)
           t == Send([p EXCEPT !.journey = NoJourney], StopCommand)
<1>1. s \in Server /\ Sound(s.demo) /\ s.demo \in DemoState
  BY AmidShape DEF Amid, ServerTyped, Sound
<1>2. e.phase = "stopped"
  BY <1>1 DEF Stop, Transition, DemoState
<1>3. Sound(e) /\ ~Waiting(e)
  BY <1>1, <1>2, StopGood DEF Good, Waiting
<1>4. [p EXCEPT !.journey = NoJourney] = Persist([s EXCEPT !.journey = NoJourney], e)
  <2> HIDE DEF e
  <2>1. QED
    BY <1>1 DEF Persist, Send, Server
<1> HIDE DEF e
<1>5. Keeps(s.demo, e, k, u, q \o s.out)
  BY <1>2 DEF Keeps, TerminalPhases
<1>6. Amid(p, k, u, q) /\ p.demo = e /\ p.late = FALSE /\ p.observing = 0
  BY <1>2, <1>3, <1>5, Shown
<1>7. /\ Amid(t, k, u, q) /\ t.demo = e /\ t.journey = NoJourney
      /\ t.late = FALSE /\ t.observing = 0
  <2> HIDE DEF p
  <2>1. QED
    BY <1>3, <1>6, Stopped
<1> HIDE DEF t
<1>8. JourneyOnStage(t) /\ AnswerDue(t)
  BY <1>2, <1>7 DEF JourneyOnStage, AnswerDue, Active, NoJourney
<1>9. QED
  BY <1>2, <1>4, <1>7, <1>8 DEF AtRest, t, e

(* A button has been pressed.                                              *)
LEMMA ControlHandled ==
  ASSUME NEW s, NEW k, NEW u, NEW q, AtRest(s, k, u, q), u # << >>, IsPress(Head(u)),
         Head(u).action \in ControlActions
  PROVE  AtRest(HandleControl(s, Head(u).action), k, Tail(u), q)
<1> DEFINE action == Head(u).action
           t == Control(s.demo, action)
           r == Void(s)
           dropped == Persist([r EXCEPT !.journey = NoJourney], t.state)
           z == HandleControl(s, action)
<1>1. /\ s \in Server /\ Amid(s, k, u, q) /\ JourneyOnStage(s) /\ AnswerDue(s) /\ Sound(s.demo)
      /\ s.demo \in DemoState
  BY AmidShape DEF AtRest, Amid, ServerTyped, Sound
<1>2. z = IF ~MayControl(s.demo, action) THEN s
          ELSE IF action = "stop" THEN Send(dropped, StopCommand)
          ELSE IF action \in {"retry", "skip"} /\ s.journey.paused
          THEN Dispatch(Send(dropped, StopCommand), t)
          ELSE Follow(r, t)
  BY DEF HandleControl, Void
<1>3. ~IsOutcome(Head(u)) /\ Head(u).kind # "interrupt"
  BY Kinds
<1>4. CASE ~MayControl(s.demo, action)
  <2>1. action = "stop" => s.demo.phase \in TerminalPhases
    BY <1>4 DEF MayControl
  <2>2. action = "stop" => ~Active(s) /\ ~Waiting(s.demo)
    BY <1>1, <2>1 DEF JourneyOnStage, Waiting, TerminalPhases
  <2>3. Amid(s, k, Tail(u), q)
    BY <1>1, <1>3, <2>2, Taken
  <2>4. QED
    BY <1>1, <1>2, <1>4, <2>3 DEF AtRest
<1>5. CASE MayControl(s.demo, action) /\ action = "stop"
  <2>1. s.demo.phase \notin TerminalPhases /\ t = Stop(s.demo)
    BY <1>5 DEF MayControl, Control
  <2>2. Amid(r, k, u, q) /\ r.demo = s.demo /\ r.late = FALSE /\ r.observing = 0
    BY <1>1, Voided
  <2>3. z = Send(Persist([r EXCEPT !.journey = NoJourney], Stop(r.demo).state), StopCommand)
    BY <1>2, <1>5, <2>1, <2>2
  <2> HIDE DEF r, z
  <2>4. AtRest(z, k, u, q) /\ z.journey = NoJourney /\ z.demo.phase = "stopped"
    BY <2>1, <2>2, <2>3, StoppedDemo
  <2>5. ~Active(z) /\ ~Waiting(z.demo)
    BY <2>4 DEF Active, Waiting
  <2>6. Amid(z, k, Tail(u), q)
    BY <1>3, <2>4, <2>5, Taken DEF AtRest
  <2>7. QED
    BY <2>4, <2>6 DEF AtRest, z
<1>6. CASE MayControl(s.demo, action) /\ action # "stop"
  <2>1. /\ AtRest(s, k, Tail(u), q)
        /\ action \in Fresh => \A b \in After(action) : ~OfferedAny(k, Tail(u), q \o s.out, b)
    BY <1>6, PressTaken
  <2>2. /\ Amid(r, k, Tail(u), q) /\ JourneyOnStage(r) /\ r \in Server
        /\ r.demo = s.demo /\ r.journey = s.journey /\ r.issued = s.issued /\ r.out = s.out
        /\ r.late = FALSE /\ r.observing = 0
    BY <2>1, Voided DEF AtRest
  <2>3. ~Active(s) /\ ~Active(r)
    <3>1. s.demo.phase \in TerminalPhases \union {"awaiting_resume"}
      BY <1>6 DEF MayControl, ControlActions
    <3>2. QED
      BY <1>1, <2>2, <3>1 DEF JourneyOnStage, TerminalPhases, Active
  <2> HIDE DEF r, z
  <2>4. CASE action = "continue"
    <3>1. t = Continue(s.demo) /\ s.demo.phase = "awaiting_resume"
      BY <1>6, <2>4 DEF Control, MayControl
    <3>2. z = Follow(r, Continue(r.demo))
      BY <1>2, <1>6, <2>2, <2>4, <3>1
    <3>3. MayControl(r.demo, "continue") /\ Sound(r.demo) /\ r.demo.phase \in {"awaiting_resume", "answering"}
      BY <1>1, <1>6, <2>2, <2>4, <3>1
    <3>4. AtRest(z, k, Tail(u), q)
      BY <2>2, <3>2, <3>3, Continued
    <3>5. QED
      BY <3>4 DEF z
  <2>5. CASE action # "continue"
    <3>1. action \in Fresh
      BY <1>6, <2>5 DEF ControlActions, Fresh
    <3>2. NothingFresh(k, Tail(u), q \o s.out)
      <4>1. CASE action = "start"
        BY <2>1, <3>1, <4>1 DEF NothingFresh, After
      <4>2. CASE action # "start"
        <5>1. \A b \in {"retry", "skip"} : ~OfferedAny(k, Tail(u), q \o s.out, b)
          BY <2>1, <3>1, <4>2 DEF After
        <5>2. s.demo.phase = "awaiting_resume"
          BY <1>6, <2>5, <4>2 DEF MayControl, ControlActions
        <5>3. ~OfferedAny(k, Tail(u), q \o s.out, "start")
          <6>1. SUFFICES ASSUME OfferedAny(k, Tail(u), q \o s.out, "start") PROVE FALSE
            OBVIOUS
          <6>2. Shape(s, k, Tail(u), q \o s.out) /\ k \in BrowserStates /\ OffersCurrent(s.demo, k, Tail(u), q \o s.out)
            BY <2>1, AmidShape DEF AtRest, Amid, Fine
          <6>3. PICK v \in Modules \union {NoModule} : Offered(k, Tail(u), q \o s.out, "start", v)
            BY <6>1, <6>2, OfferedSome
          <6>4. Current(s.demo, "start", v)
            BY <6>2, <6>3 DEF OffersCurrent
          <6>5. QED
            BY <5>2, <6>4 DEF Current, TerminalPhases
        <5>4. QED
          BY <5>1, <5>3 DEF NothingFresh, Fresh
      <4>3. QED
        BY <4>1, <4>2
    <3>3. /\ Leads(t) /\ t.state.phase \in {"intake", "playing", "closing"} /\ t.order.kind # "resume"
      <4>1. CASE action = "start"
        BY <4>1, StartLeads DEF Control
      <4>2. CASE action = "retry"
        <5>1. s.demo.phase = "awaiting_resume" /\ t = Retry(s.demo)
          BY <1>6, <4>2 DEF MayControl, Control
        <5>2. QED
          BY <1>1, <5>1, RetryLeads
      <4>3. CASE action = "skip"
        <5>1. t = AdvanceModule(s.demo)
          BY <4>3 DEF Control
        <5>2. AdvanceModule(s.demo).order.kind # "resume"
          BY DEF AdvanceModule, PlaySlot, Transition, RunOrder, NoOrder
        <5>3. QED
          BY <1>1, <5>1, <5>2, AdvanceLeads
      <4>4. QED
        BY <3>1, <4>1, <4>2, <4>3 DEF Fresh
    <3> HIDE DEF t
    <3>4. Keeps(r.demo, t.state, k, Tail(u), q \o r.out)
      BY <2>2, <3>2, <3>3 DEF Keeps, TerminalPhases
    <3>5. CASE action \in {"retry", "skip"} /\ s.journey.paused
      <4> DEFINE y == [r EXCEPT !.journey = NoJourney]
                 w == Persist(y, t.state)
                 x == Send([w EXCEPT !.journey = NoJourney], StopCommand)
      <4>1. /\ y \in Server /\ y.demo = r.demo /\ y.journey = NoJourney /\ y.issued = r.issued
            /\ y.out = r.out /\ y.late = FALSE /\ y.observing = 0
        BY <2>2 DEF Server, NoJourney
      <4> HIDE DEF y
      <4>2. ~Active(y) /\ y.journey.cmd <= r.issued
        BY <2>2, <4>1 DEF Active, NoJourney, Server
      <4>3. Amid(y, k, Tail(u), q)
        <5>1. Shape(r, k, Tail(u), q \o r.out) /\ Fine(r, k, Tail(u), q \o r.out)
          BY <2>2, AmidShape DEF Amid
        <5>2. Fine(y, k, Tail(u), q \o y.out)
          BY <2>3, <4>1, <4>2, <5>1, JourneyDropped
        <5>3. ServerTyped(y)
          BY <2>2, <4>1 DEF ServerTyped, Amid
        <5>4. QED
          BY <2>2, <5>2, <5>3 DEF Amid
      <4>4. Sound(t.state) /\ ~Waiting(t.state) /\ t.state.phase # "awaiting_resume"
        BY <3>3 DEF Leads, Good, Waiting
      <4>5. /\ Amid(w, k, Tail(u), q) /\ w.demo = t.state /\ w.journey = NoJourney
            /\ w.late = FALSE /\ w.observing = 0 /\ LastBare(k, q \o w.out)
        BY <3>4, <4>1, <4>3, <4>4, Shown
      <4> HIDE DEF w
      <4>6. w \in Server /\ [w EXCEPT !.journey = NoJourney] = w
        BY <4>5, AmidShape DEF Server
      <4>7. /\ Amid(x, k, Tail(u), q) /\ x.demo = t.state /\ x.journey = NoJourney
            /\ x.late = FALSE /\ x.observing = 0 /\ LastBare(k, q \o x.out)
        BY <4>4, <4>5, Stopped
      <4>8. z = Dispatch(x, t)
        BY <1>2, <1>6, <3>5, <4>6 DEF w, y
      <4> HIDE DEF x
      <4>9. ~Active(x)
        BY <4>7 DEF Active
      <4>10. AtRest(z, k, Tail(u), q)
        BY <3>3, <4>7, <4>8, <4>9, Dispatched
      <4>11. QED
        BY <4>10 DEF z
    <3>6. CASE ~(action \in {"retry", "skip"} /\ s.journey.paused)
      <4>1. z = Follow(r, t)
        BY <1>2, <1>6, <3>6
      <4>2. AtRest(z, k, Tail(u), q)
        BY <2>2, <2>3, <3>3, <3>4, <4>1, Followed
      <4>3. QED
        BY <4>2 DEF z
    <3>7. QED
      BY <3>5, <3>6
  <2>6. QED
    BY <2>4, <2>5
<1>7. QED
  BY <1>4, <1>5, <1>6

(* The host has interrupted.                                               *)
LEMMA InterruptHandled ==
  ASSUME NEW s, NEW k, NEW u, NEW q, AtRest(s, k, u, q), u # << >>, Head(u).kind = "interrupt"
  PROVE  AtRest(HandleInterrupt(s), k, Tail(u), q)
<1> DEFINE r == Void(s)
           e == IF s.demo.phase \in TerminalPhases THEN s ELSE Persist(r, Stop(s.demo).state)
           z == Send([e EXCEPT !.journey = NoJourney], StopCommand)
<1>1. HandleInterrupt(s) = z
  BY DEF HandleInterrupt, Void
<1>2. /\ Amid(r, k, u, q) /\ r.demo = s.demo /\ r.late = FALSE /\ r.observing = 0
      /\ Amid(s, k, u, q) /\ AnswerDue(s)
  BY Voided DEF AtRest
<1>3. AtRest(z, k, u, q) /\ z.journey = NoJourney /\ z.demo.phase \in TerminalPhases
  <2>1. CASE s.demo.phase \in TerminalPhases
    <3>1. z = Send([s EXCEPT !.journey = NoJourney], StopCommand)
      BY <2>1
    <3>2. ~Waiting(s.demo)
      BY <2>1 DEF Waiting, TerminalPhases
    <3>3. /\ Amid(z, k, u, q) /\ z.demo = s.demo /\ z.journey = NoJourney
          /\ z.late = s.late /\ z.observing = s.observing
      BY <1>2, <3>1, <3>2, Stopped
    <3> HIDE DEF z
    <3>4. JourneyOnStage(z) /\ AnswerDue(z)
      BY <1>2, <2>1, <3>3 DEF JourneyOnStage, AnswerDue, Active, NoJourney, TerminalPhases
    <3>5. QED
      BY <2>1, <3>3, <3>4 DEF AtRest
  <2>2. CASE s.demo.phase \notin TerminalPhases
    <3>1. z = Send([Persist(r, Stop(r.demo).state) EXCEPT !.journey = NoJourney], StopCommand)
      BY <1>2, <2>2
    <3> HIDE DEF r, z
    <3>2. AtRest(z, k, u, q) /\ z.journey = NoJourney /\ z.demo.phase = "stopped"
      BY <1>2, <2>2, <3>1, StoppedDemo
    <3>3. QED
      BY <3>2 DEF TerminalPhases
  <2>3. QED
    BY <2>1, <2>2
<1> HIDE DEF z
<1>4. ~Active(z) /\ ~Waiting(z.demo)
  BY <1>3 DEF Active, Waiting, TerminalPhases
<1>5. ~IsOutcome(Head(u))
  BY Kinds
<1>6. Amid(z, k, Tail(u), q)
  BY <1>3, <1>4, <1>5, Taken DEF AtRest
<1>7. QED
  BY <1>1, <1>3, <1>6 DEF AtRest

(* A message that is neither an outcome nor a stop is simply taken.        *)
LEMMA PlainTaken ==
  ASSUME NEW s, NEW k, NEW u, NEW q, AtRest(s, k, u, q), u # << >>,
         Head(u).kind \in {"user_turn", "observation"}
  PROVE  AtRest(s, k, Tail(u), q)
<1>1. ~IsOutcome(Head(u)) /\ ~IsPress(Head(u)) /\ Head(u).kind # "interrupt"
  BY DEF IsOutcome, IsPress
<1>2. QED
  BY <1>1, Taken DEF AtRest

(* A turn of the intake.                                                   *)
LEMMA IntakeHandled ==
  ASSUME NEW s, NEW k, NEW u, NEW q, AtRest(s, k, u, q), s.demo.phase = "intake",
         NEW asks \in BOOLEAN, NEW p \in Personas \union {NoPersona}
  PROVE  AtRest(HandleIntakeTurn(s, asks, p), k, u, q)
<1> DEFINE t == CaptureIntake(s.demo, p)
<1>1. CASE asks \/ ~MayCaptureIntake(s.demo)
  BY <1>1 DEF HandleIntakeTurn
<1>2. CASE ~(asks \/ ~MayCaptureIntake(s.demo))
  <2>1. HandleIntakeTurn(s, asks, p) = Follow(s, t)
    BY <1>2 DEF HandleIntakeTurn
  <2>2. Sound(s.demo) /\ Amid(s, k, u, q) /\ ~Active(s)
    BY DEF AtRest, Amid, ServerTyped, JourneyOnStage
  <2>3. s.late = FALSE /\ s.observing = 0
    <3>1. s \in Server
      BY <2>2, AmidShape
    <3>2. QED
      BY <3>1 DEF AtRest, AnswerDue, Server
  <2>4. Leads(t) /\ t.state.phase \in {"intake", "playing", "closing"} /\ t.order.kind # "resume"
    BY <1>2, <2>2, CaptureLeads
  <2>5. NothingFresh(k, u, q \o s.out)
    BY <2>2, Unoffered DEF TerminalPhases
  <2> HIDE DEF t
  <2>6. Keeps(s.demo, t.state, k, u, q \o s.out)
    BY <2>4, <2>5 DEF Keeps, TerminalPhases
  <2>7. QED
    BY <2>1, <2>2, <2>3, <2>4, <2>6, Followed
<1>3. QED
  BY <1>1, <1>2

(* A turn heard later.                                                     *)
LEMMA TurnHandled ==
  ASSUME NEW s, NEW k, NEW u, NEW q, AtRest(s, k, u, q), NEW continues \in BOOLEAN,
         NEW outcome \in Plans \union {NoInterruption}, NEW answered \in BOOLEAN
  PROVE  AtRest(HandleTurn(s, continues, outcome, answered), k, u, q)
<1> DEFINE d == s.demo
           h == [s EXCEPT !.interruption = Heard]
           e == BeginInterruption(d).state
           p == Persist(h, e)
           m == PauseCommand(JourneyOf[s.journey.module])
           z == HandleTurn(s, continues, outcome, answered)
<1>1. /\ s \in Server /\ ServerTyped(s) /\ Amid(s, k, u, q) /\ JourneyOnStage(s) /\ AnswerDue(s)
      /\ Sound(d) /\ d \in DemoState /\ q \in Seq(DownMessages)
  BY AmidShape DEF AtRest, Amid, ServerTyped, Sound
<1>2. z = IF d.phase = "playing" /\ Active(s)
          THEN PlanInterruption(Send(p, m), outcome, answered)
          ELSE IF d.phase = "awaiting_resume" /\ d.reason = "module_complete" /\ continues
          THEN Follow(s, Continue(d))
          ELSE IF \/ d.phase \in {"pausing", "answering"}
                  \/ d.phase = "awaiting_resume" /\ d.reason \in {"interruption", "module_complete"}
          THEN PlanInterruption(h, outcome, answered)
          ELSE s
  BY DEF HandleTurn, Active
<1>3. /\ h \in Server /\ h.demo = d /\ h.journey = s.journey /\ h.issued = s.issued
      /\ h.out = s.out /\ h.interruption = Heard
  BY <1>1 DEF Server
<1> HIDE DEF h, z
<1>4. ServerTyped(h) /\ Amid(h, k, u, q) /\ JourneyOnStage(h) /\ h.interruption # NoInterruption
  BY <1>1, <1>3, Silent DEF ServerTyped, JourneyOnStage, Active, Heard, NoInterruption
<1>5. CASE d.phase = "playing" /\ Active(s)
  <2>1. d.module = s.journey.module /\ d.module \in Modules /\ d.module # NoModule
    BY <1>1, <1>5, StagedModule DEF JourneyOnStage, ModulePhases
  <2>2. e.phase = "pausing"
    BY <1>1 DEF BeginInterruption, Transition, DemoState
  <2>3. Sound(e) /\ ~Waiting(e) /\ e.module = d.module
    <3>1. e.module = d.module
      BY <1>1 DEF BeginInterruption, Transition, DemoState
    <3>2. QED
      BY <1>1, <1>5, <2>1, <2>2, <3>1, BeginInterruptionGood DEF MayBeginInterruption, Good, Waiting
  <2> HIDE DEF e
  <2>4. NothingFresh(k, u, q \o h.out)
    BY <1>3, <1>4, <1>5, Unoffered DEF TerminalPhases
  <2>5. Keeps(h.demo, e, k, u, q \o h.out)
    BY <2>2, <2>4 DEF Keeps, TerminalPhases
  <2>6. /\ Amid(p, k, u, q) /\ p.demo = e /\ p.journey = h.journey /\ p.issued = h.issued
        /\ p.interruption = Heard
    BY <1>3, <1>4, <2>2, <2>3, <2>5, Shown
  <2> HIDE DEF p
  <2>7. m \in DownMessages /\ Neutral(m)
    <3>1. JourneyOf[s.journey.module] \in Journeys
      BY <2>1, ProfileAssumption
    <3>2. QED
      BY <3>1 DEF PauseCommand, DownMessages, Pausing, Neutral, IsState, IsRun, IsStop
  <2> DEFINE w == Send(p, m)
  <2>8. p \in Server /\ Shape(p, k, u, q \o p.out) /\ Fine(p, k, u, q \o p.out)
    BY <2>6, AmidShape DEF Amid
  <2> HIDE DEF m
  <2>9. /\ w \in Server /\ w.demo = e /\ w.journey = h.journey /\ w.issued = p.issued
        /\ w.interruption = Heard /\ Grown(q \o p.out, q \o w.out, m)
    BY <1>1, <2>6, <2>7, <2>8, Sent
  <2> HIDE DEF w
  <2>10. Amid(w, k, u, q)
    <3>1. w.issued \in Nat /\ p.issued <= w.issued
      BY <2>9 DEF Server
    <3>2. Fine(w, k, u, q \o w.out)
      BY <2>6, <2>7, <2>8, <2>9, <3>1, OtherSent
    <3>3. ServerTyped(w)
      BY <1>4, <2>3, <2>9 DEF ServerTyped
    <3>4. QED
      BY <2>6, <3>2, <3>3 DEF Amid
  <2>11. JourneyOnStage(w)
    BY <1>3, <1>5, <2>1, <2>2, <2>3, <2>9 DEF JourneyOnStage, Active
  <2>12. w.interruption # NoInterruption /\ w.demo.phase = "pausing"
    BY <2>2, <2>9 DEF Heard, NoInterruption
  <2>13. AtRest(PlanInterruption(w, outcome, answered), k, u, q)
    BY <2>10, <2>11, <2>12, PlanAtRest
  <2>14. z = PlanInterruption(w, outcome, answered)
    BY <1>2, <1>5 DEF w
  <2>15. QED
    BY <2>13, <2>14 DEF z
<1>6. CASE d.phase = "awaiting_resume" /\ d.reason = "module_complete" /\ continues
  <2>1. z = Follow(s, Continue(d))
    BY <1>2, <1>6
  <2>2. MayControl(d, "continue")
    BY <1>1, <1>6, StagedModule DEF MayControl, ModulePhases
  <2>3. s.late = FALSE /\ s.observing = 0
    BY <1>1, <1>6 DEF AnswerDue, Server
  <2>4. AtRest(z, k, u, q)
    BY <1>1, <1>6, <2>1, <2>2, <2>3, Continued
  <2>5. QED
    BY <2>4 DEF z
<1>7. CASE /\ \/ d.phase \in {"pausing", "answering"}
              \/ d.phase = "awaiting_resume" /\ d.reason \in {"interruption", "module_complete"}
           /\ ~(d.phase = "awaiting_resume" /\ d.reason = "module_complete" /\ continues)
  <2>1. z = PlanInterruption(h, outcome, answered)
    BY <1>2, <1>7
  <2>2. /\ h.demo.phase \in {"pausing", "awaiting_resume", "answering"}
        /\ h.demo.phase # "pausing" => h.demo.reason # "failure"
    BY <1>1, <1>3, <1>7 DEF AnswerDue
  <2>3. AtRest(PlanInterruption(h, outcome, answered), k, u, q)
    BY <1>4, <2>2, PlanAtRest
  <2>4. QED
    BY <2>1, <2>3 DEF z
<1>8. CASE z = s
  BY <1>8 DEF z
<1>9. QED
  BY <1>2, <1>5, <1>6, <1>7, <1>8

(* The browser has paused its journey.                                     *)
LEMMA PausedHandled ==
  ASSUME NEW s, NEW k, NEW u, NEW q, AtRest(s, k, u, q), u # << >>, Head(u).kind = "paused",
         Head(u).cmd \in Nat \ {0}, Head(u).next \in Steps,
         NEW outcome \in Plans \union {NoInterruption}, NEW answered \in BOOLEAN
  PROVE  AtRest(HandlePaused(s, Head(u), outcome, answered), k, Tail(u), q)
<1> DEFINE m == Head(u)
           r == [s EXCEPT !.journey.paused = TRUE]
           c == [journey |-> JourneyOf[s.journey.module], next |-> m.next]
           e == CheckpointInterruption(s.demo, c).state
           at == Persist(r, e)
           z == HandlePaused(s, m, outcome, answered)
<1>1. /\ s \in Server /\ ServerTyped(s) /\ Amid(s, k, u, q) /\ JourneyOnStage(s) /\ AnswerDue(s)
      /\ Sound(s.demo) /\ s.demo \in DemoState
  BY AmidShape DEF AtRest, Amid, ServerTyped, Sound
<1>2. z = IF s.journey.cmd # m.cmd THEN s
          ELSE IF s.demo.phase = "playing" THEN at
          ELSE IF s.demo.phase = "pausing" THEN Settle(at, outcome, answered)
          ELSE r
  BY DEF HandlePaused
<1>3. IsOutcome(m) /\ ~IsPress(m) /\ m.kind # "interrupt"
  BY DEF IsOutcome, IsPress
<1> HIDE DEF z
<1>4. CASE s.journey.cmd # m.cmd
  <2>1. Amid(s, k, Tail(u), q)
    BY <1>1, <1>3, <1>4, Taken
  <2>2. AtRest(z, k, Tail(u), q)
    BY <1>1, <1>2, <1>4, <2>1 DEF AtRest
  <2>3. QED
    BY <2>2 DEF z
<1>5. CASE s.journey.cmd = m.cmd
  <2> DEFINE j == [s.journey EXCEPT !.paused = TRUE]
  <2>1. s.journey # NoJourney /\ s.journey.module \in Modules
    BY <1>1, <1>5 DEF NoJourney, ServerTyped
  <2>2. /\ j \in [cmd : Nat, module : Modules \union {NoModule}, paused : BOOLEAN]
        /\ j.cmd = s.journey.cmd /\ j.module = s.journey.module /\ j.paused = TRUE
    BY <1>1 DEF Server
  <2>3. r = [s EXCEPT !.journey = j]
    BY <1>1 DEF Server
  <2> HIDE DEF j, r
  <2>4. /\ r \in Server /\ r.demo = s.demo /\ r.journey = j /\ r.issued = s.issued /\ r.out = s.out
        /\ r.late = s.late /\ r.observing = s.observing /\ r.interruption = s.interruption
    BY <1>1, <2>2, <2>3 DEF Server
  <2>5. ServerTyped(r) /\ ~Active(r) /\ r.journey.cmd \in {0, s.journey.cmd}
    BY <1>1, <1>5, <2>1, <2>2, <2>4 DEF ServerTyped, Active
  <2>6. /\ Amid(r, k, Tail(u), q)
        /\ Active(s) => /\ NoStop(q \o r.out)
                        /\ \A a \in Forward : ~OfferedAny(k, Tail(u), q \o r.out, a)
                        /\ Holds(k, Tail(u), c)
    BY <1>1, <1>3, <1>5, <2>4, <2>5, OutcomeTaken
  <2>7. CASE s.demo.phase \notin {"playing", "pausing"}
    <3>1. JourneyOnStage(r) /\ AnswerDue(r)
      BY <1>1, <2>2, <2>4, <2>5, <2>7 DEF JourneyOnStage, AnswerDue, Planned
    <3>2. AtRest(z, k, Tail(u), q)
      BY <1>2, <1>5, <2>6, <2>7, <3>1 DEF AtRest
    <3>3. QED
      BY <3>2 DEF z
  <2>8. CASE s.demo.phase \in {"playing", "pausing"}
    <3>1. Active(s) /\ s.demo.module = s.journey.module
      BY <1>1, <2>1, <2>8 DEF JourneyOnStage, Active
    <3>2. c \in Checkpoints /\ c.journey = JourneyOf[s.demo.module]
      BY <2>1, <3>1, ProfileAssumption DEF Checkpoints
    <3> HIDE DEF c
    <3>3. e = [s.demo EXCEPT !.phase = "awaiting_resume", !.reason = "interruption",
                             !.checkpoint = c, !.finished = FALSE]
      BY DEF CheckpointInterruption, Transition
    <3>4. /\ e \in DemoState /\ e.phase = "awaiting_resume" /\ e.reason = "interruption"
          /\ e.checkpoint = c /\ e.finished = FALSE /\ e.module = s.demo.module
          /\ e.playlist = s.demo.playlist /\ e.index = s.demo.index
      <4> HIDE DEF e
      <4>1. QED
        BY <1>1, <3>2, <3>3 DEF DemoState, Phases, ResumeReasons
    <3> HIDE DEF e
    <3>5. VerifiedInterruption(e)
      BY <3>2, <3>4, AbsenceAssumption DEF VerifiedInterruption
    <3>6. Sound(e)
      <4>1. WaitsForCause(e) /\ CheckpointFits(e) /\ FinishedFits(e)
        BY <3>2, <3>4, <3>5 DEF WaitsForCause, AnswerablePosition, CheckpointFits, FinishedFits
      <4>2. Good(Transition(e, NoOrder))
        BY <1>1, <2>8, <3>4, <4>1, HeldGood DEF ModulePhases
      <4>3. QED
        BY <4>2, TransitionFields DEF Good
    <3>7. NothingFresh(k, Tail(u), q \o r.out)
      BY <2>4, <2>6, <2>8, Unoffered DEF TerminalPhases
    <3>8. Keeps(r.demo, e, k, Tail(u), q \o r.out)
      BY <2>6, <3>1, <3>4, <3>7 DEF Keeps, TerminalPhases, Forward
    <3>9. Waiting(e) => NoStop(q \o r.out) /\ Holds(k, Tail(u), e.checkpoint)
      BY <2>6, <3>1, <3>4
    <3>10. /\ Amid(at, k, Tail(u), q) /\ at.demo = e /\ at.journey = r.journey
           /\ at.late = r.late /\ at.observing = r.observing
      BY <2>5, <2>6, <3>6, <3>8, <3>9, Shown
    <3> HIDE DEF at
    <3>11. JourneyOnStage(at) /\ AnswerDue(at)
      BY <1>1, <2>2, <2>4, <2>8, <3>4, <3>10 DEF JourneyOnStage, AnswerDue, Active
    <3>12. AtRest(at, k, Tail(u), q)
      BY <3>10, <3>11 DEF AtRest
    <3>13. AtRest(Settle(at, outcome, answered), k, Tail(u), q)
      BY <3>4, <3>5, <3>10, <3>12, SettledAtRest
    <3>14. AtRest(z, k, Tail(u), q)
      BY <1>2, <1>5, <2>8, <3>12, <3>13
    <3>15. QED
      BY <3>14 DEF z
  <2>9. QED
    BY <2>7, <2>8
<1>6. QED
  BY <1>4, <1>5

(* The browser has ended its journey.                                      *)
LEMMA ResultHandled ==
  ASSUME NEW s, NEW k, NEW u, NEW q, AtRest(s, k, u, q), u # << >>, Head(u).kind = "journey_result",
         Head(u).cmd \in Nat \ {0}, Head(u).ok \in BOOLEAN,
         NEW outcome \in Plans \union {NoInterruption}, NEW answered \in BOOLEAN
  PROVE  AtRest(HandleResult(s, Head(u), outcome, answered), k, Tail(u), q)
<1> DEFINE m == Head(u)
           r == [s EXCEPT !.journey = NoJourney]
           e == CompleteModuleDuringInterruption(s.demo).state
           at == Persist(r, e)
           z == HandleResult(s, m, outcome, answered)
<1>1. /\ s \in Server /\ ServerTyped(s) /\ Amid(s, k, u, q) /\ JourneyOnStage(s) /\ AnswerDue(s)
      /\ Sound(s.demo) /\ s.demo \in DemoState
  BY AmidShape DEF AtRest, Amid, ServerTyped, Sound
<1>2. z = IF s.journey.cmd # m.cmd THEN s
          ELSE IF m.ok /\ s.demo.phase = "pausing" /\ s.interruption # NoInterruption
          THEN Settle(at, outcome, answered)
          ELSE IF MayTakeResult(s.demo) THEN Follow(r, JourneyResult(s.demo, m.ok))
          ELSE r
  BY DEF HandleResult
<1>3. IsOutcome(m) /\ ~IsPress(m) /\ m.kind # "interrupt" /\ m.kind # "paused"
  BY DEF IsOutcome, IsPress
<1> HIDE DEF z
<1>4. CASE s.journey.cmd # m.cmd
  <2>1. Amid(s, k, Tail(u), q)
    BY <1>1, <1>3, <1>4, Taken
  <2>2. AtRest(z, k, Tail(u), q)
    BY <1>1, <1>2, <1>4, <2>1 DEF AtRest
  <2>3. QED
    BY <2>2 DEF z
<1>5. CASE s.journey.cmd = m.cmd
  <2>1. s.journey # NoJourney /\ s.journey.module \in Modules
    BY <1>1, <1>5 DEF NoJourney, ServerTyped
  <2>2. /\ r \in Server /\ r.demo = s.demo /\ r.journey = NoJourney /\ r.issued = s.issued
        /\ r.out = s.out /\ r.late = s.late /\ r.observing = s.observing
        /\ r.interruption = s.interruption
    BY <1>1 DEF Server, NoJourney
  <2> HIDE DEF r
  <2>3. ServerTyped(r) /\ ~Active(r) /\ r.journey.cmd \in {0, s.journey.cmd}
    BY <1>1, <2>2 DEF ServerTyped, Active, NoJourney
  <2>4. /\ Amid(r, k, Tail(u), q)
        /\ Active(s) => /\ NoStop(q \o r.out)
                        /\ \A a \in Forward : ~OfferedAny(k, Tail(u), q \o r.out, a)
    BY <1>1, <1>3, <1>5, <2>2, <2>3, OutcomeTaken
  <2>5. JourneyOnStage(r) /\ AnswerDue(r)
    BY <1>1, <2>2, <2>3 DEF JourneyOnStage, AnswerDue, Planned, NoJourney
  <2>6. s.demo.phase \in {"playing", "pausing"} => Active(s)
    BY <1>1, <2>1 DEF JourneyOnStage, Active
  <2>7. (r.late = FALSE /\ r.observing = 0) \/ s.demo.phase \notin {"playing", "pausing"}
    BY <1>1, <2>2 DEF AnswerDue, Server
  <2>8. s.demo.phase \in {"playing", "pausing"} => NothingFresh(k, Tail(u), q \o r.out)
    BY <2>2, <2>4, Unoffered DEF TerminalPhases
  <2>9. CASE m.ok /\ s.demo.phase = "pausing" /\ s.interruption # NoInterruption
    <3>1. JourneyOf[s.demo.module] \in Journeys /\ MaySettleInterruption(s.demo, JourneyOf[s.demo.module])
      <4>1. s.demo.module \in Modules /\ s.demo.module # NoModule
        BY <1>1, <2>9, StagedModule DEF ModulePhases
      <4>2. QED
        BY <2>9, <4>1, ProfileAssumption DEF MaySettleInterruption, PlaysJourney
    <3>2. Sound(e)
      BY <1>1, <3>1, CompleteModuleGood DEF Good
    <3>3. e = [s.demo EXCEPT !.phase = "awaiting_resume", !.reason = "interruption",
                             !.checkpoint = NoCheckpoint, !.finished = TRUE]
      BY DEF CompleteModuleDuringInterruption, Transition
    <3> HIDE DEF e
    <3>4. /\ e.phase = "awaiting_resume" /\ e.reason = "interruption"
          /\ e.checkpoint = NoCheckpoint /\ e.finished = TRUE
      BY <1>1, <3>3 DEF DemoState
    <3>5. VerifiedInterruption(e) /\ ~Waiting(e)
      BY <3>4 DEF VerifiedInterruption, Waiting
    <3>6. Keeps(r.demo, e, k, Tail(u), q \o r.out)
      BY <2>4, <2>6, <2>8, <2>9, <3>4 DEF Keeps, TerminalPhases, Forward
    <3>7. /\ Amid(at, k, Tail(u), q) /\ at.demo = e /\ at.journey = r.journey
          /\ at.late = r.late /\ at.observing = r.observing
      BY <2>3, <2>4, <3>2, <3>5, <3>6, Shown
    <3> HIDE DEF at
    <3>8. JourneyOnStage(at) /\ AnswerDue(at)
      BY <2>2, <2>7, <2>9, <3>4, <3>7 DEF JourneyOnStage, AnswerDue, Active, NoJourney
    <3>9. AtRest(at, k, Tail(u), q)
      BY <3>7, <3>8 DEF AtRest
    <3>10. AtRest(Settle(at, outcome, answered), k, Tail(u), q)
      BY <3>4, <3>5, <3>7, <3>9, SettledAtRest
    <3>11. AtRest(z, k, Tail(u), q)
      BY <1>2, <1>5, <2>9, <3>10
    <3>12. QED
      BY <3>11 DEF z
  <2>10. CASE /\ ~(m.ok /\ s.demo.phase = "pausing" /\ s.interruption # NoInterruption)
              /\ MayTakeResult(s.demo)
    <3> DEFINE t == JourneyResult(s.demo, m.ok)
    <3>1. s.demo.phase = "playing"
      BY <2>10 DEF MayTakeResult
    <3>2. Leads(t) /\ t.order.kind # "resume"
      BY <1>1, <2>10, ResultLeads
    <3>3. t.state.phase \in {"playing", "closing", "awaiting_resume", "intake"}
      BY <3>2 DEF Leads
    <3> HIDE DEF t
    <3>4. Keeps(r.demo, t.state, k, Tail(u), q \o r.out)
      BY <2>4, <2>6, <2>8, <3>1, <3>3 DEF Keeps, TerminalPhases, Forward
    <3>5. AtRest(Follow(r, t), k, Tail(u), q)
      BY <2>3, <2>4, <2>7, <3>1, <3>2, <3>4, Followed
    <3>6. AtRest(z, k, Tail(u), q)
      BY <1>2, <1>5, <2>10, <3>5 DEF t
    <3>7. QED
      BY <3>6 DEF z
  <2>11. CASE z = r
    <3>1. AtRest(z, k, Tail(u), q)
      BY <2>4, <2>5, <2>11 DEF AtRest
    <3>2. QED
      BY <3>1 DEF z
  <2>12. QED
    BY <1>2, <1>5, <2>9, <2>10, <2>11
<1>6. QED
  BY <1>4, <1>5

(* The fresh view of the page has come.                                    *)
LEMMA ObservationHandled ==
  ASSUME NEW s, NEW k, NEW u, NEW q, AtRest(s, k, u, q), NEW m, NEW answered \in BOOLEAN
  PROVE  AtRest(HandleObservation(s, m, answered), k, u, q)
<1> DEFINE r == [s EXCEPT !.observing = 0]
<1>1. /\ s \in Server /\ ServerTyped(s) /\ Amid(s, k, u, q) /\ JourneyOnStage(s) /\ AnswerDue(s)
  BY AmidShape DEF AtRest, Amid
<1>2. CASE s.observing = 0 \/ s.observing # m.cmd
  BY <1>2 DEF HandleObservation
<1>3. CASE ~(s.observing = 0 \/ s.observing # m.cmd)
  <2>1. HandleObservation(s, m, answered) = IF answered THEN ApplyDirective(r, s.interruption) ELSE r
    BY <1>3 DEF HandleObservation
  <2>2. /\ r \in Server /\ r.demo = s.demo /\ r.journey = s.journey /\ r.issued = s.issued
        /\ r.out = s.out /\ r.late = s.late /\ r.observing = 0 /\ r.interruption = s.interruption
    BY <1>1 DEF Server
  <2> HIDE DEF r
  <2>3. /\ s.late = FALSE /\ s.demo.phase = "answering" /\ s.demo.reason # "failure"
        /\ s.interruption \in Plans
    BY <1>1, <1>3 DEF AnswerDue, Server, Planned, Directives, NoInterruption, Heard
  <2>4. ServerTyped(r)
    BY <1>1, <2>2 DEF ServerTyped
  <2>5. Amid(r, k, u, q)
    BY <1>1, <2>2, <2>4, Silent
  <2>6. JourneyOnStage(r) /\ AnswerDue(r)
    BY <1>1, <2>2, <2>3 DEF JourneyOnStage, AnswerDue, Active, Planned
  <2>7. AtRest(ApplyDirective(r, s.interruption), k, u, q)
    BY <2>2, <2>3, <2>5, <2>6, PlanFacts, Applied
  <2>8. QED
    BY <2>1, <2>5, <2>6, <2>7 DEF AtRest
<1>4. QED
  BY <1>2, <1>3

-----------------------------------------------------------------------------
(* The timers of the server.                                               *)
Closed(s) ==
  LET r == [s EXCEPT !.timer = FALSE]
  IN  IF MayCompleteClosing(s.demo) THEN Persist(r, CompleteClosing(s.demo).state) ELSE r

(* The closing timer finds a demo that closes, or does nothing.            *)
LEMMA ClosingFired ==
  ASSUME NEW s, NEW k, NEW u, NEW q, AtRest(s, k, u, q)
  PROVE  AtRest(Closed(s), k, u, q)
<1> DEFINE r == [s EXCEPT !.timer = FALSE]
           e == CompleteClosing(s.demo).state
           z == Persist(r, e)
<1>1. /\ s \in Server /\ ServerTyped(s) /\ Amid(s, k, u, q) /\ JourneyOnStage(s) /\ AnswerDue(s)
      /\ Sound(s.demo) /\ s.demo \in DemoState
  BY AmidShape DEF AtRest, Amid, ServerTyped, Sound
<1>2. /\ r \in Server /\ r.demo = s.demo /\ r.journey = s.journey /\ r.issued = s.issued
      /\ r.out = s.out /\ r.late = s.late /\ r.observing = s.observing
      /\ r.interruption = s.interruption
  BY <1>1 DEF Server
<1>3. Closed(s) = IF MayCompleteClosing(s.demo) THEN z ELSE r
  BY DEF Closed
<1> HIDE DEF r
<1>4. ServerTyped(r)
  BY <1>1, <1>2 DEF ServerTyped
<1>5. Amid(r, k, u, q)
  BY <1>1, <1>2, <1>4, Silent
<1>6. JourneyOnStage(r) /\ AnswerDue(r)
  BY <1>1, <1>2 DEF JourneyOnStage, AnswerDue, Active, Planned
<1>7. CASE MayCompleteClosing(s.demo)
  <2>1. s.demo.phase = "closing" /\ Sound(e)
    BY <1>1, <1>7, CompleteClosingGood DEF MayCompleteClosing, Good
  <2>2. e.phase = "completed"
    BY <1>1 DEF CompleteClosing, Transition, DemoState
  <2> HIDE DEF e
  <2>3. ~Waiting(e) /\ e.phase # "awaiting_resume"
    BY <2>2 DEF Waiting
  <2>4. Keeps(r.demo, e, k, u, q \o r.out)
    BY <1>2, <2>1, <2>2 DEF Keeps, TerminalPhases
  <2>5. /\ Amid(z, k, u, q) /\ z.demo = e /\ z.journey = r.journey
        /\ z.late = r.late /\ z.observing = r.observing
    BY <1>5, <2>1, <2>3, <2>4, Shown
  <2> HIDE DEF z
  <2>6. JourneyOnStage(z) /\ AnswerDue(z)
    BY <1>2, <1>6, <2>1, <2>2, <2>5 DEF JourneyOnStage, AnswerDue, Active
  <2>7. QED
    BY <1>3, <1>7, <2>5, <2>6 DEF AtRest
<1>8. CASE ~MayCompleteClosing(s.demo)
  BY <1>3, <1>5, <1>6, <1>8 DEF AtRest
<1>9. QED
  BY <1>7, <1>8

(* An observation that is late leaves its answer due.                      *)
LEMMA TimedOut ==
  ASSUME NEW s, NEW k, NEW u, NEW q, AtRest(s, k, u, q), s.observing # 0
  PROVE  AtRest([s EXCEPT !.observing = 0, !.late = TRUE], k, u, q)
<1> DEFINE r == [s EXCEPT !.observing = 0, !.late = TRUE]
<1>1. /\ s \in Server /\ ServerTyped(s) /\ Amid(s, k, u, q) /\ JourneyOnStage(s) /\ AnswerDue(s)
  BY AmidShape DEF AtRest, Amid
<1>2. /\ r \in Server /\ r.demo = s.demo /\ r.journey = s.journey /\ r.issued = s.issued
      /\ r.out = s.out /\ r.late = TRUE /\ r.observing = 0 /\ r.interruption = s.interruption
  BY <1>1 DEF Server
<1> HIDE DEF r
<1>3. ServerTyped(r)
  BY <1>1, <1>2 DEF ServerTyped
<1>4. Amid(r, k, u, q)
  BY <1>1, <1>2, <1>3, Silent
<1>5. JourneyOnStage(r) /\ AnswerDue(r)
  BY <1>1, <1>2 DEF JourneyOnStage, AnswerDue, Active, Planned
<1>6. QED
  BY <1>4, <1>5 DEF AtRest, r

(* The late answer leaves the demo held.                                   *)
LEMMA LateAnswered ==
  ASSUME NEW s, NEW k, NEW u, NEW q, AtRest(s, k, u, q), s.late
  PROVE  AtRest(ApplyDirective([s EXCEPT !.late = FALSE],
                               [s.interruption EXCEPT !.directive = "remain_paused"]), k, u, q)
<1> DEFINE r == [s EXCEPT !.late = FALSE]
           plan == [s.interruption EXCEPT !.directive = "remain_paused"]
<1>1. /\ s \in Server /\ ServerTyped(s) /\ Amid(s, k, u, q) /\ JourneyOnStage(s) /\ AnswerDue(s)
  BY AmidShape DEF AtRest, Amid
<1>2. /\ r \in Server /\ r.demo = s.demo /\ r.journey = s.journey /\ r.issued = s.issued
      /\ r.out = s.out /\ r.late = FALSE /\ r.observing = s.observing
      /\ r.interruption = s.interruption
  BY <1>1 DEF Server
<1> HIDE DEF r
<1>3. s.observing = 0 /\ s.demo.phase = "answering" /\ s.demo.reason # "failure"
  BY <1>1 DEF AnswerDue
<1>4. s.interruption \in Plans
  BY <1>1 DEF AnswerDue, Server, Planned, Directives, NoInterruption, Heard
<1>5. plan.directive = "remain_paused"
  BY <1>4 DEF Plans
<1> HIDE DEF plan
<1>6. plan.directive \in Directives /\ plan.directive # "replace_module"
  BY <1>5 DEF Directives
<1>7. ServerTyped(r)
  BY <1>1, <1>2 DEF ServerTyped
<1>8. Amid(r, k, u, q) /\ JourneyOnStage(r)
  BY <1>1, <1>2, <1>7, Silent DEF JourneyOnStage, Active
<1>9. AtRest(ApplyDirective(r, plan), k, u, q)
  BY <1>2, <1>3, <1>6, <1>8, Applied
<1>10. QED
  BY <1>9 DEF r, plan

-----------------------------------------------------------------------------
(* Between two handlers.                                                   *)
LEMMA Resting == IInv <=> AtRest(srv, sdk, up, down) /\ srv.out = << >>
<1>1. ASSUME down \in Seq(DownMessages) PROVE down \o << >> = down
  BY <1>1
<1>2. QED
  BY <1>1 DEF IInv, AtRest, Amid

(* What the handler has sent goes onto the socket.                         *)
LEMMA Replied ==
  ASSUME NEW s, NEW k, NEW u, NEW q, AtRest(s, k, u, q)
  PROVE  LET t == [s EXCEPT !.out = << >>]
         IN  AtRest(t, k, u, q \o s.out) /\ t.out = << >>
<1> DEFINE t == [s EXCEPT !.out = << >>]
           p == q \o s.out
<1>1. /\ s \in Server /\ p \in Seq(DownMessages) /\ ServerTyped(s)
      /\ Fine(s, k, u, p) /\ JourneyOnStage(s) /\ AnswerDue(s)
  BY AmidShape DEF AtRest, Amid
<1>2. /\ t \in Server /\ t.demo = s.demo /\ t.journey = s.journey /\ t.issued = s.issued
      /\ t.out = << >> /\ t.late = s.late /\ t.observing = s.observing
      /\ t.interruption = s.interruption
  <2> DEFINE none == << >>
  <2>1. none \in Seq(DownMessages)
    OBVIOUS
  <2>2. t = [s EXCEPT !.out = none]
    OBVIOUS
  <2> HIDE DEF none, t
  <2>3. /\ t \in Server /\ t.demo = s.demo /\ t.journey = s.journey /\ t.issued = s.issued
        /\ t.out = none /\ t.late = s.late /\ t.observing = s.observing
        /\ t.interruption = s.interruption
    BY <1>1, <2>1, <2>2 DEF Server
  <2>4. QED
    BY <2>3 DEF none
<1> HIDE DEF p
<1>3. p \o << >> = p
  BY <1>1
<1> HIDE DEF t
<1>4. OffersCurrent(t.demo, k, u, p) /\ WaitsExactly(t, k, u, p)
  BY <1>1, <1>2 DEF Fine, WaitsExactly
<1>5. Fine(t, k, u, p)
  BY <1>1, <1>2, <1>4, DemoChanged
<1>6. ServerTyped(t) /\ JourneyOnStage(t) /\ AnswerDue(t)
  BY <1>1, <1>2 DEF ServerTyped, JourneyOnStage, AnswerDue, Active, Planned
<1>7. AtRest(t, k, u, p) /\ t.out = << >>
  BY <1>1, <1>2, <1>3, <1>5, <1>6 DEF AtRest, Amid
<1>8. QED
  BY <1>7 DEF t, p

-----------------------------------------------------------------------------
(* What the browser does to the messages, one change at a time.            *)

(* It takes back what it offers, and its journey moves on within its run.  *)
LEMMA Withdrawn ==
  ASSUME NEW s, NEW k, NEW l, NEW u, NEW q, Fine(s, k, u, q),
         l.run.cmd = k.run.cmd, l.run.journey = k.run.journey,
         l.run = NoRun <=> k.run = NoRun,
         l.staged = k.staged, l.paused = k.paused, l.module = k.module,
         l.buttons \subseteq k.buttons \union {"stop"}
  PROVE  Fine(s, l, u, q)
<1>1. \A a \in Forward \union {"start"} \union Fresh : a \in l.buttons => a \in k.buttons
  BY DEF Forward, Fresh
<1>2. Moves(l.buttons) => Moves(k.buttons)
  BY <1>1 DEF Moves
<1>3. Commands(s, l, u, q)
  BY DEF Fine, Commands, IdsIssued, OrdersAreNew, OneOutcome, Answered, RunFollowed,
         OrdersApart, Awaited
<1>4. WaitsExactly(s, l, u, q) /\ ResumesExactly(s, l, u, q) /\ ReportsExactly(s, l, u)
  BY DEF Fine, WaitsExactly, ResumesExactly, ReportsExactly, Holds
<1>5. OffersCurrent(s.demo, l, u, q)
  BY <1>1 DEF Fine, OffersCurrent, Offered
<1>6. Panel(s, l, u, q)
  BY <1>1, <1>2 DEF Fine, Panel, OfferedOnce, ShownBefore, OrdersAnnounced
<1>7. QED
  BY <1>3, <1>4, <1>5, <1>6 DEF Fine

(* A message that is neither an outcome nor a button but stop goes up.     *)
LEMMA PlainSaid ==
  ASSUME NEW s, NEW k, NEW u, NEW v, NEW q, NEW m, Shape(s, k, u, q), Fine(s, k, u, q),
         Grown(u, v, m), ~IsOutcome(m), IsPress(m) => m.action = "stop"
  PROVE  Fine(s, k, v, q)
<1>1. Len(u) \in Nat
  BY DEF Shape
<1>2. /\ \A i \in 1..Len(u) : v[i] = u[i] /\ i \in 1..Len(v)
      /\ \A i \in 1..Len(v) : i \in 1..Len(u) \/ v[i] = m
      /\ Len(v) \in Nat
  BY <1>1, GrownKeeps
<1>3. ~MovingPress(m) /\ m.kind # "paused" /\ \A a \in Forward \union {"start"} \union Fresh : ~Presses(m, a)
  BY Kinds DEF MovingPress, Presses, Forward, Fresh
<1>4. StopInUp(u) => StopInUp(v)
  BY <1>2 DEF StopInUp
<1>5. Commands(s, k, v, q)
  <2>1. IdsIssued(s, k, v, q) /\ OrdersAreNew(k, v, q) /\ OneOutcome(k, v)
    BY <1>2 DEF Fine, Commands, IdsIssued, OrdersAreNew, OneOutcome
  <2>2. Answered(s, k, v, q)
    BY <1>2 DEF Fine, Commands, Answered, OutcomeSent
  <2>3. QED
    BY <2>1, <2>2 DEF Fine, Commands
<1>6. WaitsExactly(s, k, v, q)
  BY <1>4 DEF Fine, WaitsExactly, Holds
<1>7. ResumesExactly(s, k, v, q)
  BY <1>4 DEF Fine, ResumesExactly, Holds
<1>8. ReportsExactly(s, k, v)
  BY <1>2, <1>3, <1>4 DEF Fine, ReportsExactly, Holds
<1>9. OffersCurrent(s.demo, k, v, q)
  <2>1. \A a \in Forward \union {"start"} : \A x : Offered(k, v, q, a, x) => Offered(k, u, q, a, x)
    BY <1>2, <1>3 DEF Offered
  <2>2. QED
    BY <2>1 DEF Fine, OffersCurrent
<1>10. Panel(s, k, v, q)
  <2>1. OfferedOnce(k, v, q)
    BY <1>2, <1>3 DEF Fine, Panel, OfferedOnce
  <2>2. PressedBefore(s, v)
    BY <1>2, <1>3 DEF Fine, Panel, PressedBefore
  <2>3. QED
    BY <2>1, <2>2 DEF Fine, Panel
<1>11. QED
  BY <1>5, <1>6, <1>7, <1>8, <1>9, <1>10 DEF Fine

(* A button other than stop is pressed: the panel offers nothing more.     *)
LEMMA ButtonPressed ==
  ASSUME NEW s, NEW k, NEW l, NEW u, NEW v, NEW q, NEW m, Shape(s, k, u, q), Fine(s, k, u, q),
         Grown(u, v, m), IsPress(m), m.action \in k.buttons, m.action # "stop", m.seen = k.module,
         l.run = k.run, l.staged = k.staged, l.paused = k.paused, l.module = k.module,
         l.buttons = {}
  PROVE  Fine(s, l, v, q)
<1>1. Len(u) \in Nat /\ Len(q) \in Nat
  BY DEF Shape
<1>2. /\ \A i \in 1..Len(u) : v[i] = u[i] /\ i \in 1..Len(v)
      /\ \A i \in 1..Len(v) : i \in 1..Len(u) \/ (i = Len(v) /\ v[i] = m)
      /\ Len(v) \in Nat /\ Len(v) = Len(u) + 1
  BY <1>1, GrownKeeps
<1>3. ~IsOutcome(m) /\ m.kind # "paused" /\ ~Moves(l.buttons)
  BY Kinds DEF Moves
<1>4. StopInUp(u) => StopInUp(v)
  BY <1>2 DEF StopInUp
<1>5. Commands(s, l, v, q)
  <2>a. \A i \in 1..Len(v) : IsOutcome(v[i]) => i \in 1..Len(u) /\ v[i] = u[i]
    BY <1>2, <1>3
  <2>b. IdsIssued(s, k, u, q) /\ OrdersAreNew(k, u, q) /\ OneOutcome(k, u)
    BY DEF Fine, Commands
  <2>c. IdsIssued(s, l, v, q)
    BY <2>a, <2>b DEF IdsIssued
  <2>d. OrdersAreNew(l, v, q)
    BY <2>a, <2>b DEF OrdersAreNew
  <2>e. OneOutcome(l, v)
    BY <2>a, <2>b DEF OneOutcome
  <2>1. IdsIssued(s, l, v, q) /\ OrdersAreNew(l, v, q) /\ OneOutcome(l, v)
    BY <2>c, <2>d, <2>e
  <2>2. Answered(s, l, v, q)
    BY <1>2 DEF Fine, Commands, Answered, OutcomeSent
  <2>3. QED
    BY <2>1, <2>2 DEF Fine, Commands, RunFollowed, OrdersApart
<1>6. WaitsExactly(s, l, v, q)
  BY <1>4 DEF Fine, WaitsExactly, Holds
<1>7. ResumesExactly(s, l, v, q)
  BY <1>4 DEF Fine, ResumesExactly, Holds
<1>8. ReportsExactly(s, l, v)
  BY <1>2, <1>3, <1>4 DEF Fine, ReportsExactly, Holds
<1>9. OffersCurrent(s.demo, l, v, q)
  <2>1. \A a, x : Offered(l, v, q, a, x) => Offered(k, u, q, a, x)
    BY <1>2 DEF Offered, Presses
  <2>2. QED
    BY <2>1 DEF Fine, OffersCurrent
<1>10. Panel(s, l, v, q)
  <2>1. OfferedOnce(k, u, q)
    BY DEF Fine, Panel
  <2>2. OfferedOnce(l, v, q)
    <3>1. ASSUME NEW i \in 1..Len(v), NEW a \in Fresh, NEW b \in Fresh, Presses(v[i], a), b \in After(a)
          PROVE  /\ \A j \in 1..Len(v) : i < j => ~Presses(v[j], b)
                 /\ \A j \in 1..Len(q) : ~Shows(q[j], b)
      <4>1. CASE i \in 1..Len(u)
        <5>1. /\ \A j \in 1..Len(u) : i < j => ~Presses(u[j], b)
              /\ b \notin k.buttons /\ \A j \in 1..Len(q) : ~Shows(q[j], b)
          BY <1>2, <2>1, <3>1, <4>1 DEF OfferedOnce
        <5>2. QED
          BY <1>2, <5>1 DEF Presses
      <4>2. CASE i = Len(v) /\ v[i] = m
        <5>1. a \in k.buttons
          BY <3>1, <4>2 DEF Presses
        <5>2. \A j \in 1..Len(q) : ~Shows(q[j], b)
          BY <2>1, <3>1, <5>1 DEF OfferedOnce
        <5>3. QED
          BY <1>2, <4>2, <5>2
      <4>3. QED
        BY <1>2, <4>1, <4>2
    <3>2. \A i \in 1..Len(q), a \in Fresh, b \in Fresh : Shows(q[i], a) /\ b \in After(a) =>
            \A j \in 1..Len(q) : i < j => ~Shows(q[j], b)
      BY <2>1 DEF OfferedOnce
    <3>3. QED
      BY <3>1, <3>2 DEF OfferedOnce
  <2>3. ShownBefore(s, l, q)
    BY <1>3 DEF Fine, Panel, ShownBefore
  <2>4. PressedBefore(s, v)
    <3>1. SUFFICES ASSUME Active(s), NEW i \in 1..Len(v), NEW j \in 1..Len(v),
                          MovingPress(v[i]), IsOutcome(v[j]), v[j].cmd = s.journey.cmd
                   PROVE  i < j
      BY DEF PressedBefore
    <3>2. j \in 1..Len(u) /\ v[j] = u[j]
      BY <1>2, <1>3, <3>1
    <3>3. CASE i \in 1..Len(u)
      BY <1>2, <3>1, <3>2, <3>3 DEF Fine, Panel, PressedBefore
    <3>4. CASE i = Len(v) /\ v[i] = m
      <4>1. Moves(k.buttons)
        BY <3>1, <3>4 DEF MovingPress, Moves
      <4>2. OrderAfter(q, 0, s.journey.cmd)
        BY <3>1, <4>1 DEF Fine, Panel, ShownBefore
      <4>3. PICK o \in 1..Len(q) : IsRun(q[o]) /\ q[o].cmd = s.journey.cmd
        BY <4>2 DEF OrderAfter
      <4>4. u[j].cmd < q[o].cmd
        BY <3>1, <3>2, <4>3 DEF Fine, Commands, OrdersAreNew
      <4>5. QED
        BY <3>1, <3>2, <4>3, <4>4 DEF Shape
    <3>5. QED
      BY <1>2, <3>3, <3>4
  <2>5. OrdersAnnounced(l, q)
    BY <1>3 DEF Fine, Panel, OrdersAnnounced
  <2>6. QED
    BY <2>2, <2>3, <2>4, <2>5 DEF Panel
<1>11. QED
  BY <1>5, <1>6, <1>7, <1>8, <1>9, <1>10 DEF Fine

(* The server waits for the journey that runs, or a stop follows; and no   *)
(* outcome of the awaited journey is sent while its order is on the way.   *)
LEMMA RunOrStop ==
  ASSUME NEW s, NEW k, NEW u, NEW q, Shape(s, k, u, q), Fine(s, k, u, q)
  PROVE  /\ k.run # NoRun => Awaited(s, k.run) \/ ~NoStop(q)
         /\ Active(s) /\ ~NoStop(q) => OrderAfter(q, 0, s.journey.cmd)
         /\ OrderAfter(q, 0, s.journey.cmd) =>
              /\ k.run.cmd < s.journey.cmd /\ k.staged.cmd < s.journey.cmd
              /\ ~OutcomeSent(u, s.journey.cmd)
<1>1. Len(u) \in Nat /\ Len(q) \in Nat
  BY DEF Shape
<1>2. k.run # NoRun => Awaited(s, k.run) \/ ~NoStop(q)
  BY DEF Fine, Commands, RunFollowed, StopAfter, NoStop
<1>3. Active(s) /\ ~NoStop(q) => OrderAfter(q, 0, s.journey.cmd)
  <2>1. SUFFICES ASSUME Active(s), NEW j \in 1..Len(q), IsStop(q[j])
                 PROVE  OrderAfter(q, 0, s.journey.cmd)
    BY DEF NoStop
  <2>2. OrderAfter(q, j, s.journey.cmd)
    BY <2>1 DEF Fine, Commands, StopsBefore
  <2>3. QED
    BY <1>1, <2>1, <2>2 DEF OrderAfter
<1>4. ASSUME OrderAfter(q, 0, s.journey.cmd)
      PROVE  /\ k.run.cmd < s.journey.cmd /\ k.staged.cmd < s.journey.cmd
             /\ ~OutcomeSent(u, s.journey.cmd)
  <2>1. PICK o \in 1..Len(q) : IsRun(q[o]) /\ q[o].cmd = s.journey.cmd
    BY <1>4 DEF OrderAfter
  <2>2. /\ k.run.cmd < s.journey.cmd /\ k.staged.cmd < s.journey.cmd
        /\ \A j \in 1..Len(u) : IsOutcome(u[j]) => u[j].cmd < s.journey.cmd
    BY <2>1 DEF Fine, Commands, OrdersAreNew
  <2>3. \A j \in 1..Len(u) : IsOutcome(u[j]) => u[j].cmd # s.journey.cmd
    BY <2>2, UpFields DEF Shape
  <2>4. QED
    BY <2>2, <2>3 DEF OutcomeSent
<1>5. QED
  BY <1>2, <1>3, <1>4

(* The outcome of a journey that ran, or was being announced, goes up.     *)
LEMMA Reported ==
  ASSUME NEW s, NEW k, NEW l, NEW u, NEW v, NEW q, NEW m \in UpMessages,
         Shape(s, k, u, q), Fine(s, k, u, q), Grown(u, v, m), IsOutcome(m),
         \/ k.run # NoRun /\ m.cmd = k.run.cmd /\ l.run = NoRun /\ l.staged = k.staged
         \/ k.staged.cmd # 0 /\ m.cmd = k.staged.cmd /\ l.staged = NoResult /\ l.run = k.run,
         m.kind = "paused" =>
           /\ k.run # NoRun /\ m.cmd = k.run.cmd
           /\ k.paused = [journey |-> k.run.journey, next |-> m.next],
         k.run # NoRun => k.run.cmd # 0,
         l.paused = k.paused, l.module = k.module, l.buttons = k.buttons
  PROVE  Fine(s, l, v, q)
<1>1. Len(u) \in Nat /\ Len(q) \in Nat
  BY DEF Shape
<1>2. /\ \A i \in 1..Len(u) : v[i] = u[i] /\ i \in 1..Len(v)
      /\ \A i \in 1..Len(v) : i \in 1..Len(u) \/ (i = Len(v) /\ v[i] = m)
      /\ Len(v) \in 1..Len(v) /\ v[Len(v)] = m /\ Len(v) = Len(u) + 1
  BY <1>1, GrownKeeps
<1>3. /\ m.cmd \in Nat \ {0} /\ ~IsPress(m) /\ m.kind # "interrupt"
      /\ \A i \in 1..Len(u) : IsOutcome(u[i]) => u[i].cmd \in Nat \ {0}
      /\ \A i \in 1..Len(q) : IsRun(q[i]) => q[i].cmd \in Nat \ {0}
  BY UpFields, DownFields, Kinds DEF Shape
<1>4. /\ l.run = NoRun \/ l.run = k.run
      /\ l.run.cmd \in {0, k.run.cmd} /\ l.staged.cmd \in {0, k.staged.cmd}
      /\ l.run = NoRun => l.run.cmd = 0
  BY DEF NoRun, NoResult
<1>5. StopInUp(u) => StopInUp(v)
  BY <1>2 DEF StopInUp
<1>6. m.cmd <= s.issued /\ k.run.cmd <= s.issued /\ k.staged.cmd <= s.issued
  BY DEF Fine, Commands, IdsIssued
<1>7. \A i \in 1..Len(u) : IsOutcome(u[i]) => u[i].cmd # k.run.cmd /\ u[i].cmd # k.staged.cmd
  BY DEF Fine, Commands, OneOutcome
<1>8. Commands(s, l, v, q)
  <2>1. IdsIssued(s, l, v, q)
    <3>1. l.run.cmd <= s.issued /\ l.staged.cmd <= s.issued
      BY <1>4, <1>6 DEF Shape
    <3>2. QED
      BY <1>2, <1>6, <3>1 DEF Fine, Commands, IdsIssued
  <2>2. OrdersAreNew(l, v, q)
    <3>1. SUFFICES ASSUME NEW i \in 1..Len(q), IsRun(q[i])
                   PROVE  /\ l.run.cmd < q[i].cmd /\ l.staged.cmd < q[i].cmd
                          /\ \A j \in 1..Len(v) : IsOutcome(v[j]) => v[j].cmd < q[i].cmd
                          /\ \A j \in 1..Len(q) : IsRun(q[j]) /\ i < j => q[i].cmd < q[j].cmd
      BY DEF OrdersAreNew
    <3>2. /\ k.run.cmd < q[i].cmd /\ k.staged.cmd < q[i].cmd
          /\ \A j \in 1..Len(u) : IsOutcome(u[j]) => u[j].cmd < q[i].cmd
          /\ \A j \in 1..Len(q) : IsRun(q[j]) /\ i < j => q[i].cmd < q[j].cmd
      BY <3>1 DEF Fine, Commands, OrdersAreNew
    <3>3. 0 < q[i].cmd
      BY <1>3, <3>1
    <3>4. m.cmd < q[i].cmd
      BY <3>2
    <3>5. QED
      BY <1>2, <1>4, <3>2, <3>3, <3>4
  <2>3. OneOutcome(l, v)
    <3>1. l.run # NoRun => l.run.cmd # l.staged.cmd
      <4>1. k.run # NoRun => k.run.cmd # k.staged.cmd
        BY DEF Fine, Commands, OneOutcome
      <4>2. l.run # NoRun => l.run = k.run /\ l.staged = NoResult /\ m.cmd = k.staged.cmd
        OBVIOUS
      <4>3. QED
        BY <4>1, <4>2 DEF NoResult
    <3>2. m.cmd # l.run.cmd /\ m.cmd # l.staged.cmd
      <4>1. k.run # NoRun => k.run.cmd # k.staged.cmd
        BY DEF Fine, Commands, OneOutcome
      <4>2. QED
        BY <1>3, <1>4, <4>1 DEF NoResult
    <3>3. \A i \in 1..Len(u) : IsOutcome(u[i]) =>
            u[i].cmd # l.run.cmd /\ u[i].cmd # l.staged.cmd /\ u[i].cmd # m.cmd
      BY <1>3, <1>4, <1>7
    <3>4. QED
      BY <1>2, <3>1, <3>2, <3>3 DEF Fine, Commands, OneOutcome
  <2>4. Answered(s, l, v, q)
    <3>1. OutcomeSent(u, s.journey.cmd) => OutcomeSent(v, s.journey.cmd)
      BY <1>2 DEF OutcomeSent
    <3>2. m.cmd = s.journey.cmd => OutcomeSent(v, s.journey.cmd)
      BY <1>2 DEF OutcomeSent
    <3>3. QED
      BY <3>1, <3>2 DEF Fine, Commands, Answered
  <2>5. RunFollowed(s, l, q) /\ OrdersApart(l, q)
    BY <1>4 DEF Fine, Commands, RunFollowed, OrdersApart
  <2>6. QED
    BY <2>1, <2>2, <2>3, <2>4, <2>5 DEF Fine, Commands
<1>9. WaitsExactly(s, l, v, q)
  BY <1>5 DEF Fine, WaitsExactly, Holds
<1>10. ResumesExactly(s, l, v, q)
  BY <1>5 DEF Fine, ResumesExactly, Holds
<1>11. ReportsExactly(s, l, v)
  <2>1. SUFFICES ASSUME NEW i \in 1..Len(v), v[i].kind = "paused", Active(s), v[i].cmd = s.journey.cmd
                 PROVE  Holds(l, v, [journey |-> JourneyOf[s.journey.module], next |-> v[i].next])
    BY DEF ReportsExactly
  <2>2. CASE i \in 1..Len(u)
    BY <1>2, <1>5, <2>1, <2>2 DEF Fine, ReportsExactly, Holds
  <2>3. CASE v[i] = m
    <3>1. k.run # NoRun /\ k.run.cmd = s.journey.cmd
      BY <2>1, <2>3
    <3>2. Awaited(s, k.run)
      <4>1. ~OrderAfter(q, 0, s.journey.cmd)
        BY <3>1, RunOrStop DEF Shape
      <4>2. QED
        BY <2>1, <3>1, <4>1, RunOrStop
    <3>3. QED
      BY <2>1, <2>3, <3>1, <3>2 DEF Awaited, Holds
  <2>4. QED
    BY <1>2, <2>2, <2>3
<1>12. OffersCurrent(s.demo, l, v, q)
  <2>1. \A a, x : Offered(l, v, q, a, x) => Offered(k, u, q, a, x)
    BY <1>2, <1>3 DEF Offered, Presses
  <2>2. QED
    BY <2>1 DEF Fine, OffersCurrent
<1>13. Panel(s, l, v, q)
  <2>1. OfferedOnce(l, v, q)
    BY <1>2, <1>3 DEF Fine, Panel, OfferedOnce, Presses
  <2>2. PressedBefore(s, v)
    <3>1. SUFFICES ASSUME Active(s), NEW i \in 1..Len(v), NEW j \in 1..Len(v),
                          MovingPress(v[i]), IsOutcome(v[j]), v[j].cmd = s.journey.cmd
                   PROVE  i < j
      BY DEF PressedBefore
    <3>2. i \in 1..Len(u) /\ v[i] = u[i]
      BY <1>2, <1>3, <3>1 DEF MovingPress
    <3>3. QED
      BY <1>1, <1>2, <3>1, <3>2 DEF Fine, Panel, PressedBefore
  <2>3. ShownBefore(s, l, q) /\ OrdersAnnounced(l, q)
    BY DEF Fine, Panel, ShownBefore, OrdersAnnounced
  <2>4. QED
    BY <2>1, <2>2, <2>3 DEF Panel
<1>14. QED
  BY <1>8, <1>9, <1>10, <1>11, <1>12, <1>13 DEF Fine

(* A journey has ended and its result waits for the closing cue.  A result *)
(* held back before it is not the one awaited.                             *)
LEMMA HeldBack ==
  ASSUME NEW s, NEW k, NEW l, NEW u, NEW q, Shape(s, k, u, q), Fine(s, k, u, q),
         k.run # NoRun, l.run = NoRun, l.staged.cmd = k.run.cmd,
         l.paused = k.paused, l.module = k.module, l.buttons = k.buttons
  PROVE  Fine(s, l, u, q)
<1>1. l.run.cmd = 0
  BY DEF NoRun
<1>2. /\ \A i \in 1..Len(u) : IsOutcome(u[i]) => u[i].cmd \in Nat \ {0}
      /\ \A i \in 1..Len(q) : IsRun(q[i]) => q[i].cmd \in Nat \ {0}
  BY UpFields, DownFields DEF Shape
<1>3. Commands(s, l, u, q)
  <2>1. IdsIssued(s, l, u, q)
    BY <1>1 DEF Fine, Commands, IdsIssued, Shape
  <2>2. OrdersAreNew(l, u, q)
    BY <1>1, <1>2 DEF Fine, Commands, OrdersAreNew
  <2>3. OneOutcome(l, u)
    BY <1>1, <1>2 DEF Fine, Commands, OneOutcome
  <2>4. Answered(s, l, u, q)
    <3>1. SUFFICES ASSUME Active(s), k.staged.cmd = s.journey.cmd
                   PROVE  OrderAfter(q, 0, s.journey.cmd)
      BY DEF Fine, Commands, Answered
    <3>2. k.run.cmd # k.staged.cmd
      BY DEF Fine, Commands, OneOutcome
    <3>3. ~Awaited(s, k.run)
      BY <3>1, <3>2 DEF Awaited
    <3>4. QED
      BY <3>1, <3>3, RunOrStop
  <2>5. RunFollowed(s, l, q) /\ OrdersApart(l, q)
    BY DEF Fine, Commands, RunFollowed, OrdersApart
  <2>6. QED
    BY <2>1, <2>2, <2>3, <2>4, <2>5 DEF Fine, Commands
<1>4. WaitsExactly(s, l, u, q) /\ ResumesExactly(s, l, u, q) /\ ReportsExactly(s, l, u)
  BY DEF Fine, WaitsExactly, ResumesExactly, ReportsExactly, Holds
<1>5. OffersCurrent(s.demo, l, u, q)
  BY DEF Fine, OffersCurrent, Offered
<1>6. Panel(s, l, u, q)
  BY DEF Fine, Panel, OfferedOnce, ShownBefore, OrdersAnnounced
<1>7. QED
  BY <1>3, <1>4, <1>5, <1>6 DEF Fine

(* Nobody relies on the checkpoint the browser holds while a journey runs, *)
(* while a stop is on its way to it, or once one is on its way up.         *)
LEMMA CheckpointFree ==
  ASSUME NEW s, NEW k, NEW l, NEW u, NEW q, Shape(s, k, u, q), Fine(s, k, u, q), JourneyOnStage(s),
         k.run # NoRun \/ ~NoStop(q) \/ StopInUp(u),
         l.run = k.run, l.staged = k.staged, l.module = k.module, l.buttons = k.buttons
  PROVE  Fine(s, l, u, q)
<1>1. Len(u) \in Nat /\ Len(q) \in Nat
  BY DEF Shape
<1>2. Commands(s, l, u, q)
  BY DEF Fine, Commands, IdsIssued, OrdersAreNew, OneOutcome, Answered, RunFollowed, OrdersApart
<1>3. WaitsExactly(s, l, u, q)
  <2>1. SUFFICES ASSUME Waiting(s.demo), ~StopInUp(u) PROVE FALSE
    BY DEF Fine, WaitsExactly, Holds
  <2>2. NoStop(q) /\ ~Active(s)
    BY <2>1 DEF Fine, WaitsExactly, JourneyOnStage, Waiting
  <2>3. QED
    BY <2>1, <2>2, RunOrStop DEF Awaited
<1>4. ResumesExactly(s, l, u, q)
  <2>1. SUFFICES ASSUME NEW i \in 1..Len(q), IsRun(q[i]), NoStop(q), ~StopInUp(u) PROVE FALSE
    BY DEF Fine, ResumesExactly, Holds
  <2>2. k.run = NoRun
    BY <2>1 DEF Fine, Commands, OrdersApart, StopBetween, NoStop
  <2>3. QED
    BY <2>1, <2>2
<1>5. ReportsExactly(s, l, u)
  <2>1. SUFFICES ASSUME NEW i \in 1..Len(u), IsOutcome(u[i]), Active(s), u[i].cmd = s.journey.cmd,
                        ~StopInUp(u)
                 PROVE  FALSE
    BY Kinds DEF ReportsExactly, Holds
  <2>2. ~OrderAfter(q, 0, s.journey.cmd) /\ NoStop(q)
    BY <2>1, RunOrStop DEF OutcomeSent
  <2>3. k.run.cmd = s.journey.cmd
    BY <2>1, <2>2, RunOrStop DEF Awaited
  <2>4. QED
    BY <2>1, <2>3 DEF Fine, Commands, OneOutcome
<1>6. OffersCurrent(s.demo, l, u, q)
  BY DEF Fine, OffersCurrent, Offered
<1>7. Panel(s, l, u, q)
  BY DEF Fine, Panel, OfferedOnce, ShownBefore, OrdersAnnounced
<1>8. QED
  BY <1>2, <1>3, <1>4, <1>5, <1>6, <1>7 DEF Fine

(* A command that is no order to run is taken off the queue; a stop, once  *)
(* nothing runs any more.                                                  *)
LEMMA CommandTaken ==
  ASSUME NEW s, NEW k, NEW l, NEW u, NEW q, NEW p, Shape(s, k, u, q), Fine(s, k, u, q),
         p \in Seq(DownMessages), q # << >>, Shrunk(q, p),
         ~IsRun(q[1]), IsStop(q[1]) => k.run = NoRun,
         l.run = k.run, l.staged = k.staged, l.paused = k.paused
  PROVE  /\ Commands(s, l, u, p) /\ WaitsExactly(s, l, u, p)
         /\ ResumesExactly(s, l, u, p) /\ ReportsExactly(s, l, u)
<1>1. Len(u) \in Nat /\ Len(q) \in Nat \ {0} /\ Len(p) \in Nat
  BY DEF Shape
<1>2. /\ \A i \in 1..Len(p) : i + 1 \in 1..Len(q) /\ p[i] = q[i + 1] /\ i \in Nat
      /\ \A i \in 1..Len(q) : i = 1 \/ (i - 1 \in 1..Len(p) /\ q[i] = p[i - 1])
      /\ \A j \in Nat : \A c : OrderAfter(q, j + 1, c) => OrderAfter(p, j, c)
      /\ \A i \in Nat, l1 \in Nat : StopBetween(q, i + 1, l1 + 1) => StopBetween(p, i, l1)
      /\ \A i \in Nat : StopAfter(q, i + 1) => StopAfter(p, i)
  BY <1>1, ShrunkKeeps
<1>3. ASSUME NEW c, OrderAfter(q, 0, c) PROVE OrderAfter(p, 0, c)
  <2>1. OrderAfter(q, 0 + 1, c)
    BY <1>1, <1>3 DEF OrderAfter
  <2>2. QED
    BY <1>2, <2>1
<1>4. k.run # NoRun /\ StopAfter(q, 0) => StopAfter(p, 0)
  <2>1. k.run # NoRun /\ StopAfter(q, 0) => StopAfter(q, 0 + 1)
    BY <1>1 DEF StopAfter
  <2>2. QED
    BY <1>2, <2>1
<1>5. ASSUME NEW i \in Nat, k.run # NoRun, StopBetween(q, 0, i + 1) PROVE StopBetween(p, 0, i)
  <2>1. StopBetween(q, 0 + 1, i + 1)
    BY <1>1, <1>5 DEF StopBetween
  <2>2. QED
    BY <1>2, <2>1
<1>6. NoStop(q) => NoStop(p)
  BY <1>2 DEF NoStop
<1>7. Commands(s, l, u, p)
  <2>1. IdsIssued(s, l, u, p)
    BY <1>2 DEF Fine, Commands, IdsIssued
  <2>2. OrdersAreNew(l, u, p)
    <3>1. ASSUME NEW i \in 1..Len(p), IsRun(p[i]), NEW j \in 1..Len(p), IsRun(p[j]), i < j
          PROVE  p[i].cmd < p[j].cmd
      <4>1. i + 1 \in 1..Len(q) /\ j + 1 \in 1..Len(q) /\ p[i] = q[i + 1] /\ p[j] = q[j + 1] /\ i + 1 < j + 1
        BY <1>2, <3>1
      <4>2. QED
        BY <3>1, <4>1 DEF Fine, Commands, OrdersAreNew
    <3>2. QED
      BY <1>2, <3>1 DEF Fine, Commands, OrdersAreNew
  <2>3. OneOutcome(l, u)
    BY DEF Fine, Commands, OneOutcome
  <2>4. Answered(s, l, u, p)
    BY <1>3 DEF Fine, Commands, Answered
  <2>5. OrdersFollowed(s, p)
    BY <1>2 DEF Fine, Commands, OrdersFollowed
  <2>6. RunFollowed(s, l, p)
    BY <1>4 DEF Fine, Commands, RunFollowed
  <2>7. OrdersApart(l, p)
    <3>1. SUFFICES ASSUME NEW i \in 1..Len(p), IsRun(p[i])
                   PROVE  /\ l.run = NoRun \/ StopBetween(p, 0, i)
                          /\ \A j \in 1..Len(p) : IsRun(p[j]) /\ j < i => StopBetween(p, j, i)
      BY DEF OrdersApart
    <3>2. i + 1 \in 1..Len(q) /\ IsRun(q[i + 1]) /\ i \in Nat
      BY <1>2, <3>1
    <3>3. /\ k.run = NoRun \/ StopBetween(q, 0, i + 1)
          /\ \A j \in 1..Len(q) : IsRun(q[j]) /\ j < i + 1 => StopBetween(q, j, i + 1)
      BY <3>2 DEF Fine, Commands, OrdersApart
    <3>4. ASSUME NEW j \in 1..Len(p), IsRun(p[j]), j < i PROVE StopBetween(p, j, i)
      <4>1. j + 1 \in 1..Len(q) /\ IsRun(q[j + 1]) /\ j + 1 < i + 1 /\ j \in Nat
        BY <1>2, <3>2, <3>4
      <4>2. StopBetween(q, j + 1, i + 1)
        BY <3>3, <4>1
      <4>3. QED
        BY <1>2, <3>2, <4>1, <4>2
    <3>5. QED
      BY <1>5, <3>2, <3>3, <3>4
  <2>8. StopsBefore(s, p)
    <3>1. SUFFICES ASSUME Active(s), NEW j \in 1..Len(p), IsStop(p[j])
                   PROVE  OrderAfter(p, j, s.journey.cmd)
      BY DEF StopsBefore
    <3>2. j + 1 \in 1..Len(q) /\ IsStop(q[j + 1]) /\ j \in Nat
      BY <1>2, <3>1
    <3>3. OrderAfter(q, j + 1, s.journey.cmd)
      BY <3>1, <3>2 DEF Fine, Commands, StopsBefore
    <3>4. QED
      BY <1>2, <3>2, <3>3
  <2>9. QED
    BY <2>1, <2>2, <2>3, <2>4, <2>5, <2>6, <2>7, <2>8 DEF Commands
<1>8. WaitsExactly(s, l, u, p)
  BY <1>6 DEF Fine, WaitsExactly, Holds
<1>9. ResumesExactly(s, l, u, p)
  <2>1. SUFFICES ASSUME NEW i \in 1..Len(p), IsRun(p[i]), Active(s), p[i].cmd = s.journey.cmd,
                        p[i].resume # 0
                 PROVE  NoStop(p) /\ Holds(l, u, [journey |-> p[i].journey, next |-> p[i].resume])
    BY DEF ResumesExactly
  <2>2. i + 1 \in 1..Len(q) /\ p[i] = q[i + 1]
    BY <1>2
  <2>3. NoStop(q) /\ Holds(k, u, [journey |-> p[i].journey, next |-> p[i].resume])
    BY <2>1, <2>2 DEF Fine, ResumesExactly
  <2>4. QED
    BY <1>6, <2>3 DEF Holds
<1>10. ReportsExactly(s, l, u)
  BY DEF Fine, ReportsExactly, Holds
<1>11. QED
  BY <1>7, <1>8, <1>9, <1>10

(* The panel when a command other than a state is taken.                   *)
LEMMA PanelTaken ==
  ASSUME NEW s, NEW k, NEW l, NEW u, NEW q, NEW p, Shape(s, k, u, q), Fine(s, k, u, q),
         p \in Seq(DownMessages), q # << >>, Shrunk(q, p), ~IsState(q[1]),
         l.module = k.module, l.buttons = k.buttons,
         IsRun(q[1]) => ~Moves(k.buttons)
  PROVE  OffersCurrent(s.demo, l, u, p) /\ Panel(s, l, u, p)
<1>1. Len(u) \in Nat /\ Len(q) \in Nat \ {0} /\ Len(p) \in Nat
  BY DEF Shape
<1>2. /\ \A i \in 1..Len(p) : i + 1 \in 1..Len(q) /\ p[i] = q[i + 1] /\ i \in Nat
      /\ \A j \in Nat : \A c : OrderAfter(q, j + 1, c) => OrderAfter(p, j, c)
      /\ \A j \in Nat, i \in Nat : BareBetween(q, j + 1, i + 1) => BareBetween(p, j, i)
  BY <1>1, ShrunkKeeps
<1>3. OffersCurrent(s.demo, l, u, p)
  <2>1. \A a, v : Offered(l, u, p, a, v) => Offered(k, u, q, a, v)
    BY <1>2 DEF Offered
  <2>2. QED
    BY <2>1 DEF Fine, OffersCurrent
<1>4. OfferedOnce(l, u, p)
  <2>1. ASSUME NEW i \in 1..Len(p), NEW a \in Fresh, NEW b \in Fresh, Shows(p[i], a), b \in After(a),
               NEW j \in 1..Len(p), i < j
        PROVE  ~Shows(p[j], b)
    <3>1. i + 1 \in 1..Len(q) /\ j + 1 \in 1..Len(q) /\ p[i] = q[i + 1] /\ p[j] = q[j + 1] /\ i + 1 < j + 1
      BY <1>2, <2>1
    <3>2. QED
      BY <2>1, <3>1 DEF Fine, Panel, OfferedOnce
  <2>2. QED
    BY <1>2, <2>1 DEF Fine, Panel, OfferedOnce
<1>5. ShownBefore(s, l, p)
  <2>1. ASSUME Active(s), Moves(k.buttons) PROVE OrderAfter(p, 0, s.journey.cmd)
    <3>1. OrderAfter(q, 0, s.journey.cmd)
      BY <2>1 DEF Fine, Panel, ShownBefore
    <3>2. OrderAfter(q, 0 + 1, s.journey.cmd)
      BY <1>1, <2>1, <3>1 DEF OrderAfter
    <3>3. QED
      BY <1>2, <3>2
  <2>2. ASSUME Active(s), NEW j \in 1..Len(p), Moving(p[j]) PROVE OrderAfter(p, j, s.journey.cmd)
    <3>1. j + 1 \in 1..Len(q) /\ Moving(q[j + 1]) /\ j \in Nat
      BY <1>2, <2>2
    <3>2. OrderAfter(q, j + 1, s.journey.cmd)
      BY <2>2, <3>1 DEF Fine, Panel, ShownBefore
    <3>3. QED
      BY <1>2, <3>1, <3>2
  <2>3. QED
    BY <2>1, <2>2 DEF ShownBefore
<1>6. OrdersAnnounced(l, p)
  <2>1. SUFFICES ASSUME NEW i \in 1..Len(p), IsRun(p[i])
                 PROVE  /\ Moves(k.buttons) => BareBetween(p, 0, i)
                        /\ \A j \in 1..Len(p) : j < i /\ Moving(p[j]) => BareBetween(p, j, i)
    BY DEF OrdersAnnounced
  <2>2. i + 1 \in 1..Len(q) /\ IsRun(q[i + 1]) /\ i \in Nat
    BY <1>2, <2>1
  <2>3. /\ Moves(k.buttons) => BareBetween(q, 0, i + 1)
        /\ \A j \in 1..Len(q) : j < i + 1 /\ Moving(q[j]) => BareBetween(q, j, i + 1)
    BY <2>2 DEF Fine, Panel, OrdersAnnounced
  <2>4. BareBetween(q, 0, i + 1) => BareBetween(q, 0 + 1, i + 1)
    BY <1>1, Kinds DEF BareBetween
  <2>5. ASSUME NEW j \in 1..Len(p), j < i, Moving(p[j]) PROVE BareBetween(p, j, i)
    <3>1. j + 1 \in 1..Len(q) /\ Moving(q[j + 1]) /\ j + 1 < i + 1 /\ j \in Nat
      BY <1>2, <2>2, <2>5
    <3>2. BareBetween(q, j + 1, i + 1)
      BY <2>3, <3>1
    <3>3. QED
      BY <1>2, <2>2, <3>1, <3>2
  <2>6. QED
    BY <1>2, <2>2, <2>3, <2>4, <2>5
<1>7. QED
  BY <1>3, <1>4, <1>5, <1>6 DEF Fine, Panel

(* A state is taken: the panel shows it.                                   *)
LEMMA StateTaken ==
  ASSUME NEW s, NEW k, NEW l, NEW u, NEW q, NEW p, Shape(s, k, u, q), Fine(s, k, u, q),
         p \in Seq(DownMessages), q # << >>, Shrunk(q, p), IsState(q[1]),
         l.run = k.run, l.staged = k.staged, l.paused = k.paused,
         l.module = q[1].module, l.buttons = q[1].buttons
  PROVE  Fine(s, l, u, p)
<1>1. Len(u) \in Nat /\ Len(q) \in Nat \ {0} /\ Len(p) \in Nat /\ 1 \in 1..Len(q)
  BY DEF Shape
<1>2. /\ \A i \in 1..Len(p) : i + 1 \in 1..Len(q) /\ p[i] = q[i + 1] /\ i \in Nat
      /\ \A j \in Nat : \A c : OrderAfter(q, j + 1, c) => OrderAfter(p, j, c)
      /\ \A j \in Nat, i \in Nat : BareBetween(q, j + 1, i + 1) => BareBetween(p, j, i)
  BY <1>1, ShrunkKeeps
<1>3. ~IsRun(q[1]) /\ ~IsStop(q[1])
  BY Kinds
<1>4. /\ Commands(s, l, u, p) /\ WaitsExactly(s, l, u, p)
      /\ ResumesExactly(s, l, u, p) /\ ReportsExactly(s, l, u)
  BY <1>3, CommandTaken
<1>5. OffersCurrent(s.demo, l, u, p)
  <2>1. \A a, v : Offered(l, u, p, a, v) => Offered(k, u, q, a, v)
    BY <1>1, <1>2 DEF Offered, Shows
  <2>2. QED
    BY <2>1 DEF Fine, OffersCurrent
<1>6. OfferedOnce(l, u, p)
  <2>1. OfferedOnce(k, u, q)
    BY DEF Fine, Panel
  <2>2. ASSUME NEW i \in 1..Len(p), NEW a \in Fresh, NEW b \in Fresh, Shows(p[i], a), b \in After(a),
               NEW j \in 1..Len(p), i < j
        PROVE  ~Shows(p[j], b)
    <3>1. i + 1 \in 1..Len(q) /\ j + 1 \in 1..Len(q) /\ p[i] = q[i + 1] /\ p[j] = q[j + 1] /\ i + 1 < j + 1
      BY <1>2, <2>2
    <3>2. QED
      BY <2>1, <2>2, <3>1 DEF OfferedOnce
  <2>3. ASSUME NEW a \in Fresh, NEW b \in Fresh, a \in l.buttons, b \in After(a),
               NEW j \in 1..Len(p)
        PROVE  ~Shows(p[j], b)
    <3>a. Shows(q[1], a)
      BY <2>3 DEF Shows
    <3>b. j + 1 \in 1..Len(q) /\ p[j] = q[j + 1] /\ j \in Nat
      BY <1>2
    <3>c. 1 < j + 1
      BY <1>1
    <3>1. Shows(q[1], a) /\ j + 1 \in 1..Len(q) /\ 1 < j + 1 /\ p[j] = q[j + 1]
      BY <3>a, <3>b, <3>c
    <3>2. QED
      BY <1>1, <2>1, <2>3, <3>1 DEF OfferedOnce
  <2>4. ASSUME NEW i \in 1..Len(u), NEW a \in Fresh, NEW b \in Fresh, Presses(u[i], a), b \in After(a)
        PROVE  /\ \A j \in 1..Len(u) : i < j => ~Presses(u[j], b)
               /\ b \notin l.buttons
               /\ \A j \in 1..Len(p) : ~Shows(p[j], b)
    <3>1. /\ \A j \in 1..Len(u) : i < j => ~Presses(u[j], b)
          /\ \A j \in 1..Len(q) : ~Shows(q[j], b)
      BY <2>1, <2>4 DEF OfferedOnce
    <3>2. QED
      BY <1>1, <1>2, <3>1 DEF Shows
  <2>5. QED
    BY <2>2, <2>3, <2>4 DEF OfferedOnce
<1>7. ShownBefore(s, l, p)
  <2>1. ASSUME Active(s), NEW j \in Nat, j + 1 \in 1..Len(q), Moving(q[j + 1])
        PROVE  OrderAfter(p, j, s.journey.cmd)
    <3>1. OrderAfter(q, j + 1, s.journey.cmd)
      BY <2>1 DEF Fine, Panel, ShownBefore
    <3>2. QED
      BY <1>2, <3>1
  <2>2. Moves(l.buttons) => Moving(q[0 + 1]) /\ 0 + 1 \in 1..Len(q)
    BY <1>1 DEF Moving
  <2>3. ASSUME Active(s), Moves(l.buttons) PROVE OrderAfter(p, 0, s.journey.cmd)
    BY <2>1, <2>2, <2>3
  <2>4. ASSUME Active(s), NEW j \in 1..Len(p), Moving(p[j]) PROVE OrderAfter(p, j, s.journey.cmd)
    BY <1>2, <2>1, <2>4
  <2>5. QED
    BY <2>3, <2>4 DEF ShownBefore
<1>8. OrdersAnnounced(l, p)
  <2>1. SUFFICES ASSUME NEW i \in 1..Len(p), IsRun(p[i])
                 PROVE  /\ Moves(l.buttons) => BareBetween(p, 0, i)
                        /\ \A j \in 1..Len(p) : j < i /\ Moving(p[j]) => BareBetween(p, j, i)
    BY DEF OrdersAnnounced
  <2>2. i + 1 \in 1..Len(q) /\ IsRun(q[i + 1]) /\ i \in Nat
    BY <1>2, <2>1
  <2>3. ASSUME NEW j \in Nat, j + 1 \in 1..Len(q), j < i, Moving(q[j + 1]) PROVE BareBetween(p, j, i)
    <3>1. j + 1 < i + 1
      BY <2>2, <2>3
    <3>2. BareBetween(q, j + 1, i + 1)
      BY <2>2, <2>3, <3>1 DEF Fine, Panel, OrdersAnnounced
    <3>3. QED
      BY <1>2, <2>2, <3>2
  <2>4. Moves(l.buttons) => Moving(q[0 + 1]) /\ 0 + 1 \in 1..Len(q) /\ 0 < i
    BY <1>1 DEF Moving
  <2>5. Moves(l.buttons) => BareBetween(p, 0, i)
    BY <2>3, <2>4
  <2>6. ASSUME NEW j \in 1..Len(p), j < i, Moving(p[j]) PROVE BareBetween(p, j, i)
    BY <1>2, <2>3, <2>6
  <2>7. QED
    BY <2>5, <2>6
<1>9. QED
  BY <1>4, <1>5, <1>6, <1>7, <1>8 DEF Fine, Panel

(* An order to run is taken: nothing runs, nothing that moves the demo on  *)
(* is shown, and the journey starts.                                       *)
LEMMA OrderTaken ==
  ASSUME NEW s, NEW k, NEW l, NEW u, NEW q, NEW p, Shape(s, k, u, q), Fine(s, k, u, q),
         p \in Seq(DownMessages), q # << >>, Shrunk(q, p), IsRun(q[1]),
         l.run.cmd = q[1].cmd, l.run.journey = q[1].journey,
         l.staged = k.staged, l.paused = k.paused, l.module = k.module, l.buttons = k.buttons,
         Active(s) => s.journey.cmd # 0
  PROVE  k.run = NoRun /\ Fine(s, l, u, p)
<1>1. Len(u) \in Nat /\ Len(q) \in Nat \ {0} /\ Len(p) \in Nat /\ 1 \in 1..Len(q)
  BY DEF Shape
<1>2. /\ \A i \in 1..Len(p) : i + 1 \in 1..Len(q) /\ p[i] = q[i + 1] /\ i \in Nat
      /\ \A i \in 1..Len(q) : i = 1 \/ (i - 1 \in 1..Len(p) /\ q[i] = p[i - 1])
      /\ \A j \in Nat : \A c : OrderAfter(q, j + 1, c) => OrderAfter(p, j, c)
      /\ \A i \in Nat, l1 \in Nat : StopBetween(q, i + 1, l1 + 1) => StopBetween(p, i, l1)
      /\ \A i \in Nat : StopAfter(q, i + 1) => StopAfter(p, i)
  BY <1>1, ShrunkKeeps
<1>3. k.run = NoRun /\ ~Moves(k.buttons) /\ ~IsState(q[1]) /\ ~IsStop(q[1])
  <2>1. ~StopBetween(q, 0, 1) /\ ~BareBetween(q, 0, 1)
    BY <1>1 DEF StopBetween, BareBetween
  <2>2. k.run = NoRun /\ ~Moves(k.buttons)
    BY <1>1, <2>1 DEF Fine, Commands, OrdersApart, Panel, OrdersAnnounced
  <2>3. QED
    BY <2>2, Kinds
<1>4. OffersCurrent(s.demo, l, u, p) /\ Panel(s, l, u, p)
  BY <1>3, PanelTaken
<1>5. /\ k.staged.cmd < q[1].cmd
      /\ \A j \in 1..Len(u) : IsOutcome(u[j]) => u[j].cmd < q[1].cmd
      /\ \A j \in 1..Len(q) : IsRun(q[j]) /\ 1 < j => q[1].cmd < q[j].cmd
      /\ q[1].cmd \in Nat /\ q[1].cmd <= s.issued
  BY <1>1, DownFields DEF Fine, Commands, OrdersAreNew, IdsIssued, Shape
<1>6. \A i \in 1..Len(u) : IsOutcome(u[i]) => u[i].cmd \in Nat
  BY UpFields DEF Shape
<1>7. NoStop(q) => NoStop(p)
  BY <1>2 DEF NoStop
<1>8. Commands(s, l, u, p)
  <2>1. IdsIssued(s, l, u, p)
    BY <1>2, <1>5 DEF Fine, Commands, IdsIssued
  <2>2. OrdersAreNew(l, u, p)
    <3>1. SUFFICES ASSUME NEW i \in 1..Len(p), IsRun(p[i])
                   PROVE  /\ q[1].cmd < p[i].cmd /\ k.staged.cmd < p[i].cmd
                          /\ \A j \in 1..Len(u) : IsOutcome(u[j]) => u[j].cmd < p[i].cmd
                          /\ \A j \in 1..Len(p) : IsRun(p[j]) /\ i < j => p[i].cmd < p[j].cmd
      BY DEF OrdersAreNew
    <3>2. i + 1 \in 1..Len(q) /\ p[i] = q[i + 1] /\ IsRun(q[i + 1]) /\ 1 < i + 1
      BY <1>2, <3>1
    <3>3. \A j \in 1..Len(p) : i < j => j + 1 \in 1..Len(q) /\ p[j] = q[j + 1] /\ i + 1 < j + 1
      BY <1>2
    <3>4. QED
      BY <1>5, <3>2, <3>3 DEF Fine, Commands, OrdersAreNew
  <2>3. OneOutcome(l, u)
    BY <1>5, <1>6 DEF Fine, Commands, OneOutcome, Shape
  <2>4. Answered(s, l, u, p)
    <3>1. OrderAfter(q, 0, s.journey.cmd) => q[1].cmd = s.journey.cmd \/ OrderAfter(q, 0 + 1, s.journey.cmd)
      BY <1>1 DEF OrderAfter
    <3>2. k.run.cmd = 0
      BY <1>3 DEF NoRun
    <3>3. QED
      BY <1>2, <3>1, <3>2 DEF Fine, Commands, Answered
  <2>5. OrdersFollowed(s, p)
    BY <1>2 DEF Fine, Commands, OrdersFollowed
  <2>6. RunFollowed(s, l, p)
    <3>1. Awaited(s, q[1]) \/ StopAfter(q, 0 + 1)
      BY <1>1 DEF Fine, Commands, OrdersFollowed
    <3>2. Awaited(s, q[1]) => Awaited(s, l.run)
      BY DEF Awaited
    <3>3. QED
      BY <1>2, <3>1, <3>2 DEF RunFollowed
  <2>7. OrdersApart(l, p)
    <3>1. SUFFICES ASSUME NEW i \in 1..Len(p), IsRun(p[i])
                   PROVE  /\ StopBetween(p, 0, i)
                          /\ \A j \in 1..Len(p) : IsRun(p[j]) /\ j < i => StopBetween(p, j, i)
      BY DEF OrdersApart
    <3>2. i + 1 \in 1..Len(q) /\ IsRun(q[i + 1]) /\ i \in Nat /\ 0 + 1 < i + 1
      BY <1>2, <3>1
    <3>3. \A j \in 1..Len(q) : IsRun(q[j]) /\ j < i + 1 => StopBetween(q, j, i + 1)
      BY <3>2 DEF Fine, Commands, OrdersApart
    <3>4. ASSUME NEW j \in 1..Len(p), IsRun(p[j]), j < i PROVE StopBetween(p, j, i)
      <4>1. j + 1 \in 1..Len(q) /\ IsRun(q[j + 1]) /\ j + 1 < i + 1 /\ j \in Nat
        BY <1>2, <3>2, <3>4
      <4>2. StopBetween(q, j + 1, i + 1)
        BY <3>3, <4>1
      <4>3. QED
        BY <1>2, <3>2, <4>1, <4>2
    <3>5. StopBetween(q, 0 + 1, i + 1)
      BY <1>1, <3>2, <3>3
    <3>6. QED
      BY <1>2, <3>2, <3>4, <3>5
  <2>8. StopsBefore(s, p)
    <3>1. SUFFICES ASSUME Active(s), NEW j \in 1..Len(p), IsStop(p[j])
                   PROVE  OrderAfter(p, j, s.journey.cmd)
      BY DEF StopsBefore
    <3>2. j + 1 \in 1..Len(q) /\ IsStop(q[j + 1]) /\ j \in Nat
      BY <1>2, <3>1
    <3>3. OrderAfter(q, j + 1, s.journey.cmd)
      BY <3>1, <3>2 DEF Fine, Commands, StopsBefore
    <3>4. QED
      BY <1>2, <3>2, <3>3
  <2>9. QED
    BY <2>1, <2>2, <2>3, <2>4, <2>5, <2>6, <2>7, <2>8 DEF Commands
<1>9. WaitsExactly(s, l, u, p)
  BY <1>7 DEF Fine, WaitsExactly, Holds
<1>10. ResumesExactly(s, l, u, p)
  <2>1. SUFFICES ASSUME NEW i \in 1..Len(p), IsRun(p[i]), Active(s), p[i].cmd = s.journey.cmd,
                        p[i].resume # 0
                 PROVE  NoStop(p) /\ Holds(l, u, [journey |-> p[i].journey, next |-> p[i].resume])
    BY DEF ResumesExactly
  <2>2. i + 1 \in 1..Len(q) /\ p[i] = q[i + 1]
    BY <1>2
  <2>3. NoStop(q) /\ Holds(k, u, [journey |-> p[i].journey, next |-> p[i].resume])
    BY <2>1, <2>2 DEF Fine, ResumesExactly
  <2>4. QED
    BY <1>7, <2>3 DEF Holds
<1>11. ReportsExactly(s, l, u)
  BY DEF Fine, ReportsExactly, Holds
<1>12. QED
  BY <1>3, <1>4, <1>8, <1>9, <1>10, <1>11 DEF Fine

-----------------------------------------------------------------------------
(* The browser's steps.                                                    *)
Together(s, k, u, q) ==
  /\ ServerTyped(s) /\ JourneyOnStage(s) /\ BrowserOK(k)
  /\ u \in Seq(UpMessages) /\ q \in Seq(DownMessages) /\ Fine(s, k, u, q)

(* What every lemma about the browser begins with.                         *)
LEMMA TogetherShape ==
  ASSUME NEW s, NEW k, NEW u, NEW q, Together(s, k, u, q)
  PROVE  /\ Shape(s, k, u, q) /\ k \in BrowserStates
         /\ k.run # NoRun => k.run \in Runs /\ k.run.cmd # 0 /\ k.run.journey \in Journeys
         /\ Active(s) => s.journey.cmd # 0
<1>1. s \in Server /\ k \in BrowserStates
  BY DEF Together, ServerTyped, BrowserOK
<1>2. s.issued \in Nat /\ s.journey.cmd \in Nat
  BY <1>1 DEF Server
<1>3. k.run.cmd \in Nat /\ k.staged.cmd \in Nat
  BY <1>1 DEF BrowserStates, Runs, NoRun
<1>4. k.run # NoRun => k.run \in Runs /\ k.run.cmd # 0 /\ k.run.journey \in Journeys
  BY <1>1 DEF BrowserStates, Runs
<1>5. Active(s) => s.journey.cmd # 0
  BY DEF Together, ServerTyped, Active
<1>6. QED
  BY <1>1, <1>2, <1>3, <1>4, <1>5 DEF Shape, Together

(* The panel shows that a pause was asked for.                             *)
LEMMA PauseAsked ==
  ASSUME NEW s, NEW k, NEW u, NEW q, Together(s, k, u, q)
  PROVE  /\ Together(s, RequestPause(k), u, q)
         /\ \A pause \in BOOLEAN : Together(s, [RequestPause(k) EXCEPT !.pauseRequested = pause], u, q)
<1>1. k \in BrowserStates /\ BrowserOK(k)
  BY DEF Together, BrowserOK
<1> DEFINE w == [k EXCEPT !.phase = "pausing", !.buttons = {"stop"}, !.intro = FALSE]
           l == RequestPause(k)
<1>2. /\ l \in BrowserStates /\ l.run = k.run /\ l.staged = k.staged /\ l.paused = k.paused
      /\ l.module = k.module /\ l.buttons \in {k.buttons, {"stop"}}
      /\ l.buttons \subseteq MaximumButtons(l.phase) \union {"stop"}
  <2>1. CASE MayPause(k)
    <3> DEFINE stop == {"stop"}
    <3>1. stop \in SUBSET ControlActions
      BY DEF ControlActions
    <3> HIDE DEF stop
    <3>2. l = [k EXCEPT !.phase = "pausing", !.buttons = stop,
                        !.pauseRequested = TRUE, !.intro = FALSE]
      BY <2>1 DEF RequestPause, stop
    <3> HIDE DEF l
    <3>3. /\ l \in BrowserStates /\ l.run = k.run /\ l.staged = k.staged /\ l.paused = k.paused
          /\ l.module = k.module /\ l.buttons = stop
      BY <1>1, <3>1, <3>2 DEF BrowserStates, Phases
    <3>4. QED
      BY <3>3 DEF stop
  <2>2. CASE ~MayPause(k)
    BY <1>1, <2>2 DEF RequestPause, BrowserOK
  <2>3. QED
    BY <2>1, <2>2
<1> HIDE DEF l
<1>3. ASSUME NEW x \in BrowserStates, x.run = l.run, x.staged = l.staged, x.paused = l.paused,
             x.module = l.module, x.buttons = l.buttons, x.phase = l.phase
      PROVE  Together(s, x, u, q)
  <2>1. Fine(s, x, u, q)
    BY <1>2, <1>3, Withdrawn DEF Together
  <2>2. BrowserOK(x)
    BY <1>1, <1>2, <1>3 DEF BrowserOK
  <2>3. QED
    BY <2>1, <2>2 DEF Together
<1>4. Together(s, l, u, q)
  BY <1>2, <1>3
<1>5. ASSUME NEW pause \in BOOLEAN PROVE Together(s, [l EXCEPT !.pauseRequested = pause], u, q)
  <2> DEFINE x == [l EXCEPT !.pauseRequested = pause]
  <2>1. /\ x \in BrowserStates /\ x.run = l.run /\ x.staged = l.staged /\ x.paused = l.paused
        /\ x.module = l.module /\ x.buttons = l.buttons /\ x.phase = l.phase
    BY <1>2 DEF BrowserStates
  <2> HIDE DEF x
  <2>2. Together(s, x, u, q)
    BY <1>3, <2>1
  <2>3. QED
    BY <2>2 DEF x
<1>6. QED
  BY <1>4, <1>5 DEF l

(* A message that changes nothing on its way up.                           *)
LEMMA SaidTogether ==
  ASSUME NEW s, NEW k, NEW u, NEW q, Together(s, k, u, q),
         NEW m \in UpMessages, ~IsOutcome(m), IsPress(m) => m.action = "stop"
  PROVE  Together(s, k, Append(u, m), q)
<1>1. u \in Seq(UpMessages)
  BY DEF Together
<1>2. Append(u, m) \in Seq(UpMessages) /\ Grown(u, Append(u, m), m)
  BY <1>1, Appended
<1>3. Fine(s, k, Append(u, m), q)
  BY <1>2, TogetherShape, PlainSaid DEF Together
<1>4. QED
  BY <1>2, <1>3 DEF Together

(* A result held back is sent (flushPendingJourneyResult).                 *)
LEMMA FlushedTogether ==
  ASSUME NEW s, NEW k, NEW u, NEW q, Together(s, k, u, q)
  PROVE  Together(s, Flushed(k), u \o FlushMessages(k), q)
<1>1. k \in BrowserStates /\ BrowserOK(k) /\ u \in Seq(UpMessages)
  BY DEF Together, BrowserOK
<1>2. CASE k.staged = NoResult
  <2>1. Flushed(k) = k /\ FlushMessages(k) = << >>
    BY <1>2 DEF Flushed, FlushMessages
  <2>2. QED
    BY <1>1, <2>1, Joined
<1>3. CASE k.staged # NoResult
  <2> DEFINE m == ResultMessage(k.staged.cmd, k.staged.ok)
             l == [k EXCEPT !.staged = NoResult, !.pauseRequested = FALSE]
  <2>1. Flushed(k) = l /\ FlushMessages(k) = <<m>>
    BY <1>3 DEF Flushed, FlushMessages
  <2>2. k.staged.cmd \in Nat \ {0} /\ k.staged.ok \in BOOLEAN
    BY <1>1, <1>3 DEF BrowserOK, BrowserStates
  <2>3. m \in UpMessages /\ IsOutcome(m) /\ m.kind # "paused" /\ m.cmd = k.staged.cmd
    BY <2>2 DEF ResultMessage, UpMessages, Result, IsOutcome
  <2>4. NoResult \in [cmd : Nat, ok : BOOLEAN]
    BY DEF NoResult
  <2>5. /\ l \in BrowserStates /\ l.staged = NoResult /\ l.run = k.run /\ l.paused = k.paused
        /\ l.module = k.module /\ l.buttons = k.buttons /\ l.phase = k.phase
    <3> DEFINE none == NoResult
    <3> HIDE DEF none
    <3>1. [k EXCEPT !.staged = none, !.pauseRequested = FALSE] \in BrowserStates
      BY <1>1, <2>4 DEF BrowserStates, none
    <3>2. QED
      BY <1>1, <3>1 DEF BrowserStates, none
  <2> HIDE DEF m, l
  <2>6. u \o <<m>> = Append(u, m) /\ Append(u, m) \in Seq(UpMessages) /\ Grown(u, Append(u, m), m)
    BY <1>1, <2>3, Appended
  <2>7. Fine(s, l, Append(u, m), q)
    BY <2>2, <2>3, <2>5, <2>6, TogetherShape, Reported DEF Together
  <2>8. BrowserOK(l)
    BY <1>1, <2>5 DEF BrowserOK
  <2>9. QED
    BY <2>1, <2>6, <2>7, <2>8 DEF Together
<1>4. QED
  BY <1>2, <1>3

(* The journey ends.                                                       *)
LEMMA EndedTogether ==
  ASSUME NEW s, NEW k, NEW u, NEW q, Together(s, k, u, q), k.run # NoRun, NEW ok \in BOOLEAN
  PROVE  /\ Together(s, AfterRun(k, ok), u \o Report(k, ok), q)
         /\ AfterRun(k, ok).run = NoRun
         /\ AfterRun(k, ok).buttons = k.buttons /\ AfterRun(k, ok).module = k.module
         /\ AfterRun(k, ok).phase = k.phase
<1>1. /\ k \in BrowserStates /\ BrowserOK(k) /\ u \in Seq(UpMessages)
      /\ k.run.cmd \in Nat \ {0} /\ Shape(s, k, u, q)
  BY TogetherShape DEF Together, BrowserOK, Runs
<1> DEFINE none == NoRun
           e == [k EXCEPT !.run = none]
           l == AfterRun(k, ok)
           r == [cmd |-> k.run.cmd, ok |-> ok]
<1>2. none \in Runs \union {NoRun}
  OBVIOUS
<1>3. l = IF ~ReportsAtOnce(k, ok) THEN [e EXCEPT !.staged = r]
          ELSE IF ok THEN [e EXCEPT !.pauseRequested = FALSE] ELSE e
  BY DEF AfterRun
<1>4. r \in [cmd : Nat, ok : BOOLEAN] /\ r.cmd = k.run.cmd
  BY <1>1
<1> HIDE DEF none, r
<1>5. /\ e \in BrowserStates /\ e.run = none /\ e.staged = k.staged /\ e.paused = k.paused
      /\ e.module = k.module /\ e.buttons = k.buttons /\ e.phase = k.phase
  BY <1>1, <1>2 DEF BrowserStates
<1> HIDE DEF e
<1>6. CASE ~ReportsAtOnce(k, ok)
  <2>1. l = [e EXCEPT !.staged = r] /\ Report(k, ok) = << >>
    BY <1>3, <1>6 DEF Report
  <2> HIDE DEF l
  <2>2. /\ l \in BrowserStates /\ l.run = none /\ l.staged = r /\ l.paused = k.paused
        /\ l.module = k.module /\ l.buttons = k.buttons /\ l.phase = k.phase
    BY <1>4, <1>5, <2>1 DEF BrowserStates
  <2>3. l.run = NoRun
    BY <2>2 DEF none
  <2>4. Fine(s, l, u, q)
    BY <1>1, <1>4, <2>2, <2>3, HeldBack DEF Together
  <2>5. BrowserOK(l)
    BY <1>1, <1>4, <2>2 DEF BrowserOK
  <2>6. Together(s, l, u \o Report(k, ok), q)
    BY <1>1, <2>1, <2>4, <2>5, Joined DEF Together
  <2>7. QED
    BY <2>2, <2>3, <2>6 DEF l
<1>7. CASE ReportsAtOnce(k, ok)
  <2> DEFINE m == ResultMessage(k.run.cmd, ok)
  <2>1. Report(k, ok) = <<m>>
    BY <1>7 DEF Report
  <2>2. m \in UpMessages /\ IsOutcome(m) /\ m.kind # "paused" /\ m.cmd = k.run.cmd
    BY <1>1 DEF ResultMessage, UpMessages, Result, IsOutcome
  <2>3. l = IF ok THEN [e EXCEPT !.pauseRequested = FALSE] ELSE e
    BY <1>3, <1>7
  <2> HIDE DEF m, l
  <2>4. /\ l \in BrowserStates /\ l.run = none /\ l.staged = k.staged /\ l.paused = k.paused
        /\ l.module = k.module /\ l.buttons = k.buttons /\ l.phase = k.phase
    BY <1>5, <2>3 DEF BrowserStates
  <2>5. u \o <<m>> = Append(u, m) /\ Append(u, m) \in Seq(UpMessages) /\ Grown(u, Append(u, m), m)
    BY <1>1, <2>2, Appended
  <2>6. l.run = NoRun
    BY <2>4 DEF none
  <2>7. Fine(s, l, Append(u, m), q)
    BY <1>1, <2>2, <2>4, <2>5, <2>6, Reported DEF Together
  <2>8. BrowserOK(l)
    BY <1>1, <2>4 DEF BrowserOK
  <2>9. Together(s, l, u \o Report(k, ok), q)
    BY <2>1, <2>5, <2>7, <2>8 DEF Together
  <2>10. QED
    BY <2>4, <2>6, <2>9 DEF l
<1>8. QED
  BY <1>6, <1>7

(* A journey that is aborted is reported, and both sides still agree.      *)
LEMMA AbortedTogether ==
  ASSUME NEW s, NEW k, NEW u, NEW q, Together(s, k, u, q)
  PROVE  /\ Together(s, AfterAbort(k), u \o ReportAbort(k), q)
         /\ AfterAbort(k).run = NoRun
         /\ AfterAbort(k).buttons = k.buttons /\ AfterAbort(k).phase = k.phase
<1>1. CASE k.run = NoRun
  <2>1. AfterAbort(k) = k /\ ReportAbort(k) = << >> /\ u \in Seq(UpMessages)
    BY <1>1 DEF AfterAbort, ReportAbort, Together
  <2>2. QED
    BY <1>1, <2>1, Joined
<1>2. CASE k.run # NoRun
  <2>1. AfterAbort(k) = AfterRun(k, FALSE) /\ ReportAbort(k) = Report(k, FALSE)
    BY <1>2 DEF AfterAbort, ReportAbort
  <2>2. QED
    BY <1>2, <2>1, EndedTogether
<1>3. QED
  BY <1>1, <1>2

(* A stop lets go of the checkpoint the browser holds.                     *)
LEMMA LetGo ==
  ASSUME NEW s, NEW k, NEW u, NEW q, Together(s, k, u, q),
         k.run # NoRun \/ ~NoStop(q) \/ StopInUp(u),
         NEW c \in Checkpoints \union {NoCheckpoint}, NEW intro \in BOOLEAN
  PROVE  LET l == [k EXCEPT !.pauseRequested = FALSE, !.paused = c, !.intro = intro]
         IN  /\ Together(s, l, u, q)
             /\ l.run = k.run /\ l.paused = c /\ l.buttons = k.buttons /\ l.phase = k.phase
             /\ l.staged = k.staged /\ l.module = k.module /\ l \in BrowserStates
<1> DEFINE l == [k EXCEPT !.pauseRequested = FALSE, !.paused = c, !.intro = intro]
<1>1. k \in BrowserStates /\ BrowserOK(k)
  BY DEF Together, BrowserOK
<1>2. /\ l \in BrowserStates /\ l.run = k.run /\ l.staged = k.staged /\ l.paused = c
      /\ l.module = k.module /\ l.buttons = k.buttons /\ l.phase = k.phase
  <2>1. /\ l.run = k.run /\ l.staged = k.staged /\ l.paused = c
        /\ l.module = k.module /\ l.buttons = k.buttons /\ l.phase = k.phase
    BY <1>1 DEF BrowserStates
  <2>2. [k EXCEPT !.pauseRequested = FALSE] \in BrowserStates
    BY <1>1 DEF BrowserStates
  <2>3. \A x \in BrowserStates : [x EXCEPT !.paused = c] \in BrowserStates
    BY DEF BrowserStates
  <2>4. \A x \in BrowserStates : [x EXCEPT !.intro = intro] \in BrowserStates
    BY DEF BrowserStates
  <2>5. QED
    BY <2>1, <2>2, <2>3, <2>4
<1> HIDE DEF l
<1>3. Fine(s, l, u, q)
  BY <1>2, TogetherShape, CheckpointFree DEF Together
<1>4. BrowserOK(l)
  BY <1>1, <1>2 DEF BrowserOK
<1>5. QED
  BY <1>2, <1>3, <1>4 DEF Together, l

(* A browser that only adjusts its panel changes nothing the server relies on. *)
LEMMA Adjusted ==
  ASSUME NEW s, NEW k, NEW u, NEW q, Together(s, k, u, q), NEW l \in BrowserStates,
         l.run.cmd = k.run.cmd, l.run.journey = k.run.journey,
         l.run = NoRun <=> k.run = NoRun,
         l.staged = k.staged, l.paused = k.paused, l.module = k.module,
         l.buttons \subseteq k.buttons \union {"stop"},
         l.buttons \subseteq MaximumButtons(l.phase) \union {"stop"}
  PROVE  Together(s, l, u, q)
<1>1. Fine(s, l, u, q)
  BY Withdrawn DEF Together
<1>2. BrowserOK(l)
  BY DEF Together, BrowserOK
<1>3. QED
  BY <1>1, <1>2 DEF Together

(* A step of the browser leaves the server as it is.                       *)
LEMMA Begin ==
  ASSUME IInv
  PROVE  Together(srv, sdk, up, down) /\ sdk \in BrowserStates /\ BrowserOK(sdk)
  BY DEF IInv, Together, BrowserOK

(* A step of the browser keeps the invariant when both sides still agree after it. *)
LEMMA Finish ==
  ASSUME IInv, srv' = srv, Together(srv, sdk', up', down')
  PROVE  IInv'
  BY DEF IInv, Together

(* The visitor talks.                                                      *)
LEMMA SayKeeps == ASSUME IInv, Say PROVE IInv'
<1> DEFINE k == RequestPause(sdk)
           m == [kind |-> "user_turn"]
<1>1. srv' = srv /\ down' = down /\ sdk' = Flushed(k) /\ up' = Append(up, m) \o FlushMessages(k)
  BY DEF Say, Acts
<1>2. Together(srv, k, up, down)
  BY Begin, PauseAsked
<1>3. m \in UpMessages /\ ~IsOutcome(m) /\ ~IsPress(m)
  BY DEF UpMessages, Turn, IsOutcome, IsPress
<1> HIDE DEF k, m
<1>4. Together(srv, k, Append(up, m), down)
  BY <1>2, <1>3, SaidTogether
<1>5. Together(srv, Flushed(k), Append(up, m) \o FlushMessages(k), down)
  BY <1>4, FlushedTogether
<1>6. QED
  BY <1>1, <1>5, Finish

(* The visitor barges in before a word is recognised.                      *)
LEMMA StartVoiceKeeps == ASSUME IInv, NEW granted \in BOOLEAN, StartVoice(granted) PROVE IInv'
<1>1. srv' = srv /\ down' = down /\ up' = up
  BY DEF StartVoice, Acts
<1>2. \/ sdk' = RequestPause(sdk)
      \/ \E pause \in BOOLEAN : sdk' = [RequestPause(sdk) EXCEPT !.pauseRequested = pause]
  <2>1. CASE ~granted
    BY <2>1 DEF StartVoice
  <2>2. CASE granted /\ MayPause(sdk)
    BY <2>2 DEF StartVoice
  <2>3. CASE granted /\ ~MayPause(sdk)
    <3>1. sdk' = [sdk EXCEPT !.pauseRequested = TRUE] /\ RequestPause(sdk) = sdk
      BY <2>3 DEF StartVoice, RequestPause
    <3>2. QED
      BY <3>1
  <2>4. QED
    BY <2>1, <2>2, <2>3
<1>3. Together(srv, sdk', up, down)
  BY <1>2, Begin, PauseAsked
<1>4. QED
  BY <1>1, <1>3, Finish

(* What a message of an abort adds.                                        *)
LEMMA StopStays ==
  ASSUME NEW s, NEW k, NEW u, NEW q, Together(s, k, u, q), StopInUp(u)
  PROVE  StopInUp(u \o ReportAbort(k))
<1>1. ReportAbort(k) \in Seq(UpMessages)
  <2>1. CASE ReportAbort(k) = << >>
    BY <2>1
  <2>2. CASE ReportAbort(k) # << >>
    <3> DEFINE m == ResultMessage(k.run.cmd, FALSE)
    <3>1. k.run # NoRun /\ ReportAbort(k) = <<m>>
      BY <2>2 DEF ReportAbort, Report
    <3>2. k.run.cmd \in Nat \ {0}
      BY <3>1, TogetherShape DEF Runs
    <3>3. m \in UpMessages
      BY <3>2 DEF ResultMessage, UpMessages, Result
    <3> HIDE DEF m
    <3>4. <<m>> \in Seq(UpMessages)
      BY <3>3
    <3>5. QED
      BY <3>1, <3>4
  <2>3. QED
    BY <2>1, <2>2
<1>2. u \in Seq(UpMessages)
  BY DEF Together
<1>3. \A i \in 1..Len(u) : i \in 1..Len(u \o ReportAbort(k)) /\ (u \o ReportAbort(k))[i] = u[i]
  BY <1>1, <1>2
<1>4. QED
  BY <1>3 DEF StopInUp

(* The visitor presses a button.                                           *)
LEMMA PressKeeps == ASSUME IInv, NEW action \in ControlActions, Press(action) PROVE IInv'
<1> DEFINE none == {}
           k == [sdk EXCEPT !.pending = action, !.buttons = none]
           b == AfterAbort(k)
           e == [b EXCEPT !.pauseRequested = FALSE, !.paused = NoCheckpoint, !.intro = FALSE]
           m == [kind |-> "demo_control", action |-> action, seen |-> sdk.module]
<1>1. /\ srv' = srv /\ down' = down /\ action \in sdk.buttons
      /\ action = "stop" => sdk' = e /\ up' = Append(up, m) \o ReportAbort(k)
      /\ action # "stop" => sdk' = k /\ up' = Append(up, m)
  BY DEF Press, Acts
<1>2. none \in SUBSET ControlActions /\ none = {}
  OBVIOUS
<1>3. Together(srv, sdk, up, down) /\ sdk \in BrowserStates /\ BrowserOK(sdk) /\ up \in Seq(UpMessages)
  BY Begin DEF Together
<1>4. m \in UpMessages /\ IsPress(m) /\ m.action = action /\ m.seen = sdk.module /\ ~IsOutcome(m)
  BY <1>3 DEF UpMessages, Pressed, IsPress, IsOutcome, BrowserStates
<1> HIDE DEF none, m
<1>5. /\ k \in BrowserStates /\ k.run = sdk.run /\ k.staged = sdk.staged /\ k.paused = sdk.paused
      /\ k.module = sdk.module /\ k.buttons = none /\ k.phase = sdk.phase
  BY <1>2, <1>3 DEF BrowserStates
<1> HIDE DEF k
<1>6. CASE action # "stop"
  <2>1. Append(up, m) \in Seq(UpMessages) /\ Grown(up, Append(up, m), m)
    BY <1>3, <1>4, Appended
  <2>2. Fine(srv, k, Append(up, m), down)
    BY <1>1, <1>2, <1>3, <1>4, <1>5, <1>6, <2>1, TogetherShape, ButtonPressed DEF Together
  <2>3. BrowserOK(k)
    BY <1>2, <1>3, <1>5 DEF BrowserOK
  <2>4. Together(srv, k, Append(up, m), down)
    BY <1>3, <2>1, <2>2, <2>3 DEF Together
  <2>5. QED
    BY <1>1, <1>6, <2>4, Finish
<1>7. CASE action = "stop"
  <2> DEFINE v == Append(up, m)
  <2>1. Together(srv, k, up, down)
    BY <1>2, <1>3, <1>5, Adjusted
  <2>2. Together(srv, k, v, down)
    BY <1>4, <1>7, <2>1, SaidTogether
  <2>3. StopInUp(v)
    <3>1. Len(v) \in 1..Len(v) /\ v[Len(v)] = m
      BY <1>3, <1>4
    <3>2. QED
      BY <1>4, <1>7, <3>1 DEF StopInUp
  <2> HIDE DEF v
  <2>4. Together(srv, b, v \o ReportAbort(k), down) /\ StopInUp(v \o ReportAbort(k))
    BY <2>2, <2>3, AbortedTogether, StopStays
  <2> HIDE DEF b
  <2>5. Together(srv, e, v \o ReportAbort(k), down)
    <3>1. NoCheckpoint \in Checkpoints \union {NoCheckpoint}
      OBVIOUS
    <3>2. QED
      BY <2>4, <3>1, LetGo
  <2>6. QED
    BY <1>1, <1>7, <2>5, Finish DEF v
<1>8. QED
  BY <1>6, <1>7

(* The page that holds the assistant stops the journey.                    *)
LEMMA HostStopsKeeps == ASSUME IInv, HostStops PROVE IInv'
<1> DEFINE m == [kind |-> "interrupt"]
<1>1. /\ srv' = srv /\ down' = down /\ sdk' = AfterAbort(sdk)
      /\ up' = Append(up, m) \o ReportAbort(sdk)
  BY DEF HostStops, Acts
<1>2. m \in UpMessages /\ ~IsOutcome(m) /\ ~IsPress(m)
  BY DEF UpMessages, Interrupted, IsOutcome, IsPress
<1> HIDE DEF m
<1>3. Together(srv, sdk, Append(up, m), down)
  BY <1>2, Begin, SaidTogether
<1>4. Together(srv, AfterAbort(sdk), Append(up, m) \o ReportAbort(sdk), down)
  BY <1>3, AbortedTogether
<1>5. QED
  BY <1>1, <1>4, Finish

(* Steps, introductions and cues end.                                      *)
LEMMA WorksKeeps == ASSUME IInv, EndIntroduction \/ EndClosingCue \/ BeginStep \/ EndStep \/ FailStep PROVE IInv'
<1>1. Together(srv, sdk, up, down) /\ sdk \in BrowserStates /\ BrowserOK(sdk)
  BY Begin
<1>2. CASE EndIntroduction
  <2>1. srv' = srv /\ down' = down /\ up' = up /\ sdk' = [sdk EXCEPT !.intro = FALSE]
    BY <1>2 DEF EndIntroduction, Browser
  <2>2. /\ sdk' \in BrowserStates /\ sdk'.run = sdk.run /\ sdk'.staged = sdk.staged
        /\ sdk'.paused = sdk.paused /\ sdk'.module = sdk.module /\ sdk'.buttons = sdk.buttons
        /\ sdk'.phase = sdk.phase
    BY <1>1, <2>1 DEF BrowserStates
  <2>3. Together(srv, sdk', up, down)
    BY <1>1, <2>2, Adjusted DEF BrowserOK
  <2>4. QED
    BY <2>1, <2>3, Finish
<1>3. CASE EndClosingCue
  <2>1. srv' = srv /\ down' = down /\ sdk' = Flushed(sdk) /\ up' = up \o FlushMessages(sdk)
    BY <1>3 DEF EndClosingCue, Browser
  <2>2. QED
    BY <1>1, <2>1, FlushedTogether, Finish
<1>4. ASSUME NEW r \in Runs, r.cmd = sdk.run.cmd, r.journey = sdk.run.journey, sdk.run # NoRun,
             srv' = srv, down' = down, up' = up, sdk' = [sdk EXCEPT !.run = r]
      PROVE  IInv'
  <2>1. /\ sdk' \in BrowserStates /\ sdk'.run = r /\ sdk'.staged = sdk.staged
        /\ sdk'.paused = sdk.paused /\ sdk'.module = sdk.module /\ sdk'.buttons = sdk.buttons
        /\ sdk'.phase = sdk.phase
    BY <1>1, <1>4 DEF BrowserStates
  <2>2. r # NoRun
    BY DEF Runs, NoRun
  <2>3. Together(srv, sdk', up, down)
    BY <1>1, <1>4, <2>1, <2>2, Adjusted DEF BrowserOK
  <2>4. QED
    BY <1>4, <2>3, Finish
<1>5. CASE BeginStep
  <2> DEFINE r == [sdk.run EXCEPT !.inStep = TRUE]
  <2>1. srv' = srv /\ down' = down /\ up' = up /\ sdk.run # NoRun /\ sdk' = [sdk EXCEPT !.run.inStep = TRUE]
    BY <1>5 DEF BeginStep, Browser, AtBoundary
  <2>2. sdk.run \in Runs
    BY <1>1, <2>1 DEF BrowserStates
  <2>3. r \in Runs /\ r.cmd = sdk.run.cmd /\ r.journey = sdk.run.journey
    BY <2>2 DEF Runs
  <2>4. sdk' = [sdk EXCEPT !.run = r]
    BY <1>1, <2>1 DEF BrowserStates
  <2> HIDE DEF r
  <2>5. QED
    BY <1>4, <2>1, <2>3, <2>4
<1>6. CASE EndStep
  <2>1. srv' = srv /\ down' = down /\ sdk.run.inStep
    BY <1>6 DEF EndStep, Browser
  <2>2. sdk.run # NoRun /\ sdk.run \in Runs
    BY <1>1, <2>1 DEF NoRun, BrowserStates
  <2>3. CASE sdk.run.next < LastStep
    <3> DEFINE n == sdk.run.next + 1
               r == [sdk.run EXCEPT !.next = n, !.inStep = FALSE]
    <3>1. up' = up /\ sdk' = [sdk EXCEPT !.run.next = @ + 1, !.run.inStep = FALSE]
      BY <1>6, <2>3 DEF EndStep
    <3>2. n \in Steps
      <4>1. sdk.run.next \in Steps
        BY <2>2 DEF Runs
      <4>2. QED
        BY <2>3, <4>1, DemoAssumption
    <3> HIDE DEF n
    <3>3. r \in Runs /\ r.cmd = sdk.run.cmd /\ r.journey = sdk.run.journey
      BY <2>2, <3>2 DEF Runs
    <3>4. sdk' = [sdk EXCEPT !.run = r]
      BY <1>1, <2>2, <3>1 DEF BrowserStates, Runs, n
    <3> HIDE DEF r
    <3>5. QED
      BY <1>4, <2>1, <2>2, <3>1, <3>3, <3>4
  <2>4. CASE ~(sdk.run.next < LastStep)
    <3>1. sdk' = AfterRun(sdk, TRUE) /\ up' = up \o Report(sdk, TRUE)
      BY <1>6, <2>4 DEF EndStep
    <3>2. QED
      BY <1>1, <2>1, <2>2, <3>1, EndedTogether, Finish
  <2>5. QED
    BY <2>3, <2>4
<1>7. CASE FailStep
  <2>1. /\ srv' = srv /\ down' = down /\ sdk.run.inStep
        /\ sdk' = AfterRun(sdk, FALSE) /\ up' = up \o Report(sdk, FALSE)
    BY <1>7 DEF FailStep, Browser
  <2>2. sdk.run # NoRun
    BY <2>1 DEF NoRun
  <2>3. QED
    BY <1>1, <2>1, <2>2, EndedTogether, Finish
<1>8. QED
  BY <1>2, <1>3, <1>5, <1>6, <1>7

(* The journey pauses between two steps and reports its checkpoint.        *)
LEMMA PauseAtBoundaryKeeps == ASSUME IInv, PauseAtBoundary PROVE IInv'
<1> DEFINE c == [journey |-> sdk.run.journey, next |-> sdk.run.next]
           none == NoRun
           stop == {"stop"}
           h == [sdk EXCEPT !.pauseRequested = FALSE, !.paused = c, !.intro = sdk.intro]
           k == [sdk EXCEPT !.pauseRequested = FALSE, !.paused = c, !.run = none]
           l == [k EXCEPT !.phase = "paused", !.buttons = stop]
           m == [kind |-> "paused", cmd |-> sdk.run.cmd, next |-> sdk.run.next]
<1>1. /\ srv' = srv /\ down' = down /\ sdk.run # NoRun /\ up' = Append(up, m)
      /\ sdk' \in {k, l}
  BY DEF PauseAtBoundary, Browser, AtBoundary
<1>2. Together(srv, sdk, up, down) /\ sdk \in BrowserStates /\ BrowserOK(sdk) /\ up \in Seq(UpMessages)
  BY Begin DEF Together
<1>3. /\ sdk.run \in Runs /\ sdk.run.cmd \in Nat \ {0} /\ sdk.run.journey \in Journeys
      /\ sdk.run.next \in Steps
  BY <1>1, <1>2 DEF BrowserStates, Runs
<1>4. c \in Checkpoints /\ sdk.intro \in BOOLEAN
  BY <1>2, <1>3 DEF Checkpoints, BrowserStates
<1>5. m \in UpMessages /\ IsOutcome(m) /\ m.cmd = sdk.run.cmd /\ c = [journey |-> sdk.run.journey, next |-> m.next]
  BY <1>3 DEF UpMessages, Paused, IsOutcome
<1>6. none \in Runs \union {NoRun} /\ stop \in SUBSET ControlActions /\ stop = {"stop"}
  BY DEF ControlActions
<1> HIDE DEF c, m, none, stop
<1>7. /\ Together(srv, h, up, down) /\ h.run = sdk.run /\ h.paused = c /\ h.buttons = sdk.buttons
      /\ h.phase = sdk.phase /\ h.staged = sdk.staged /\ h.module = sdk.module
  <2>1. /\ h \in BrowserStates /\ h.run = sdk.run /\ h.paused = c /\ h.buttons = sdk.buttons
        /\ h.phase = sdk.phase /\ h.staged = sdk.staged /\ h.module = sdk.module
    BY <1>2, <1>4 DEF BrowserStates
  <2> HIDE DEF h
  <2>2. Fine(srv, h, up, down)
    BY <1>1, <1>2, <2>1, TogetherShape, CheckpointFree DEF Together
  <2>3. BrowserOK(h)
    BY <1>2, <2>1 DEF BrowserOK
  <2>4. QED
    BY <1>2, <2>1, <2>2, <2>3 DEF Together
<1>8. /\ k \in BrowserStates /\ k.run = none /\ k.staged = sdk.staged /\ k.paused = c
      /\ k.module = sdk.module /\ k.buttons = sdk.buttons /\ k.phase = sdk.phase
  BY <1>2, <1>4, <1>6 DEF BrowserStates
<1> HIDE DEF h, k
<1>9. k.run = NoRun
  BY <1>8 DEF none
<1>10. Append(up, m) \in Seq(UpMessages) /\ Grown(up, Append(up, m), m)
  BY <1>2, <1>5, Appended
<1>11. Fine(srv, k, Append(up, m), down)
  BY <1>1, <1>3, <1>5, <1>7, <1>8, <1>9, <1>10, TogetherShape, Reported DEF Together
<1>12. Together(srv, k, Append(up, m), down)
  <2>1. BrowserOK(k)
    BY <1>2, <1>8 DEF BrowserOK
  <2>2. QED
    BY <1>2, <1>10, <1>11, <2>1 DEF Together
<1>13. Together(srv, l, Append(up, m), down)
  <2>1. /\ l \in BrowserStates /\ l.run = k.run /\ l.staged = k.staged /\ l.paused = k.paused
        /\ l.module = k.module /\ l.buttons = stop
    BY <1>6, <1>8 DEF BrowserStates
  <2> HIDE DEF l
  <2>2. QED
    BY <1>6, <1>12, <2>1, Adjusted
<1>14. QED
  BY <1>1, <1>12, <1>13, Finish

(* The browser answers a request for an observation.                       *)
LEMMA ObserveKeeps == ASSUME IInv, Observe PROVE IInv'
<1>1. PICK cmd \in sdk.asked : /\ sdk' = [sdk EXCEPT !.asked = @ \ {cmd}]
                               /\ up' = Append(up, [kind |-> "observation", cmd |-> cmd])
  BY DEF Observe
<1> DEFINE m == [kind |-> "observation", cmd |-> cmd]
<1>2. srv' = srv /\ down' = down
  BY DEF Observe, Browser
<1>3. Together(srv, sdk, up, down) /\ sdk \in BrowserStates /\ BrowserOK(sdk)
  BY Begin
<1>4. cmd \in Nat
  BY <1>3 DEF BrowserStates
<1>5. m \in UpMessages /\ ~IsOutcome(m) /\ ~IsPress(m)
  BY <1>4 DEF UpMessages, Observed, IsOutcome, IsPress
<1>6. /\ sdk' \in BrowserStates /\ sdk'.run = sdk.run /\ sdk'.staged = sdk.staged
      /\ sdk'.paused = sdk.paused /\ sdk'.module = sdk.module /\ sdk'.buttons = sdk.buttons
      /\ sdk'.phase = sdk.phase
  <2> DEFINE rest == sdk.asked \ {cmd}
  <2>1. rest \in SUBSET Nat /\ sdk' = [sdk EXCEPT !.asked = rest]
    BY <1>1, <1>3 DEF BrowserStates
  <2> HIDE DEF rest
  <2>2. QED
    BY <1>3, <2>1 DEF BrowserStates
<1> HIDE DEF m
<1>7. Together(srv, sdk', up, down)
  BY <1>3, <1>6, Adjusted DEF BrowserOK
<1>8. Together(srv, sdk', Append(up, m), down)
  BY <1>5, <1>7, SaidTogether
<1>9. QED
  BY <1>1, <1>2, <1>8, Finish DEF m

-----------------------------------------------------------------------------
(* The browser takes commands.                                             *)
LEMMA TakeFacts ==
  ASSUME IInv, NEW kind, Take(kind)
  PROVE  /\ srv' = srv /\ down' = Tail(down) /\ down # << >> /\ Head(down).kind = kind
         /\ Tail(down) \in Seq(DownMessages) /\ Shrunk(down, Tail(down))
         /\ Head(down) = down[1] /\ Head(down) \in DownMessages
         /\ Together(srv, sdk, up, down) /\ sdk \in BrowserStates /\ BrowserOK(sdk)
<1>1. Together(srv, sdk, up, down) /\ sdk \in BrowserStates /\ BrowserOK(sdk) /\ down \in Seq(DownMessages)
  BY Begin DEF Together
<1>2. QED
  BY <1>1, Removed DEF Take

(* It takes one that is neither a state nor an order to run.               *)
LEMMA NeutralTaken ==
  ASSUME NEW s, NEW k, NEW u, NEW q, Together(s, k, u, q), q # << >>,
         Tail(q) \in Seq(DownMessages), Shrunk(q, Tail(q)), ~IsState(q[1]), ~IsRun(q[1]),
         IsStop(q[1]) => k.run = NoRun
  PROVE  Together(s, k, u, Tail(q))
<1>1. /\ Commands(s, k, u, Tail(q)) /\ WaitsExactly(s, k, u, Tail(q))
      /\ ResumesExactly(s, k, u, Tail(q)) /\ ReportsExactly(s, k, u)
  BY TogetherShape, CommandTaken DEF Together
<1>2. OffersCurrent(s.demo, k, u, Tail(q)) /\ Panel(s, k, u, Tail(q))
  BY TogetherShape, PanelTaken DEF Together
<1>3. QED
  BY <1>1, <1>2 DEF Together, Fine

(* The browser takes a state of the demo.                                  *)
LEMMA TakeStateKeeps == ASSUME IInv, TakeState PROVE IInv'
<1> DEFINE c == Head(down)
           enters == c.phase = "playing" /\ c.module # NoModule
                     /\ (sdk.phase # "playing" \/ sdk.module # c.module)
           i == (sdk.intro \/ enters) /\ c.phase \notin {"stopped", "completed"}
           l == [sdk EXCEPT !.phase = c.phase, !.module = c.module, !.buttons = c.buttons,
                            !.pending = "none", !.intro = i]
<1>1. /\ srv' = srv /\ down' = Tail(down) /\ down # << >> /\ c.kind = "demo_state"
      /\ Tail(down) \in Seq(DownMessages) /\ Shrunk(down, Tail(down))
      /\ c = down[1] /\ c \in DownMessages
      /\ Together(srv, sdk, up, down) /\ sdk \in BrowserStates /\ BrowserOK(sdk)
  BY TakeFacts DEF TakeState
<1>2. /\ c.buttons \subseteq MaximumButtons(c.phase) /\ c.phase \in Phases
      /\ c.module \in Modules \union {NoModule} /\ c.buttons \in SUBSET ControlActions
  BY <1>1 DEF DownMessages, State, Stopping, Pausing, Running, Requesting
<1>3. up' = up /\ sdk' = l
  <2>1. l = [sdk EXCEPT !.phase = c.phase, !.module = c.module,
                        !.buttons = c.buttons, !.pending = "none",
                        !.intro = (@ \/ enters) /\ c.phase \notin {"stopped", "completed"}]
    BY <1>1 DEF BrowserStates
  <2>2. QED
    BY <1>2, <2>1 DEF TakeState
<1>4. i \in BOOLEAN
  OBVIOUS
<1> HIDE DEF c, i
<1>5. /\ l \in BrowserStates /\ l.run = sdk.run /\ l.staged = sdk.staged /\ l.paused = sdk.paused
      /\ l.module = c.module /\ l.buttons = c.buttons /\ l.phase = c.phase
  BY <1>1, <1>2, <1>4 DEF BrowserStates
<1> HIDE DEF l
<1>6. IsState(down[1])
  BY <1>1 DEF IsState
<1>7. Fine(srv, l, up, Tail(down))
  BY <1>1, <1>5, <1>6, TogetherShape, StateTaken DEF Together
<1>8. BrowserOK(l)
  BY <1>1, <1>2, <1>5 DEF BrowserOK
<1>9. Together(srv, l, up, Tail(down))
  BY <1>1, <1>7, <1>8 DEF Together
<1>10. QED
  BY <1>1, <1>3, <1>9, Finish

(* The browser takes an order to pause.                                    *)
LEMMA TakePauseKeeps == ASSUME IInv, TakePause PROVE IInv'
<1>1. /\ srv' = srv /\ down' = Tail(down) /\ down # << >> /\ Head(down).kind = "pause_journey"
      /\ Tail(down) \in Seq(DownMessages) /\ Shrunk(down, Tail(down))
      /\ Head(down) = down[1]
      /\ Together(srv, sdk, up, down) /\ sdk \in BrowserStates
  BY TakeFacts DEF TakePause
<1>2. ~IsState(down[1]) /\ ~IsRun(down[1]) /\ ~IsStop(down[1])
  BY <1>1 DEF IsState, IsRun, IsStop
<1>3. Together(srv, sdk, up, Tail(down))
  BY <1>1, <1>2, NeutralTaken
<1>4. up' = up
  BY DEF TakePause
<1>5. \/ sdk' = sdk \/ sdk' = RequestPause(sdk)
      \/ \E pause \in BOOLEAN : sdk' = [RequestPause(sdk) EXCEPT !.pauseRequested = pause]
  <2>1. CASE sdk.run = NoRun \/ sdk.run.journey # Head(down).journey
    BY <2>1 DEF TakePause
  <2>2. CASE ~(sdk.run = NoRun \/ sdk.run.journey # Head(down).journey) /\ MayPause(sdk)
    BY <2>2 DEF TakePause
  <2>3. CASE ~(sdk.run = NoRun \/ sdk.run.journey # Head(down).journey) /\ ~MayPause(sdk)
    <3>1. sdk' = [sdk EXCEPT !.pauseRequested = TRUE] /\ RequestPause(sdk) = sdk
      BY <2>3 DEF TakePause, RequestPause
    <3>2. QED
      BY <3>1
  <2>4. QED
    BY <2>1, <2>2, <2>3
<1>6. Together(srv, sdk', up, Tail(down))
  BY <1>3, <1>5, PauseAsked
<1>7. QED
  BY <1>1, <1>4, <1>6, Finish

(* The browser takes a request for an observation.                         *)
LEMMA TakeRequestKeeps == ASSUME IInv, TakeRequest PROVE IInv'
<1> DEFINE asked == sdk.asked \union {Head(down).cmd}
<1>1. /\ srv' = srv /\ down' = Tail(down) /\ down # << >> /\ Head(down).kind = "request_observation"
      /\ Tail(down) \in Seq(DownMessages) /\ Shrunk(down, Tail(down))
      /\ Head(down) = down[1] /\ Head(down) \in DownMessages
      /\ Together(srv, sdk, up, down) /\ sdk \in BrowserStates
  BY TakeFacts DEF TakeRequest
<1>2. ~IsState(down[1]) /\ ~IsRun(down[1]) /\ ~IsStop(down[1])
  BY <1>1 DEF IsState, IsRun, IsStop
<1>3. Together(srv, sdk, up, Tail(down))
  BY <1>1, <1>2, NeutralTaken
<1>4. asked \in SUBSET Nat
  <2>1. Head(down).cmd \in Nat
    BY <1>1, DownFields
  <2>2. QED
    BY <1>1, <2>1 DEF BrowserStates
<1>5. up' = up /\ sdk' = [sdk EXCEPT !.asked = asked]
  BY <1>1 DEF TakeRequest, BrowserStates
<1> HIDE DEF asked
<1>6. /\ sdk' \in BrowserStates /\ sdk'.run = sdk.run /\ sdk'.staged = sdk.staged
      /\ sdk'.paused = sdk.paused /\ sdk'.module = sdk.module /\ sdk'.buttons = sdk.buttons
      /\ sdk'.phase = sdk.phase
  BY <1>1, <1>4, <1>5 DEF BrowserStates
<1>7. Together(srv, sdk', up, Tail(down))
  BY <1>3, <1>6, Adjusted DEF Together, BrowserOK
<1>8. QED
  BY <1>1, <1>5, <1>7, Finish

(* The browser takes an order to stop.                                     *)
LEMMA TakeStopKeeps == ASSUME IInv, TakeStop PROVE IInv'
<1> DEFINE b == AfterAbort(sdk)
           v == up \o ReportAbort(sdk)
<1>1. /\ srv' = srv /\ down' = Tail(down) /\ down # << >> /\ Head(down).kind = "stop_journey"
      /\ Tail(down) \in Seq(DownMessages) /\ Shrunk(down, Tail(down))
      /\ Head(down) = down[1] /\ Together(srv, sdk, up, down)
  BY TakeFacts DEF TakeStop
<1>2. IsStop(down[1]) /\ ~IsState(down[1]) /\ ~IsRun(down[1]) /\ ~NoStop(down)
  <2>1. 1 \in 1..Len(down)
    BY <1>1 DEF Together
  <2>2. QED
    BY <1>1, <2>1 DEF IsState, IsRun, IsStop, NoStop
<1>3. up' = v /\ sdk' = [b EXCEPT !.pauseRequested = FALSE, !.paused = NoCheckpoint]
  BY DEF TakeStop
<1>4. Together(srv, b, v, down) /\ b.run = NoRun
  BY <1>1, AbortedTogether
<1> HIDE DEF b, v
<1>5. b \in BrowserStates /\ BrowserOK(b)
  BY <1>4 DEF Together, BrowserOK
<1>6. /\ sdk' \in BrowserStates /\ sdk'.run = b.run /\ sdk'.staged = b.staged
      /\ sdk'.module = b.module /\ sdk'.buttons = b.buttons /\ sdk'.phase = b.phase
  BY <1>3, <1>5 DEF BrowserStates
<1>7. Fine(srv, sdk', v, down)
  BY <1>2, <1>4, <1>6, TogetherShape, CheckpointFree DEF Together
<1>8. BrowserOK(sdk')
  BY <1>5, <1>6 DEF BrowserOK
<1>9. Together(srv, sdk', v, down)
  BY <1>4, <1>7, <1>8 DEF Together
<1>10. Together(srv, sdk', v, Tail(down))
  BY <1>1, <1>2, <1>4, <1>6, <1>9, NeutralTaken
<1>11. QED
  BY <1>1, <1>3, <1>10, Finish

(* An order that is refused counts as one that ran and failed at once.     *)
LEMMA TakeRunKeeps == ASSUME IInv, TakeRun PROVE IInv'
<1> DEFINE c == Head(down)
           r == [cmd |-> c.cmd, module |-> sdk.module, journey |-> c.journey,
                 next |-> IF c.resume = 0 THEN 1 ELSE c.resume, inStep |-> FALSE]
           k == [sdk EXCEPT !.run = r]
<1>1. /\ srv' = srv /\ down' = Tail(down) /\ down # << >> /\ c.kind = "run_journey"
      /\ Tail(down) \in Seq(DownMessages) /\ Shrunk(down, Tail(down))
      /\ c = down[1] /\ c \in DownMessages
      /\ Together(srv, sdk, up, down) /\ sdk \in BrowserStates /\ BrowserOK(sdk) /\ up \in Seq(UpMessages)
  BY TakeFacts DEF TakeRun, Together
<1>2. IsRun(down[1]) /\ c.cmd \in Nat \ {0} /\ c.journey \in Journeys /\ c.resume \in Steps \union {0}
  BY <1>1, DownFields DEF IsRun
<1>3. r \in Runs /\ r # NoRun /\ r.cmd = c.cmd /\ r.journey = c.journey
  <2>1. 1 \in Steps
    BY DemoAssumption
  <2>2. sdk.module \in Modules \union {NoModule}
    BY <1>1 DEF BrowserStates
  <2>3. QED
    BY <1>2, <2>1, <2>2 DEF Runs, NoRun
<1>4. \/ sdk' = [sdk EXCEPT !.paused = NoCheckpoint, !.pauseRequested = FALSE, !.run = r] /\ up' = up
      \/ sdk' = sdk /\ up' = Append(up, ResultMessage(c.cmd, FALSE))
  BY DEF TakeRun
<1> HIDE DEF c, r
<1>5. /\ k \in BrowserStates /\ k.run = r /\ k.staged = sdk.staged /\ k.paused = sdk.paused
      /\ k.module = sdk.module /\ k.buttons = sdk.buttons /\ k.phase = sdk.phase
  BY <1>1, <1>3 DEF BrowserStates
<1> HIDE DEF k
<1>6. sdk.run = NoRun /\ Fine(srv, k, up, Tail(down))
  BY <1>1, <1>2, <1>3, <1>5, TogetherShape, OrderTaken DEF Together
<1>7. Together(srv, k, up, Tail(down))
  BY <1>1, <1>5, <1>6 DEF Together, BrowserOK
<1>8. CASE sdk' = [sdk EXCEPT !.paused = NoCheckpoint, !.pauseRequested = FALSE, !.run = r] /\ up' = up
  <2>1. /\ sdk' \in BrowserStates /\ sdk'.run = r /\ sdk'.staged = sdk.staged
        /\ sdk'.module = sdk.module /\ sdk'.buttons = sdk.buttons /\ sdk'.phase = sdk.phase
    BY <1>1, <1>3, <1>8 DEF BrowserStates
  <2>2. Fine(srv, sdk', up, Tail(down))
    BY <1>3, <1>5, <1>7, <2>1, TogetherShape, CheckpointFree DEF Together
  <2>3. BrowserOK(sdk')
    BY <1>1, <2>1 DEF BrowserOK
  <2>4. Together(srv, sdk', up, Tail(down))
    BY <1>7, <2>2, <2>3 DEF Together
  <2>5. QED
    BY <1>1, <1>8, <2>4, Finish
<1>9. CASE sdk' = sdk /\ up' = Append(up, ResultMessage(c.cmd, FALSE))
  <2> DEFINE m == ResultMessage(c.cmd, FALSE)
  <2>1. m \in UpMessages /\ IsOutcome(m) /\ m.kind # "paused" /\ m.cmd = c.cmd
    BY <1>2 DEF ResultMessage, UpMessages, Result, IsOutcome
  <2> HIDE DEF m
  <2>2. Append(up, m) \in Seq(UpMessages) /\ Grown(up, Append(up, m), m)
    BY <1>1, <2>1, Appended
  <2>3. Fine(srv, sdk, Append(up, m), Tail(down))
    BY <1>2, <1>3, <1>5, <1>6, <1>7, <2>1, <2>2, TogetherShape, Reported DEF Together
  <2>4. Together(srv, sdk, Append(up, m), Tail(down))
    BY <1>1, <2>2, <2>3 DEF Together
  <2>5. QED
    BY <1>1, <1>9, <2>4, Finish DEF m
<1>10. QED
  BY <1>4, <1>8, <1>9

-----------------------------------------------------------------------------
(* The handlers as steps: what the handler has sent goes onto the socket.  *)
LEMMA Replying ==
  ASSUME IInv, NEW z, AtRest(z, sdk, up', down), sdk' = sdk, Reply(z)
  PROVE  IInv'
<1> DEFINE t == [z EXCEPT !.out = << >>]
           p == down \o z.out
<1>1. AtRest(t, sdk, up', p) /\ t.out = << >>
  BY Replied
<1>2. srv' = t /\ down' = p
  BY DEF Reply
<1> HIDE DEF t, p
<1>3. AtRest(srv', sdk', up', down') /\ srv'.out = << >>
  BY <1>1, <1>2
<1>4. down' \in Seq(DownMessages) => down' \o << >> = down'
  OBVIOUS
<1>5. QED
  BY <1>3, <1>4 DEF IInv, AtRest, Amid

(* Every handler begins with the message it takes from the socket.         *)
LEMMA Received ==
  ASSUME IInv, NEW kind, Receive(kind)
  PROVE  /\ AtRest(srv, sdk, up, down) /\ up # << >> /\ Head(up).kind = kind
         /\ up' = Tail(up) /\ sdk' = sdk /\ Head(up) \in UpMessages
<1>1. AtRest(srv, sdk, up, down) /\ up \in Seq(UpMessages)
  BY Resting DEF IInv
<1>2. QED
  BY <1>1, Removed DEF Receive

(* The outcomes of the planner and the responder are typed.                *)
LEMMA Choices == Outcomes \subseteq Plans \union {NoInterruption} /\ Answers \subseteq BOOLEAN
  BY DEF Outcomes, Answers

(* The server handles a button.                                            *)
LEMMA OnControlKeeps == ASSUME IInv, OnControl PROVE IInv'
<1>1. /\ AtRest(srv, sdk, up, down) /\ up # << >> /\ Head(up).kind = "demo_control"
      /\ up' = Tail(up) /\ sdk' = sdk /\ Head(up) \in UpMessages
  BY Received DEF OnControl
<1>2. IsPress(Head(up)) /\ Head(up).action \in ControlActions
  BY <1>1, UpFields DEF IsPress
<1>3. AtRest(HandleControl(srv, Head(up).action), sdk, up', down)
  BY <1>1, <1>2, ControlHandled
<1>4. QED
  BY <1>1, <1>3, Replying DEF OnControl

(* The server handles an answer of the intake.                             *)
LEMMA OnIntakeTurnKeeps == ASSUME IInv, OnIntakeTurn PROVE IInv'
<1>1. /\ AtRest(srv, sdk, up, down) /\ up # << >> /\ Head(up).kind = "user_turn"
      /\ up' = Tail(up) /\ sdk' = sdk
  BY Received DEF OnIntakeTurn
<1>2. AtRest(srv, sdk, up', down)
  BY <1>1, PlainTaken
<1>3. PICK asks \in BOOLEAN, persona \in Personas \union {NoPersona} :
        Reply(HandleIntakeTurn(srv, asks, persona))
  BY DEF OnIntakeTurn
<1>4. AtRest(HandleIntakeTurn(srv, asks, persona), sdk, up', down)
  BY <1>2, IntakeHandled DEF OnIntakeTurn
<1>5. QED
  BY <1>1, <1>3, <1>4, Replying

(* The server handles what the visitor said.                               *)
LEMMA OnTurnKeeps == ASSUME IInv, OnTurn PROVE IInv'
<1>1. /\ AtRest(srv, sdk, up, down) /\ up # << >> /\ Head(up).kind = "user_turn"
      /\ up' = Tail(up) /\ sdk' = sdk
  BY Received DEF OnTurn
<1>2. AtRest(srv, sdk, up', down)
  BY <1>1, PlainTaken
<1>3. PICK continues \in BOOLEAN, outcome \in Outcomes, answered \in Answers :
        Reply(HandleTurn(srv, continues, outcome, answered))
  BY DEF OnTurn
<1>4. outcome \in Plans \union {NoInterruption} /\ answered \in BOOLEAN
  BY Choices
<1>5. AtRest(HandleTurn(srv, continues, outcome, answered), sdk, up', down)
  BY <1>2, <1>4, TurnHandled
<1>6. QED
  BY <1>1, <1>3, <1>5, Replying

(* The server handles the report of a pause.                               *)
LEMMA OnPausedKeeps == ASSUME IInv, OnPaused PROVE IInv'
<1>1. /\ AtRest(srv, sdk, up, down) /\ up # << >> /\ Head(up).kind = "paused"
      /\ up' = Tail(up) /\ sdk' = sdk /\ Head(up) \in UpMessages
  BY Received DEF OnPaused
<1>2. Head(up).cmd \in Nat \ {0} /\ Head(up).next \in Steps
  BY <1>1, UpFields
<1>3. PICK outcome \in Outcomes, answered \in Answers :
        Reply(HandlePaused(srv, Head(up), outcome, answered))
  BY DEF OnPaused
<1>4. outcome \in Plans \union {NoInterruption} /\ answered \in BOOLEAN
  BY Choices
<1>5. AtRest(HandlePaused(srv, Head(up), outcome, answered), sdk, up', down)
  BY <1>1, <1>2, <1>4, PausedHandled
<1>6. QED
  BY <1>1, <1>3, <1>5, Replying

(* The server handles the result of a journey.                             *)
LEMMA OnResultKeeps == ASSUME IInv, OnResult PROVE IInv'
<1>1. /\ AtRest(srv, sdk, up, down) /\ up # << >> /\ Head(up).kind = "journey_result"
      /\ up' = Tail(up) /\ sdk' = sdk /\ Head(up) \in UpMessages
  BY Received DEF OnResult
<1>2. Head(up).cmd \in Nat \ {0} /\ Head(up).ok \in BOOLEAN
  BY <1>1, UpFields DEF IsOutcome
<1>3. PICK outcome \in Outcomes, answered \in Answers :
        Reply(HandleResult(srv, Head(up), outcome, answered))
  BY DEF OnResult
<1>4. outcome \in Plans \union {NoInterruption} /\ answered \in BOOLEAN
  BY Choices
<1>5. AtRest(HandleResult(srv, Head(up), outcome, answered), sdk, up', down)
  BY <1>1, <1>2, <1>4, ResultHandled
<1>6. QED
  BY <1>1, <1>3, <1>5, Replying

(* The server handles an observation.                                      *)
LEMMA OnObservationKeeps == ASSUME IInv, OnObservation PROVE IInv'
<1>1. /\ AtRest(srv, sdk, up, down) /\ up # << >> /\ Head(up).kind = "observation"
      /\ up' = Tail(up) /\ sdk' = sdk
  BY Received DEF OnObservation
<1>2. AtRest(srv, sdk, up', down)
  BY <1>1, PlainTaken
<1>3. PICK answered \in Answers : Reply(HandleObservation(srv, Head(up), answered))
  BY DEF OnObservation
<1>4. AtRest(HandleObservation(srv, Head(up), answered), sdk, up', down)
  BY <1>2, Choices, ObservationHandled
<1>5. QED
  BY <1>1, <1>3, <1>4, Replying

(* The server handles a barge-in.                                          *)
LEMMA OnInterruptKeeps == ASSUME IInv, OnInterrupt PROVE IInv'
<1>1. /\ AtRest(srv, sdk, up, down) /\ up # << >> /\ Head(up).kind = "interrupt"
      /\ up' = Tail(up) /\ sdk' = sdk
  BY Received DEF OnInterrupt
<1>2. AtRest(HandleInterrupt(srv), sdk, up', down)
  BY <1>1, InterruptHandled
<1>3. QED
  BY <1>1, <1>2, Replying DEF OnInterrupt

(* The timers of the server fire.                                          *)
LEMMA TimersKeep == ASSUME IInv, ServerTimers PROVE IInv'
<1>1. AtRest(srv, sdk, up, down) /\ up' = up /\ sdk' = sdk
  BY Resting DEF ServerTimers, ClosingTimer, ObservationTimeout, LateAnswer, Timer
<1>2. CASE ClosingTimer
  <2>1. AtRest(Closed(srv), sdk, up', down)
    BY <1>1, ClosingFired
  <2>2. Reply(Closed(srv))
    BY <1>2 DEF ClosingTimer, Closed
  <2>3. QED
    BY <1>1, <2>1, <2>2, Replying
<1>3. CASE ObservationTimeout
  <2> DEFINE z == [srv EXCEPT !.observing = 0, !.late = TRUE]
  <2>1. AtRest(z, sdk, up', down)
    BY <1>1, <1>3, TimedOut DEF ObservationTimeout
  <2>2. Reply(z)
    BY <1>3 DEF ObservationTimeout
  <2> HIDE DEF z
  <2>3. QED
    BY <1>1, <2>1, <2>2, Replying
<1>4. CASE LateAnswer
  <2> DEFINE z == ApplyDirective([srv EXCEPT !.late = FALSE],
                                 [srv.interruption EXCEPT !.directive = "remain_paused"])
  <2>1. AtRest(z, sdk, up', down)
    BY <1>1, <1>4, LateAnswered DEF LateAnswer
  <2>2. Reply(z)
    BY <1>4 DEF LateAnswer
  <2> HIDE DEF z
  <2>3. QED
    BY <1>1, <2>1, <2>2, Replying
<1>5. QED
  BY <1>2, <1>3, <1>4 DEF ServerTimers

-----------------------------------------------------------------------------
(* The invariant.                                                          *)
LEMMA InitHolds == Init => IInv
<1> SUFFICES ASSUME Init PROVE IInv
  OBVIOUS
<1> DEFINE m == StateCommand(Idle)
<1>1. m \in DownMessages /\ IsState(m)
  BY IdleSound, StateTyped DEF Sound
<1>2. m.buttons = Buttons(Idle) /\ m.module = NoModule
  BY DEF StateCommand, Idle
<1> HIDE DEF m
<1>3. srv = InitServer /\ sdk = InitSdk /\ up = << >> /\ down = <<m>>
  BY DEF Init, m
<1>4. /\ Len(up) = 0 /\ Len(down) = 1 /\ down[1] = m
      /\ up \in Seq(UpMessages) /\ down \in Seq(DownMessages)
  <2>1. <<m>> \in Seq(DownMessages) /\ Len(<<m>>) = 1 /\ <<m>>[1] = m
    BY <1>1
  <2>2. << >> \in Seq(UpMessages) /\ Len(<< >>) = 0
    OBVIOUS
  <2>3. QED
    BY <1>3, <2>1, <2>2
<1>5. /\ \A i \in 1..Len(up) : FALSE
      /\ \A i \in 1..Len(down) : i = 1 /\ down[i] = m /\ IsState(down[i]) /\ ~IsRun(down[i]) /\ ~IsStop(down[i])
      /\ ~IsRun(m) /\ ~IsStop(m)
  BY <1>1, <1>4, Kinds
<1>6. /\ srv.demo = Idle /\ srv.journey = NoJourney /\ ~Active(srv) /\ ~srv.journey.paused
      /\ srv.journey.cmd = 0 /\ srv.issued = 0 /\ srv.out = << >> /\ srv.late = FALSE
      /\ srv.observing = 0
  BY <1>3 DEF InitServer, Active, NoJourney
<1>7. /\ sdk.run = NoRun /\ sdk.run.cmd = 0 /\ sdk.staged.cmd = 0 /\ sdk.buttons = {}
      /\ sdk.staged = NoResult
  BY <1>3 DEF InitSdk, NoRun, NoResult
<1>8. Idle.phase = "idle" /\ Idle.checkpoint = NoCheckpoint /\ Idle.module = NoModule
  BY DEF Idle
<1>9. ServerTyped(srv)
  <2>1. srv.demo \in DemoState /\ Sound(srv.demo)
    BY <1>6, IdleSound DEF Sound
  <2>2. InitServer \in Server
    <3>1. << >> \in Seq(DownMessages)
      OBVIOUS
    <3>2. NoJourney \in [cmd : Nat, module : Modules \union {NoModule}, paused : BOOLEAN]
      BY DEF NoJourney
    <3>3. Idle \in DemoState
      BY IdleSound DEF Sound
    <3> DEFINE none == << >>
    <3>4. InitServer = [demo |-> Idle, journey |-> NoJourney, interruption |-> NoInterruption,
                        observing |-> 0, late |-> FALSE, timer |-> FALSE, issued |-> 0, out |-> none]
      BY DEF InitServer
    <3> HIDE DEF none
    <3>5. none \in Seq(DownMessages)
      BY <3>1 DEF none
    <3>6. QED
      BY <3>2, <3>3, <3>4, <3>5 DEF Server
  <2>3. QED
    BY <1>3, <1>6, <2>1, <2>2 DEF ServerTyped
<1>10. BrowserOK(sdk)
  <2>1. NoResult \in [cmd : Nat, ok : BOOLEAN]
    BY DEF NoResult
  <2>2. sdk \in BrowserStates
    BY <1>3, <2>1 DEF InitSdk, BrowserStates, Phases
  <2>3. QED
    BY <1>7, <2>2 DEF BrowserOK
<1>11. Commands(srv, sdk, up, down)
  <2>1. IdsIssued(srv, sdk, up, down) /\ OrdersAreNew(sdk, up, down) /\ OneOutcome(sdk, up)
    BY <1>5, <1>6, <1>7 DEF IdsIssued, OrdersAreNew, OneOutcome
  <2>2. Answered(srv, sdk, up, down) /\ OrdersFollowed(srv, down) /\ RunFollowed(srv, sdk, down)
    BY <1>5, <1>6, <1>7 DEF Answered, OrdersFollowed, RunFollowed
  <2>3. OrdersApart(sdk, down) /\ StopsBefore(srv, down)
    BY <1>5, <1>6, <1>7 DEF OrdersApart, StopsBefore
  <2>4. QED
    BY <2>1, <2>2, <2>3 DEF Commands
<1>12. /\ WaitsExactly(srv, sdk, up, down) /\ ResumesExactly(srv, sdk, up, down)
       /\ ReportsExactly(srv, sdk, up)
  BY <1>5, <1>6, <1>8 DEF WaitsExactly, Waiting, ResumesExactly, ReportsExactly
<1>13. OffersCurrent(srv.demo, sdk, up, down)
  <2>1. ASSUME NEW a \in Forward \union {"start"}, NEW v, Offered(sdk, up, down, a, v)
        PROVE  Current(Idle, a, v)
    <3>1. a \in Buttons(Idle) /\ v = Idle.module
      BY <1>2, <1>4, <1>5, <1>7, <1>8, <2>1 DEF Offered, Shows
    <3>2. QED
      BY <3>1, OwnButtons
  <2>2. QED
    BY <1>6, <2>1 DEF OffersCurrent
<1>14. Panel(srv, sdk, up, down)
  <2>1. OfferedOnce(sdk, up, down)
    BY <1>5, <1>7 DEF OfferedOnce
  <2>2. ShownBefore(srv, sdk, down) /\ PressedBefore(srv, up) /\ OrdersAnnounced(sdk, down)
    BY <1>5, <1>6 DEF ShownBefore, PressedBefore, OrdersAnnounced
  <2>3. QED
    BY <2>1, <2>2 DEF Panel
<1>15. JourneyOnStage(srv) /\ AnswerDue(srv)
  BY <1>6, <1>8 DEF JourneyOnStage, AnswerDue
<1>16. QED
  BY <1>4, <1>6, <1>9, <1>10, <1>11, <1>12, <1>13, <1>14, <1>15 DEF IInv, Fine

(* One step per action.                                                    *)
LEMMA NextKeeps == IInv /\ [Next]_vars => IInv'
<1> SUFFICES ASSUME IInv, [Next]_vars PROVE IInv'
  OBVIOUS
<1>1. ASSUME Visitor PROVE IInv'
  BY <1>1, SayKeeps, HostStopsKeeps, StartVoiceKeeps, PressKeeps DEF Visitor
<1>2. ASSUME SdkTakes PROVE IInv'
  BY <1>2, TakeStateKeeps, TakeRunKeeps, TakePauseKeeps, TakeStopKeeps, TakeRequestKeeps DEF SdkTakes
<1>3. ASSUME SdkWorks \/ Observe PROVE IInv'
  BY <1>3, WorksKeeps, PauseAtBoundaryKeeps, ObserveKeeps DEF SdkWorks
<1>4. ASSUME ServerHandles PROVE IInv'
  BY <1>4, OnControlKeeps, OnIntakeTurnKeeps, OnTurnKeeps, OnPausedKeeps, OnResultKeeps,
     OnObservationKeeps, OnInterruptKeeps DEF ServerHandles
<1>5. ASSUME ServerTimers PROVE IInv'
  BY <1>5, TimersKeep
<1>6. ASSUME UNCHANGED vars PROVE IInv'
  <2>1. srv' = srv /\ sdk' = sdk /\ up' = up /\ down' = down
    BY <1>6 DEF vars
  <2>2. QED
    BY <2>1, Begin, Finish
<1>7. QED
  BY <1>1, <1>2, <1>3, <1>4, <1>5, <1>6 DEF Next

(* The invariant holds in every reachable state, whatever the profile, the *)
(* number of steps, the failures and the visitor's inputs: everything the  *)
(* theorems below say of the session actor and the browser SDK follows.    *)
THEOREM Invariance == Spec => []IInv
<1>1. IInv /\ [Next]_vars => IInv'
  BY NextKeeps
<1>2. QED
  BY <1>1, InitHolds, PTL DEF Spec

-----------------------------------------------------------------------------
(* Server and browser agree on the one journey that runs: nobody waits for *)
(* a journey that is lost, and no journey runs that was given up, whatever *)
(* barge-in, failure, stop or late report crossed on the socket.           *)
THEOREM OneJourney == Spec => []OneJourneyOnBothSides
<1>1. IInv => OneJourneyOnBothSides
  <2> SUFFICES ASSUME IInv PROVE OneJourneyOnBothSides
    OBVIOUS
  <2>1. Commands(srv, sdk, up, down) /\ down \in Seq(DownMessages)
    BY DEF IInv, Fine
  <2>2. AnsweredFor
    <3> SUFFICES ASSUME Active(srv)
                 PROVE  \/ Carries(down, {"run_journey"}, srv.journey.cmd)
                        \/ sdk.run.cmd = srv.journey.cmd
                        \/ sdk.staged.cmd = srv.journey.cmd
                        \/ Carries(up, {"journey_result", "paused"}, srv.journey.cmd)
      BY DEF AnsweredFor, Active
    <3>1. \/ OrderAfter(down, 0, srv.journey.cmd)
          \/ sdk.run.cmd = srv.journey.cmd
          \/ sdk.staged.cmd = srv.journey.cmd
          \/ OutcomeSent(up, srv.journey.cmd)
      BY <2>1 DEF Commands, Answered
    <3>2. QED
      BY <3>1 DEF OrderAfter, OutcomeSent, Carries, IsRun, IsOutcome
  <2>3. sdk.run # NoRun => srv.journey.cmd = sdk.run.cmd \/ Coming("stop_journey")
    BY <2>1 DEF Commands, RunFollowed, Awaited, StopAfter, Coming, IsStop
  <2>4. down # << >> /\ Head(down).kind = "run_journey" => sdk.run = NoRun
    <3> SUFFICES ASSUME down # << >>, Head(down).kind = "run_journey" PROVE sdk.run = NoRun
      OBVIOUS
    <3>1. 1 \in 1..Len(down) /\ IsRun(down[1])
      BY <2>1, Removed DEF IsRun
    <3>2. sdk.run = NoRun \/ StopBetween(down, 0, 1)
      BY <2>1, <3>1 DEF Commands, OrdersApart
    <3>3. QED
      BY <3>2 DEF StopBetween
  <2>5. QED
    BY <2>2, <2>3, <2>4 DEF OneJourneyOnBothSides
<1>2. QED
  BY <1>1, Invariance, PTL

(* Continue starts from the very checkpoint the browser holds: neither a   *)
(* waiting demo nor an order to resume names another one, unless a stop    *)
(* has overtaken it.                                                       *)
THEOREM ExactResume == Spec => []ResumeIsExact
<1>1. IInv => ResumeIsExact
  <2> SUFFICES ASSUME IInv PROVE ResumeIsExact
    OBVIOUS
  <2>1. /\ Commands(srv, sdk, up, down) /\ WaitsExactly(srv, sdk, up, down)
        /\ ResumesExactly(srv, sdk, up, down) /\ down \in Seq(DownMessages)
    BY DEF IInv, Fine
  <2>2. ASSUME StopInUp(up) PROVE StopOnItsWay
    BY <2>2 DEF StopInUp, StopOnItsWay, IsPress
  <2>3. Waiting(srv.demo) => sdk.paused = srv.demo.checkpoint \/ StopOnItsWay
    BY <2>1, <2>2 DEF WaitsExactly, Holds
  <2>4. ASSUME down # << >>, Head(down).kind = "run_journey", Head(down).resume # 0
        PROVE  ResumeMatches(sdk, Head(down)) \/ StopOnItsWay
    <3>1. 1 \in 1..Len(down) /\ IsRun(down[1]) /\ Head(down) = down[1]
      BY <2>1, <2>4, Removed DEF IsRun
    <3>2. CASE Awaited(srv, down[1])
      <4>1. Holds(sdk, up, [journey |-> down[1].journey, next |-> down[1].resume])
        BY <2>1, <2>4, <3>1, <3>2 DEF ResumesExactly, Awaited
      <4>2. QED
        BY <2>2, <3>1, <4>1 DEF Holds, ResumeMatches
    <3>3. CASE StopAfter(down, 1)
      BY <3>3 DEF StopAfter, StopOnItsWay, Coming, IsStop
    <3>4. QED
      BY <2>1, <3>1, <3>2, <3>3 DEF Commands, OrdersFollowed
  <2>5. QED
    BY <2>3, <2>4 DEF ResumeIsExact, Waiting
<1>2. QED
  BY <1>1, Invariance, PTL

(* An accepted Continue, Retry or Skip acts on the module that was shown   *)
(* when it was pressed, whatever the server did in between.                *)
THEOREM ActsOnWhatWasSeen == Spec => []ControlActsOnWhatWasSeen
<1>1. IInv => ControlActsOnWhatWasSeen
  <2> SUFFICES ASSUME IInv, up # << >>, Head(up).kind = "demo_control",
                      Head(up).action \in {"continue", "retry", "skip"},
                      MayControl(srv.demo, Head(up).action)
               PROVE  Head(up).seen = srv.demo.module
    BY DEF ControlActsOnWhatWasSeen
  <2> DEFINE a == Head(up).action
             v == Head(up).seen
  <2>1. /\ up \in Seq(UpMessages) /\ OffersCurrent(srv.demo, sdk, up, down)
        /\ Sound(srv.demo)
    BY DEF IInv, Fine, ServerTyped
  <2>2. /\ 1 \in 1..Len(up) /\ Head(up) = up[1] /\ IsPress(up[1])
        /\ v \in Modules \union {NoModule} /\ a \in Forward
    BY <2>1, Removed, UpFields DEF IsPress, Forward
  <2>3. Offered(sdk, up, down, a, v)
    BY <2>2 DEF Offered, Presses
  <2>4. Current(srv.demo, a, v)
    BY <2>1, <2>2, <2>3 DEF OffersCurrent
  <2>5. srv.demo.phase = "awaiting_resume"
    BY DEF MayControl
  <2>6. CASE a = "continue"
    <3>1. srv.demo.reason # "failure"
      BY <2>6 DEF MayControl, VerifiedInterruption
    <3>2. QED
      BY <2>4, <2>5, <2>6, <3>1 DEF Current
  <2>7. CASE a # "continue"
    BY <2>4, <2>5, <2>7 DEF Current, TerminalPhases
  <2>8. QED
    BY <2>6, <2>7
<1>2. QED
  BY <1>1, Invariance, PTL

(* The timer that gives up on an observation never applies a directive to  *)
(* a demo that has moved on.                                               *)
THEOREM LateAnswerFits == Spec => []LateAnswerIsCurrent
<1>1. IInv => LateAnswerIsCurrent
  BY DEF IInv, AnswerDue, LateAnswerIsCurrent
<1>2. QED
  BY <1>1, Invariance, PTL

(* The visitor's inputs are counted against the budget.                    *)
InputsLeft == left \in 0..InputBudget
LEMMA InputsCounted == Spec => []InputsLeft
<1>1. Init => InputsLeft
  BY DemoAssumption DEF Init, InputsLeft
<1>2. InputsLeft /\ [Next]_vars => InputsLeft'
  <2> SUFFICES ASSUME left \in 0..InputBudget, [Next]_vars PROVE left' \in 0..InputBudget
    BY DEF InputsLeft
  <2>1. ASSUME Visitor PROVE left' \in 0..InputBudget
    <3>1. Acts
      BY <2>1 DEF Visitor, Say, HostStops, StartVoice, Press
    <3>2. left' = left \/ (left > 0 /\ left' = left - 1)
      BY <3>1 DEF Acts
    <3>3. QED
      BY <3>2, DemoAssumption
  <2>2. ASSUME SdkTakes \/ SdkWorks \/ Observe PROVE left' = left
    BY <2>2 DEF SdkTakes, TakeState, TakeRun, TakePause, TakeStop, TakeRequest, Take,
       SdkWorks, EndIntroduction, EndClosingCue, PauseAtBoundary, BeginStep, EndStep, FailStep,
       Observe, Browser
  <2>3. ASSUME ServerHandles PROVE left' = left
    BY <2>3 DEF ServerHandles, OnControl, OnIntakeTurn, OnTurn, OnPaused, OnResult, OnObservation,
       OnInterrupt, Receive
  <2>4. ASSUME ServerTimers PROVE left' = left
    BY <2>4 DEF ServerTimers, ClosingTimer, ObservationTimeout, LateAnswer, Timer
  <2>5. QED
    BY <2>1, <2>2, <2>3, <2>4 DEF Next, vars
<1>3. QED
  BY <1>1, <1>2, PTL DEF Spec

(* The type invariant: what the server, the browser and the socket hold has *)
(* its type, and the inputs left are within the budget.                    *)
THEOREM TypeCorrect == Spec => []TypeOK
<1>1. IInv /\ InputsLeft => TypeOK
  <2> SUFFICES ASSUME IInv, left \in 0..InputBudget PROVE TypeOK
    BY DEF InputsLeft
  <2>1. srv \in Server /\ srv.out = << >> /\ sdk \in BrowserStates /\ BrowserOK(sdk)
    BY DEF IInv, ServerTyped, BrowserOK
  <2>2. sdk.run = NoRun \/ sdk.run \in Runs
    BY <2>1 DEF BrowserStates
  <2>3. QED
    BY <2>1, <2>2 DEF TypeOK, Server, BrowserStates, BrowserOK, Runs
<1>2. QED
  BY <1>1, Invariance, InputsCounted, PTL

-----------------------------------------------------------------------------
(* The session as a playthrough.  Plays is a step of Playthrough, or a     *)
(* stutter, from the visitor's view of one demo state to that of another.  *)
Stage(d) == Session!StageOf(d)
Kept(d, e) == e.playlist = d.playlist /\ e.index = d.index /\ e.module = d.module
Held == {"pausing", "awaiting_resume", "answering"}

MoreSlots(d) == d.index + 1 < Len(d.playlist)
Enters(d, e) ==
  /\ Stage(d) = "intake" /\ e.playlist \in Seq(Modules) /\ e.index = 0
  /\ IF e.playlist = << >>
     THEN Stage(e) = "closing" /\ e.module = NoModule
     ELSE Stage(e) \in {"playing", "held"} /\ e.module = e.playlist[1]
MovesOn(d, e) ==
  /\ Stage(d) = "held" /\ MoreSlots(d) /\ Stage(e) \in {"playing", "held"}
  /\ e.index = d.index + 1 /\ e.module = d.playlist[d.index + 2] /\ e.playlist = d.playlist
Replaces(d, e) ==
  /\ Stage(d) = "held" /\ Stage(e) = "playing" /\ e.index = d.index /\ e.module \in Modules
  /\ e.playlist[d.index + 1] = e.module
  /\ \A k \in 1..d.index : e.playlist[k] = d.playlist[k]
  /\ \A k \in (d.index + 2)..Len(e.playlist) : e.playlist[k] # e.module
  /\ Len(e.playlist) \in {Len(d.playlist), Len(d.playlist) - 1}
Closes(d, e) ==
  /\ Stage(d) \in {"playing", "held"} /\ ~MoreSlots(d) /\ Stage(e) = "closing"
  /\ e.index = d.index + 1 /\ e.module = NoModule /\ e.playlist = d.playlist
Plays(d, e) ==
  \/ Stage(d) = Stage(e) /\ Kept(d, e)
  \/ Stage(d) = "playing" /\ Stage(e) = "held" /\ Kept(d, e)
  \/ Stage(d) = "held" /\ Stage(e) = "playing" /\ Kept(d, e)
  \/ Enters(d, e) \/ MovesOn(d, e) \/ Replaces(d, e) \/ Closes(d, e)
  \/ Stage(d) = "off" /\ Stage(e) = "intake" /\ e.playlist = << >> /\ e.index = 0 /\ e.module = NoModule
  \/ Stage(d) # "off" /\ Stage(e) = "off" /\ e.module = NoModule /\ e.playlist = d.playlist /\ e.index = d.index

(* A change of the demo that plays is a step of the promise, or none.      *)
LEMMA PlaysStep ==
  ASSUME Plays(srv.demo, srv'.demo)
  PROVE  [Session!Visitor!Step]_(Session!Visitor!tour)
<1>1. (srv.demo)' = srv'.demo /\ Session!StageOf(srv.demo)' = Stage(srv'.demo)
  BY DEF Stage, Session!StageOf
<1>2. QED
  BY <1>1 DEF Plays, Stage, Kept, Enters, MovesOn, Replaces, Closes, MoreSlots, Session!Visitor!tour,
    Session!Visitor!Step, Session!Visitor!Welcome, Session!Visitor!AskNext, Session!Visitor!Enter,
    Session!Visitor!Hold, Session!Visitor!Resume, Session!Visitor!Replace, Session!Visitor!Next,
    Session!Visitor!Close, Session!Visitor!Leave, Session!Visitor!More

(* What the visitor sees of each phase.                                    *)
LEMMA Stages ==
  ASSUME NEW d
  PROVE  /\ d.phase \in Held => Stage(d) = "held"
         /\ d.phase = "playing" => Stage(d) = "playing"
         /\ d.phase = "intake" => Stage(d) = "intake"
         /\ d.phase = "closing" => Stage(d) = "closing"
         /\ d.phase \in TerminalPhases => Stage(d) = "off"
         /\ d.phase \in Phases \ TerminalPhases => Stage(d) # "off"
  BY DEF Stage, Session!StageOf, Session!TerminalPhases, TerminalPhases, Held, Phases

(* What the visitor sees alike, leads alike.                               *)
LEMMA PlaysFrom ==
  ASSUME NEW d, NEW b, NEW e, Stage(b) = Stage(d), Kept(d, b), Plays(b, e)
  PROVE  Plays(d, e)
  BY DEF Plays, Kept, Enters, MovesOn, Replaces, Closes, MoreSlots

(* What looks the same afterwards, plays the same.                         *)
LEMMA PlaysAlike ==
  ASSUME NEW d, NEW b, NEW e, Stage(b) = Stage(e), Kept(b, e), Plays(d, b)
  PROVE  Plays(d, e)
  BY DEF Plays, Kept, Enters, MovesOn, Replaces, Closes, MoreSlots

(* The operations of the director, one by one.                             *)
LEMMA AdvancePlays ==
  ASSUME NEW d, d \in DemoState,
         d.phase \in Held \/ (d.phase = "playing" /\ ~HasSlot(d, d.index + 1))
  PROVE  Plays(d, AdvanceModule(d).state) /\ ~Replaces(d, AdvanceModule(d).state)
<1> DEFINE e == AdvanceModule(d).state
<1>1. d.index \in Nat /\ d.index + 1 \in Nat /\ (d.index + 1) + 1 = d.index + 2
  BY DEF DemoState
<1>2. /\ e.playlist = d.playlist /\ e.index = d.index + 1
      /\ IF HasSlot(d, d.index + 1)
         THEN e.phase = "playing" /\ e.module = d.playlist[d.index + 2]
         ELSE e.phase = "closing" /\ e.module = NoModule
  BY <1>1, PlaySlotView DEF AdvanceModule
<1> HIDE DEF e
<1>3. e.index # d.index
  BY <1>1, <1>2
<1>4. MoreSlots(d) <=> HasSlot(d, d.index + 1)
  BY DEF MoreSlots, HasSlot
<1>5. CASE HasSlot(d, d.index + 1)
  <2>1. Stage(d) = "held" /\ Stage(e) = "playing"
    BY <1>2, <1>5, Stages
  <2>2. MovesOn(d, e)
    BY <1>2, <1>4, <1>5, <2>1 DEF MovesOn
  <2>3. QED
    BY <1>3, <2>2 DEF Plays, Replaces, e
<1>6. CASE ~HasSlot(d, d.index + 1)
  <2>1. Stage(d) \in {"playing", "held"} /\ Stage(e) = "closing"
    BY <1>2, <1>6, Stages
  <2>2. Closes(d, e)
    BY <1>2, <1>4, <1>6, <2>1 DEF Closes
  <2>3. QED
    BY <1>3, <2>2 DEF Plays, Replaces, e
<1>7. QED
  BY <1>5, <1>6

(* Resuming, or retrying, the module on stage.                             *)
LEMMA SameModulePlays ==
  ASSUME NEW d, d.phase \in Held, NEW e, e.phase = "playing", Kept(d, e)
  PROVE  Plays(d, e)
<1>1. Stage(d) = "held" /\ Stage(e) = "playing"
  BY Stages
<1>2. QED
  BY <1>1 DEF Plays

(* Continue plays the module on or moves to the next one.                  *)
LEMMA ContinuePlays ==
  ASSUME NEW d, d \in DemoState, d.phase \in Held
  PROVE  /\ Plays(d, Continue(d).state)
         /\ Kept(d, Continue(d).state) \/ ~Replaces(d, Continue(d).state)
<1>1. CASE d.reason = "module_complete" \/ d.finished
  BY <1>1, AdvancePlays DEF Continue
<1>2. CASE ~(d.reason = "module_complete" \/ d.finished)
  <2>1. Continue(d).state = [d EXCEPT !.phase = "playing", !.reason = "none"]
    BY <1>2 DEF Continue, Transition
  <2>2. Continue(d).state.phase = "playing" /\ Kept(d, Continue(d).state)
    BY <2>1 DEF DemoState, Kept
  <2>3. QED
    BY <2>2, SameModulePlays
<1>3. QED
  BY <1>1, <1>2

(* Retry plays the module again.                                           *)
LEMMA RetryPlays ==
  ASSUME NEW d, d \in DemoState, d.phase \in Held
  PROVE  Plays(d, Retry(d).state) /\ Kept(d, Retry(d).state)
<1>1. Retry(d).state = [d EXCEPT !.phase = "playing", !.checkpoint = NoCheckpoint,
                                 !.reason = "none", !.finished = FALSE]
  BY DEF Retry, Transition
<1>2. Retry(d).state.phase = "playing" /\ Kept(d, Retry(d).state)
  BY <1>1 DEF DemoState, Kept
<1>3. QED
  BY <1>2, SameModulePlays

(* A stop leaves.                                                          *)
LEMMA StopPlays ==
  ASSUME NEW d, d \in DemoState, d.phase \notin TerminalPhases
  PROVE  Plays(d, Stop(d).state)
<1>1. Stop(d).state = [d EXCEPT !.phase = "stopped", !.question = NoQuestion,
                       !.module = NoModule, !.checkpoint = NoCheckpoint,
                       !.reason = "none", !.finished = FALSE]
  BY DEF Stop, Transition
<1>2. /\ Stop(d).state.phase = "stopped" /\ Stop(d).state.module = NoModule
      /\ Stop(d).state.playlist = d.playlist /\ Stop(d).state.index = d.index
      /\ d.phase \in Phases
  BY <1>1 DEF DemoState
<1>3. Stage(d) # "off" /\ Stage(Stop(d).state) = "off"
  BY <1>2, Stages DEF TerminalPhases
<1>4. QED
  BY <1>2, <1>3 DEF Plays

(* A start begins the intake.                                              *)
LEMMA StartPlays ==
  ASSUME NEW d, d.phase \in TerminalPhases
  PROVE  Plays(d, Start.state)
<1>1. /\ Start.state.phase = "intake" /\ Start.state.module = NoModule
      /\ Start.state.playlist = << >> /\ Start.state.index = 0
  BY DEF Start, Transition, Idle
<1>2. Stage(d) = "off" /\ Stage(Start.state) = "intake"
  BY <1>1, Stages
<1>3. QED
  BY <1>1, <1>2 DEF Plays

(* The playlist of the persona begins.                                     *)
LEMMA BeginPlaylistPlays ==
  ASSUME NEW d, d.phase = "intake", NEW s, s \in DemoState
  PROVE  Enters(d, BeginPlaylist(s).state) /\ BeginPlaylist(s).state.index = 0
<1> DEFINE own == IF s.persona = NoPersona THEN << >> ELSE PersonaPlaylist[s.persona]
           list == IF own = << >> THEN DefaultPlaylist ELSE own
           t == [s EXCEPT !.question = NoQuestion, !.playlist = list]
           e == BeginPlaylist(s).state
<1>1. list \in Seq(Modules)
  BY ProfileAssumption DEF DemoState
<1>2. t \in DemoState /\ t.playlist = list
  BY <1>1 DEF DemoState
<1>3. e = PlaySlot(t, 0).state
  BY DEF BeginPlaylist
<1> HIDE DEF t, list, e
<1>4. /\ e.playlist = list /\ e.index = 0
      /\ IF HasSlot(t, 0)
         THEN e.phase = "playing" /\ e.module = list[0 + 1]
         ELSE e.phase = "closing" /\ e.module = NoModule
  BY <1>2, <1>3, PlaySlotView
<1>5. HasSlot(t, 0) <=> list # << >>
  BY <1>1, <1>2 DEF HasSlot
<1>6. Stage(d) = "intake" /\ (e.phase = "playing" => Stage(e) = "playing")
      /\ (e.phase = "closing" => Stage(e) = "closing")
  BY Stages
<1>7. QED
  BY <1>1, <1>4, <1>5, <1>6 DEF Enters, e

(* An intake that still asks stays an intake.                              *)
LEMMA AskedPlays ==
  ASSUME NEW d, NEW e, d.phase = "intake", e.phase = "intake", Kept(d, e)
  PROVE  Plays(d, e)
  BY Stages DEF Plays

(* An answer is asked for, or the playlist begins.                         *)
LEMMA CapturePlays ==
  ASSUME NEW d, d \in DemoState, d.phase = "intake", NEW p \in Personas \union {NoPersona}
  PROVE  LET e == CaptureIntake(d, p).state
         IN  Plays(d, e) /\ ~Replaces(d, e)
<1> DEFINE e == CaptureIntake(d, p).state
           first == [d EXCEPT !.persona = p, !.genericIndex = 1, !.question = SecondQuestion]
           second == [d EXCEPT !.genericIndex = 2]
           third == [second EXCEPT !.personaAsked = TRUE, !.question = PersonaQuestionOf(d)]
           asked == [d EXCEPT !.personaAsked = TRUE]
<1>1. ~Replaces(d, e)
  BY Stages DEF Replaces
<1>2. /\ first.phase = "intake" /\ Kept(d, first)
      /\ third.phase = "intake" /\ Kept(d, third)
      /\ second \in DemoState /\ asked \in DemoState
  <2>1. first.phase = "intake" /\ Kept(d, first)
    BY DEF DemoState, Kept
  <2>2. second \in DemoState /\ second.phase = "intake" /\ Kept(d, second)
    BY DEF DemoState, Kept
  <2>3. asked \in DemoState
    BY DEF DemoState
  <2> HIDE DEF second
  <2>4. third.phase = "intake" /\ Kept(d, third)
    BY <2>2 DEF DemoState, Kept
  <2>5. QED
    BY <2>1, <2>2, <2>3, <2>4
<1>3. e \in {first, third, BeginPlaylist(second).state, BeginPlaylist(asked).state}
  BY DEF CaptureIntake, Transition
<1> HIDE DEF e, first, second, third, asked
<1>4. Plays(d, first) /\ Plays(d, third)
  BY <1>2, AskedPlays
<1>5. Plays(d, BeginPlaylist(second).state) /\ Plays(d, BeginPlaylist(asked).state)
  BY <1>2, BeginPlaylistPlays DEF Plays
<1>6. QED
  BY <1>1, <1>3, <1>4, <1>5 DEF e

(* A module is replaced while the demo is held.                            *)
LEMMA ReplacePlays ==
  ASSUME NEW d, Sound(d), MayReplace(d), NEW m \in Modules
  PROVE  Plays(d, ReplaceAfterInterruption(d, m).state)
<1> DEFINE e == ReplaceAfterInterruption(d, m).state
<1>1. /\ e.phase = "playing" /\ e.module = m /\ e.index = d.index
      /\ e.playlist[d.index + 1] = m
      /\ \A k \in 1..d.index : e.playlist[k] = d.playlist[k]
      /\ \A k \in (d.index + 2)..Len(e.playlist) : e.playlist[k] # m
      /\ Len(e.playlist) \in {Len(d.playlist), Len(d.playlist) - 1}
  BY ReplaceFacts
<1> HIDE DEF e
<1>2. Stage(d) = "held" /\ Stage(e) = "playing"
  BY <1>1, Stages DEF MayReplace, MayBeginAnswer, Held
<1>3. Replaces(d, e)
  BY <1>1, <1>2 DEF Replaces
<1>4. QED
  BY <1>3 DEF Plays, e

(* A module that cannot be run is held in the step that enters it.         *)
LEMMA FallPlays ==
  ASSUME NEW d, NEW e, Plays(d, e), Kept(d, e) \/ ~Replaces(d, e), e \in DemoState,
         e.phase = "playing"
  PROVE  Plays(d, JourneyResult(e, FALSE).state)
<1> DEFINE f == JourneyResult(e, FALSE).state
<1>1. f = [e EXCEPT !.phase = "awaiting_resume", !.reason = "failure", !.checkpoint = NoCheckpoint]
  BY DEF JourneyResult, Transition
<1>2. f.phase = "awaiting_resume" /\ Kept(e, f)
  BY <1>1 DEF DemoState, Kept
<1> HIDE DEF f
<1>3. Stage(e) = "playing" /\ Stage(f) = "held"
  BY <1>2, Stages DEF Held
<1>4. \/ Kept(d, e) /\ Stage(d) \in {"playing", "held"}
      \/ Enters(d, e) \/ MovesOn(d, e)
  BY <1>3 DEF Plays, Closes, Replaces
<1>5. CASE Kept(d, e) /\ Stage(d) \in {"playing", "held"}
  BY <1>2, <1>3, <1>5 DEF Plays, Kept, f
<1>6. CASE Enters(d, e)
  <2>1. Enters(d, f)
    BY <1>2, <1>3, <1>6 DEF Enters, Kept
  <2>2. QED
    BY <2>1 DEF Plays, f
<1>7. CASE MovesOn(d, e)
  <2>1. MovesOn(d, f)
    BY <1>2, <1>3, <1>7 DEF MovesOn, Kept
  <2>2. QED
    BY <2>1 DEF Plays, f
<1>8. QED
  BY <1>4, <1>5, <1>6, <1>7

(* The demo of a handler's state.                                          *)
HasDemo(s) == "demo" \in DOMAIN s

(* Sending leaves the demo alone.                                          *)
LEMMA SendDemo ==
  ASSUME NEW s, HasDemo(s), NEW c
  PROVE  HasDemo(Send(s, c)) /\ Send(s, c).demo = s.demo
  BY DEF HasDemo, Send

(* Persisting sets it.                                                     *)
LEMMA PersistDemo ==
  ASSUME NEW s, HasDemo(s), NEW d
  PROVE  HasDemo(Persist(s, d)) /\ Persist(s, d).demo = d
<1> DEFINE r == [s EXCEPT !.demo = d]
<1>1. HasDemo(r) /\ r.demo = d
  BY DEF HasDemo
<1>2. Persist(s, d) = Send(r, StateCommand(d))
  BY DEF Persist
<1> HIDE DEF r
<1>3. QED
  BY <1>1, <1>2, SendDemo

(* Asking for an observation leaves it alone.                              *)
LEMMA AskDemo ==
  ASSUME NEW s, HasDemo(s)
  PROVE  HasDemo(RequestObservation(s)) /\ RequestObservation(s).demo = s.demo
  BY DEF HasDemo, RequestObservation, Send

(* Following a transition: the demo is that of the transition, or it holds *)
(* the module that could not be run.                                       *)
LEMMA DispatchDemo ==
  ASSUME NEW s, HasDemo(s), NEW t
  PROVE  /\ HasDemo(Dispatch(s, t))
         /\ \/ Dispatch(s, t).demo = s.demo
            \/ /\ t.order.kind \in {"run", "resume"} /\ t.order.module \notin Playable
               /\ Dispatch(s, t).demo = JourneyResult(s.demo, FALSE).state
<1> DEFINE z == Dispatch(s, t)
           n == s.issued + 1
           j == [cmd |-> n, module |-> t.order.module, paused |-> FALSE]
           r == [s EXCEPT !.issued = n, !.journey = j]
<1>1. CASE t.order.kind \notin {"run", "resume"}
  <2>1. z = [s EXCEPT !.timer = @ \/ s.demo.phase = "closing"]
    BY <1>1 DEF Dispatch, ScheduleClosing
  <2>2. QED
    BY <2>1 DEF HasDemo
<1>2. CASE t.order.kind \in {"run", "resume"} /\ t.order.module \notin Playable
  <2>1. z = Persist(s, JourneyResult(s.demo, FALSE).state)
    BY <1>2 DEF Dispatch, RunDemoModule
  <2> DEFINE d == JourneyResult(s.demo, FALSE).state
  <2> HIDE DEF d, z
  <2>2. HasDemo(z) /\ z.demo = d
    BY <2>1, PersistDemo DEF d
  <2>3. QED
    BY <1>2, <2>2 DEF d, z
<1>3. CASE t.order.kind \in {"run", "resume"} /\ t.order.module \in Playable
  <2>1. z = Send(r, RunCommand(n, t.order))
    BY <1>3 DEF Dispatch, RunDemoModule
  <2>2. HasDemo(r) /\ r.demo = s.demo
    BY DEF HasDemo
  <2> HIDE DEF r, z
  <2>3. QED
    BY <2>1, <2>2, SendDemo DEF z
<1>4. QED
  BY <1>1, <1>2, <1>3

(* A module that may not run is a failed one.                              *)
LEMMA DispatchPlays ==
  ASSUME NEW s, HasDemo(s), NEW t, s.demo = t.state, Leads(t), NEW d, Plays(d, t.state),
         t.order.module \in Playable \/ Kept(d, t.state) \/ ~Replaces(d, t.state)
  PROVE  HasDemo(Dispatch(s, t)) /\ Plays(d, Dispatch(s, t).demo)
<1>1. CASE Dispatch(s, t).demo = s.demo
  BY <1>1, DispatchDemo
<1>2. CASE /\ t.order.kind \in {"run", "resume"} /\ t.order.module \notin Playable
           /\ Dispatch(s, t).demo = JourneyResult(s.demo, FALSE).state
  <2>1. t.state \in DemoState /\ t.state.phase = "playing"
    BY <1>2 DEF Leads, Good, Sound
  <2>2. QED
    BY <1>2, <2>1, FallPlays, DispatchDemo
<1>3. QED
  BY <1>1, <1>2, DispatchDemo

(* Following an order of the director plays.                               *)
LEMMA FollowPlays ==
  ASSUME NEW s, HasDemo(s), NEW t, Leads(t), NEW d, Plays(d, t.state),
         t.order.module \in Playable \/ Kept(d, t.state) \/ ~Replaces(d, t.state)
  PROVE  HasDemo(Follow(s, t)) /\ Plays(d, Follow(s, t).demo)
<1>1. HasDemo(Persist(s, t.state)) /\ Persist(s, t.state).demo = t.state
  BY PersistDemo
<1>2. QED
  BY <1>1, DispatchPlays DEF Follow

-----------------------------------------------------------------------------
(* The handlers as steps of the playthrough.                               *)
LEMMA ApplyPlays ==
  ASSUME NEW s, HasDemo(s), Sound(s.demo), s.demo.phase = "answering", s.demo.reason # "failure",
         NEW plan, plan.directive \in Directives,
         plan.directive = "replace_module" => plan.module \in Playable
  PROVE  HasDemo(ApplyDirective(s, plan)) /\ Plays(s.demo, ApplyDirective(s, plan).demo)
<1> DEFINE d == FinishInterruptionAnswer(s.demo).state
           r == [s EXCEPT !.interruption = NoInterruption]
           y == [r EXCEPT !.journey = NoJourney]
           z == ApplyDirective(s, plan)
<1>1. /\ Sound(d) /\ d.phase = "awaiting_resume" /\ d.module = s.demo.module
      /\ d.reason = s.demo.reason /\ AnswerablePosition(d)
      /\ d.playlist = s.demo.playlist /\ d.index = s.demo.index
  BY FinishedAnswer
<1>2. HasDemo(r) /\ r.demo = s.demo /\ HasDemo(y) /\ y.demo = s.demo
  BY DEF HasDemo
<1>3. /\ plan.directive = "remain_paused" => z = Persist(r, d)
      /\ plan.directive = "resume_now" => z = Follow(r, Continue(d))
      /\ plan.directive = "stop" => z = Send(Persist(y, Stop(d).state), StopCommand)
      /\ plan.directive = "replace_module" =>
           z = Follow(Send(y, StopCommand), ReplaceAfterInterruption(d, plan.module))
  BY DEF ApplyDirective
<1> HIDE DEF d, r, y, z
<1>4. d \in DemoState /\ Stage(d) = "held" /\ Stage(s.demo) = "held" /\ Kept(s.demo, d)
  BY <1>1, Stages DEF Sound, Held, Kept
<1>5. CASE plan.directive = "remain_paused"
  <2>1. HasDemo(z) /\ z.demo = d
    BY <1>2, <1>3, <1>5, PersistDemo
  <2>2. QED
    BY <1>4, <2>1 DEF Plays, z
<1>6. CASE plan.directive = "resume_now"
  <2>1. MayControl(d, "continue") /\ d.phase \in Held
    <3>1. d.module # NoModule
      BY <1>1, StagedModule DEF ModulePhases
    <3>2. QED
      BY <1>1, <3>1 DEF MayControl, AnswerablePosition, Held
  <2>2. /\ Leads(Continue(d)) /\ Plays(d, Continue(d).state)
        /\ Kept(d, Continue(d).state) \/ ~Replaces(d, Continue(d).state)
    BY <1>1, <1>4, <2>1, ContinueLeads, ContinuePlays
  <2>3. HasDemo(z) /\ Plays(d, z.demo)
    BY <1>2, <1>3, <1>6, <2>2, FollowPlays
  <2>4. QED
    BY <1>4, <2>3, PlaysFrom DEF z
<1>7. CASE plan.directive = "stop"
  <2>1. HasDemo(z) /\ z.demo = Stop(d).state
    BY <1>2, <1>3, <1>7, PersistDemo, SendDemo
  <2>2. Plays(d, z.demo)
    BY <1>1, <1>4, <2>1, StopPlays DEF TerminalPhases
  <2>3. QED
    BY <1>4, <2>1, <2>2, PlaysFrom DEF z
<1>8. CASE plan.directive = "replace_module"
  <2> DEFINE t == ReplaceAfterInterruption(d, plan.module)
  <2>1. plan.module \in Modules /\ plan.module \in Playable
    BY <1>8, DemoAssumption
  <2>2. MayReplace(d)
    <3>1. d.module # NoModule
      BY <1>1, StagedModule DEF ModulePhases
    <3>2. QED
      BY <1>1, <3>1 DEF MayReplace, MayBeginAnswer
  <2>3. Leads(t) /\ Plays(d, t.state)
    BY <1>1, <2>1, <2>2, ReplaceLeads, ReplacePlays
  <2>4. t.order.module = plan.module
    BY DEF ReplaceAfterInterruption, Transition, RunOrder, NoOrder
  <2> HIDE DEF t
  <2>5. HasDemo(Send(y, StopCommand))
    BY <1>2, SendDemo
  <2>6. HasDemo(z) /\ Plays(d, z.demo)
    BY <1>3, <1>8, <2>1, <2>3, <2>4, <2>5, FollowPlays DEF t
  <2>7. QED
    BY <1>4, <2>6, PlaysFrom DEF z
<1>9. QED
  BY <1>5, <1>6, <1>7, <1>8 DEF Directives

(* Answering an interruption holds the demo.                               *)
LEMMA PlanPlays ==
  ASSUME NEW s, HasDemo(s), Sound(s.demo), s.demo.phase \in Held,
         s.demo.phase # "pausing" => s.demo.reason # "failure",
         NEW outcome \in Plans \union {NoInterruption}, NEW answered \in BOOLEAN
  PROVE  HasDemo(PlanInterruption(s, outcome, answered))
         /\ Plays(s.demo, PlanInterruption(s, outcome, answered).demo)
<1> DEFINE g == CancelPlanning(s)
           f == FinishInterruptionAnswer(s.demo).state
           a == IF g.demo.phase = "answering"
                THEN [g EXCEPT !.demo = FinishInterruptionAnswer(g.demo).state] ELSE g
           p == [a EXCEPT !.interruption = outcome]
           e == BeginInterruptionAnswer(p.demo).state
           b == Persist(p, e)
           c == Persist(b, FinishInterruptionAnswer(b.demo).state)
           z == PlanInterruption(s, outcome, answered)
<1>1. z = IF s.interruption = NoInterruption THEN s
          ELSE IF a.demo.phase # "pausing" /\ ~PositionVerified(a) THEN a
          ELSE IF outcome = NoInterruption THEN a
          ELSE IF a.demo.phase = "pausing" THEN p
          ELSE IF outcome.observe THEN RequestObservation(b)
          ELSE IF answered THEN ApplyDirective(b, outcome)
          ELSE c
  BY DEF PlanInterruption
<1>2. HasDemo(g) /\ g.demo = s.demo
  BY DEF CancelPlanning, HasDemo
<1>3. /\ HasDemo(a) /\ Sound(a.demo) /\ a.demo.phase \in {"pausing", "awaiting_resume"}
      /\ Kept(s.demo, a.demo) /\ (a.demo.phase # "pausing" => a.demo.reason # "failure")
  <2> HIDE DEF g
  <2>1. CASE s.demo.phase = "answering"
    <3>1. a = [g EXCEPT !.demo = f]
      BY <1>2, <2>1
    <3>2. HasDemo(a) /\ a.demo = f
      BY <1>2, <3>1 DEF HasDemo
    <3>3. QED
      BY <2>1, <3>2, FinishedAnswer DEF Kept
  <2>2. CASE s.demo.phase # "answering"
    BY <1>2, <2>2 DEF Held, Kept
  <2>3. QED
    BY <2>1, <2>2
<1> HIDE DEF a
<1>4. HasDemo(p) /\ p.demo = a.demo
  BY <1>3 DEF HasDemo
<1> HIDE DEF p
<1>5. Stage(s.demo) = "held" /\ Stage(a.demo) = "held"
  BY <1>3, Stages DEF Held
<1>6. Plays(s.demo, s.demo) /\ Plays(s.demo, a.demo)
  BY <1>3, <1>5 DEF Plays, Kept
<1>7. ASSUME a.demo.phase # "pausing"
      PROVE  /\ HasDemo(b) /\ b.demo = e /\ Sound(e) /\ e.phase = "answering"
             /\ e.reason # "failure" /\ Kept(s.demo, e) /\ Stage(e) = "held"
  <2>1. /\ Sound(e) /\ e.phase = "answering" /\ e.reason = a.demo.reason
        /\ e.module = a.demo.module /\ e.playlist = a.demo.playlist /\ e.index = a.demo.index
    BY <1>3, <1>4, <1>7, BegunAnswer
  <2> HIDE DEF e
  <2>2. HasDemo(b) /\ b.demo = e
    BY <1>4, PersistDemo
  <2>3. QED
    BY <1>3, <1>7, <2>1, <2>2, Stages DEF Kept, Held
<1> HIDE DEF b, e
<1>8. ASSUME a.demo.phase # "pausing", outcome # NoInterruption
      PROVE  /\ HasDemo(RequestObservation(b)) /\ Plays(s.demo, RequestObservation(b).demo)
             /\ HasDemo(ApplyDirective(b, outcome)) /\ Plays(s.demo, ApplyDirective(b, outcome).demo)
             /\ HasDemo(c) /\ Plays(s.demo, c.demo)
  <2>1. HasDemo(RequestObservation(b)) /\ RequestObservation(b).demo = e
    BY <1>7, <1>8, AskDemo
  <2>2. outcome \in Plans
    BY <1>8
  <2>3. HasDemo(ApplyDirective(b, outcome)) /\ Plays(e, ApplyDirective(b, outcome).demo)
    BY <1>7, <1>8, <2>2, PlanFacts, ApplyPlays
  <2>4. HasDemo(c) /\ c.demo = FinishInterruptionAnswer(e).state
    BY <1>7, <1>8, PersistDemo
  <2>5. Kept(s.demo, c.demo) /\ Stage(c.demo) = "held"
    <3>1. /\ c.demo.phase = "awaiting_resume" /\ c.demo.module = e.module
          /\ c.demo.playlist = e.playlist /\ c.demo.index = e.index
      BY <1>7, <1>8, <2>4, FinishedAnswer
    <3>2. QED
      BY <1>7, <1>8, <3>1, Stages DEF Kept, Held
  <2>6. Plays(s.demo, e) /\ Plays(s.demo, c.demo)
    BY <1>5, <1>7, <1>8, <2>5 DEF Plays
  <2>7. Plays(s.demo, ApplyDirective(b, outcome).demo)
    BY <1>5, <1>7, <1>8, <2>3, PlaysFrom
  <2>8. QED
    BY <2>1, <2>3, <2>4, <2>6, <2>7
<1> HIDE DEF c, z
<1>9. HasDemo(z) /\ Plays(s.demo, z.demo)
  BY <1>1, <1>3, <1>4, <1>6, <1>8
<1>10. QED
  BY <1>9 DEF z

(* What an answer leads to plays.                                          *)
LEMMA SettlePlays ==
  ASSUME NEW s, HasDemo(s), Sound(s.demo), s.demo.phase = "awaiting_resume",
         VerifiedInterruption(s.demo), s.interruption \in Plans \union {NoInterruption, Heard},
         NEW outcome \in Plans \union {NoInterruption}, NEW answered \in BOOLEAN
  PROVE  HasDemo(Settle(s, outcome, answered))
         /\ Plays(s.demo, Settle(s, outcome, answered).demo)
<1>1. s.demo.reason # "failure" /\ s.demo.phase \in Held
  BY DEF VerifiedInterruption, Held
<1>2. CASE ~Planned(s)
  BY <1>1, <1>2, PlanPlays DEF Settle
<1>3. CASE Planned(s)
  <2> DEFINE e == BeginInterruptionAnswer(s.demo).state
             a == Persist(s, e)
             g == CancelPlanning(a)
             z == Settle(s, outcome, answered)
  <2>1. z = IF s.interruption.observe THEN RequestObservation(g)
            ELSE IF answered THEN ApplyDirective(g, s.interruption) ELSE g
    <3>1. PositionVerified(s) /\ a = IF s.demo.phase = "awaiting_resume" THEN a ELSE s
      BY DEF PositionVerified
    <3> HIDE DEF a
    <3>2. QED
      BY <1>3, <3>1 DEF Settle, ContinueInterruption, a
  <2>2. /\ Sound(e) /\ e.phase = "answering" /\ e.reason = s.demo.reason
        /\ e.module = s.demo.module /\ e.playlist = s.demo.playlist /\ e.index = s.demo.index
    BY BegunAnswer
  <2> HIDE DEF e
  <2>3. HasDemo(a) /\ a.demo = e
    BY PersistDemo
  <2> HIDE DEF a
  <2>4. HasDemo(g) /\ g.demo = e
    BY <2>3 DEF CancelPlanning, HasDemo
  <2>5. s.interruption \in Plans
    BY <1>3 DEF Planned, Directives, NoInterruption, Heard
  <2> HIDE DEF g, z
  <2>6. Stage(s.demo) = "held" /\ Stage(e) = "held" /\ Kept(s.demo, e)
    BY <1>1, <2>2, Stages DEF Held, Kept
  <2>7. HasDemo(RequestObservation(g)) /\ RequestObservation(g).demo = e
    BY <2>4, AskDemo
  <2>8. HasDemo(ApplyDirective(g, s.interruption)) /\ Plays(e, ApplyDirective(g, s.interruption).demo)
    BY <1>1, <2>2, <2>4, <2>5, PlanFacts, ApplyPlays
  <2>9. Plays(s.demo, e) /\ Plays(s.demo, ApplyDirective(g, s.interruption).demo)
    BY <2>6, <2>8, PlaysFrom DEF Plays
  <2>10. HasDemo(z) /\ Plays(s.demo, z.demo)
    BY <2>1, <2>4, <2>7, <2>8, <2>9
  <2>11. QED
    BY <2>10 DEF z
<1>4. QED
  BY <1>2, <1>3

(* What the steps below know of the server.                                *)
Fit(s) == s \in Server /\ ServerTyped(s) /\ JourneyOnStage(s) /\ AnswerDue(s)

(* They imply what the operations of the director need.                    *)
LEMMA FitFacts ==
  ASSUME NEW s, Fit(s)
  PROVE  /\ HasDemo(s) /\ Sound(s.demo) /\ s.demo \in DemoState /\ s.demo.phase \in Phases
         /\ Plays(s.demo, s.demo)
         /\ s.interruption \in Plans \union {NoInterruption, Heard}
<1>1. s \in Server /\ Sound(s.demo) /\ s.demo \in DemoState
  BY DEF Fit, ServerTyped, Sound
<1>2. HasDemo(s) /\ s.interruption \in Plans \union {NoInterruption, Heard}
  BY <1>1 DEF HasDemo, Server
<1>3. s.demo.phase \in Phases
  BY <1>1 DEF DemoState
<1>4. QED
  BY <1>1, <1>2, <1>3 DEF Plays, Kept

(* A button plays.                                                         *)
LEMMA ControlPlays ==
  ASSUME NEW s, Fit(s), NEW action \in ControlActions
  PROVE  HasDemo(HandleControl(s, action)) /\ Plays(s.demo, HandleControl(s, action).demo)
<1> DEFINE d == s.demo
           t == Control(d, action)
           r == [CancelPlanning(s) EXCEPT !.interruption = NoInterruption, !.timer = FALSE]
           y == [r EXCEPT !.journey = NoJourney]
           dropped == Persist(y, t.state)
           z == HandleControl(s, action)
<1>1. /\ HasDemo(s) /\ Sound(d) /\ d \in DemoState /\ d.phase \in Phases /\ Plays(d, d)
  BY FitFacts
<1>2. z = IF ~MayControl(d, action) THEN s
          ELSE IF action = "stop" THEN Send(dropped, StopCommand)
          ELSE IF action \in {"retry", "skip"} /\ s.journey.paused
          THEN Dispatch(Send(dropped, StopCommand), t)
          ELSE Follow(r, t)
  BY DEF HandleControl
<1>3. HasDemo(r) /\ HasDemo(y)
  BY <1>1 DEF HasDemo, CancelPlanning
<1> HIDE DEF r, y, z
<1>4. HasDemo(dropped) /\ dropped.demo = t.state
  BY <1>3, PersistDemo
<1> HIDE DEF dropped
<1>5. HasDemo(Send(dropped, StopCommand)) /\ Send(dropped, StopCommand).demo = t.state
  BY <1>4, SendDemo
<1>6. ASSUME MayControl(d, action), action # "stop"
      PROVE  Leads(t) /\ Plays(d, t.state) /\ (Kept(d, t.state) \/ ~Replaces(d, t.state))
  <2>1. CASE action = "start"
    <3>1. t = Start /\ d.phase \in TerminalPhases
      BY <1>6, <2>1 DEF Control, MayControl
    <3>2. ~Replaces(d, t.state)
      BY <3>1, Stages DEF Replaces
    <3>3. QED
      BY <3>1, <3>2, StartLeads, StartPlays
  <2>2. CASE action = "retry"
    <3>1. t = Retry(d) /\ d.phase = "awaiting_resume" /\ d.phase \in Held
      BY <1>6, <2>2 DEF Control, MayControl, Held
    <3>2. QED
      BY <1>1, <3>1, RetryLeads, RetryPlays
  <2>3. CASE action = "skip"
    <3>1. t = AdvanceModule(d) /\ d.phase \in Held
      BY <1>6, <2>3 DEF Control, MayControl, Held
    <3>2. QED
      BY <1>1, <3>1, AdvanceLeads, AdvancePlays
  <2>4. CASE action = "continue"
    <3>1. t = Continue(d) /\ d.phase \in Held /\ MayControl(d, "continue")
      BY <1>6, <2>4 DEF Control, MayControl, Held
    <3>2. QED
      BY <1>1, <3>1, ContinueLeads, ContinuePlays
  <2>5. QED
    BY <1>6, <2>1, <2>2, <2>3, <2>4 DEF ControlActions
<1>7. ASSUME MayControl(d, action), action = "stop"
      PROVE  Plays(d, t.state)
  BY <1>1, <1>7, StopPlays DEF Control, MayControl
<1> HIDE DEF t
<1>8. ASSUME MayControl(d, action), action # "stop"
      PROVE  /\ HasDemo(Follow(r, t)) /\ Plays(d, Follow(r, t).demo)
             /\ HasDemo(Dispatch(Send(dropped, StopCommand), t))
             /\ Plays(d, Dispatch(Send(dropped, StopCommand), t).demo)
  BY <1>3, <1>5, <1>6, <1>8, FollowPlays, DispatchPlays
<1>9. HasDemo(z) /\ Plays(d, z.demo)
  BY <1>1, <1>2, <1>5, <1>7, <1>8
<1>10. QED
  BY <1>9 DEF z, d

(* An answer of the intake plays.                                          *)
LEMMA IntakePlays ==
  ASSUME NEW s, Fit(s), s.demo.phase = "intake", NEW asks \in BOOLEAN,
         NEW p \in Personas \union {NoPersona}
  PROVE  HasDemo(HandleIntakeTurn(s, asks, p)) /\ Plays(s.demo, HandleIntakeTurn(s, asks, p).demo)
<1>1. HasDemo(s) /\ Sound(s.demo) /\ s.demo \in DemoState /\ Plays(s.demo, s.demo)
  BY FitFacts
<1>2. CASE asks \/ ~MayCaptureIntake(s.demo)
  BY <1>1, <1>2 DEF HandleIntakeTurn
<1>3. CASE ~(asks \/ ~MayCaptureIntake(s.demo))
  <2>1. HandleIntakeTurn(s, asks, p) = Follow(s, CaptureIntake(s.demo, p))
    BY <1>3 DEF HandleIntakeTurn
  <2>2. Leads(CaptureIntake(s.demo, p))
    BY <1>1, <1>3, CaptureLeads
  <2>3. Plays(s.demo, CaptureIntake(s.demo, p).state) /\ ~Replaces(s.demo, CaptureIntake(s.demo, p).state)
    BY <1>1, CapturePlays
  <2>4. QED
    BY <1>1, <2>1, <2>2, <2>3, FollowPlays
<1>4. QED
  BY <1>2, <1>3

(* While the browser is pausing, a turn is only planned.                   *)
LEMMA PlanPausing ==
  ASSUME NEW s, HasDemo(s), s.demo.phase = "pausing", NEW outcome, NEW answered
  PROVE  LET z == PlanInterruption(s, outcome, answered)
         IN  HasDemo(z) /\ z.demo = s.demo
<1> DEFINE g == CancelPlanning(s)
           p == [g EXCEPT !.interruption = outcome]
           z == PlanInterruption(s, outcome, answered)
<1>1. HasDemo(g) /\ g.demo = s.demo
  BY DEF CancelPlanning, HasDemo
<1>2. z = IF s.interruption = NoInterruption THEN s
          ELSE IF outcome = NoInterruption THEN g
          ELSE p
  <2>1. g = IF g.demo.phase = "answering"
            THEN [g EXCEPT !.demo = FinishInterruptionAnswer(g.demo).state] ELSE g
    BY <1>1
  <2>2. g.demo.phase = "pausing"
    BY <1>1
  <2> HIDE DEF g
  <2>3. QED
    BY <2>1, <2>2 DEF PlanInterruption, g
<1> HIDE DEF g, z
<1>3. HasDemo(p) /\ p.demo = s.demo
  BY <1>1 DEF HasDemo
<1>4. HasDemo(z) /\ z.demo = s.demo
  BY <1>1, <1>2, <1>3
<1>5. QED
  BY <1>4 DEF z

(* What the visitor said plays.                                            *)
LEMMA TurnPlays ==
  ASSUME NEW s, Fit(s), NEW continues \in BOOLEAN,
         NEW outcome \in Plans \union {NoInterruption}, NEW answered \in BOOLEAN
  PROVE  LET z == HandleTurn(s, continues, outcome, answered)
         IN  HasDemo(z) /\ Plays(s.demo, z.demo)
<1> DEFINE d == s.demo
           h == [s EXCEPT !.interruption = Heard]
           e == BeginInterruption(d).state
           p == Persist(h, e)
           m == PauseCommand(JourneyOf[s.journey.module])
           y == Send(p, m)
           z == HandleTurn(s, continues, outcome, answered)
<1>1. HasDemo(s) /\ Sound(d) /\ d \in DemoState /\ d.phase \in Phases /\ Plays(d, d) /\ AnswerDue(s)
  BY FitFacts DEF Fit
<1>2. z = IF d.phase = "playing" /\ Active(s)
          THEN PlanInterruption(y, outcome, answered)
          ELSE IF d.phase = "awaiting_resume" /\ d.reason = "module_complete" /\ continues
          THEN Follow(s, Continue(d))
          ELSE IF \/ d.phase \in {"pausing", "answering"}
                  \/ d.phase = "awaiting_resume" /\ d.reason \in {"interruption", "module_complete"}
          THEN PlanInterruption(h, outcome, answered)
          ELSE s
  <2>1. Active(s) <=> s.journey # NoJourney /\ ~s.journey.paused
    BY DEF Active
  <2>2. QED
    BY <2>1 DEF HandleTurn
<1>3. HasDemo(h) /\ h.demo = d
  BY <1>1 DEF HasDemo
<1>4. ASSUME d.phase = "playing"
      PROVE  /\ HasDemo(PlanInterruption(y, outcome, answered))
             /\ Plays(d, PlanInterruption(y, outcome, answered).demo)
  <2>1. e = [d EXCEPT !.phase = "pausing"]
    BY DEF BeginInterruption, Transition
  <2>2. e.phase = "pausing" /\ Kept(d, e)
    BY <1>1, <2>1 DEF DemoState, Kept
  <2> HIDE DEF e, h
  <2>3. HasDemo(y) /\ y.demo = e
    BY <1>3, PersistDemo, SendDemo
  <2> HIDE DEF y
  <2>4. HasDemo(PlanInterruption(y, outcome, answered)) /\ PlanInterruption(y, outcome, answered).demo = e
    BY <2>2, <2>3, PlanPausing
  <2>5. Stage(d) = "playing" /\ Stage(e) = "held"
    BY <1>4, <2>2, Stages DEF Held
  <2>6. QED
    BY <2>2, <2>4, <2>5 DEF Plays
<1>5. ASSUME d.phase = "awaiting_resume", d.reason = "module_complete"
      PROVE  HasDemo(Follow(s, Continue(d))) /\ Plays(d, Follow(s, Continue(d)).demo)
  <2>1. MayControl(d, "continue") /\ d.phase \in Held
    <3>1. d.module # NoModule
      BY <1>1, <1>5, StagedModule DEF ModulePhases
    <3>2. QED
      BY <1>5, <3>1 DEF MayControl, Held
  <2>2. QED
    BY <1>1, <2>1, ContinueLeads, ContinuePlays, FollowPlays
<1>6. ASSUME \/ d.phase \in {"pausing", "answering"}
             \/ d.phase = "awaiting_resume" /\ d.reason \in {"interruption", "module_complete"}
      PROVE  /\ HasDemo(PlanInterruption(h, outcome, answered))
             /\ Plays(d, PlanInterruption(h, outcome, answered).demo)
  <2>1. d.phase \in Held /\ (d.phase # "pausing" => d.reason # "failure")
    BY <1>1, <1>6 DEF Held, AnswerDue
  <2> HIDE DEF d, h
  <2>2. QED
    BY <1>1, <1>3, <2>1, PlanPlays
<1> HIDE DEF y, h, z
<1>7. HasDemo(z) /\ Plays(d, z.demo)
  BY <1>1, <1>2, <1>4, <1>5, <1>6
<1>8. QED
  BY <1>7 DEF z, d

(* The journey that reports is the one of the module on stage.             *)
LEMMA ReportsForStage ==
  ASSUME NEW s, Fit(s), s.journey.cmd # 0, s.demo.phase \in {"playing", "pausing"}
  PROVE  /\ s.demo.module = s.journey.module /\ s.demo.module \in Modules
         /\ s.demo.module # NoModule
<1>1. s.journey # NoJourney /\ ~s.journey.paused
  BY DEF Fit, JourneyOnStage, NoJourney, Server
<1>2. s.demo.module = s.journey.module
  BY <1>1 DEF Fit, JourneyOnStage, Active
<1>3. s.demo.module \in Modules /\ s.demo.module # NoModule
  BY FitFacts, StagedModule DEF ModulePhases
<1>4. QED
  BY <1>2, <1>3

(* The report of a pause plays.                                            *)
LEMMA PausedPlays ==
  ASSUME NEW s, Fit(s), NEW m, m.cmd \in Nat \ {0}, m.next \in Steps,
         NEW outcome \in Plans \union {NoInterruption}, NEW answered \in BOOLEAN
  PROVE  LET z == HandlePaused(s, m, outcome, answered)
         IN  HasDemo(z) /\ Plays(s.demo, z.demo)
<1> DEFINE d == s.demo
           r == [s EXCEPT !.journey.paused = TRUE]
           c == [journey |-> JourneyOf[s.journey.module], next |-> m.next]
           e == CheckpointInterruption(d, c).state
           at == Persist(r, e)
           z == HandlePaused(s, m, outcome, answered)
<1>1. /\ HasDemo(s) /\ Sound(d) /\ d \in DemoState /\ Plays(d, d)
      /\ s.interruption \in Plans \union {NoInterruption, Heard}
  BY FitFacts
<1>2. z = IF s.journey.cmd # m.cmd THEN s
          ELSE IF d.phase = "playing" THEN at
          ELSE IF d.phase = "pausing" THEN Settle(at, outcome, answered)
          ELSE r
  BY DEF HandlePaused
<1>3. HasDemo(r) /\ r.demo = d /\ r.interruption = s.interruption
  BY DEF HasDemo, Fit, Server
<1> HIDE DEF r, z
<1>4. /\ HasDemo(at) /\ at.demo = e
  BY <1>3, PersistDemo
<1>5. e = [d EXCEPT !.phase = "awaiting_resume", !.reason = "interruption",
                    !.checkpoint = c, !.finished = FALSE]
  BY DEF CheckpointInterruption, Transition
<1>6. ASSUME s.journey.cmd = m.cmd, d.phase \in {"playing", "pausing"}
      PROVE  /\ Plays(d, e) /\ Kept(d, e) /\ Stage(e) = "held" /\ e.phase = "awaiting_resume"
             /\ e.checkpoint = c /\ e.reason = "interruption"
             /\ c \in Checkpoints /\ c.journey = JourneyOf[d.module] /\ d.module # NoModule
  <2>1. s.journey.cmd # 0
    BY <1>6
  <2>2. d.module = s.journey.module /\ d.module \in Modules /\ d.module # NoModule
    BY <1>6, <2>1, ReportsForStage
  <2>3. c \in Checkpoints /\ c.journey = JourneyOf[d.module]
    BY <2>2, ProfileAssumption DEF Checkpoints
  <2> HIDE DEF c, e
  <2>4. /\ e.phase = "awaiting_resume" /\ Kept(d, e) /\ e.checkpoint = c
        /\ e.reason = "interruption"
    BY <1>1, <1>5 DEF DemoState, Kept
  <2>5. Stage(e) = "held" /\ Stage(d) \in {"playing", "held"}
    BY <1>6, <2>4, Stages DEF Held
  <2>6. QED
    BY <2>2, <2>3, <2>4, <2>5 DEF Plays
<1>7. ASSUME s.journey.cmd = m.cmd, d.phase = "pausing"
      PROVE  HasDemo(Settle(at, outcome, answered)) /\ Plays(d, Settle(at, outcome, answered).demo)
  <2>1. /\ Kept(d, e) /\ Stage(e) = "held" /\ e.phase = "awaiting_resume"
        /\ e.checkpoint = c /\ e.reason = "interruption"
        /\ c \in Checkpoints /\ c.journey = JourneyOf[d.module] /\ d.module # NoModule
    BY <1>6, <1>7
  <2> HIDE DEF c
  <2>2. MaySettleInterruption(d, c.journey)
    BY <1>7, <2>1 DEF MaySettleInterruption, PlaysJourney
  <2>3. Sound(e)
    BY <1>1, <2>1, <2>2, CheckpointInterruptionGood DEF Good
  <2>4. VerifiedInterruption(e)
    BY <2>1, AbsenceAssumption DEF VerifiedInterruption
  <2> HIDE DEF e
  <2>5. at.interruption \in Plans \union {NoInterruption, Heard}
    BY <1>1, <1>3 DEF Persist, Send, Fit, Server, r
  <2> HIDE DEF at
  <2>6. HasDemo(Settle(at, outcome, answered)) /\ Plays(e, Settle(at, outcome, answered).demo)
    BY <1>4, <2>1, <2>3, <2>4, <2>5, SettlePlays
  <2>7. Stage(d) = "held"
    BY <1>7, Stages DEF Held
  <2>8. QED
    BY <2>1, <2>6, <2>7, PlaysFrom
<1> HIDE DEF at, e, c
<1>8. HasDemo(z) /\ Plays(d, z.demo)
  BY <1>1, <1>2, <1>3, <1>4, <1>6, <1>7
<1>9. QED
  BY <1>8 DEF z, d

(* The result of a journey plays.                                          *)
LEMMA ResultPlays ==
  ASSUME NEW s, Fit(s), NEW m, m.cmd \in Nat \ {0}, m.ok \in BOOLEAN,
         NEW outcome \in Plans \union {NoInterruption}, NEW answered \in BOOLEAN
  PROVE  LET z == HandleResult(s, m, outcome, answered)
         IN  HasDemo(z) /\ Plays(s.demo, z.demo)
<1> DEFINE d == s.demo
           r == [s EXCEPT !.journey = NoJourney]
           e == CompleteModuleDuringInterruption(d).state
           at == Persist(r, e)
           t == JourneyResult(d, m.ok)
           z == HandleResult(s, m, outcome, answered)
<1>1. /\ HasDemo(s) /\ Sound(d) /\ d \in DemoState /\ Plays(d, d)
      /\ s.interruption \in Plans \union {NoInterruption, Heard}
  BY FitFacts
<1>2. z = IF s.journey.cmd # m.cmd THEN s
          ELSE IF m.ok /\ d.phase = "pausing" /\ s.interruption # NoInterruption
          THEN Settle(at, outcome, answered)
          ELSE IF MayTakeResult(d) THEN Follow(r, t)
          ELSE r
  BY DEF HandleResult
<1>3. HasDemo(r) /\ r.demo = d /\ r.interruption = s.interruption
  BY DEF HasDemo, Fit, Server
<1>4. ASSUME d.phase = "pausing"
      PROVE  HasDemo(Settle(at, outcome, answered)) /\ Plays(d, Settle(at, outcome, answered).demo)
  <2>1. JourneyOf[d.module] \in Journeys /\ MaySettleInterruption(d, JourneyOf[d.module])
    <3>1. d.module \in Modules /\ d.module # NoModule
      BY <1>1, <1>4, StagedModule DEF ModulePhases
    <3>2. QED
      BY <1>4, <3>1, ProfileAssumption DEF MaySettleInterruption, PlaysJourney
  <2>2. Sound(e)
    BY <1>1, <2>1, CompleteModuleGood DEF Good
  <2>3. e = [d EXCEPT !.phase = "awaiting_resume", !.reason = "interruption",
                      !.checkpoint = NoCheckpoint, !.finished = TRUE]
    BY DEF CompleteModuleDuringInterruption, Transition
  <2>4. at.interruption \in Plans \union {NoInterruption, Heard}
    BY <1>1, <1>3 DEF Persist, Send, Fit, Server
  <2> HIDE DEF e, r
  <2>5. /\ e.phase = "awaiting_resume" /\ e.reason = "interruption" /\ e.finished = TRUE
        /\ Kept(d, e)
    BY <1>1, <2>3 DEF DemoState, Kept
  <2>6. HasDemo(at) /\ at.demo = e
    BY <1>3, PersistDemo
  <2>7. VerifiedInterruption(e)
    BY <2>5 DEF VerifiedInterruption
  <2> HIDE DEF at
  <2>8. HasDemo(Settle(at, outcome, answered)) /\ Plays(e, Settle(at, outcome, answered).demo)
    BY <2>2, <2>4, <2>5, <2>6, <2>7, SettlePlays
  <2>9. Stage(d) = "held" /\ Stage(e) = "held"
    BY <1>4, <2>5, Stages DEF Held
  <2>10. QED
    BY <2>5, <2>8, <2>9, PlaysFrom
<1>5. ASSUME MayTakeResult(d)
      PROVE  HasDemo(Follow(r, t)) /\ Plays(d, Follow(r, t).demo)
  <2>1. Leads(t) /\ d.phase = "playing"
    BY <1>1, <1>5, ResultLeads DEF MayTakeResult
  <2>2. CASE m.ok /\ ~HasSlot(d, d.index + 1)
    <3>1. t = AdvanceModule(d)
      BY <2>2 DEF JourneyResult
    <3>2. Plays(d, t.state) /\ ~Replaces(d, t.state)
      BY <1>1, <2>1, <2>2, <3>1, AdvancePlays
    <3>3. QED
      BY <1>3, <2>1, <3>2, FollowPlays
  <2>3. CASE ~(m.ok /\ ~HasSlot(d, d.index + 1))
    <3>1. t.state \in {[d EXCEPT !.phase = "awaiting_resume", !.reason = "failure",
                                 !.checkpoint = NoCheckpoint],
                       [d EXCEPT !.phase = "awaiting_resume", !.reason = "module_complete",
                                 !.checkpoint = NoCheckpoint, !.finished = FALSE]}
      BY <2>3 DEF JourneyResult, Transition
    <3>2. t.state.phase = "awaiting_resume" /\ Kept(d, t.state)
      BY <1>1, <3>1 DEF DemoState, Kept
    <3>3. Stage(d) = "playing" /\ Stage(t.state) = "held"
      BY <2>1, <3>2, Stages DEF Held
    <3>4. Plays(d, t.state)
      BY <3>2, <3>3 DEF Plays
    <3>5. QED
      BY <1>3, <2>1, <3>2, <3>4, FollowPlays
  <2>4. QED
    BY <2>2, <2>3
<1> HIDE DEF r, at, t, z
<1>6. HasDemo(z) /\ Plays(d, z.demo)
  BY <1>1, <1>2, <1>3, <1>4, <1>5
<1>7. QED
  BY <1>6 DEF z, d

(* An observation plays.                                                   *)
LEMMA ObservationPlays ==
  ASSUME NEW s, Fit(s), NEW m, NEW answered \in BOOLEAN
  PROVE  HasDemo(HandleObservation(s, m, answered)) /\ Plays(s.demo, HandleObservation(s, m, answered).demo)
<1> DEFINE r == [s EXCEPT !.observing = 0]
<1>1. HasDemo(s) /\ Sound(s.demo) /\ Plays(s.demo, s.demo) /\ AnswerDue(s) /\ s \in Server
  BY FitFacts DEF Fit
<1>2. HandleObservation(s, m, answered) \in {s, r, ApplyDirective(r, s.interruption)}
      /\ (HandleObservation(s, m, answered) # s => s.observing # 0)
  BY DEF HandleObservation
<1>3. HasDemo(r) /\ r.demo = s.demo
  BY <1>1 DEF HasDemo
<1> HIDE DEF r
<1>4. ASSUME s.observing # 0
      PROVE  HasDemo(ApplyDirective(r, s.interruption)) /\ Plays(s.demo, ApplyDirective(r, s.interruption).demo)
  <2>1. s.demo.phase = "answering" /\ s.demo.reason # "failure" /\ Planned(s)
    BY <1>1, <1>4 DEF AnswerDue
  <2>2. s.interruption \in Plans
    BY <1>1, <2>1 DEF Server, Planned, Directives, NoInterruption, Heard
  <2>3. QED
    BY <1>1, <1>3, <2>1, <2>2, PlanFacts, ApplyPlays
<1>5. QED
  BY <1>1, <1>2, <1>3, <1>4

(* A barge-in plays.                                                       *)
LEMMA InterruptPlays ==
  ASSUME NEW s, Fit(s)
  PROVE  HasDemo(HandleInterrupt(s)) /\ Plays(s.demo, HandleInterrupt(s).demo)
<1> DEFINE r == [CancelPlanning(s) EXCEPT !.interruption = NoInterruption, !.timer = FALSE]
           e == IF s.demo.phase \in TerminalPhases THEN s ELSE Persist(r, Stop(s.demo).state)
           y == [e EXCEPT !.journey = NoJourney]
<1>1. HasDemo(s) /\ s.demo \in DemoState /\ Plays(s.demo, s.demo)
  BY FitFacts
<1>2. HandleInterrupt(s) = Send(y, StopCommand)
  BY DEF HandleInterrupt
<1>3. HasDemo(r)
  BY <1>1 DEF HasDemo, CancelPlanning
<1> HIDE DEF r
<1>4. HasDemo(e) /\ Plays(s.demo, e.demo)
  BY <1>1, <1>3, PersistDemo, StopPlays
<1> HIDE DEF e
<1>5. HasDemo(y) /\ y.demo = e.demo
  BY <1>4 DEF HasDemo
<1> HIDE DEF y
<1>6. QED
  BY <1>2, <1>4, <1>5, SendDemo

(* The closing timer plays.                                                *)
LEMMA ClosingPlays ==
  ASSUME NEW s, Fit(s)
  PROVE  HasDemo(Closed(s)) /\ Plays(s.demo, Closed(s).demo)
<1> DEFINE r == [s EXCEPT !.timer = FALSE]
           e == CompleteClosing(s.demo).state
<1>1. HasDemo(s) /\ s.demo \in DemoState /\ Plays(s.demo, s.demo)
  BY FitFacts
<1>2. HasDemo(r) /\ r.demo = s.demo
  BY <1>1 DEF HasDemo
<1>3. Closed(s) = IF MayCompleteClosing(s.demo) THEN Persist(r, e) ELSE r
  BY DEF Closed
<1> HIDE DEF r
<1>4. ASSUME MayCompleteClosing(s.demo) PROVE Plays(s.demo, e)
  <2>1. e = [s.demo EXCEPT !.phase = "completed", !.module = NoModule, !.question = NoQuestion]
    BY DEF CompleteClosing, Transition
  <2>2. /\ e.phase = "completed" /\ e.module = NoModule /\ e.playlist = s.demo.playlist
        /\ e.index = s.demo.index
    BY <1>1, <2>1 DEF DemoState
  <2> HIDE DEF e
  <2>3. Stage(s.demo) = "closing" /\ Stage(e) = "off"
    BY <1>4, <2>2, Stages DEF MayCompleteClosing, TerminalPhases
  <2>4. QED
    BY <2>2, <2>3 DEF Plays
<1>5. HasDemo(Persist(r, e)) /\ Persist(r, e).demo = e
  BY <1>2, PersistDemo
<1>6. QED
  BY <1>1, <1>2, <1>3, <1>4, <1>5

(* The late answer plays.                                                  *)
LEMMA LatePlays ==
  ASSUME NEW s, Fit(s), s.late
  PROVE  LET z == ApplyDirective([s EXCEPT !.late = FALSE],
                                 [s.interruption EXCEPT !.directive = "remain_paused"])
         IN  HasDemo(z) /\ Plays(s.demo, z.demo)
<1> DEFINE r == [s EXCEPT !.late = FALSE]
           plan == [s.interruption EXCEPT !.directive = "remain_paused"]
<1>1. HasDemo(s) /\ Sound(s.demo) /\ AnswerDue(s) /\ s \in Server
  BY FitFacts DEF Fit
<1>2. s.demo.phase = "answering" /\ s.demo.reason # "failure" /\ s.interruption \in Plans
  BY <1>1 DEF AnswerDue, Server, Planned, Directives, NoInterruption, Heard
<1>3. plan.directive = "remain_paused"
  BY <1>2 DEF Plans
<1> HIDE DEF plan
<1>4. plan.directive \in Directives /\ plan.directive # "replace_module"
  BY <1>3 DEF Directives
<1>5. HasDemo(r) /\ r.demo = s.demo
  BY <1>1 DEF HasDemo
<1> HIDE DEF r
<1>6. HasDemo(ApplyDirective(r, plan)) /\ Plays(s.demo, ApplyDirective(r, plan).demo)
  BY <1>1, <1>2, <1>4, <1>5, ApplyPlays
<1>7. QED
  BY <1>6 DEF r, plan

(* One step of the server.                                                 *)
LEMMA ServerPlays ==
  ASSUME IInv, ServerHandles \/ ServerTimers
  PROVE  Plays(srv.demo, srv'.demo)
<1>1. Fit(srv) /\ HasDemo(srv) /\ srv.demo \in DemoState /\ Plays(srv.demo, srv.demo)
  <2>1. Fit(srv)
    BY DEF IInv, Fit, ServerTyped
  <2>2. QED
    BY <2>1, FitFacts
<1>2. ASSUME NEW z, HasDemo(z), Plays(srv.demo, z.demo), Reply(z)
      PROVE  Plays(srv.demo, srv'.demo)
  <2>1. srv' = [z EXCEPT !.out = << >>]
    BY <1>2 DEF Reply
  <2>2. srv'.demo = z.demo
    BY <1>2, <2>1 DEF HasDemo
  <2>3. QED
    BY <1>2, <2>2
<1>3. CASE OnControl
  <2>1. Head(up).action \in ControlActions
    BY <1>3, Received, UpFields DEF OnControl, IsPress
  <2>2. QED
    BY <1>1, <1>2, <1>3, <2>1, ControlPlays DEF OnControl
<1>4. CASE OnIntakeTurn
  <2>1. PICK asks \in BOOLEAN, persona \in Personas \union {NoPersona} :
          Reply(HandleIntakeTurn(srv, asks, persona))
    BY <1>4 DEF OnIntakeTurn
  <2>2. QED
    BY <1>1, <1>2, <1>4, <2>1, IntakePlays DEF OnIntakeTurn
<1>5. CASE OnTurn
  <2>1. PICK continues \in BOOLEAN, outcome \in Outcomes, answered \in Answers :
          Reply(HandleTurn(srv, continues, outcome, answered))
    BY <1>5 DEF OnTurn
  <2>2. outcome \in Plans \union {NoInterruption} /\ answered \in BOOLEAN
    BY Choices
  <2>3. QED
    BY <1>1, <1>2, <2>1, <2>2, TurnPlays
<1>6. CASE OnPaused
  <2>1. PICK outcome \in Outcomes, answered \in Answers :
          Reply(HandlePaused(srv, Head(up), outcome, answered))
    BY <1>6 DEF OnPaused
  <2>2. outcome \in Plans \union {NoInterruption} /\ answered \in BOOLEAN
    BY Choices
  <2>3. Head(up).cmd \in Nat \ {0} /\ Head(up).next \in Steps
    BY <1>6, Received, UpFields DEF OnPaused
  <2>4. QED
    BY <1>1, <1>2, <2>1, <2>2, <2>3, PausedPlays
<1>7. CASE OnResult
  <2>1. PICK outcome \in Outcomes, answered \in Answers :
          Reply(HandleResult(srv, Head(up), outcome, answered))
    BY <1>7 DEF OnResult
  <2>2. outcome \in Plans \union {NoInterruption} /\ answered \in BOOLEAN
    BY Choices
  <2>3. Head(up).cmd \in Nat \ {0} /\ Head(up).ok \in BOOLEAN
    BY <1>7, Received, UpFields DEF OnResult, IsOutcome
  <2>4. QED
    BY <1>1, <1>2, <2>1, <2>2, <2>3, ResultPlays
<1>8. CASE OnObservation
  <2>1. PICK answered \in Answers : Reply(HandleObservation(srv, Head(up), answered))
    BY <1>8 DEF OnObservation
  <2>2. QED
    BY <1>1, <1>2, <2>1, Choices, ObservationPlays
<1>9. CASE OnInterrupt
  BY <1>1, <1>2, <1>9, InterruptPlays DEF OnInterrupt
<1>10. CASE ClosingTimer
  <2>1. Reply(Closed(srv))
    BY <1>10 DEF ClosingTimer, Closed
  <2>2. QED
    BY <1>1, <1>2, <2>1, ClosingPlays
<1>11. CASE ObservationTimeout
  <2> DEFINE z == [srv EXCEPT !.observing = 0, !.late = TRUE]
  <2>1. HasDemo(z) /\ z.demo = srv.demo /\ Reply(z)
    BY <1>1, <1>11 DEF HasDemo, ObservationTimeout
  <2> HIDE DEF z
  <2>2. QED
    BY <1>1, <1>2, <2>1
<1>12. CASE LateAnswer
  <2> DEFINE z == ApplyDirective([srv EXCEPT !.late = FALSE],
                                 [srv.interruption EXCEPT !.directive = "remain_paused"])
  <2>1. HasDemo(z) /\ Plays(srv.demo, z.demo)
    BY <1>1, <1>12, LatePlays DEF LateAnswer
  <2>2. Reply(z)
    BY <1>12 DEF LateAnswer
  <2> HIDE DEF z
  <2>3. QED
    BY <1>2, <2>1, <2>2
<1>13. QED
  BY <1>3, <1>4, <1>5, <1>6, <1>7, <1>8, <1>9, <1>10, <1>11, <1>12 DEF ServerHandles, ServerTimers

(* The whole session, with its socket, its timers and a visitor who talks  *)
(* and presses at any moment, is a playthrough for that visitor: every     *)
(* handler, however many director operations it makes, is one step of the  *)
(* promise or none.                                                        *)
THEOREM Refinement == Spec => ImplementsPlaythrough
<1>1. Init => Session!Visitor!Init
  BY DEF Init, InitServer, Session!Visitor!Init, Session!StageOf, Session!TerminalPhases,
         Idle
<1>2. IInv /\ [Next]_vars => [Session!Visitor!Step]_(Session!Visitor!tour)
  <2> SUFFICES ASSUME IInv, [Next]_vars PROVE Plays(srv.demo, srv'.demo)
    BY PlaysStep
  <2>1. ASSUME srv' = srv PROVE Plays(srv.demo, srv'.demo)
    BY <2>1 DEF Plays, Kept
  <2>2. ASSUME Visitor PROVE srv' = srv
    BY <2>2 DEF Visitor, Say, HostStops, StartVoice, Press, Acts
  <2>3. ASSUME SdkTakes \/ SdkWorks \/ Observe PROVE srv' = srv
    BY <2>3 DEF SdkTakes, TakeState, TakeRun, TakePause, TakeStop, TakeRequest, Take,
       SdkWorks, EndIntroduction, EndClosingCue, PauseAtBoundary, BeginStep, EndStep, FailStep,
       Observe, Browser
  <2>4. QED
    BY <2>1, <2>2, <2>3, ServerPlays DEF Next, vars
<1>3. QED
  BY <1>1, <1>2, Invariance, PTL DEF Spec, ImplementsPlaythrough,
     Session!ImplementsPlaythrough, Session!Visitor!Spec

-----------------------------------------------------------------------------
(* What the browser is told.  The last state on its way is the server's;   *)
(* where none is on its way, the panel shows the server's demo, but for    *)
(* what the visitor did since: a pause asked for while a module plays, of  *)
(* which a report is on its way once it is reached, or a button pressed    *)
(* that the server will accept.                                            *)
Tells(q, m) ==
  \E j \in 1..Len(q) : q[j] = m /\ \A i \in 1..Len(q) : j < i => ~IsState(q[i])
TellsNothing(q) == \A i \in 1..Len(q) : ~IsState(q[i])
StopsTold(q) ==
  \A i \in 1..Len(q) : IsStop(q[i]) => \E j \in 1..Len(q) : i < j /\ IsState(q[j])

Pressing(s, u) == \E i \in 1..Len(u) : IsPress(u[i]) /\ MayControl(s.demo, u[i].action)
Reporting(s, u) ==
  Active(s) /\ \E i \in 1..Len(u) : u[i].kind = "paused" /\ u[i].cmd = s.journey.cmd
PanelShows(s, k, u) ==
  /\ s.demo.phase = "playing" => k.phase \in {"playing", "pausing", "paused"}
  /\ s.demo.phase = "pausing" => k.phase = "pausing" \/ (k.phase = "paused" /\ Reporting(s, u))
  /\ s.demo.phase \notin {"playing", "pausing"} => k.phase = s.demo.phase
  /\ k.buttons = Buttons(s.demo) \/ (k.buttons = {} /\ Pressing(s, u))

PInv(s, k, u, q) ==
  /\ s.demo.phase = "playing" => Active(s)
  /\ s.demo.phase = "pausing" => StopsTold(q)
  /\ Tells(q, StateCommand(s.demo)) \/ (TellsNothing(q) /\ PanelShows(s, k, u))
PanelInv == PInv(srv, sdk, up, down)

-----------------------------------------------------------------------------
(* What a handler sends, and the state it leaves.  It has told the browser *)
(* its demo, awaits the journey of a demo that plays, and no stop follows  *)
(* the state of one that is pausing.                                       *)
IsList(o) == \E S : o \in Seq(S)
Parts(s) ==
  /\ {"demo", "journey", "issued", "out", "interruption", "timer", "observing", "late"} \subseteq DOMAIN s
  /\ IsList(s.out) /\ s.issued \in Nat
Spoke(s) == Parts(s) /\ Tells(s.out, StateCommand(s.demo))
Done(s) ==
  /\ Spoke(s)
  /\ s.demo.phase = "playing" => Active(s)
  /\ s.demo.phase = "pausing" => StopsTold(s.out)

(* A list that something is appended to.                                   *)
LEMMA ListGrows ==
  ASSUME NEW o, IsList(o), NEW m
  PROVE  IsList(Append(o, m)) /\ Grown(o, Append(o, m), m) /\ Len(o) \in Nat
<1>1. PICK S : o \in Seq(S)
  BY DEF IsList
<1> DEFINE T == S \union {m}
<1>2. o \in Seq(T) /\ m \in T
  BY <1>1
<1> HIDE DEF T
<1>3. Append(o, m) \in Seq(T) /\ Grown(o, Append(o, m), m) /\ Len(o) \in Nat
  BY <1>2, Appended
<1>4. QED
  BY <1>3 DEF IsList

(* What follows a list in a queue.                                         *)
LEMMA ListJoins ==
  ASSUME NEW q, NEW o, IsList(q), IsList(o)
  PROVE  /\ Len(q) \in Nat /\ Len(o) \in Nat /\ Len(q \o o) = Len(q) + Len(o)
         /\ \A i \in 1..Len(q) : (q \o o)[i] = q[i]
         /\ \A i \in 1..Len(o) : (q \o o)[Len(q) + i] = o[i]
<1>1. PICK S : q \in Seq(S)
  BY DEF IsList
<1>2. PICK T : o \in Seq(T)
  BY DEF IsList
<1> DEFINE W == S \union T
<1>3. q \in Seq(W) /\ o \in Seq(W)
  BY <1>1, <1>2
<1> HIDE DEF W
<1>4. QED
  BY <1>3

(* Something else than a state is sent after it.                           *)
LEMMA TellsStill ==
  ASSUME NEW o, NEW m, Tells(o, m), IsList(o), NEW c, ~IsState(c)
  PROVE  Tells(Append(o, c), m)
<1>1. Grown(o, Append(o, c), c) /\ Len(o) \in Nat
  BY ListGrows
<1> DEFINE p == Append(o, c)
<1> HIDE DEF p
<1>2. PICK j \in 1..Len(o) : o[j] = m /\ \A i \in 1..Len(o) : j < i => ~IsState(o[i])
  BY DEF Tells
<1>3. j \in 1..Len(p) /\ p[j] = m
  BY <1>1, <1>2 DEF Grown, p
<1>4. ASSUME NEW i \in 1..Len(p), j < i PROVE ~IsState(p[i])
  BY <1>1, <1>2, <1>4 DEF Grown, p
<1>5. QED
  BY <1>3, <1>4 DEF Tells, p

(* A state is sent.                                                        *)
LEMMA TellsNow ==
  ASSUME NEW o, IsList(o), NEW m
  PROVE  Tells(Append(o, m), m)
  BY ListGrows DEF Grown, Tells

(* Sending another command.                                                *)
LEMMA SendParts ==
  ASSUME NEW s, Parts(s), NEW m
  PROVE  LET z == Send(s, m)
         IN  /\ Parts(z) /\ z.demo = s.demo /\ z.journey = s.journey /\ z.issued = s.issued
             /\ z.interruption = s.interruption
             /\ z.out = Append(s.out, m)
<1>1. IsList(Append(s.out, m))
  BY ListGrows DEF Parts
<1>2. QED
  BY <1>1 DEF Parts, Send

(* It leaves what the browser was told.                                    *)
LEMMA SendSpoke ==
  ASSUME NEW s, Spoke(s), NEW m, ~IsState(m)
  PROVE  Spoke(Send(s, m))
<1> DEFINE z == Send(s, m)
<1>1. Parts(z) /\ z.demo = s.demo /\ z.out = Append(s.out, m)
  BY SendParts DEF Spoke
<1> HIDE DEF z
<1>2. QED
  BY <1>1, TellsStill DEF Spoke, Parts, z

(* The other fields of a state may change.                                 *)
LEMMA SameTold ==
  ASSUME NEW s, Spoke(s), NEW z, Parts(z), z.demo = s.demo, z.out = s.out
  PROVE  Spoke(z)
  BY DEF Spoke

(* Persisting tells the browser.                                           *)
LEMMA PersistSpoke ==
  ASSUME NEW s, Parts(s), NEW e
  PROVE  LET z == Persist(s, e)
         IN  /\ Spoke(z) /\ z.demo = e /\ z.journey = s.journey /\ z.issued = s.issued
             /\ z.interruption = s.interruption
<1> DEFINE r == [s EXCEPT !.demo = e]
           m == StateCommand(e)
           z == Send(r, m)
<1>1. Parts(r) /\ r.demo = e /\ r.journey = s.journey /\ r.issued = s.issued
      /\ r.interruption = s.interruption
  BY DEF Parts
<1>2. Persist(s, e) = z
  BY DEF Persist
<1> HIDE DEF r, m
<1>3. /\ Parts(z) /\ z.demo = e /\ z.journey = s.journey /\ z.issued = s.issued
      /\ z.interruption = s.interruption /\ z.out = Append(r.out, m)
  BY <1>1, SendParts
<1> HIDE DEF z
<1>4. Tells(z.out, m)
  BY <1>1, <1>3, TellsNow DEF Parts
<1>5. Spoke(z)
  BY <1>3, <1>4 DEF Spoke, m
<1>6. QED
  BY <1>2, <1>3, <1>5

(* A module that may not run waits as a failed one.                        *)
LEMMA FallPhase ==
  ASSUME NEW d, d \in DemoState
  PROVE  JourneyResult(d, FALSE).state.phase = "awaiting_resume"
  BY DEF JourneyResult, Transition, DemoState

(* The order of a transition goes out after its state.                     *)
LEMMA DispatchDone ==
  ASSUME NEW s, Spoke(s), NEW t, Leads(t), s.demo = t.state
  PROVE  Done(Dispatch(s, t))
<1> DEFINE z == Dispatch(s, t)
           n == s.issued + 1
           j == [cmd |-> n, module |-> t.order.module, paused |-> FALSE]
           r == [s EXCEPT !.issued = n, !.journey = j]
           y == [s EXCEPT !.timer = @ \/ s.demo.phase = "closing"]
           e == JourneyResult(s.demo, FALSE).state
<1>1. CASE t.order.kind \notin {"run", "resume"}
  <2>1. z = y
    BY <1>1 DEF Dispatch, ScheduleClosing
  <2>2. Parts(y) /\ y.demo = s.demo /\ y.out = s.out
    BY DEF Parts, Spoke
  <2> HIDE DEF y, z
  <2>3. Spoke(y)
    BY <2>2, SameTold
  <2>4. y.demo.phase \notin {"playing", "pausing"}
    BY <1>1, <2>2 DEF Leads
  <2>5. QED
    BY <2>1, <2>3, <2>4 DEF Done, z
<1>2. CASE t.order.kind \in {"run", "resume"} /\ t.order.module \notin Playable
  <2>1. z = Persist(s, e)
    BY <1>2 DEF Dispatch, RunDemoModule
  <2>2. e.phase = "awaiting_resume"
    BY FallPhase DEF Leads, Good, Sound
  <2> HIDE DEF z, e
  <2>3. Spoke(z) /\ z.demo = e
    BY <2>1, PersistSpoke DEF Spoke
  <2>4. QED
    BY <2>2, <2>3 DEF Done, z
<1>3. CASE t.order.kind \in {"run", "resume"} /\ t.order.module \in Playable
  <2> DEFINE c == RunCommand(n, t.order)
  <2>1. z = Send(r, c)
    BY <1>3 DEF Dispatch, RunDemoModule
  <2>2. s.issued \in Nat
    BY DEF Spoke, Parts
  <2>3. Parts(r) /\ r.demo = s.demo /\ r.out = s.out /\ r.journey = j
    BY <2>2 DEF Parts, Spoke
  <2>4. j # NoJourney /\ ~j.paused
    BY <2>2 DEF NoJourney
  <2>5. ~IsState(c)
    BY DEF RunCommand, IsState
  <2>6. t.state.phase = "playing"
    BY <1>3 DEF Leads
  <2> HIDE DEF r, j, c, z
  <2>7. Spoke(z) /\ z.demo = s.demo /\ z.journey = j
    BY <2>1, <2>3, <2>5, SameTold, SendSpoke, SendParts
  <2>8. QED
    BY <2>4, <2>6, <2>7 DEF Done, Active, z
<1>4. QED
  BY <1>1, <1>2, <1>3

(* So it is with a transition that is persisted first.                     *)
LEMMA FollowDone ==
  ASSUME NEW s, Parts(s), NEW t, Leads(t)
  PROVE  Done(Follow(s, t))
<1>1. Spoke(Persist(s, t.state)) /\ Persist(s, t.state).demo = t.state
  BY PersistSpoke
<1>2. QED
  BY <1>1, DispatchDone DEF Follow

(* A state in which nothing plays or pauses is done with once it is told.  *)
LEMMA SettledDone ==
  ASSUME NEW s, Spoke(s), s.demo.phase \notin {"playing", "pausing"}
  PROVE  Done(s)
  BY DEF Done

-----------------------------------------------------------------------------
(* The handlers.                                                           *)

(* The phase that a stop leads to.                                         *)
LEMMA StopPhase ==
  ASSUME NEW d, d \in DemoState
  PROVE  Stop(d).state.phase = "stopped"
  BY DEF Stop, Transition, DemoState

(* applyDemoDirective tells what it leads to.                              *)
LEMMA ApplyDone ==
  ASSUME NEW s, Parts(s), Sound(s.demo), s.demo.phase = "answering", s.demo.reason # "failure",
         NEW plan, plan.directive \in Directives,
         plan.directive = "replace_module" => plan.module \in Playable
  PROVE  Done(ApplyDirective(s, plan))
<1> DEFINE d == FinishInterruptionAnswer(s.demo).state
           r == [s EXCEPT !.interruption = NoInterruption]
           y == [r EXCEPT !.journey = NoJourney]
           z == ApplyDirective(s, plan)
<1>1. /\ Sound(d) /\ d.phase = "awaiting_resume" /\ d.reason = s.demo.reason /\ AnswerablePosition(d)
  BY FinishedAnswer
<1>2. Parts(r) /\ Parts(y)
  BY DEF Parts
<1>3. /\ plan.directive = "remain_paused" => z = Persist(r, d)
      /\ plan.directive = "resume_now" => z = Follow(r, Continue(d))
      /\ plan.directive = "stop" => z = Send(Persist(y, Stop(d).state), StopCommand)
      /\ plan.directive = "replace_module" =>
           z = Follow(Send(y, StopCommand), ReplaceAfterInterruption(d, plan.module))
  BY DEF ApplyDirective
<1> HIDE DEF d, r, y, z
<1>4. d.module # NoModule /\ d \in DemoState
  BY <1>1, StagedModule DEF ModulePhases
<1>5. CASE plan.directive = "remain_paused"
  BY <1>1, <1>2, <1>3, <1>5, PersistSpoke, SettledDone DEF z
<1>6. CASE plan.directive = "resume_now"
  <2>1. MayControl(d, "continue")
    BY <1>1, <1>4 DEF MayControl, AnswerablePosition, d
  <2>2. Done(z)
    BY <1>1, <1>2, <1>3, <1>6, <2>1, ContinueLeads, FollowDone
  <2>3. QED
    BY <2>2 DEF z
<1>7. CASE plan.directive = "stop"
  <2> DEFINE p == Persist(y, Stop(d).state)
  <2>1. Spoke(p) /\ p.demo.phase = "stopped"
    BY <1>2, <1>4, PersistSpoke, StopPhase
  <2>2. z = Send(p, StopCommand) /\ ~IsState(StopCommand)
    BY <1>3, <1>7 DEF IsState, StopCommand
  <2> HIDE DEF p
  <2>3. Spoke(z) /\ z.demo = p.demo
    BY <2>1, <2>2, SendSpoke, SendParts DEF Spoke
  <2>4. Done(z)
    BY <2>1, <2>3, SettledDone
  <2>5. QED
    BY <2>4 DEF z
<1>8. CASE plan.directive = "replace_module"
  <2> DEFINE t == ReplaceAfterInterruption(d, plan.module)
             x == Send(y, StopCommand)
  <2>1. plan.module \in Modules
    BY <1>8, DemoAssumption
  <2>2. MayReplace(d)
    BY <1>1, <1>4 DEF MayReplace, MayBeginAnswer
  <2>3. Leads(t)
    BY <1>1, <2>1, <2>2, ReplaceLeads
  <2>4. z = Follow(x, t)
    BY <1>3, <1>8
  <2>5. Parts(x)
    BY <1>2, SendParts
  <2> HIDE DEF t, x
  <2>6. Done(z)
    BY <2>3, <2>4, <2>5, FollowDone
  <2>7. QED
    BY <2>6 DEF z
<1>9. QED
  BY <1>5, <1>6, <1>7, <1>8 DEF Directives

(* Asking for a fresh view comes after the state.                          *)
LEMMA AskDone ==
  ASSUME NEW s, Spoke(s), s.demo.phase \notin {"playing", "pausing"}
  PROVE  Done(RequestObservation(s))
<1> DEFINE n == s.issued + 1
           r == [s EXCEPT !.issued = @ + 1, !.observing = n]
           m == [kind |-> "request_observation", cmd |-> n]
           z == RequestObservation(s)
<1>1. z = Send(r, m)
  BY DEF RequestObservation
<1>2. Parts(r) /\ r.demo = s.demo /\ r.out = s.out
  BY DEF Spoke, Parts
<1>3. ~IsState(m)
  BY DEF IsState
<1> HIDE DEF r, m, z
<1>4. Spoke(z) /\ z.demo = s.demo
  BY <1>1, <1>2, <1>3, SameTold, SendSpoke, SendParts
<1>5. QED
  BY <1>4, SettledDone DEF z

(* A turn heard in a demo that waits or answers is answered, where the     *)
(* planner answers.                                                        *)
LEMMA PlanDone ==
  ASSUME NEW s, Parts(s), Sound(s.demo), s.demo.phase \in {"awaiting_resume", "answering"},
         s.demo.reason # "failure", s.interruption # NoInterruption,
         NEW outcome \in Plans, NEW answered \in BOOLEAN
  PROVE  Done(PlanInterruption(s, outcome, answered))
<1> DEFINE g == CancelPlanning(s)
           f == FinishInterruptionAnswer(s.demo).state
           a == IF g.demo.phase = "answering"
                THEN [g EXCEPT !.demo = FinishInterruptionAnswer(g.demo).state] ELSE g
           p == [a EXCEPT !.interruption = outcome]
           e == BeginInterruptionAnswer(p.demo).state
           b == Persist(p, e)
           c == Persist(b, FinishInterruptionAnswer(b.demo).state)
           z == PlanInterruption(s, outcome, answered)
<1>1. z = IF s.interruption = NoInterruption THEN s
          ELSE IF a.demo.phase # "pausing" /\ ~PositionVerified(a) THEN a
          ELSE IF outcome = NoInterruption THEN a
          ELSE IF a.demo.phase = "pausing" THEN p
          ELSE IF outcome.observe THEN RequestObservation(b)
          ELSE IF answered THEN ApplyDirective(b, outcome)
          ELSE c
  BY DEF PlanInterruption
<1>2. Parts(g) /\ g.demo = s.demo
  BY DEF CancelPlanning, Parts
<1>3. Parts(a) /\ Sound(a.demo) /\ a.demo.phase = "awaiting_resume" /\ a.demo.reason # "failure"
  <2> HIDE DEF g
  <2>1. CASE s.demo.phase = "answering"
    <3>1. a = [g EXCEPT !.demo = f]
      BY <1>2, <2>1
    <3>2. Parts(a) /\ a.demo = f
      BY <1>2, <3>1 DEF Parts
    <3>3. QED
      BY <2>1, <3>2, FinishedAnswer
  <2>2. CASE s.demo.phase # "answering"
    BY <1>2, <2>2
  <2>3. QED
    BY <2>1, <2>2
<1> HIDE DEF a
<1>4. PositionVerified(a)
  <2>1. AnswerablePosition(a.demo)
    BY <1>3 DEF Sound, WaitsForCause
  <2>2. QED
    BY <1>3, <2>1 DEF PositionVerified, AnswerablePosition
<1>5. Parts(p) /\ p.demo = a.demo
  BY <1>3 DEF Parts
<1> HIDE DEF p
<1>6. Sound(e) /\ e.phase = "answering" /\ e.reason # "failure"
  BY <1>3, <1>5, BegunAnswer
<1> HIDE DEF e
<1>7. Spoke(b) /\ b.demo = e
  BY <1>5, PersistSpoke
<1> HIDE DEF b
<1>8. Done(RequestObservation(b))
  BY <1>6, <1>7, AskDone
<1>9. Done(ApplyDirective(b, outcome))
  BY <1>6, <1>7, PlanFacts, ApplyDone DEF Spoke
<1>10. Done(c)
  <2>1. Spoke(c) /\ c.demo = FinishInterruptionAnswer(e).state
    BY <1>7, PersistSpoke DEF Spoke
  <2>2. c.demo.phase = "awaiting_resume"
    BY <1>6, <2>1, FinishedAnswer
  <2> HIDE DEF c
  <2>3. QED
    BY <2>1, <2>2, SettledDone
<1> HIDE DEF c, z
<1>11. outcome # NoInterruption
  BY PlanFacts
<1>12. Done(z)
  BY <1>1, <1>3, <1>4, <1>8, <1>9, <1>10, <1>11
<1>13. QED
  BY <1>12 DEF z

(* What an answer leads to is told.                                        *)
LEMMA SettleDone ==
  ASSUME NEW s, Spoke(s), Sound(s.demo), s.demo.phase = "awaiting_resume",
         VerifiedInterruption(s.demo), s.interruption \in Plans \union {NoInterruption, Heard},
         NEW outcome \in Plans, NEW answered \in BOOLEAN
  PROVE  Done(Settle(s, outcome, answered))
<1>1. s.demo.reason # "failure" /\ Parts(s)
  BY DEF VerifiedInterruption, Spoke
<1>2. CASE s.interruption = NoInterruption
  <2>1. ~Planned(s)
    BY <1>2 DEF Planned, NoInterruption, Directives
  <2>2. Settle(s, outcome, answered) = s
    BY <1>2, <2>1 DEF Settle, PlanInterruption
  <2>3. QED
    BY <2>2, SettledDone
<1>3. CASE s.interruption # NoInterruption /\ ~Planned(s)
  BY <1>1, <1>3, PlanDone DEF Settle
<1>4. CASE Planned(s)
  <2> DEFINE e == BeginInterruptionAnswer(s.demo).state
             a == Persist(s, e)
             g == CancelPlanning(a)
             z == Settle(s, outcome, answered)
  <2>1. z = IF s.interruption.observe THEN RequestObservation(g)
            ELSE IF answered THEN ApplyDirective(g, s.interruption) ELSE g
    <3>1. PositionVerified(s) /\ a = IF s.demo.phase = "awaiting_resume" THEN a ELSE s
      BY DEF PositionVerified
    <3> HIDE DEF a
    <3>2. QED
      BY <1>4, <3>1 DEF Settle, ContinueInterruption, a
  <2>2. Sound(e) /\ e.phase = "answering" /\ e.reason = s.demo.reason
    BY BegunAnswer
  <2> HIDE DEF e
  <2>3. Spoke(a) /\ a.demo = e
    BY <1>1, PersistSpoke
  <2> HIDE DEF a
  <2>4. Parts(g) /\ g.demo = e /\ g.out = a.out
    BY <2>3 DEF CancelPlanning, Spoke, Parts
  <2>5. Spoke(g)
    BY <2>3, <2>4, SameTold
  <2>6. s.interruption \in Plans
    BY <1>4 DEF Planned, Directives, NoInterruption, Heard
  <2> HIDE DEF g, z
  <2>7. Done(RequestObservation(g)) /\ Done(g)
    BY <2>2, <2>4, <2>5, AskDone, SettledDone
  <2>8. Done(ApplyDirective(g, s.interruption))
    BY <1>1, <2>2, <2>4, <2>6, PlanFacts, ApplyDone
  <2>9. Done(z)
    BY <2>1, <2>7, <2>8
  <2>10. QED
    BY <2>9 DEF z
<1>5. QED
  BY <1>2, <1>3, <1>4

(* A handler that tells nothing leaves the demo as it is.                  *)
Mute(z, s) == Parts(z) /\ z.demo = s.demo /\ z.out = << >>

(* The server between two handlers.                                        *)
Between(s) == Fit(s) /\ Parts(s) /\ s.out = << >>

(* A button that is accepted is answered with a state.                     *)
LEMMA ControlDone ==
  ASSUME NEW s, Between(s), NEW action \in ControlActions, MayControl(s.demo, action)
  PROVE  Done(HandleControl(s, action))
<1> DEFINE d == s.demo
           t == Control(d, action)
           r == [CancelPlanning(s) EXCEPT !.interruption = NoInterruption, !.timer = FALSE]
           y == [r EXCEPT !.journey = NoJourney]
           dropped == Persist(y, t.state)
           x == Send(dropped, StopCommand)
           z == HandleControl(s, action)
<1>1. Sound(d) /\ d \in DemoState
  BY FitFacts DEF Between
<1>2. z = IF action = "stop" THEN x
          ELSE IF action \in {"retry", "skip"} /\ s.journey.paused
          THEN Dispatch(x, t)
          ELSE Follow(r, t)
  BY DEF HandleControl
<1>3. Parts(r) /\ Parts(y)
  BY DEF Between, Parts, CancelPlanning
<1> HIDE DEF r, y, z
<1>4. Spoke(dropped) /\ dropped.demo = t.state
  BY <1>3, PersistSpoke
<1>5. ~IsState(StopCommand)
  BY DEF StopCommand, IsState
<1> HIDE DEF dropped
<1>6. Spoke(x) /\ x.demo = t.state
  BY <1>4, <1>5, SendSpoke, SendParts DEF Spoke
<1> HIDE DEF x
<1>7. ASSUME action # "stop" PROVE Leads(t)
  <2>1. CASE action = "start"
    BY <2>1, StartLeads DEF Control
  <2>2. CASE action = "retry"
    BY <1>1, <2>2, RetryLeads DEF Control, MayControl
  <2>3. CASE action = "skip"
    BY <1>1, <2>3, AdvanceLeads DEF Control
  <2>4. CASE action = "continue"
    BY <1>1, <2>4, ContinueLeads DEF Control
  <2>5. QED
    BY <1>7, <2>1, <2>2, <2>3, <2>4 DEF ControlActions
<1>8. ASSUME action = "stop" PROVE t.state.phase = "stopped"
  BY <1>1, <1>8, StopPhase DEF Control
<1> HIDE DEF t
<1>9. Done(z)
  BY <1>2, <1>3, <1>6, <1>7, <1>8, FollowDone, DispatchDone, SettledDone
<1>10. QED
  BY <1>9 DEF z

(* An answer of the intake is told, or changes nothing.                    *)
LEMMA IntakeDone ==
  ASSUME NEW s, Between(s), NEW asks \in BOOLEAN, NEW p \in Personas \union {NoPersona}
  PROVE  LET z == HandleIntakeTurn(s, asks, p) IN Done(z) \/ z = s
<1>1. Sound(s.demo)
  BY FitFacts DEF Between
<1>2. CASE asks \/ ~MayCaptureIntake(s.demo)
  BY <1>2 DEF HandleIntakeTurn
<1>3. CASE ~(asks \/ ~MayCaptureIntake(s.demo))
  <2>1. HandleIntakeTurn(s, asks, p) = Follow(s, CaptureIntake(s.demo, p))
    BY <1>3 DEF HandleIntakeTurn
  <2>2. Leads(CaptureIntake(s.demo, p))
    BY <1>1, <1>3, CaptureLeads
  <2>3. QED
    BY <2>1, <2>2, FollowDone DEF Between
<1>4. QED
  BY <1>2, <1>3

(* While the browser is pausing, a turn is planned and nothing is sent.    *)
LEMMA PlanSilent ==
  ASSUME NEW s, Parts(s), s.demo.phase = "pausing", NEW outcome, NEW answered
  PROVE  LET z == PlanInterruption(s, outcome, answered)
         IN  Parts(z) /\ z.demo = s.demo /\ z.out = s.out /\ z.journey = s.journey
<1> DEFINE g == CancelPlanning(s)
           p == [g EXCEPT !.interruption = outcome]
           z == PlanInterruption(s, outcome, answered)
<1>1. Parts(g) /\ g.demo = s.demo /\ g.out = s.out /\ g.journey = s.journey
  BY DEF CancelPlanning, Parts
<1>2. z = IF s.interruption = NoInterruption THEN s
          ELSE IF outcome = NoInterruption THEN g
          ELSE p
  <2>1. g = IF g.demo.phase = "answering"
            THEN [g EXCEPT !.demo = FinishInterruptionAnswer(g.demo).state] ELSE g
    BY <1>1
  <2>2. g.demo.phase = "pausing"
    BY <1>1
  <2> HIDE DEF g
  <2>3. QED
    BY <2>1, <2>2 DEF PlanInterruption, g
<1> HIDE DEF g, z
<1>3. Parts(p) /\ p.demo = s.demo /\ p.out = s.out /\ p.journey = s.journey
  BY <1>1 DEF Parts
<1>4. Parts(z) /\ z.demo = s.demo /\ z.out = s.out /\ z.journey = s.journey
  BY <1>1, <1>2, <1>3
<1>5. QED
  BY <1>4 DEF z

(* Of a pause asked for, the browser is told the state and then the order. *)
LEMMA PauseTold ==
  ASSUME NEW s, Between(s), NEW e, NEW j
  PROVE  LET y == Send(Persist([s EXCEPT !.interruption = Heard], e), PauseCommand(j))
         IN  Parts(y) /\ Spoke(y) /\ y.demo = e /\ StopsTold(y.out)
<1> DEFINE h == [s EXCEPT !.interruption = Heard]
           p == Persist(h, e)
           m == PauseCommand(j)
           y == Send(p, m)
<1>1. Parts(h) /\ h.out = << >>
  BY DEF Between, Parts
<1>2. ~IsState(m) /\ ~IsStop(m) /\ ~IsStop(StateCommand(e))
  BY DEF PauseCommand, StateCommand, IsState, IsStop
<1>3. p.out = Append(h.out, StateCommand(e))
  BY <1>1 DEF Persist, Send, Parts
<1> HIDE DEF h, m
<1>4. Spoke(p) /\ p.demo = e
  BY <1>1, PersistSpoke
<1> HIDE DEF p
<1>5. Spoke(y) /\ Parts(y) /\ y.demo = e /\ y.out = Append(p.out, m)
  BY <1>2, <1>4, SendSpoke, SendParts DEF Spoke
<1> HIDE DEF y
<1>6. Grown(h.out, p.out, StateCommand(e)) /\ Grown(p.out, y.out, m) /\ Len(h.out) = 0
  BY <1>1, <1>3, <1>4, <1>5, ListGrows DEF Parts, Spoke
<1>7. StopsTold(y.out)
  <2>1. Len(y.out) = 2 /\ y.out[1] = StateCommand(e) /\ y.out[2] = m
    BY <1>6 DEF Grown
  <2>2. QED
    BY <1>2, <2>1 DEF StopsTold
<1>8. QED
  BY <1>5, <1>7 DEF y, p, m, h

(* What the visitor says is told, or it is only remembered.                *)
LEMMA TurnDone ==
  ASSUME NEW s, Between(s), NEW continues \in BOOLEAN, NEW outcome \in Plans, NEW answered \in BOOLEAN
  PROVE  LET z == HandleTurn(s, continues, outcome, answered)
         IN  Done(z) \/ (Mute(z, s) /\ z.journey = s.journey)
<1> DEFINE d == s.demo
           h == [s EXCEPT !.interruption = Heard]
           e == BeginInterruption(d).state
           y == Send(Persist(h, e), PauseCommand(JourneyOf[s.journey.module]))
           z == HandleTurn(s, continues, outcome, answered)
           w == PlanInterruption(y, outcome, answered)
           v == PlanInterruption(h, outcome, answered)
<1>1. /\ Sound(d) /\ d \in DemoState /\ AnswerDue(s) /\ Parts(s) /\ s.out = << >>
  BY FitFacts DEF Between, Fit
<1>2. z = IF d.phase = "playing" /\ Active(s) THEN w
          ELSE IF d.phase = "awaiting_resume" /\ d.reason = "module_complete" /\ continues
          THEN Follow(s, Continue(d))
          ELSE IF \/ d.phase \in {"pausing", "answering"}
                  \/ d.phase = "awaiting_resume" /\ d.reason \in {"interruption", "module_complete"}
          THEN v
          ELSE s
  <2>1. Active(s) <=> s.journey # NoJourney /\ ~s.journey.paused
    BY DEF Active
  <2>2. QED
    BY <2>1 DEF HandleTurn
<1>3. /\ Parts(h) /\ h.demo = d /\ h.out = << >> /\ h.journey = s.journey
      /\ h.interruption # NoInterruption
  BY <1>1 DEF Parts, Heard, NoInterruption
<1>4. Done(w)
  <2>1. e.phase = "pausing"
    BY <1>1 DEF BeginInterruption, Transition, DemoState
  <2>2. Parts(y) /\ Spoke(y) /\ y.demo = e /\ StopsTold(y.out)
    BY PauseTold
  <2> HIDE DEF e, y
  <2>3. Parts(w) /\ w.demo = y.demo /\ w.out = y.out
    BY <2>1, <2>2, PlanSilent
  <2> HIDE DEF w
  <2>4. QED
    BY <2>1, <2>2, <2>3, SameTold DEF Done
<1>5. ASSUME d.phase = "awaiting_resume", d.reason = "module_complete"
      PROVE  Done(Follow(s, Continue(d)))
  <2>1. d.module # NoModule
    BY <1>1, <1>5, StagedModule DEF ModulePhases
  <2>2. MayControl(d, "continue")
    BY <1>5, <2>1 DEF MayControl
  <2>3. QED
    BY <1>1, <2>2, ContinueLeads, FollowDone
<1> HIDE DEF h, y
<1>6. ASSUME d.phase = "pausing"
      PROVE  Mute(v, s) /\ v.journey = s.journey
  BY <1>3, <1>6, PlanSilent DEF Mute
<1>7. ASSUME \/ d.phase = "answering"
             \/ d.phase = "awaiting_resume" /\ d.reason \in {"interruption", "module_complete"}
      PROVE  Done(v)
  <2>1. d.phase \in {"awaiting_resume", "answering"} /\ d.reason # "failure"
    BY <1>1, <1>7 DEF AnswerDue
  <2>2. QED
    BY <1>1, <1>3, <2>1, PlanDone
<1>8. Mute(s, s)
  BY <1>1 DEF Mute
<1> HIDE DEF w, v, z
<1>9. Done(z) \/ (Mute(z, s) /\ z.journey = s.journey)
  BY <1>2, <1>4, <1>5, <1>6, <1>7, <1>8
<1>10. QED
  BY <1>9 DEF z

(* The report of a pause is told, where it is that of the journey on stage. *)
LEMMA PausedDone ==
  ASSUME NEW s, Between(s), NEW m, m.cmd \in Nat \ {0}, m.next \in Steps,
         NEW outcome \in Plans, NEW answered \in BOOLEAN
  PROVE  LET z == HandlePaused(s, m, outcome, answered)
         IN  \/ Done(z)
             \/ Mute(z, s) /\ (s.demo.phase \in {"playing", "pausing"} => z = s /\ s.journey.cmd # m.cmd)
<1> DEFINE d == s.demo
           r == [s EXCEPT !.journey.paused = TRUE]
           c == [journey |-> JourneyOf[s.journey.module], next |-> m.next]
           e == CheckpointInterruption(d, c).state
           at == Persist(r, e)
           z == HandlePaused(s, m, outcome, answered)
<1>1. /\ Fit(s) /\ Parts(s) /\ s.out = << >> /\ Sound(d) /\ d \in DemoState
      /\ s.interruption \in Plans \union {NoInterruption, Heard}
  BY FitFacts DEF Between
<1>2. z = IF s.journey.cmd # m.cmd THEN s
          ELSE IF d.phase = "playing" THEN at
          ELSE IF d.phase = "pausing" THEN Settle(at, outcome, answered)
          ELSE r
  BY DEF HandlePaused
<1>3. Parts(r) /\ r.demo = d /\ r.interruption = s.interruption /\ r.out = << >>
  BY <1>1 DEF Parts
<1> HIDE DEF r, z
<1>4. Spoke(at) /\ at.demo = e /\ at.interruption = s.interruption
  BY <1>3, PersistSpoke
<1>5. e = [d EXCEPT !.phase = "awaiting_resume", !.reason = "interruption",
                    !.checkpoint = c, !.finished = FALSE]
  BY DEF CheckpointInterruption, Transition
<1>6. e.phase = "awaiting_resume" /\ e.reason = "interruption" /\ e.checkpoint = c
  BY <1>1, <1>5 DEF DemoState
<1> HIDE DEF at
<1>7. Done(at)
  BY <1>4, <1>6, SettledDone
<1>8. ASSUME s.journey.cmd = m.cmd, d.phase = "pausing"
      PROVE  Done(Settle(at, outcome, answered))
  <2>1. s.journey.cmd # 0
    BY <1>8
  <2>2. d.module = s.journey.module /\ d.module \in Modules /\ d.module # NoModule
    BY <1>1, <1>8, <2>1, ReportsForStage
  <2>3. c \in Checkpoints /\ c.journey = JourneyOf[d.module]
    BY <2>2, ProfileAssumption DEF Checkpoints
  <2> HIDE DEF c
  <2>4. MaySettleInterruption(d, c.journey)
    BY <1>8, <2>2, <2>3 DEF MaySettleInterruption, PlaysJourney
  <2>5. Sound(e)
    BY <1>1, <2>3, <2>4, CheckpointInterruptionGood DEF Good
  <2>6. VerifiedInterruption(e)
    BY <1>6, <2>3, AbsenceAssumption DEF VerifiedInterruption
  <2> HIDE DEF e
  <2>7. QED
    BY <1>1, <1>4, <1>6, <2>5, <2>6, SettleDone
<1>9. Mute(s, s) /\ Mute(r, s)
  BY <1>1, <1>3 DEF Mute
<1> HIDE DEF e, c
<1>10. \/ Done(z)
       \/ Mute(z, s) /\ (s.demo.phase \in {"playing", "pausing"} => z = s /\ s.journey.cmd # m.cmd)
  BY <1>2, <1>7, <1>8, <1>9
<1>11. QED
  BY <1>10 DEF z

(* So is a result; one the director refuses only ends a journey that was   *)
(* being paused.                                                           *)
LEMMA ResultDone ==
  ASSUME NEW s, Between(s), NEW m, m.cmd \in Nat \ {0}, m.ok \in BOOLEAN,
         NEW outcome \in Plans, NEW answered \in BOOLEAN
  PROVE  LET z == HandleResult(s, m, outcome, answered)
         IN  \/ Done(z)
             \/ z = s
             \/ Mute(z, s) /\ s.demo.phase # "playing" /\ s.journey.cmd = m.cmd
<1> DEFINE d == s.demo
           r == [s EXCEPT !.journey = NoJourney]
           e == CompleteModuleDuringInterruption(d).state
           at == Persist(r, e)
           t == JourneyResult(d, m.ok)
           z == HandleResult(s, m, outcome, answered)
<1>1. /\ Parts(s) /\ s.out = << >> /\ Sound(d) /\ d \in DemoState
      /\ s.interruption \in Plans \union {NoInterruption, Heard}
  BY FitFacts DEF Between
<1>2. z = IF s.journey.cmd # m.cmd THEN s
          ELSE IF m.ok /\ d.phase = "pausing" /\ s.interruption # NoInterruption
          THEN Settle(at, outcome, answered)
          ELSE IF MayTakeResult(d) THEN Follow(r, t)
          ELSE r
  BY DEF HandleResult
<1>3. Parts(r) /\ r.demo = d /\ r.interruption = s.interruption /\ r.out = << >>
  BY <1>1 DEF Parts
<1> HIDE DEF r
<1>4. ASSUME d.phase = "pausing" PROVE Done(Settle(at, outcome, answered))
  <2>1. JourneyOf[d.module] \in Journeys /\ MaySettleInterruption(d, JourneyOf[d.module])
    <3>1. d.module \in Modules /\ d.module # NoModule
      BY <1>1, <1>4, StagedModule DEF ModulePhases
    <3>2. QED
      BY <1>4, <3>1, ProfileAssumption DEF MaySettleInterruption, PlaysJourney
  <2>2. Sound(e)
    BY <1>1, <2>1, CompleteModuleGood DEF Good
  <2>3. e = [d EXCEPT !.phase = "awaiting_resume", !.reason = "interruption",
                      !.checkpoint = NoCheckpoint, !.finished = TRUE]
    BY DEF CompleteModuleDuringInterruption, Transition
  <2> HIDE DEF e
  <2>4. e.phase = "awaiting_resume" /\ e.reason = "interruption" /\ e.finished = TRUE
    BY <1>1, <2>3 DEF DemoState
  <2>5. Spoke(at) /\ at.demo = e /\ at.interruption = s.interruption
    BY <1>3, PersistSpoke
  <2>6. VerifiedInterruption(e)
    BY <2>4 DEF VerifiedInterruption
  <2> HIDE DEF at
  <2>7. QED
    BY <1>1, <2>2, <2>4, <2>5, <2>6, SettleDone
<1>5. ASSUME MayTakeResult(d) PROVE Done(Follow(r, t))
  BY <1>1, <1>3, <1>5, ResultLeads, FollowDone
<1>6. ~MayTakeResult(d) => d.phase # "playing"
  BY <1>1, StagedModule DEF MayTakeResult, ModulePhases
<1>7. Mute(r, s)
  BY <1>3 DEF Mute
<1> HIDE DEF at, t, z
<1>8. \/ Done(z)
      \/ z = s
      \/ Mute(z, s) /\ s.demo.phase # "playing" /\ s.journey.cmd = m.cmd
  BY <1>2, <1>4, <1>5, <1>6, <1>7
<1>9. QED
  BY <1>8 DEF z

(* An observation is answered with a state, or changes nothing to be told. *)
LEMMA ObservationDone ==
  ASSUME NEW s, Between(s), NEW m, NEW answered \in BOOLEAN
  PROVE  LET z == HandleObservation(s, m, answered)
         IN  Done(z) \/ (Mute(z, s) /\ z.journey = s.journey)
<1> DEFINE r == [s EXCEPT !.observing = 0]
           z == HandleObservation(s, m, answered)
<1>1. Sound(s.demo) /\ AnswerDue(s) /\ s \in Server /\ Parts(s) /\ s.out = << >>
  BY FitFacts DEF Between, Fit
<1>2. z \in {s, r, ApplyDirective(r, s.interruption)} /\ (z # s => s.observing # 0)
  BY DEF HandleObservation
<1>3. Parts(r) /\ r.demo = s.demo /\ r.out = << >> /\ r.journey = s.journey
  BY <1>1 DEF Parts
<1> HIDE DEF r, z
<1>4. ASSUME s.observing # 0 PROVE Done(ApplyDirective(r, s.interruption))
  <2>1. s.demo.phase = "answering" /\ s.demo.reason # "failure" /\ Planned(s)
    BY <1>1, <1>4 DEF AnswerDue
  <2>2. s.interruption \in Plans
    BY <1>1, <2>1 DEF Server, Planned, Directives, NoInterruption, Heard
  <2>3. QED
    BY <1>1, <1>3, <2>1, <2>2, PlanFacts, ApplyDone
<1>5. Done(z) \/ (Mute(z, s) /\ z.journey = s.journey)
  BY <1>1, <1>2, <1>3, <1>4 DEF Mute
<1>6. QED
  BY <1>5 DEF z

(* A barge-in stops the demo, unless it is over.                           *)
LEMMA InterruptDone ==
  ASSUME NEW s, Between(s)
  PROVE  LET z == HandleInterrupt(s)
         IN  \/ Done(z)
             \/ /\ Parts(z) /\ z.demo = s.demo /\ s.demo.phase \in TerminalPhases
                /\ TellsNothing(z.out)
<1> DEFINE r == [CancelPlanning(s) EXCEPT !.interruption = NoInterruption, !.timer = FALSE]
           p == Persist(r, Stop(s.demo).state)
           e == IF s.demo.phase \in TerminalPhases THEN s ELSE p
           y == [e EXCEPT !.journey = NoJourney]
           z == HandleInterrupt(s)
<1>1. Parts(s) /\ s.out = << >> /\ s.demo \in DemoState
  BY FitFacts DEF Between
<1>2. z = Send(y, StopCommand)
  BY DEF HandleInterrupt
<1>3. ~IsState(StopCommand)
  BY DEF StopCommand, IsState
<1>4. Parts(r)
  BY <1>1 DEF Parts, CancelPlanning
<1> HIDE DEF r, z
<1>5. Spoke(p) /\ p.demo.phase = "stopped"
  BY <1>1, <1>4, PersistSpoke, StopPhase
<1> HIDE DEF p
<1>6. Parts(e)
  BY <1>1, <1>5 DEF Spoke
<1>7. Parts(y) /\ y.demo = e.demo /\ y.out = e.out
  <2> HIDE DEF e
  <2>1. QED
    BY <1>6 DEF Parts
<1> HIDE DEF y
<1>8. Parts(z) /\ z.demo = e.demo /\ z.out = Append(e.out, StopCommand)
  BY <1>2, <1>7, SendParts
<1>9. CASE s.demo.phase \in TerminalPhases
  <2>1. Grown(s.out, z.out, StopCommand) /\ Len(s.out) = 0 /\ z.demo = s.demo
    BY <1>1, <1>8, <1>9, ListGrows DEF Parts
  <2>2. TellsNothing(z.out)
    BY <1>3, <2>1 DEF TellsNothing, Grown
  <2>3. QED
    BY <1>8, <1>9, <2>2 DEF z
<1>10. CASE s.demo.phase \notin TerminalPhases
  <2>1. Spoke(e) /\ e.demo.phase = "stopped"
    BY <1>5, <1>10
  <2> HIDE DEF e
  <2>2. Spoke(y)
    BY <1>7, <2>1, SameTold
  <2>3. Spoke(z)
    BY <1>2, <1>3, <2>2, SendSpoke
  <2>4. Done(z)
    BY <1>8, <2>1, <2>3, SettledDone
  <2>5. QED
    BY <2>4 DEF z
<1>11. QED
  BY <1>9, <1>10

(* The timer of the closing.                                               *)
LEMMA ClosingDone ==
  ASSUME NEW s, Between(s)
  PROVE  Done(Closed(s)) \/ (Mute(Closed(s), s) /\ Closed(s).journey = s.journey)
<1> DEFINE r == [s EXCEPT !.timer = FALSE]
           e == CompleteClosing(s.demo).state
<1>1. Parts(s) /\ s.out = << >> /\ s.demo \in DemoState
  BY FitFacts DEF Between
<1>2. Parts(r) /\ r.demo = s.demo /\ r.out = << >> /\ r.journey = s.journey
  BY <1>1 DEF Parts
<1>3. Closed(s) = IF MayCompleteClosing(s.demo) THEN Persist(r, e) ELSE r
  BY DEF Closed
<1> HIDE DEF r
<1>4. e.phase = "completed"
  BY <1>1 DEF CompleteClosing, Transition, DemoState
<1> HIDE DEF e
<1>5. Done(Persist(r, e))
  BY <1>2, <1>4, PersistSpoke, SettledDone
<1>6. QED
  BY <1>2, <1>3, <1>5 DEF Mute

(* The answer after an observation that did not come in time.              *)
LEMMA LateDone ==
  ASSUME NEW s, Between(s), s.late
  PROVE  Done(ApplyDirective([s EXCEPT !.late = FALSE],
                             [s.interruption EXCEPT !.directive = "remain_paused"]))
<1> DEFINE r == [s EXCEPT !.late = FALSE]
           plan == [s.interruption EXCEPT !.directive = "remain_paused"]
<1>1. Sound(s.demo) /\ AnswerDue(s) /\ s \in Server /\ Parts(s)
  BY FitFacts DEF Between, Fit
<1>2. s.demo.phase = "answering" /\ s.demo.reason # "failure" /\ s.interruption \in Plans
  BY <1>1 DEF AnswerDue, Server, Planned, Directives, NoInterruption, Heard
<1>3. plan.directive = "remain_paused"
  BY <1>2 DEF Plans
<1> HIDE DEF plan
<1>4. plan.directive \in Directives /\ plan.directive # "replace_module"
  BY <1>3 DEF Directives
<1>5. Parts(r) /\ r.demo = s.demo
  BY <1>1 DEF Parts
<1> HIDE DEF r
<1>6. Done(ApplyDirective(r, plan))
  BY <1>1, <1>2, <1>4, <1>5, ApplyDone
<1>7. QED
  BY <1>6 DEF r, plan
-----------------------------------------------------------------------------
(* The queues.  What is joined to a list leaves what is in it.             *)
Extends(u, v) ==
  /\ Len(u) \in Nat /\ Len(v) \in Nat /\ Len(u) <= Len(v)
  /\ \A i \in 1..Len(u) : v[i] = u[i]

(* A list extends itself, and so does what is joined to it.                *)
LEMMA Extended ==
  ASSUME NEW u, IsList(u)
  PROVE  /\ Extends(u, u)
         /\ \A o : IsList(o) => Extends(u, u \o o) /\ IsList(u \o o)
         /\ \A m : Extends(u, Append(u, m)) /\ IsList(Append(u, m))
         /\ \A v, w : Extends(u, v) /\ Extends(v, w) => Extends(u, w)
<1>1. Len(u) \in Nat
  BY DEF IsList
<1>2. ASSUME NEW o, IsList(o) PROVE Extends(u, u \o o) /\ IsList(u \o o)
  <2>1. Extends(u, u \o o)
    BY <1>2, ListJoins DEF Extends
  <2>2. PICK S : u \in Seq(S)
    BY DEF IsList
  <2>3. PICK T : o \in Seq(T)
    BY <1>2 DEF IsList
  <2> DEFINE W == S \union T
  <2>4. u \in Seq(W) /\ o \in Seq(W)
    BY <2>2, <2>3
  <2> HIDE DEF W
  <2>5. u \o o \in Seq(W)
    BY <2>4
  <2>6. QED
    BY <2>1, <2>5 DEF IsList
<1>3. ASSUME NEW m PROVE Extends(u, Append(u, m)) /\ IsList(Append(u, m))
  BY <1>1, ListGrows DEF Grown, Extends
<1>4. ASSUME NEW v, NEW w, Extends(u, v), Extends(v, w) PROVE Extends(u, w)
  BY <1>4 DEF Extends
<1>5. QED
  BY <1>1, <1>2, <1>3, <1>4 DEF Extends

(* A message that is on its way stays there while others are sent.         *)
LEMMA StillOnItsWay ==
  ASSUME NEW s, NEW u, NEW v, Extends(u, v)
  PROVE  /\ Pressing(s, u) => Pressing(s, v)
         /\ Reporting(s, u) => Reporting(s, v)
<1>1. \A i \in 1..Len(u) : i \in 1..Len(v) /\ v[i] = u[i]
  BY DEF Extends
<1>2. QED
  BY <1>1 DEF Pressing, Reporting

(* The queue of commands without its head.                                 *)
LEMMA HeadGone ==
  ASSUME NEW q, NEW p, Shrunk(q, p), Len(q) \in Nat, Len(p) \in Nat, NEW m
  PROVE  /\ TellsNothing(q) => TellsNothing(p)
         /\ StopsTold(q) => StopsTold(p)
         /\ Tells(q, m) => Tells(p, m) \/ (q[1] = m /\ TellsNothing(p))
<1>1. /\ \A i \in 1..Len(p) : i + 1 \in 1..Len(q) /\ p[i] = q[i + 1]
      /\ \A i \in 1..Len(q) : i = 1 \/ (i - 1 \in 1..Len(p) /\ q[i] = p[i - 1])
  BY DEF Shrunk
<1>2. TellsNothing(q) => TellsNothing(p)
  BY <1>1 DEF TellsNothing
<1>3. ASSUME StopsTold(q), NEW i \in 1..Len(p), IsStop(p[i])
      PROVE  \E j \in 1..Len(p) : i < j /\ IsState(p[j])
  <2>1. PICK j \in 1..Len(q) : i + 1 < j /\ IsState(q[j])
    BY <1>1, <1>3 DEF StopsTold
  <2>2. j - 1 \in 1..Len(p) /\ i < j - 1 /\ p[j - 1] = q[j]
    BY <1>1, <2>1
  <2>3. QED
    BY <2>1, <2>2
<1>4. ASSUME Tells(q, m) PROVE Tells(p, m) \/ (q[1] = m /\ TellsNothing(p))
  <2>1. PICK j \in 1..Len(q) : q[j] = m /\ \A i \in 1..Len(q) : j < i => ~IsState(q[i])
    BY <1>4 DEF Tells
  <2>2. CASE j = 1
    <3>1. \A i \in 1..Len(p) : i + 1 \in 1..Len(q) /\ j < i + 1 /\ p[i] = q[i + 1]
      BY <1>1, <2>2
    <3>2. QED
      BY <2>1, <2>2, <3>1 DEF TellsNothing
  <2>3. CASE j # 1
    <3>1. j - 1 \in 1..Len(p) /\ p[j - 1] = m
      BY <1>1, <2>1, <2>3
    <3>2. ASSUME NEW i \in 1..Len(p), j - 1 < i PROVE ~IsState(p[i])
      <4>1. i + 1 \in 1..Len(q) /\ j < i + 1 /\ p[i] = q[i + 1]
        BY <1>1, <3>2
      <4>2. QED
        BY <2>1, <4>1
    <3>3. QED
      BY <3>1, <3>2 DEF Tells
  <2>4. QED
    BY <2>2, <2>3
<1>5. QED
  BY <1>2, <1>3, <1>4 DEF StopsTold

(* What a handler sends: the state it tells is the last one, and a state   *)
(* follows every stop that was sent before.                                *)
LEMMA RepliesTell ==
  ASSUME NEW q, NEW o, IsList(q), IsList(o), NEW m
  PROVE  /\ Tells(o, m) => Tells(q \o o, m)
         /\ TellsNothing(o) /\ Tells(q, m) => Tells(q \o o, m)
         /\ TellsNothing(o) /\ TellsNothing(q) => TellsNothing(q \o o)
         /\ StopsTold(o) /\ Tells(o, m) /\ IsState(m) => StopsTold(q \o o)
<1> DEFINE p == q \o o
<1>1. /\ Len(q) \in Nat /\ Len(o) \in Nat /\ Len(p) = Len(q) + Len(o)
      /\ \A i \in 1..Len(q) : p[i] = q[i]
      /\ \A i \in 1..Len(o) : p[Len(q) + i] = o[i]
  BY ListJoins
<1> HIDE DEF p
<1>2. \A i \in 1..Len(p) :
        i \in 1..Len(q) \/ (Len(q) < i /\ i - Len(q) \in 1..Len(o) /\ p[i] = o[i - Len(q)])
  <2> SUFFICES ASSUME NEW i \in 1..Len(p), i \notin 1..Len(q)
               PROVE  Len(q) < i /\ i - Len(q) \in 1..Len(o) /\ p[i] = o[i - Len(q)]
    OBVIOUS
  <2>1. Len(q) < i /\ i - Len(q) \in 1..Len(o) /\ i = Len(q) + (i - Len(q))
    BY <1>1
  <2>2. QED
    BY <1>1, <2>1
<1>3. \A i \in 1..Len(q) : i \in 1..Len(p) /\ p[i] = q[i]
  BY <1>1
<1>4. \A i \in 1..Len(o) : Len(q) + i \in 1..Len(p) /\ p[Len(q) + i] = o[i]
  BY <1>1
<1>5. ASSUME Tells(o, m) PROVE Tells(p, m)
  <2>1. PICK j \in 1..Len(o) : o[j] = m /\ \A i \in 1..Len(o) : j < i => ~IsState(o[i])
    BY <1>5 DEF Tells
  <2>2. ASSUME NEW i \in 1..Len(p), Len(q) + j < i PROVE ~IsState(p[i])
    <3>1. i - Len(q) \in 1..Len(o) /\ p[i] = o[i - Len(q)] /\ j < i - Len(q)
      BY <1>1, <1>2, <2>2
    <3>2. QED
      BY <2>1, <3>1
  <2>3. QED
    BY <1>4, <2>1, <2>2 DEF Tells
<1>6. ASSUME TellsNothing(o), Tells(q, m) PROVE Tells(p, m)
  <2>1. PICK j \in 1..Len(q) : q[j] = m /\ \A i \in 1..Len(q) : j < i => ~IsState(q[i])
    BY <1>6 DEF Tells
  <2>2. ASSUME NEW i \in 1..Len(p), j < i PROVE ~IsState(p[i])
    BY <1>2, <1>3, <1>6, <2>1, <2>2 DEF TellsNothing
  <2>3. QED
    BY <1>3, <2>1, <2>2 DEF Tells
<1>7. ASSUME TellsNothing(o), TellsNothing(q) PROVE TellsNothing(p)
  BY <1>2, <1>3, <1>7 DEF TellsNothing
<1>8. ASSUME StopsTold(o), Tells(o, m), IsState(m), NEW i \in 1..Len(p), IsStop(p[i])
      PROVE  \E j \in 1..Len(p) : i < j /\ IsState(p[j])
  <2>1. CASE i \in 1..Len(q)
    <3>1. PICK j \in 1..Len(o) : o[j] = m
      BY <1>8 DEF Tells
    <3>2. Len(q) + j \in 1..Len(p) /\ p[Len(q) + j] = m /\ i < Len(q) + j
      BY <1>1, <1>4, <2>1, <3>1
    <3>3. QED
      BY <1>8, <3>2
  <2>2. CASE i \notin 1..Len(q)
    <3>1. i - Len(q) \in 1..Len(o) /\ IsStop(o[i - Len(q)])
      BY <1>2, <1>8, <2>2
    <3>2. PICK j \in 1..Len(o) : i - Len(q) < j /\ IsState(o[j])
      BY <1>8, <3>1 DEF StopsTold
    <3>3. Len(q) + j \in 1..Len(p) /\ p[Len(q) + j] = o[j] /\ i < Len(q) + j
      BY <1>1, <1>4, <3>2
    <3>4. QED
      BY <3>2, <3>3
  <2>3. QED
    BY <2>1, <2>2
<1>9. QED
  BY <1>5, <1>6, <1>7, <1>8 DEF StopsTold, p
-----------------------------------------------------------------------------
(* The steps of the server.  One that speaks leaves its state on the way   *)
(* to the browser.                                                         *)
LEMMA BetweenHandlers ==
  ASSUME IInv
  PROVE  /\ Between(srv) /\ IsList(down) /\ IsList(up)
         /\ Len(up) \in Nat /\ srv.journey.cmd \in Nat
<1>1. Fit(srv) /\ srv.out = << >>
  BY DEF IInv, Fit, ServerTyped
<1>2. srv \in Server
  BY <1>1 DEF Fit
<1>3. << >> \in Seq({})
  OBVIOUS
<1>4. Parts(srv)
  BY <1>1, <1>2, <1>3 DEF Server, Parts, IsList
<1>5. up \in Seq(UpMessages) /\ down \in Seq(DownMessages)
  BY DEF IInv
<1>6. QED
  BY <1>1, <1>2, <1>4, <1>5 DEF Between, IsList, Server

(* What is replied: the state the handler left, without what it sent.      *)
LEMMA RepliedState ==
  ASSUME NEW z, Parts(z), Reply(z)
  PROVE  /\ srv'.demo = z.demo /\ srv'.journey = z.journey /\ down' = down \o z.out
         /\ Active(srv') <=> Active(z)
<1>1. srv' = [z EXCEPT !.out = << >>] /\ down' = down \o z.out
  BY DEF Reply
<1>2. srv'.demo = z.demo /\ srv'.journey = z.journey
  BY <1>1 DEF Parts
<1>3. QED
  BY <1>1, <1>2 DEF Active

(* A handler that has told its state.                                       *)
LEMMA SpokeStep ==
  ASSUME IInv, NEW z, Done(z), Reply(z)
  PROVE  PanelInv'
<1> DEFINE m == StateCommand(z.demo)
<1>1. /\ Parts(z) /\ Tells(z.out, m)
      /\ z.demo.phase = "playing" => Active(z)
      /\ z.demo.phase = "pausing" => StopsTold(z.out)
  BY DEF Done, Spoke
<1>2. srv'.demo = z.demo /\ down' = down \o z.out /\ (Active(srv') <=> Active(z))
  BY <1>1, RepliedState
<1>3. IsState(m)
  BY DEF StateCommand, IsState
<1> HIDE DEF m
<1>4. IsList(down) /\ IsList(z.out)
  BY <1>1, BetweenHandlers DEF Parts
<1>5. Tells(down', m) /\ (z.demo.phase = "pausing" => StopsTold(down'))
  BY <1>1, <1>2, <1>3, <1>4, RepliesTell
<1>6. PInv(srv', sdk', up', down')
  BY <1>1, <1>2, <1>5 DEF PInv, m
<1>7. QED
  BY <1>6 DEF PanelInv

(* One that does not leaves the demo, and what the browser is still to     *)
(* report or has pressed.                                                  *)
LEMMA QuietStep ==
  ASSUME IInv, PanelInv, NEW z, Parts(z), z.demo = srv.demo, Reply(z), sdk' = sdk,
         TellsNothing(z.out), z.out = << >> \/ srv.demo.phase # "pausing",
         srv.demo.phase = "playing" => Active(z),
         Pressing(srv, up) => Pressing(srv, up'),
         srv.demo.phase = "pausing" /\ Reporting(srv, up) => Reporting(z, up')
  PROVE  PanelInv'
<1> DEFINE m == StateCommand(srv.demo)
<1>1. /\ srv'.demo = srv.demo /\ srv'.journey = z.journey /\ down' = down \o z.out
      /\ Active(srv') <=> Active(z)
  BY RepliedState
<1>2. IsList(down) /\ IsList(z.out)
  BY BetweenHandlers DEF Parts
<1>3. /\ srv.demo.phase = "pausing" => StopsTold(down)
      /\ Tells(down, m) \/ (TellsNothing(down) /\ PanelShows(srv, sdk, up))
  BY DEF PanelInv, PInv
<1>4. z.out = << >> => down' = down
  BY <1>1, <1>2 DEF IsList
<1>5. srv.demo.phase = "pausing" => StopsTold(down')
  BY <1>3, <1>4
<1> HIDE DEF m
<1>6. Tells(down', m) \/ (TellsNothing(down') /\ PanelShows(srv, sdk, up))
  BY <1>1, <1>2, <1>3, RepliesTell
<1>7. Pressing(srv', up') <=> Pressing(srv, up')
  BY <1>1 DEF Pressing
<1>8. Reporting(srv', up') <=> Reporting(z, up')
  BY <1>1 DEF Reporting
<1>9. PanelShows(srv, sdk, up) => PanelShows(srv', sdk', up')
  BY <1>1, <1>7, <1>8 DEF PanelShows
<1>10. PInv(srv', sdk', up', down')
  BY <1>1, <1>5, <1>6, <1>9 DEF PInv, m
<1>11. QED
  BY <1>10 DEF PanelInv

(* The message that is taken is the only one that is gone.                 *)
LEMMA OthersStay ==
  ASSUME IInv, up # << >>, up' = Tail(up)
  PROVE  /\ Pressing(srv, up) => Pressing(srv, up')
                                 \/ (IsPress(Head(up)) /\ MayControl(srv.demo, Head(up).action))
         /\ Reporting(srv, up) => Reporting(srv, up')
                                  \/ (Head(up).kind = "paused" /\ Head(up).cmd = srv.journey.cmd)
<1>1. up \in Seq(UpMessages)
  BY DEF IInv
<1>2. /\ Tail(up) \in Seq(UpMessages) /\ Shrunk(up, Tail(up))
      /\ Len(up) \in Nat \ {0} /\ Head(up) = up[1]
  BY <1>1, Removed
<1>3. \A i \in 1..Len(up) : i = 1 \/ (i - 1 \in 1..Len(Tail(up)) /\ up[i] = Tail(up)[i - 1])
  BY <1>2, ShrunkKeeps
<1>4. ASSUME Pressing(srv, up), ~Pressing(srv, Tail(up))
      PROVE  IsPress(Head(up)) /\ MayControl(srv.demo, Head(up).action)
  <2>1. PICK i \in 1..Len(up) : IsPress(up[i]) /\ MayControl(srv.demo, up[i].action)
    BY <1>4 DEF Pressing
  <2>2. i = 1
    BY <1>3, <1>4, <2>1 DEF Pressing
  <2>3. QED
    BY <1>2, <2>1, <2>2
<1>5. ASSUME Reporting(srv, up), ~Reporting(srv, Tail(up))
      PROVE  Head(up).kind = "paused" /\ Head(up).cmd = srv.journey.cmd
  <2>1. PICK i \in 1..Len(up) : up[i].kind = "paused" /\ up[i].cmd = srv.journey.cmd
    BY <1>5 DEF Reporting
  <2>2. i = 1
    BY <1>3, <1>5, <2>1 DEF Reporting
  <2>3. QED
    BY <1>2, <2>1, <2>2
<1>6. QED
  BY <1>4, <1>5

(* A journey has one outcome: none has a report and a result.              *)
LEMMA ReportIsOutcome ==
  ASSUME IInv, up # << >>, Head(up).kind = "journey_result", Head(up).cmd = srv.journey.cmd
  PROVE  ~Reporting(srv, up)
<1> SUFFICES ASSUME Reporting(srv, up) PROVE FALSE
  OBVIOUS
<1>1. up \in Seq(UpMessages) /\ OneOutcome(sdk, up)
  BY DEF IInv, Fine, Commands
<1>2. Head(up) = up[1] /\ 1 \in 1..Len(up)
  BY <1>1, Removed
<1>3. PICK i \in 1..Len(up) : up[i].kind = "paused" /\ up[i].cmd = srv.journey.cmd
  BY DEF Reporting
<1>4. IsOutcome(up[1]) /\ IsOutcome(up[i]) /\ up[i].cmd = up[1].cmd
  BY <1>2, <1>3 DEF IsOutcome
<1>5. i = 1
  BY <1>1, <1>2, <1>4 DEF OneOutcome
<1>6. QED
  BY <1>2, <1>3, <1>5
(* Where the handler left the journey too, what the browser is to report   *)
(* is still to be reported.                                                *)
LEMMA MuteStep ==
  ASSUME IInv, PanelInv, NEW z, Mute(z, srv), z.journey = srv.journey, Reply(z), sdk' = sdk,
         Pressing(srv, up) => Pressing(srv, up'),
         srv.demo.phase = "pausing" /\ Reporting(srv, up) => Reporting(srv, up')
  PROVE  PanelInv'
<1>1. /\ Parts(z) /\ z.demo = srv.demo /\ z.out = << >>
      /\ Active(z) <=> Active(srv)
  BY DEF Mute, Active
<1>2. TellsNothing(z.out)
  BY <1>1 DEF TellsNothing
<1>3. Reporting(z, up') <=> Reporting(srv, up')
  BY <1>1 DEF Reporting
<1>4. srv.demo.phase = "playing" => Active(z)
  BY <1>1 DEF PanelInv, PInv
<1>5. QED
  BY <1>1, <1>2, <1>3, <1>4, QuietStep

(* The server itself, when nothing is handled.                             *)
LEMMA SameIsMute == ASSUME IInv PROVE Mute(srv, srv)
  BY BetweenHandlers DEF Between, Mute

(* The server handles a message, and the planner answers.                  *)
LEMMA ControlShows == ASSUME IInv, PanelInv, OnControl PROVE PanelInv'
<1>1. /\ up # << >> /\ Head(up).kind = "demo_control" /\ up' = Tail(up) /\ sdk' = sdk
      /\ Head(up) \in UpMessages
  BY Received DEF OnControl
<1>2. IsPress(Head(up)) /\ Head(up).action \in ControlActions
  BY <1>1, UpFields DEF IsPress
<1> DEFINE action == Head(up).action
<1>3. Reply(HandleControl(srv, action))
  BY DEF OnControl
<1>4. CASE MayControl(srv.demo, action)
  BY <1>2, <1>3, <1>4, BetweenHandlers, ControlDone, SpokeStep
<1>5. CASE ~MayControl(srv.demo, action)
  <2>1. Reply(srv)
    BY <1>3, <1>5 DEF HandleControl
  <2>2. QED
    BY <1>1, <1>2, <1>5, <2>1, OthersStay, SameIsMute, MuteStep
<1>6. QED
  BY <1>4, <1>5

(* What the visitor says.                                                  *)
LEMMA TurnsShow ==
  ASSUME IInv, PanelInv, "planner" \notin Faults, OnIntakeTurn \/ OnTurn
  PROVE  PanelInv'
<1>1. /\ up # << >> /\ Head(up).kind = "user_turn" /\ up' = Tail(up) /\ sdk' = sdk
  BY Received DEF OnIntakeTurn, OnTurn
<1>2. /\ Pressing(srv, up) => Pressing(srv, up')
      /\ Reporting(srv, up) => Reporting(srv, up')
  BY <1>1, OthersStay DEF IsPress
<1>3. Between(srv)
  BY BetweenHandlers
<1>4. CASE OnIntakeTurn
  <2>1. PICK asks \in BOOLEAN, persona \in Personas \union {NoPersona} :
          Reply(HandleIntakeTurn(srv, asks, persona))
    BY <1>4 DEF OnIntakeTurn
  <2> DEFINE z == HandleIntakeTurn(srv, asks, persona)
  <2>2. Done(z) \/ z = srv
    BY <1>3, IntakeDone
  <2>3. Reply(z)
    BY <2>1
  <2> HIDE DEF z
  <2>4. QED
    BY <1>1, <1>2, <2>2, <2>3, SpokeStep, SameIsMute, MuteStep
<1>5. CASE OnTurn
  <2>1. PICK continues \in BOOLEAN, outcome \in Outcomes, answered \in Answers :
          Reply(HandleTurn(srv, continues, outcome, answered))
    BY <1>5 DEF OnTurn
  <2>2. outcome \in Plans /\ answered \in BOOLEAN
    BY Choices DEF Outcomes
  <2> DEFINE z == HandleTurn(srv, continues, outcome, answered)
  <2>3. Done(z) \/ (Mute(z, srv) /\ z.journey = srv.journey)
    BY <1>3, <2>2, TurnDone
  <2>4. Reply(z)
    BY <2>1
  <2> HIDE DEF z
  <2>5. QED
    BY <1>1, <1>2, <2>3, <2>4, SpokeStep, MuteStep
<1>6. QED
  BY <1>4, <1>5

(* The report of a pause.  One that is not told leaves the journey.        *)
LEMMA PausedShows ==
  ASSUME IInv, PanelInv, "planner" \notin Faults, OnPaused
  PROVE  PanelInv'
<1>1. /\ up # << >> /\ Head(up).kind = "paused" /\ up' = Tail(up) /\ sdk' = sdk
      /\ Head(up) \in UpMessages
  BY Received DEF OnPaused
<1>2. Head(up).cmd \in Nat \ {0} /\ Head(up).next \in Steps
  BY <1>1, UpFields
<1>3. PICK outcome \in Outcomes, answered \in Answers :
        Reply(HandlePaused(srv, Head(up), outcome, answered))
  BY DEF OnPaused
<1>4. outcome \in Plans /\ answered \in BOOLEAN
  BY Choices DEF Outcomes
<1> DEFINE z == HandlePaused(srv, Head(up), outcome, answered)
<1>5. \/ Done(z)
      \/ /\ Mute(z, srv)
         /\ srv.demo.phase \in {"playing", "pausing"} => z = srv /\ srv.journey.cmd # Head(up).cmd
  BY <1>2, <1>4, BetweenHandlers, PausedDone
<1>6. Reply(z)
  BY <1>3
<1> HIDE DEF z
<1>7. Pressing(srv, up) => Pressing(srv, up')
  BY <1>1, OthersStay DEF IsPress
<1>8. CASE Done(z)
  BY <1>6, <1>8, SpokeStep
<1>9. CASE /\ Mute(z, srv)
           /\ srv.demo.phase \in {"playing", "pausing"} => z = srv /\ srv.journey.cmd # Head(up).cmd
  <2>1. srv.demo.phase = "pausing" /\ Reporting(srv, up) => z = srv /\ Reporting(srv, up')
    BY <1>1, <1>9, OthersStay
  <2>2. srv.demo.phase = "playing" => Active(z)
    BY <1>9 DEF PanelInv, PInv
  <2>3. Parts(z) /\ z.demo = srv.demo /\ z.out = << >> /\ TellsNothing(z.out)
    BY <1>9 DEF Mute, TellsNothing
  <2>4. QED
    BY <1>1, <1>6, <1>7, <2>1, <2>2, <2>3, QuietStep
<1>10. QED
  BY <1>5, <1>8, <1>9

(* The result of a journey.  One that is refused had no report of a pause. *)
LEMMA ResultShows ==
  ASSUME IInv, PanelInv, "planner" \notin Faults, OnResult
  PROVE  PanelInv'
<1>1. /\ up # << >> /\ Head(up).kind = "journey_result" /\ up' = Tail(up) /\ sdk' = sdk
      /\ Head(up) \in UpMessages
  BY Received DEF OnResult
<1>2. Head(up).cmd \in Nat \ {0} /\ Head(up).ok \in BOOLEAN
  BY <1>1, UpFields DEF IsOutcome
<1>3. PICK outcome \in Outcomes, answered \in Answers :
        Reply(HandleResult(srv, Head(up), outcome, answered))
  BY DEF OnResult
<1>4. outcome \in Plans /\ answered \in BOOLEAN
  BY Choices DEF Outcomes
<1> DEFINE z == HandleResult(srv, Head(up), outcome, answered)
<1>5. \/ Done(z)
      \/ z = srv
      \/ Mute(z, srv) /\ srv.demo.phase # "playing" /\ srv.journey.cmd = Head(up).cmd
  BY <1>2, <1>4, BetweenHandlers, ResultDone
<1>6. Reply(z)
  BY <1>3
<1> HIDE DEF z
<1>7. /\ Pressing(srv, up) => Pressing(srv, up')
      /\ Reporting(srv, up) => Reporting(srv, up')
  BY <1>1, OthersStay DEF IsPress
<1>8. CASE Done(z)
  BY <1>6, <1>8, SpokeStep
<1>9. CASE z = srv
  BY <1>1, <1>6, <1>7, <1>9, SameIsMute, MuteStep
<1>10. CASE Mute(z, srv) /\ srv.demo.phase # "playing" /\ srv.journey.cmd = Head(up).cmd
  <2>1. ~Reporting(srv, up)
    BY <1>1, <1>10, ReportIsOutcome
  <2>2. Parts(z) /\ z.demo = srv.demo /\ z.out = << >> /\ TellsNothing(z.out)
    BY <1>10 DEF Mute, TellsNothing
  <2>3. QED
    BY <1>1, <1>6, <1>7, <1>10, <2>1, <2>2, QuietStep
<1>11. QED
  BY <1>5, <1>8, <1>9, <1>10

(* The observation that was asked for.                                     *)
LEMMA ObservationShows == ASSUME IInv, PanelInv, OnObservation PROVE PanelInv'
<1>1. /\ up # << >> /\ Head(up).kind = "observation" /\ up' = Tail(up) /\ sdk' = sdk
  BY Received DEF OnObservation
<1>2. PICK answered \in Answers : Reply(HandleObservation(srv, Head(up), answered))
  BY DEF OnObservation
<1> DEFINE z == HandleObservation(srv, Head(up), answered)
<1>3. Done(z) \/ (Mute(z, srv) /\ z.journey = srv.journey)
  BY Choices, BetweenHandlers, ObservationDone
<1>4. Reply(z)
  BY <1>2
<1> HIDE DEF z
<1>5. /\ Pressing(srv, up) => Pressing(srv, up')
      /\ Reporting(srv, up) => Reporting(srv, up')
  BY <1>1, OthersStay DEF IsPress
<1>6. QED
  BY <1>1, <1>3, <1>4, <1>5, SpokeStep, MuteStep

(* The stop that answers a barge-in in a demo that is over tells nothing.  *)
LEMMA InterruptShows == ASSUME IInv, PanelInv, OnInterrupt PROVE PanelInv'
<1>1. /\ up # << >> /\ Head(up).kind = "interrupt" /\ up' = Tail(up) /\ sdk' = sdk
  BY Received DEF OnInterrupt
<1> DEFINE z == HandleInterrupt(srv)
<1>2. \/ Done(z)
      \/ /\ Parts(z) /\ z.demo = srv.demo /\ srv.demo.phase \in TerminalPhases
         /\ TellsNothing(z.out)
  BY BetweenHandlers, InterruptDone
<1>3. Reply(z)
  BY DEF OnInterrupt
<1> HIDE DEF z
<1>4. Pressing(srv, up) => Pressing(srv, up')
  BY <1>1, OthersStay DEF IsPress
<1>5. CASE Done(z)
  BY <1>3, <1>5, SpokeStep
<1>6. CASE /\ Parts(z) /\ z.demo = srv.demo /\ srv.demo.phase \in TerminalPhases
           /\ TellsNothing(z.out)
  <2>1. srv.demo.phase \notin {"playing", "pausing"}
    BY <1>6 DEF TerminalPhases
  <2>2. QED
    BY <1>1, <1>3, <1>4, <1>6, <2>1, QuietStep
<1>7. QED
  BY <1>2, <1>5, <1>6

(* The timers.                                                             *)
LEMMA TimersShow == ASSUME IInv, PanelInv, ServerTimers PROVE PanelInv'
<1>1. up' = up /\ sdk' = sdk /\ Between(srv)
  BY BetweenHandlers DEF ServerTimers, ClosingTimer, ObservationTimeout, LateAnswer, Timer
<1>2. CASE ClosingTimer
  <2>1. Reply(Closed(srv))
    BY <1>2 DEF ClosingTimer, Closed
  <2>2. QED
    BY <1>1, <2>1, ClosingDone, SpokeStep, MuteStep
<1>3. CASE ObservationTimeout
  <2> DEFINE z == [srv EXCEPT !.observing = 0, !.late = TRUE]
  <2>1. Reply(z)
    BY <1>3 DEF ObservationTimeout
  <2>2. Mute(z, srv) /\ z.journey = srv.journey
    BY <1>1 DEF Between, Parts, Mute
  <2> HIDE DEF z
  <2>3. QED
    BY <1>1, <2>1, <2>2, MuteStep
<1>4. CASE LateAnswer
  <2> DEFINE z == ApplyDirective([srv EXCEPT !.late = FALSE],
                                 [srv.interruption EXCEPT !.directive = "remain_paused"])
  <2>1. Done(z)
    BY <1>1, <1>4, LateDone DEF LateAnswer
  <2>2. Reply(z)
    BY <1>4 DEF LateAnswer
  <2> HIDE DEF z
  <2>3. QED
    BY <2>1, <2>2, SpokeStep
<1>5. QED
  BY <1>2, <1>3, <1>4 DEF ServerTimers
-----------------------------------------------------------------------------
(* The steps of the browser.  It acts on what the panel shows only where   *)
(* no state is on its way, and sends after what it has sent.               *)
LEMMA BrowserStep ==
  ASSUME IInv, PanelInv, srv' = srv, Extends(up, up'),
         \/ down' = down
         \/ down # << >> /\ down' = Tail(down) /\ ~IsState(Head(down)),
         TellsNothing(down) /\ PanelShows(srv, sdk, up) => PanelShows(srv, sdk', up')
  PROVE  PanelInv'
<1> DEFINE m == StateCommand(srv.demo)
<1>1. IsState(m)
  BY DEF StateCommand, IsState
<1> HIDE DEF m
<1>2. /\ srv.demo.phase = "playing" => Active(srv)
      /\ srv.demo.phase = "pausing" => StopsTold(down)
      /\ Tells(down, m) \/ (TellsNothing(down) /\ PanelShows(srv, sdk, up))
  BY DEF PanelInv, PInv, m
<1>3. /\ TellsNothing(down) => TellsNothing(down')
      /\ StopsTold(down) => StopsTold(down')
      /\ Tells(down, m) => Tells(down', m)
  <2>1. CASE down # << >> /\ down' = Tail(down) /\ ~IsState(Head(down))
    <3>1. down \in Seq(DownMessages)
      BY DEF IInv
    <3>2. /\ Tail(down) \in Seq(DownMessages) /\ Shrunk(down, Tail(down))
          /\ Len(down) \in Nat \ {0} /\ Head(down) = down[1]
      BY <2>1, <3>1, Removed
    <3>3. Len(Tail(down)) \in Nat /\ down[1] # m
      BY <1>1, <2>1, <3>2
    <3>4. QED
      BY <2>1, <3>2, <3>3, HeadGone
  <2>2. QED
    BY <2>1
<1>4. PInv(srv', sdk', up', down')
  BY <1>2, <1>3 DEF PInv, m
<1>5. QED
  BY <1>4 DEF PanelInv

(* A panel that is left as it is shows what it showed.                     *)
LEMMA SamePanel ==
  ASSUME NEW s, NEW k, NEW u, NEW l, NEW v, PanelShows(s, k, u), Extends(u, v),
         l.phase = k.phase, l.buttons = k.buttons
  PROVE  PanelShows(s, l, v)
  BY StillOnItsWay DEF PanelShows

(* While a module plays or pauses, the only button is stop.                *)
LEMMA OnlyStop ==
  ASSUME NEW d, d.phase \in {"playing", "pausing"}
  PROVE  Buttons(d) = {"stop"}
  BY DEF Buttons, ControlActions, TerminalPhases

(* A pause is asked for where a module plays.                              *)
LEMMA PausePanel ==
  ASSUME NEW s, NEW k \in BrowserStates, NEW u, PanelShows(s, k, u)
  PROVE  PanelShows(s, RequestPause(k), u) /\ RequestPause(k) \in BrowserStates
<1>1. CASE MayPause(k)
  <2> DEFINE stop == {"stop"}
             l == [k EXCEPT !.phase = "pausing", !.buttons = stop, !.pauseRequested = TRUE, !.intro = FALSE]
  <2>1. RequestPause(k) = l
    BY <1>1 DEF RequestPause
  <2>2. stop \in SUBSET ControlActions /\ "pausing" \in Phases
    BY DEF ControlActions, Phases
  <2> HIDE DEF stop
  <2>3. l \in BrowserStates /\ l.phase = "pausing" /\ l.buttons = stop
    BY <2>2 DEF BrowserStates
  <2>4. s.demo.phase = "playing"
    BY <1>1 DEF MayPause, PanelShows
  <2> HIDE DEF l
  <2>5. Buttons(s.demo) = l.buttons
    BY <2>3, <2>4, OnlyStop DEF stop
  <2>6. PanelShows(s, l, u)
    BY <2>3, <2>4, <2>5 DEF PanelShows
  <2>7. QED
    BY <2>1, <2>3, <2>6
<1>2. CASE ~MayPause(k)
  BY <1>2 DEF RequestPause
<1>3. QED
  BY <1>1, <1>2

(* The lists of reports.                                                   *)
LEMMA ReportLists ==
  ASSUME NEW k, NEW ok
  PROVE  IsList(Report(k, ok)) /\ IsList(ReportAbort(k)) /\ IsList(FlushMessages(k))
<1>1. \A m : IsList(<<m>>)
  <2> TAKE m
  <2>1. <<m>> \in Seq({m})
    OBVIOUS
  <2>2. QED
    BY <2>1 DEF IsList
<1>2. << >> \in Seq({}) /\ IsList(<< >>)
  BY DEF IsList
<1>3. \A o : IsList(Report(k, o))
  BY <1>1, <1>2 DEF Report
<1>4. QED
  BY <1>1, <1>2, <1>3 DEF ReportAbort, FlushMessages

(* The end of a run, of its result's wait, and of its reports leave the    *)
(* panel.                                                                  *)
LEMMA RunsLeavePanel ==
  ASSUME NEW k \in BrowserStates, NEW ok \in BOOLEAN
  PROVE  /\ AfterRun(k, ok).phase = k.phase /\ AfterRun(k, ok).buttons = k.buttons
         /\ AfterAbort(k).phase = k.phase /\ AfterAbort(k).buttons = k.buttons
         /\ Flushed(k).phase = k.phase /\ Flushed(k).buttons = k.buttons
         /\ {"phase", "buttons", "pauseRequested", "paused", "intro"} \subseteq DOMAIN AfterAbort(k)
<1> DEFINE none == NoRun
           e == [k EXCEPT !.run = none]
<1>1. \A o \in BOOLEAN : \E r : AfterRun(k, o) \in {[e EXCEPT !.staged = r], [e EXCEPT !.pauseRequested = FALSE], e}
  BY DEF AfterRun
<1> HIDE DEF none
<1>2. e.phase = k.phase /\ e.buttons = k.buttons /\ DOMAIN e = DOMAIN k
  BY DEF BrowserStates
<1>3. {"phase", "buttons", "pauseRequested", "paused", "intro", "staged"} \subseteq DOMAIN k
  BY DEF BrowserStates
<1> HIDE DEF e
<1>4. \A o \in BOOLEAN : /\ AfterRun(k, o).phase = k.phase /\ AfterRun(k, o).buttons = k.buttons
                         /\ DOMAIN AfterRun(k, o) = DOMAIN k
  <2> TAKE o \in BOOLEAN
  <2>1. PICK r : AfterRun(k, o) \in {[e EXCEPT !.staged = r], [e EXCEPT !.pauseRequested = FALSE], e}
    BY <1>1
  <2>2. \A f : f \in {[e EXCEPT !.staged = r], [e EXCEPT !.pauseRequested = FALSE], e} =>
          f.phase = e.phase /\ f.buttons = e.buttons /\ DOMAIN f = DOMAIN e
    BY <1>2, <1>3
  <2>3. QED
    BY <1>2, <2>1, <2>2
<1>5. AfterAbort(k) = k \/ AfterAbort(k) = AfterRun(k, FALSE)
  BY DEF AfterAbort
<1>6. Flushed(k).phase = k.phase /\ Flushed(k).buttons = k.buttons
  BY <1>3 DEF Flushed
<1>7. QED
  BY <1>3, <1>4, <1>5, <1>6
(* The visitor's steps.                                                    *)
LEMMA SayShows == ASSUME IInv, PanelInv, Say PROVE PanelInv'
<1> DEFINE k == RequestPause(sdk)
           m == [kind |-> "user_turn"]
<1>1. srv' = srv /\ down' = down /\ sdk' = Flushed(k) /\ up' = Append(up, m) \o FlushMessages(k)
  BY DEF Say, Acts
<1>2. sdk \in BrowserStates
  BY Begin
<1> HIDE DEF k, m
<1>3. Extends(up, up')
  <2>1. IsList(up) /\ IsList(Append(up, m)) /\ IsList(FlushMessages(k))
    BY BetweenHandlers, Extended, ReportLists
  <2>2. Extends(up, Append(up, m)) /\ Extends(Append(up, m), up')
    BY <1>1, <2>1, Extended
  <2>3. QED
    BY <2>1, <2>2, Extended
<1>4. ASSUME PanelShows(srv, sdk, up) PROVE PanelShows(srv, sdk', up')
  <2>1. PanelShows(srv, k, up) /\ k \in BrowserStates
    BY <1>2, <1>4, PausePanel DEF k
  <2>2. sdk'.phase = k.phase /\ sdk'.buttons = k.buttons
    BY <1>1, <2>1, RunsLeavePanel
  <2>3. QED
    BY <1>3, <2>1, <2>2, SamePanel
<1>5. QED
  BY <1>1, <1>3, <1>4, BrowserStep

(* A pause is asked for, or only held back; an order to pause does too.    *)
LEMMA PauseOnly ==
  ASSUME NEW k \in BrowserStates, NEW l, NEW pause,
         \/ l = RequestPause(k)
         \/ l = [RequestPause(k) EXCEPT !.pauseRequested = pause]
         \/ l = [k EXCEPT !.pauseRequested = pause]
         \/ l = k,
         NEW s, NEW u, PanelShows(s, k, u), Extends(u, u)
  PROVE  PanelShows(s, l, u)
<1> DEFINE r == RequestPause(k)
<1>1. PanelShows(s, r, u) /\ r \in BrowserStates
  BY PausePanel
<1> HIDE DEF r
<1>2. \A f \in BrowserStates : /\ [f EXCEPT !.pauseRequested = pause].phase = f.phase
                               /\ [f EXCEPT !.pauseRequested = pause].buttons = f.buttons
  BY DEF BrowserStates
<1>3. \/ l.phase = r.phase /\ l.buttons = r.buttons
      \/ l.phase = k.phase /\ l.buttons = k.buttons
  BY <1>1, <1>2 DEF r
<1>4. QED
  BY <1>1, <1>3, SamePanel

(* The visitor barges in before a word is recognised.                      *)
LEMMA StartVoiceShows == ASSUME IInv, PanelInv, NEW granted \in BOOLEAN, StartVoice(granted) PROVE PanelInv'
<1>1. srv' = srv /\ down' = down /\ up' = up /\ Extends(up, up)
  BY BetweenHandlers, Extended DEF StartVoice, Acts
<1>2. \E pause \in BOOLEAN :
        \/ sdk' = RequestPause(sdk)
        \/ sdk' = [RequestPause(sdk) EXCEPT !.pauseRequested = pause]
        \/ sdk' = [sdk EXCEPT !.pauseRequested = pause]
  BY DEF StartVoice
<1>3. PanelShows(srv, sdk, up) => PanelShows(srv, sdk', up)
  BY <1>1, <1>2, Begin, PauseOnly
<1>4. QED
  BY <1>1, <1>3, BrowserStep

(* A button that is shown will be accepted.                                *)
LEMMA ShownIsAccepted ==
  ASSUME NEW d, Sound(d), NEW a \in Buttons(d)
  PROVE  MayControl(d, a)
<1>1. d.phase = "awaiting_resume" => d.module # NoModule
  BY StagedModule DEF ModulePhases
<1>2. a \in ControlActions
  BY DEF Buttons
<1>3. QED
  BY <1>1, <1>2 DEF Buttons, MayControl, ControlActions

(* The visitor presses a button: none is shown until the server answers.   *)
LEMMA PressShows == ASSUME IInv, PanelInv, NEW action \in ControlActions, Press(action) PROVE PanelInv'
<1> DEFINE none == {}
           k == [sdk EXCEPT !.pending = action, !.buttons = none]
           b == AfterAbort(k)
           e == [b EXCEPT !.pauseRequested = FALSE, !.paused = NoCheckpoint, !.intro = FALSE]
           m == [kind |-> "demo_control", action |-> action, seen |-> sdk.module]
           v == Append(up, m)
<1>1. /\ srv' = srv /\ down' = down /\ action \in sdk.buttons
      /\ action = "stop" => sdk' = e /\ up' = v \o ReportAbort(k)
      /\ action # "stop" => sdk' = k /\ up' = v
  BY DEF Press, Acts
<1>2. sdk \in BrowserStates /\ none \in SUBSET ControlActions
  BY Begin
<1>3. IsPress(m) /\ m.action = action
  BY DEF IsPress
<1> HIDE DEF m, none
<1>4. k \in BrowserStates /\ k.phase = sdk.phase /\ k.buttons = none
  BY <1>2 DEF BrowserStates
<1> HIDE DEF k
<1>5. sdk'.phase = sdk.phase /\ sdk'.buttons = none
  <2>1. /\ b.phase = sdk.phase /\ b.buttons = none
        /\ {"phase", "buttons", "pauseRequested", "paused", "intro"} \subseteq DOMAIN b
    BY <1>4, RunsLeavePanel
  <2> HIDE DEF b
  <2>2. e.phase = sdk.phase /\ e.buttons = none
    BY <2>1
  <2>3. QED
    BY <1>1, <1>4, <2>2
<1>6. IsList(up) /\ Extends(up, v) /\ IsList(v) /\ Extends(v, v) /\ Extends(v, v \o ReportAbort(k))
  BY BetweenHandlers, Extended, ReportLists
<1>7. Extends(up, up') /\ Extends(v, up')
  BY <1>1, <1>6, Extended
<1>8. ASSUME PanelShows(srv, sdk, up) PROVE PanelShows(srv, sdk', up')
  <2>1. sdk.buttons = Buttons(srv.demo)
    BY <1>1, <1>8 DEF PanelShows
  <2>2. MayControl(srv.demo, action)
    BY <1>1, <2>1, ShownIsAccepted DEF IInv, ServerTyped
  <2>3. Len(up) \in Nat /\ Grown(up, v, m)
    BY <1>6, ListGrows
  <2>4. Len(v) \in 1..Len(v) /\ v[Len(v)] = m
    BY <2>3 DEF Grown
  <2>5. Pressing(srv, v)
    BY <1>3, <2>2, <2>4 DEF Pressing
  <2>6. Pressing(srv, up') /\ (Reporting(srv, up) => Reporting(srv, up'))
    BY <1>7, <2>5, StillOnItsWay
  <2>7. QED
    BY <1>5, <1>8, <2>6 DEF PanelShows, none
<1>9. QED
  BY <1>1, <1>7, <1>8, BrowserStep

(* The page that holds the assistant stops the journey.                    *)
LEMMA HostStopsShows == ASSUME IInv, PanelInv, HostStops PROVE PanelInv'
<1> DEFINE m == [kind |-> "interrupt"]
           v == Append(up, m)
<1>1. srv' = srv /\ down' = down /\ sdk' = AfterAbort(sdk) /\ up' = v \o ReportAbort(sdk)
  BY DEF HostStops, Acts
<1>2. sdk'.phase = sdk.phase /\ sdk'.buttons = sdk.buttons
  BY <1>1, Begin, RunsLeavePanel
<1> HIDE DEF m
<1>3. IsList(up) /\ Extends(up, v) /\ Extends(v, v \o ReportAbort(sdk))
  BY BetweenHandlers, Extended, ReportLists
<1>4. Extends(up, up')
  BY <1>1, <1>3, Extended
<1>5. QED
  BY <1>1, <1>2, <1>4, SamePanel, BrowserStep
(* What the browser does on its own.                                       *)
LEMMA WorksShow ==
  ASSUME IInv, PanelInv,
         EndIntroduction \/ EndClosingCue \/ BeginStep \/ EndStep \/ FailStep \/ Observe
  PROVE  PanelInv'
<1>1. srv' = srv /\ down' = down
  BY DEF EndIntroduction, EndClosingCue, BeginStep, EndStep, FailStep, Observe, Browser
<1>2. IsList(up) /\ Extends(up, up)
  BY BetweenHandlers, Extended
<1>3. sdk \in BrowserStates
  BY Begin
<1>4. /\ \A o : IsList(o) /\ up' = up \o o => Extends(up, up')
      /\ \A m : up' = Append(up, m) => Extends(up, up')
      /\ up' = up => Extends(up, up')
  BY <1>2, Extended
<1>5. \A ok \in BOOLEAN : sdk' = AfterRun(sdk, ok) =>
        sdk'.phase = sdk.phase /\ sdk'.buttons = sdk.buttons
  BY <1>3, RunsLeavePanel
<1>6. Extends(up, up') /\ sdk'.phase = sdk.phase /\ sdk'.buttons = sdk.buttons
  <2>1. CASE EndIntroduction
    BY <1>3, <1>4, <2>1 DEF EndIntroduction, BrowserStates
  <2>2. CASE EndClosingCue
    <3>1. sdk' = Flushed(sdk) /\ up' = up \o FlushMessages(sdk)
      BY <2>2 DEF EndClosingCue
    <3>2. IsList(FlushMessages(sdk))
      BY ReportLists
    <3>3. QED
      BY <1>3, <1>4, <3>1, <3>2, RunsLeavePanel
  <2>3. CASE BeginStep
    BY <1>3, <1>4, <2>3 DEF BeginStep, BrowserStates
  <2>4. CASE EndStep
    <3>1. CASE sdk.run.next < LastStep
      BY <1>3, <1>4, <2>4, <3>1 DEF EndStep, BrowserStates
    <3>2. CASE ~(sdk.run.next < LastStep)
      <4>1. sdk' = AfterRun(sdk, TRUE) /\ up' = up \o Report(sdk, TRUE)
        BY <2>4, <3>2 DEF EndStep
      <4>2. QED
        BY <1>4, <1>5, <4>1, ReportLists
    <3>3. QED
      BY <3>1, <3>2
  <2>5. CASE FailStep
    <3>1. sdk' = AfterRun(sdk, FALSE) /\ up' = up \o Report(sdk, FALSE)
      BY <2>5 DEF FailStep
    <3>2. QED
      BY <1>4, <1>5, <3>1, ReportLists
  <2>6. CASE Observe
    BY <1>3, <1>4, <2>6 DEF Observe, BrowserStates
  <2>7. QED
    BY <2>1, <2>2, <2>3, <2>4, <2>5, <2>6
<1>7. QED
  BY <1>1, <1>6, SamePanel, BrowserStep

(* A pause that is reached is reported for the journey the server awaits:  *)
(* were it another one, a stop would be on its way, and a state after it.  *)
LEMMA PauseShows == ASSUME IInv, PanelInv, PauseAtBoundary PROVE PanelInv'
<1> DEFINE c == [journey |-> sdk.run.journey, next |-> sdk.run.next]
           none == NoRun
           stop == {"stop"}
           k == [sdk EXCEPT !.pauseRequested = FALSE, !.paused = c, !.run = none]
           l == [k EXCEPT !.phase = "paused", !.buttons = stop]
           m == [kind |-> "paused", cmd |-> sdk.run.cmd, next |-> sdk.run.next]
<1>1. /\ srv' = srv /\ down' = down /\ sdk.run # NoRun /\ up' = Append(up, m)
      /\ sdk' = k \/ (sdk' = l /\ sdk.phase = "pausing")
  BY DEF PauseAtBoundary, Browser, AtBoundary
<1>2. sdk \in BrowserStates /\ IsList(up) /\ down \in Seq(DownMessages)
  BY Begin, BetweenHandlers DEF IInv
<1>3. m.kind = "paused" /\ m.cmd = sdk.run.cmd
  OBVIOUS
<1> HIDE DEF c, m, none, stop
<1>4. k.phase = sdk.phase /\ k.buttons = sdk.buttons /\ DOMAIN k = DOMAIN sdk
  BY <1>2 DEF BrowserStates
<1> HIDE DEF k
<1>5. l.phase = "paused" /\ l.buttons = stop
  BY <1>2, <1>4 DEF BrowserStates
<1> HIDE DEF l
<1>6. Extends(up, up') /\ Grown(up, up', m) /\ Len(up) \in Nat
  BY <1>1, <1>2, Extended, ListGrows
<1>7. ASSUME TellsNothing(down), srv.demo.phase = "pausing" PROVE Reporting(srv, up')
  <2>1. RunFollowed(srv, sdk, down)
    BY DEF IInv, Fine, Commands
  <2>2. StopsTold(down)
    BY <1>7 DEF PanelInv, PInv
  <2>3. ~StopAfter(down, 0)
    BY <1>7, <2>2 DEF StopAfter, StopsTold, TellsNothing
  <2>4. Active(srv) /\ sdk.run.cmd = srv.journey.cmd
    BY <1>1, <2>1, <2>3 DEF RunFollowed, Awaited
  <2>5. Len(up') \in 1..Len(up') /\ up'[Len(up')] = m
    BY <1>6 DEF Grown
  <2>6. QED
    BY <1>3, <2>4, <2>5 DEF Reporting
<1>8. ASSUME TellsNothing(down), PanelShows(srv, sdk, up) PROVE PanelShows(srv, sdk', up')
  <2>1. CASE sdk' = k
    BY <1>4, <1>6, <1>8, <2>1, SamePanel
  <2>2. CASE sdk' = l /\ sdk.phase = "pausing"
    <3>1. srv.demo.phase \in {"playing", "pausing"}
      BY <1>8, <2>2 DEF PanelShows
    <3>2. sdk'.buttons = Buttons(srv.demo)
      BY <1>5, <2>2, <3>1, OnlyStop DEF stop
    <3>3. QED
      BY <1>5, <1>7, <1>8, <2>2, <3>1, <3>2 DEF PanelShows
  <2>3. QED
    BY <1>1, <2>1, <2>2
<1>9. QED
  BY <1>1, <1>6, <1>8, BrowserStep

(* The browser takes commands.  The last state it takes is the server's.   *)
LEMMA TakeStateShows == ASSUME IInv, PanelInv, TakeState PROVE PanelInv'
<1> DEFINE c == Head(down)
           m == StateCommand(srv.demo)
<1>1. /\ srv' = srv /\ down' = Tail(down) /\ down # << >> /\ c.kind = "demo_state"
      /\ Tail(down) \in Seq(DownMessages) /\ Shrunk(down, Tail(down))
      /\ c = down[1] /\ c \in DownMessages /\ sdk \in BrowserStates /\ up' = up
  BY TakeFacts DEF TakeState
<1>2. Len(down) \in Nat /\ Len(Tail(down)) \in Nat
  BY <1>1 DEF IInv
<1>3. c.buttons \subseteq MaximumButtons(c.phase)
  BY <1>1 DEF DownMessages, State, Stopping, Pausing, Running, Requesting
<1>4. sdk'.phase = c.phase /\ sdk'.buttons = c.buttons
  BY <1>1, <1>3 DEF TakeState, BrowserStates
<1>5. 1 \in 1..Len(down) /\ IsState(c)
  BY <1>1, <1>2 DEF IsState, IInv
<1> HIDE DEF c
<1>6. /\ srv.demo.phase = "playing" => Active(srv)
      /\ srv.demo.phase = "pausing" => StopsTold(down)
      /\ Tells(down, m) \/ (TellsNothing(down) /\ PanelShows(srv, sdk, up))
  BY DEF PanelInv, PInv
<1>7. ~TellsNothing(down)
  BY <1>1, <1>5 DEF TellsNothing
<1> HIDE DEF m
<1>8. /\ srv.demo.phase = "pausing" => StopsTold(Tail(down))
      /\ Tells(Tail(down), m) \/ (c = m /\ TellsNothing(Tail(down)))
  BY <1>1, <1>2, <1>6, <1>7, HeadGone
<1>9. ASSUME c = m PROVE PanelShows(srv, sdk', up)
  <2>1. c.phase = srv.demo.phase /\ c.buttons = Buttons(srv.demo)
    BY <1>9 DEF m, StateCommand
  <2>2. QED
    BY <1>4, <2>1 DEF PanelShows
<1>10. PInv(srv', sdk', up', down')
  BY <1>1, <1>6, <1>8, <1>9 DEF PInv, m
<1>11. QED
  BY <1>10 DEF PanelInv

(* The other commands leave what the panel shows, but for a pause.         *)
LEMMA TakesShow ==
  ASSUME IInv, PanelInv, TakeRun \/ TakePause \/ TakeStop \/ TakeRequest
  PROVE  PanelInv'
<1>1. srv' = srv /\ down' = Tail(down) /\ down # << >> /\ ~IsState(Head(down))
  BY DEF TakeRun, TakePause, TakeStop, TakeRequest, Take, IsState
<1>2. IsList(up) /\ Extends(up, up) /\ sdk \in BrowserStates
  BY Begin, BetweenHandlers, Extended
<1>3. /\ \A o : IsList(o) /\ up' = up \o o => Extends(up, up')
      /\ \A m : up' = Append(up, m) => Extends(up, up')
      /\ up' = up => Extends(up, up')
  BY <1>2, Extended
<1>4. CASE TakeRun
  <2>1. \/ /\ up' = up
           /\ \E r : sdk' = [sdk EXCEPT !.paused = NoCheckpoint, !.pauseRequested = FALSE, !.run = r]
        \/ sdk' = sdk /\ \E m : up' = Append(up, m)
    BY <1>4 DEF TakeRun
  <2>2. Extends(up, up') /\ sdk'.phase = sdk.phase /\ sdk'.buttons = sdk.buttons
    BY <1>2, <1>3, <2>1 DEF BrowserStates
  <2>3. QED
    BY <1>1, <2>2, SamePanel, BrowserStep
<1>5. CASE TakePause
  <2>1. up' = up
    BY <1>5 DEF TakePause
  <2>2. \E pause \in BOOLEAN :
          \/ sdk' = RequestPause(sdk)
          \/ sdk' = [sdk EXCEPT !.pauseRequested = pause]
          \/ sdk' = sdk
    BY <1>5 DEF TakePause
  <2>3. PanelShows(srv, sdk, up) => PanelShows(srv, sdk', up)
    BY <1>2, <2>2, PauseOnly
  <2>4. QED
    BY <1>1, <1>2, <2>1, <2>3, BrowserStep
<1>6. CASE TakeStop
  <2> DEFINE b == AfterAbort(sdk)
  <2>1. up' = up \o ReportAbort(sdk) /\ sdk' = [b EXCEPT !.pauseRequested = FALSE, !.paused = NoCheckpoint]
    BY <1>6 DEF TakeStop
  <2>2. /\ b.phase = sdk.phase /\ b.buttons = sdk.buttons
        /\ {"phase", "buttons", "pauseRequested", "paused", "intro"} \subseteq DOMAIN b
    BY <1>2, RunsLeavePanel
  <2> HIDE DEF b
  <2>3. Extends(up, up') /\ sdk'.phase = sdk.phase /\ sdk'.buttons = sdk.buttons
    BY <1>3, <2>1, <2>2, ReportLists
  <2>4. QED
    BY <1>1, <2>3, SamePanel, BrowserStep
<1>7. CASE TakeRequest
  <2>1. Extends(up, up') /\ sdk'.phase = sdk.phase /\ sdk'.buttons = sdk.buttons
    BY <1>2, <1>3, <1>7 DEF TakeRequest, BrowserStates
  <2>2. QED
    BY <1>1, <2>1, SamePanel, BrowserStep
<1>8. QED
  BY <1>4, <1>5, <1>6, <1>7

-----------------------------------------------------------------------------
(* The greeting of the socket tells the idle demo.                         *)
LEMMA PanelBegins == Init => PanelInv
<1> SUFFICES ASSUME Init PROVE PanelInv
  OBVIOUS
<1>1. srv.demo = Idle /\ down = <<StateCommand(Idle)>>
  BY DEF Init, InitServer
<1>2. Idle.phase = "idle"
  BY DEF Idle
<1>3. Tells(down, StateCommand(srv.demo))
  BY <1>1 DEF Tells
<1>4. QED
  BY <1>1, <1>2, <1>3 DEF PanelInv, PInv

(* One step per action.                                                    *)
LEMMA PanelKeeps ==
  ASSUME IInv, PanelInv, "planner" \notin Faults, [Next]_vars
  PROVE  PanelInv'
<1>1. ASSUME Visitor PROVE PanelInv'
  BY <1>1, SayShows, HostStopsShows, StartVoiceShows, PressShows DEF Visitor
<1>2. ASSUME SdkTakes PROVE PanelInv'
  BY <1>2, TakeStateShows, TakesShow DEF SdkTakes
<1>3. ASSUME SdkWorks \/ Observe PROVE PanelInv'
  BY <1>3, WorksShow, PauseShows DEF SdkWorks
<1>4. ASSUME ServerHandles PROVE PanelInv'
  BY <1>4, ControlShows, TurnsShow, PausedShows, ResultShows, ObservationShows, InterruptShows
     DEF ServerHandles
<1>5. ASSUME ServerTimers PROVE PanelInv'
  BY <1>5, TimersShow
<1>6. ASSUME UNCHANGED vars PROVE PanelInv'
  BY <1>6 DEF vars, PanelInv
<1>7. QED
  BY <1>1, <1>2, <1>3, <1>4, <1>5, <1>6 DEF Next

(* At rest the panel shows the server's phase and its buttons, whatever    *)
(* was said, pressed and stopped before, where every turn heard is         *)
(* planned: nothing told to the browser is lost, late or overtaken by what *)
(* the browser shows on its own.                                           *)
THEOREM PanelStaysCurrent == "planner" \notin Faults => (Spec => []PanelIsCurrent)
<1> SUFFICES ASSUME "planner" \notin Faults PROVE Spec => []PanelIsCurrent
  OBVIOUS
<1>1. IInv /\ PanelInv => PanelIsCurrent
  <2> SUFFICES ASSUME IInv, PanelInv, Quiet
               PROVE  sdk.phase = srv.demo.phase /\ sdk.buttons = Buttons(srv.demo)
    BY DEF PanelIsCurrent
  <2>1. up = << >> /\ down = << >> /\ sdk.run = NoRun /\ sdk.staged = NoResult
    BY DEF Quiet
  <2>2. PanelShows(srv, sdk, up) /\ (srv.demo.phase = "playing" => Active(srv))
    BY <2>1 DEF PanelInv, PInv, Tells
  <2>3. ~Pressing(srv, up) /\ ~Reporting(srv, up)
    BY <2>1 DEF Pressing, Reporting
  <2>4. ~Active(srv)
    <3> SUFFICES ASSUME Active(srv) PROVE FALSE
      OBVIOUS
    <3>1. srv.journey.cmd # 0
      BY DEF IInv, ServerTyped, Active
    <3>2. Answered(srv, sdk, up, down)
      BY DEF IInv, Fine, Commands
    <3>3. ~OrderAfter(down, 0, srv.journey.cmd) /\ ~OutcomeSent(up, srv.journey.cmd)
      BY <2>1 DEF OrderAfter, OutcomeSent
    <3>4. sdk.run.cmd = 0 /\ sdk.staged.cmd = 0
      BY <2>1 DEF NoRun, NoResult
    <3>5. QED
      BY <3>1, <3>2, <3>3, <3>4 DEF Answered
  <2>5. QED
    BY <2>2, <2>3, <2>4 DEF PanelShows
<1>2. IInv /\ PanelInv /\ [Next]_vars => PanelInv'
  BY PanelKeeps
<1>3. QED
  BY <1>1, <1>2, PanelBegins, Invariance, PTL DEF Spec
=============================================================================
