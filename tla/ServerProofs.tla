------------------------------ MODULE ServerProofs ------------------------------
(***************************************************************************)
(* A turn of the cloud runtime that was cut off does nothing more, for any *)
(* number of turns, barge-ins, tools and targets; and a hosted demo is     *)
(* driven by one worker, for any number of workers and sockets.            *)
(***************************************************************************)
EXTENDS TurnActor, LiveSessions, FiniteSetTheorems, TLAPS

Run == [cmd : Nat, turn : Nat, gen : Nat, paused : BOOLEAN, show : BOOLEAN]
Obs == [cmd : Nat, turn : Nat, show : BOOLEAN, wish : Wishes]
Server == [dynamic : BOOLEAN, gen : Nat, busy : {"none", "live", "aborted"}, pend : Run, nav : Nat, queued : Nat, obs : Obs]
Actor == [at : {"idle", "plan", "model", "ack", "explain", "talk", "dyn", "tool"}, turn : Nat, wish : Wishes]
Kinds == {"turn", "interrupt", "paused", "result", "navigated", "observation", "tool_result",
          "run", "resume", "pause", "stop", "observe", "nav"}
Message == [kind : Kinds, cmd : Nat, turn : Nat, ok : BOOLEAN]
ToolMessage == [kind : {"tool"}, cmd : Nat, turn : Nat, target : Targets]
Sdk == [run : Nat, turn : Nat, aborted : BOOLEAN, pauseSoon : BOOLEAN, paused : Nat, tools : SUBSET ToolMessage, left : BOOLEAN]
Count == [turns : Nat, barges : Nat, sends : Nat, tools : Nat]

\* What is on the socket: no turn is numbered beyond the last one said, and
\* whoever asks for an observation can be answered.
UpOK(u, n) ==
  u \in Seq(Message) /\ \A i \in DOMAIN u : u[i].turn =< n /\ (u[i].kind = "observation" => u[i].cmd # 0)
DownOK(d, n) ==
  d \in Seq(Message \cup ToolMessage) /\ \A i \in DOMAIN d : d[i].turn =< n /\ (d[i].kind = "observe" => d[i].cmd # 0)
SrvOK(s, n) == s \in Server /\ s.pend.turn =< n /\ s.obs.turn =< n /\ s.queued =< n
ActorOK(a, n) == a \in Actor /\ a.turn =< n
SdkOK(k, n) == k \in Sdk /\ k.turn =< n /\ k.paused =< n /\ \A m \in k.tools : m.turn =< n
Typed(n) == count \in Count /\ SrvOK(srv, n) /\ ActorOK(actor, n) /\ SdkOK(sdk, n) /\ UpOK(up, n) /\ DownOK(down, n)

\* Where a turn can be: coming, waiting for a journey, waiting for a look at
\* the page, or being worked on.  From "model" on a barge-in cuts it off.
Late == {"model", "ack", "dyn", "tool"}
Mine(a) == IF a.at \in Late \cup {"plan"} THEN {a.turn} ELSE {}
Awaited(o) == IF o.cmd # 0 /\ ~o.show THEN {o.turn} ELSE {}
Waiting(q) == IF q # 0 THEN {q} ELSE {}
Coming(u) == {u[i].turn : i \in {j \in DOMAIN u : u[j].kind = "turn"}}
Once(u) == \A i, j \in DOMAIN u : u[i].kind = "turn" /\ u[j].kind = "turn" /\ u[i].turn = u[j].turn => i = j

\* A turn is in one place only; it is cut off only where it is worked on, and
\* then the handler finds its signal aborted.
Placed(s, a, u, c, n) ==
  /\ c \subseteq 1 .. n /\ Once(u)
  /\ Coming(u) \cup Waiting(s.queued) \cup Awaited(s.obs) \subseteq (1 .. n) \ c
  /\ Mine(a) \subseteq 1 .. n
  /\ Coming(u) \cap (Waiting(s.queued) \cup Awaited(s.obs) \cup Mine(a)) = {}
  /\ Waiting(s.queued) \cap (Awaited(s.obs) \cup Mine(a)) = {}
  /\ a.at \in Late \cup {"plan"} => s.obs.cmd = 0
  /\ a.at = "plan" => a.turn \notin c
  /\ a.at \in Late => s.busy # "none" /\ (a.turn \in c => s.busy = "aborted")

ActorInv == Typed(count.turns) /\ Placed(srv, actor, up, cut, count.turns)

-----------------------------------------------------------------------------
(* The queue of messages *)

\* The message at the head is taken.
LEMMA UpTail ==
  ASSUME NEW n \in Nat, NEW u, UpOK(u, n), u # <<>>, Once(u)
  PROVE  /\ UpOK(Tail(u), n) /\ Once(Tail(u)) /\ Coming(Tail(u)) \subseteq Coming(u)
         /\ Head(u) \in Message /\ Head(u).turn =< n /\ (Head(u).kind = "observation" => Head(u).cmd # 0)
         /\ Head(u).kind = "turn" => Head(u).turn \in Coming(u) /\ Head(u).turn \notin Coming(Tail(u))
  <1> DEFINE v == Tail(u)
  <1>1. v \in Seq(Message) /\ Head(u) = u[1] /\ 1 \in DOMAIN u /\ u[1] \in Message
    BY DEF UpOK
  <1>2. \A i \in DOMAIN v : i + 1 \in DOMAIN u /\ v[i] = u[i + 1] /\ i \in Nat /\ i >= 1
    BY DEF UpOK
  <1> HIDE DEF v
  <1>3. Once(v)
    BY <1>2 DEF Once
  <1>4. Coming(v) \subseteq Coming(u)
    BY <1>2 DEF Coming
  <1>5. u[1].kind = "turn" => u[1].turn \in Coming(u) /\ u[1].turn \notin Coming(v)
    <2>1. u[1].kind = "turn" => u[1].turn \in Coming(u)
      BY <1>1 DEF Coming
    <2>2. ASSUME u[1].kind = "turn", NEW i \in DOMAIN v, v[i].kind = "turn", v[i].turn = u[1].turn
          PROVE  FALSE
      <3>1. i + 1 = 1
        BY <1>1, <1>2, <2>2 DEF Once
      <3> QED BY <1>2, <2>2, <3>1
    <2> QED BY <2>1, <2>2 DEF Coming
  <1>6. UpOK(v, n)
    BY <1>1, <1>2 DEF UpOK
  <1> QED BY <1>1, <1>3, <1>4, <1>5, <1>6 DEF v, UpOK

\* A message is sent up.
LEMMA UpAppend ==
  ASSUME NEW u \in Seq(Message), Once(u), NEW m \in Message, m.kind = "turn" => m.turn \notin Coming(u)
  PROVE  /\ Once(Append(u, m))
         /\ Coming(Append(u, m)) = IF m.kind = "turn" THEN Coming(u) \cup {m.turn} ELSE Coming(u)
  <1> DEFINE v == Append(u, m)
  <1>1. /\ v \in Seq(Message) /\ Len(v) = Len(u) + 1 /\ v[Len(v)] = m /\ DOMAIN v = DOMAIN u \cup {Len(v)} /\ Len(v) \notin DOMAIN u
        /\ \A i \in DOMAIN u : v[i] = u[i]
    OBVIOUS
  <1> HIDE DEF v
  <1>2. m.kind # "turn" => Coming(v) = Coming(u)
    BY <1>1 DEF Coming
  <1>3. m.kind = "turn" => Coming(v) = Coming(u) \cup {m.turn}
    BY <1>1 DEF Coming
  <1>4. Once(v)
    BY <1>1 DEF Once, Coming
  <1> QED BY <1>2, <1>3, <1>4 DEF v

\* A command is sent down.
LEMMA DownAppend ==
  ASSUME NEW n \in Nat, NEW d, DownOK(d, n), NEW m \in Message \cup ToolMessage, m.turn =< n, m.kind = "observe" => m.cmd # 0
  PROVE  /\ DownOK(Append(d, m), n) /\ Len(Append(d, m)) = Len(d) + 1 /\ Append(d, m)[Len(Append(d, m))] = m
  <1> DEFINE e == Append(d, m)
  <1>1. e \in Seq(Message \cup ToolMessage) /\ Len(e) = Len(d) + 1 /\ e[Len(e)] = m /\ \A i \in DOMAIN e : e[i] = m \/ (i \in DOMAIN d /\ e[i] = d[i])
    BY DEF DownOK
  <1> HIDE DEF e
  <1>2. DownOK(e, n)
    BY <1>1 DEF DownOK
  <1> QED BY <1>1, <1>2 DEF e

\* What is left of the commands under way once the page took the first.
LEMMA DownTail ==
  ASSUME NEW n \in Nat, NEW d, DownOK(d, n), d # <<>>
  PROVE  /\ DownOK(Tail(d), n) /\ Head(d) \in Message \cup ToolMessage
         /\ Head(d).turn =< n /\ (Head(d).kind = "observe" => Head(d).cmd # 0)
  <1> DEFINE e == Tail(d)
  <1>1. /\ e \in Seq(Message \cup ToolMessage) /\ Head(d) = d[1] /\ 1 \in DOMAIN d
        /\ \A i \in DOMAIN e : i + 1 \in DOMAIN d /\ e[i] = d[i + 1]
    BY DEF DownOK
  <1> HIDE DEF e
  <1>2. DownOK(e, n) /\ d[1] \in Message \cup ToolMessage
    BY <1>1 DEF DownOK
  <1> QED BY <1>1, <1>2 DEF e, DownOK

-----------------------------------------------------------------------------
(* The handlers *)

\* The records that stand for nothing are well typed and belong to no turn.
LEMMA NoneTyped ==
  NoRun \in Run /\ NoObs \in Obs /\ IdleActor \in Actor /\ NoRun.turn = 0 /\ NoObs.turn = 0 /\ NoObs.cmd = 0 /\ IdleActor.turn = 0 /\ IdleActor.at = "idle"
  BY DEF NoRun, NoObs, IdleActor, Run, Obs, Actor, Wishes

\* A command of the server.
LEMMA TellOK ==
  ASSUME NEW n \in Nat, DownOK(down, n), NEW kind \in Kinds, NEW cmd \in Nat, NEW turn \in Nat,
         turn =< n, kind = "observe" => cmd # 0, Tell(kind, cmd, turn)
  PROVE  /\ DownOK(down', n) /\ Len(down') = Len(down) + 1
         /\ down'[Len(down')].kind = kind /\ down'[Len(down')].turn = turn
  <1>1. PICK m : m = Msg(kind, cmd, turn, TRUE)
    OBVIOUS
  <1>2. m \in Message /\ m.turn = turn /\ m.kind = kind /\ m.cmd = cmd
    BY <1>1 DEF Msg, Message
  <1>3. down' = Append(down, m)
    BY <1>1 DEF Tell
  <1> QED BY <1>2, <1>3, DownAppend

\* A report of the page; the visitor speaks too.
LEMMA SayOK ==
  ASSUME NEW n \in Nat, UpOK(up, n), Once(up), NEW kind \in Kinds, NEW cmd \in Nat, NEW turn \in Nat, NEW ok \in BOOLEAN,
         turn =< n, kind = "observation" => cmd # 0, kind = "turn" => turn \notin Coming(up), Say(kind, cmd, turn, ok)
  PROVE  /\ UpOK(up', n) /\ Once(up')
         /\ Coming(up') = IF kind = "turn" THEN Coming(up) \cup {turn} ELSE Coming(up)
  <1>1. PICK m : m = Msg(kind, cmd, turn, ok)
    OBVIOUS
  <1>2. m \in Message /\ m.turn = turn /\ m.kind = kind /\ m.cmd = cmd
    BY <1>1 DEF Msg, Message
  <1>3. up' = Append(up, m)
    BY <1>1 DEF Say
  <1>4. UpOK(up', n)
    BY <1>2, <1>3 DEF UpOK
  <1>5. up \in Seq(Message)
    BY DEF UpOK
  <1> QED BY <1>2, <1>3, <1>4, <1>5, UpAppend

\* The fields of the server's state, and how they change one at a time.
LEMMA FieldsTyped ==
  ASSUME NEW s \in Server
  PROVE  /\ s.pend \in Run /\ s.obs \in Obs /\ s.queued \in Nat /\ s.gen \in Nat /\ s.nav \in Nat
         /\ s.pend.cmd \in Nat /\ s.pend.turn \in Nat /\ s.obs.cmd \in Nat /\ s.obs.turn \in Nat
  <1>1. s.pend \in Run /\ s.obs \in Obs /\ s.queued \in Nat /\ s.gen \in Nat /\ s.nav \in Nat
    BY DEF Server
  <1> QED BY <1>1 DEF Run, Obs

\* A server with one field changed is a server.
LEMMA ServerFields ==
  ASSUME NEW s \in Server
  PROVE  /\ \A x \in Run : [s EXCEPT !.pend = x] \in Server
         /\ \A x \in Obs : [s EXCEPT !.obs = x] \in Server
         /\ \A x \in Nat : [s EXCEPT !.queued = x] \in Server /\ [s EXCEPT !.gen = x] \in Server /\ [s EXCEPT !.nav = x] \in Server
         /\ \A x \in {"none", "live", "aborted"} : [s EXCEPT !.busy = x] \in Server
  <1>3. \A x \in Run : [s EXCEPT !.pend = x] \in Server
    BY DEF Server
  <1>4. \A x \in Obs : [s EXCEPT !.obs = x] \in Server
    BY DEF Server
  <1>5. \A x \in Nat : [s EXCEPT !.queued = x] \in Server
    BY DEF Server
  <1>6. \A x \in Nat : [s EXCEPT !.gen = x] \in Server
    BY DEF Server
  <1>7. \A x \in Nat : [s EXCEPT !.nav = x] \in Server
    BY DEF Server
  <1>8. \A x \in {"none", "live", "aborted"} : [s EXCEPT !.busy = x] \in Server
    BY DEF Server
  <1> QED BY <1>3, <1>4, <1>5, <1>6, <1>7, <1>8

\* A journey goes on under a new command.
LEMMA Resumed ==
  ASSUME NEW r \in Run, NEW cmd \in Nat, NEW gen \in Nat
  PROVE  LET q == [r EXCEPT !.cmd = cmd, !.gen = gen, !.paused = FALSE] IN q \in Run /\ q.turn = r.turn
  <1> DEFINE p == [r EXCEPT !.cmd = cmd]
             o == [p EXCEPT !.gen = gen]
             q == [o EXCEPT !.paused = FALSE]
  <1>1. p \in Run /\ p.turn = r.turn
    BY DEF Run
  <1> HIDE DEF p
  <1>2. o \in Run /\ o.turn = r.turn
    BY <1>1 DEF Run
  <1> HIDE DEF o
  <1>3. q \in Run /\ q.turn = r.turn
    BY <1>2 DEF Run
  <1>4. q = [r EXCEPT !.cmd = cmd, !.gen = gen, !.paused = FALSE]
    BY DEF p, o, Run
  <1> HIDE DEF q
  <1> QED BY <1>3, <1>4

\* What the handlers do to it first.
LEMMA AbortOK ==
  ASSUME NEW s \in Server
  PROVE  /\ Abort(s) \in Server /\ Abort(s).queued = s.queued /\ Abort(s).obs = s.obs /\ Abort(s).pend = s.pend
         /\ Abort(s).busy = "none" <=> s.busy = "none"
         /\ Abort(s).busy # "live"
  <1> DEFINE b == IF s.busy = "none" THEN "none" ELSE "aborted"
  <1>1. b \in {"none", "live", "aborted"} /\ Abort(s) = [s EXCEPT !.busy = b]
    BY DEF Abort, Server
  <1> HIDE DEF b
  <1>2. Abort(s) \in Server
    BY <1>1, ServerFields
  <1>3. Abort(s).queued = s.queued /\ Abort(s).obs = s.obs /\ Abort(s).pend = s.pend /\ Abort(s).busy = b
    BY <1>1 DEF Server
  <1> QED BY <1>1, <1>2, <1>3 DEF b, Server

\* beginTurn: the old turn is aborted, its observation forgotten.
LEMMA BeginsOK ==
  ASSUME NEW s \in Server, NEW turn
  PROVE  Begins(s, turn) \in Server /\ Begins(s, turn).queued = s.queued /\ Begins(s, turn).obs = NoObs /\ Begins(s, turn).pend = s.pend
  <1> DEFINE r == Abort(s)
             q == [r EXCEPT !.gen = r.gen + 1]
             p == [q EXCEPT !.obs = NoObs]
  <1>1. Begins(s, turn) = p /\ r \in Server /\ r.gen + 1 \in Nat /\ r.queued = s.queued /\ r.pend = s.pend
    BY AbortOK, FieldsTyped DEF Begins, Server
  <1> HIDE DEF r
  <1>2. q \in Server /\ q.queued = s.queued /\ q.pend = s.pend
    BY <1>1, ServerFields DEF Server
  <1> HIDE DEF q
  <1>3. p \in Server /\ p.queued = s.queued /\ p.obs = NoObs /\ p.pend = s.pend
    BY <1>2, NoneTyped, ServerFields DEF Server
  <1> QED BY <1>1, <1>3

\* clearPendingJourney: the journey, its navigation and the waiting turn go.
LEMMA ClearedOK ==
  ASSUME NEW s \in Server
  PROVE  Cleared(s) \in Server /\ Cleared(s).queued = 0 /\ Cleared(s).obs = s.obs /\ Cleared(s).pend = NoRun /\ Cleared(s).busy = s.busy
  <1> DEFINE r == [s EXCEPT !.pend = NoRun]
             q == [r EXCEPT !.nav = 0]
             p == [q EXCEPT !.queued = 0]
  <1>1. r \in Server /\ r.obs = s.obs /\ r.pend = NoRun /\ r.busy = s.busy
    BY NoneTyped, ServerFields DEF Server
  <1>2. Cleared(s) = p
    BY DEF Cleared, Server
  <1> HIDE DEF r
  <1>3. q \in Server /\ q.obs = s.obs /\ q.pend = NoRun /\ q.busy = s.busy
    BY <1>1, ServerFields DEF Server
  <1> HIDE DEF q
  <1>4. p \in Server /\ p.obs = s.obs /\ p.pend = NoRun /\ p.queued = 0 /\ p.busy = s.busy
    BY <1>3, ServerFields DEF Server
  <1> QED BY <1>2, <1>4

\* beginTurn with a turn that is nowhere else.
LEMMA BeginOK ==
  ASSUME ActorInv, NEW s, SrvOK(s, count.turns), NEW turn \in (1 .. count.turns) \ cut, Begin(s, turn), actor.at = "idle",
         UpOK(up', count.turns), Once(up'), Coming(up') \cup Waiting(s.queued) \subseteq (1 .. count.turns) \ cut,
         turn \notin Coming(up') \cup Waiting(s.queued), Coming(up') \cap Waiting(s.queued) = {}, UNCHANGED <<sdk, cut>>
  PROVE  ActorInv'
  <1> DEFINE n == count.turns
  <1>1. n \in Nat /\ cut \subseteq 1 .. n /\ turn \in Nat /\ turn =< n /\ Typed(n) /\ s \in Server /\ NewCmd \in Nat /\ NewCmd # 0
    BY DEF ActorInv, Typed, Placed, Count, SrvOK, NewCmd
  <1>2. CASE /\ srv' = Begins(s, turn) /\ actor' = [at |-> "plan", turn |-> turn, wish |-> "answer"]
             /\ UNCHANGED <<down, count>>
    <2> DEFINE a == [at |-> "plan", turn |-> turn, wish |-> "answer"]
    <2>1. ActorOK(a, n) /\ Mine(a) = {turn} /\ a.at = "plan" /\ a.turn = turn
      BY <1>1 DEF ActorOK, Actor, Wishes, Mine
    <2>2. SrvOK(srv', n) /\ srv'.queued = s.queued /\ srv'.obs = NoObs
      BY <1>1, <1>2, NoneTyped, BeginsOK DEF SrvOK
    <2>3. Placed(srv', a, up', cut, n)
      BY <1>1, <2>1, <2>2, NoneTyped DEF Placed, Awaited, Late
    <2> QED BY <1>1, <1>2, <2>1, <2>2, <2>3 DEF ActorInv, Typed
  <1>3. CASE /\ srv' = Cleared(Begins(s, turn)) /\ Tell("stop", 0, 0)
             /\ Talks /\ UNCHANGED count
    <2>1. ActorOK(actor', n) /\ actor'.at = "talk"
      BY <1>1, <1>3 DEF Talks, IdleActor, ActorOK, Actor, Wishes
    <2>2. SrvOK(srv', n) /\ srv'.queued = 0 /\ srv'.obs = NoObs
      BY <1>1, <1>3, NoneTyped, BeginsOK, ClearedOK DEF SrvOK
    <2>4. DownOK(down', n)
      <3>1. DownOK(down, n) /\ "stop" \in Kinds /\ 0 \in Nat /\ 0 =< n /\ "stop" # "observe" /\ Tell("stop", 0, 0)
        BY <1>1, <1>3 DEF Typed, Kinds
      <3> HIDE DEF n
      <3> QED BY <1>1, <3>1, TellOK
    <2>5. Placed(srv', actor', up', cut, n)
      BY <1>1, <2>1, <2>2, NoneTyped DEF Placed, Awaited, Waiting, Mine, Late
    <2> QED BY <1>1, <1>3, <2>1, <2>2, <2>4, <2>5 DEF ActorInv, Typed
  <1>4. CASE /\ srv' = [Begins(s, turn) EXCEPT !.pend.cmd = NewCmd, !.pend.gen = s.gen + 1, !.pend.paused = FALSE]
             /\ Tell("resume", NewCmd, s.pend.turn) /\ Sent /\ actor' = IdleActor
    <2>2. SrvOK(srv', n) /\ srv'.queued = s.queued /\ srv'.obs = NoObs
      <3> DEFINE r == [s.pend EXCEPT !.cmd = NewCmd, !.gen = s.gen + 1, !.paused = FALSE]
      <3>1. r \in Run /\ r.turn = s.pend.turn
        <4>1. s.pend \in Run /\ s.gen + 1 \in Nat
          BY <1>1, FieldsTyped
        <4> QED BY <1>1, <4>1, Resumed
      <3> DEFINE z == Begins(s, turn)
      <3>2. z \in Server /\ z.queued = s.queued /\ z.obs = NoObs /\ z.pend = s.pend
        BY <1>1, BeginsOK
      <3>3. srv' = [z EXCEPT !.pend = [z.pend EXCEPT !.cmd = NewCmd, !.gen = s.gen + 1, !.paused = FALSE]]
        BY <1>4, <3>2 DEF Server
      <3> HIDE DEF z
      <3>4. srv' = [z EXCEPT !.pend = r]
        BY <3>2, <3>3
      <3> HIDE DEF r
      <3>5. srv' \in Server /\ srv'.pend = r /\ srv'.queued = s.queued /\ srv'.obs = NoObs
        BY <3>1, <3>2, <3>4, ServerFields DEF Server
      <3> QED BY <1>1, <3>1, <3>5, NoneTyped DEF SrvOK
    <2>4. DownOK(down', n)
      <3>1. s.pend.turn \in Nat /\ s.pend.turn =< n
        BY <1>1, FieldsTyped DEF SrvOK
      <3>2. DownOK(down, n) /\ "resume" \in Kinds /\ "resume" # "observe" /\ Tell("resume", NewCmd, s.pend.turn)
        BY <1>1, <1>4 DEF Typed, Kinds
      <3> HIDE DEF n
      <3> QED BY <1>1, <3>1, <3>2, TellOK
    <2>5. Placed(srv', IdleActor, up', cut, n)
      BY <1>1, <2>2, NoneTyped DEF Placed, Awaited, Mine, Late
    <2>6. count' \in Count /\ count'.turns = n
      BY <1>1, <1>4 DEF Sent, Typed, Count
    <2> QED BY <1>1, <1>4, <2>2, <2>4, <2>5, <2>6, NoneTyped DEF ActorInv, Typed, ActorOK
  <1> QED BY <1>2, <1>3, <1>4 DEF Begin

\* What the invariant says of the parts a handler starts from.
LEMMA Parts ==
  ASSUME ActorInv
  PROVE  LET n == count.turns
         IN /\ n \in Nat /\ count \in Count /\ srv \in Server /\ SrvOK(srv, n) /\ actor \in Actor /\ ActorOK(actor, n) /\ SdkOK(sdk, n)
            /\ UpOK(up, n) /\ DownOK(down, n) /\ Placed(srv, actor, up, cut, n) /\ NewCmd \in Nat /\ NewCmd # 0
  BY DEF ActorInv, Typed, Count, SrvOK, ActorOK, NewCmd

\* A message is taken while nothing else is being handled.
LEMMA Taken ==
  ASSUME ActorInv, actor.at = "idle", up # <<>>, up' = Tail(up)
  PROVE  LET n == count.turns
             m == Head(up)
         IN /\ UpOK(up', n) /\ Once(up') /\ Coming(up') \subseteq Coming(up) /\ Coming(up') \subseteq (1 .. n) \ cut
            /\ m \in Message /\ m.turn =< n /\ m.turn \in Nat /\ m.cmd \in Nat /\ (m.kind = "observation" => m.cmd # 0)
            /\ m.kind = "turn" => m.turn \in (1 .. n) \ cut /\ m.turn \notin Coming(up') \cup Waiting(srv.queued) \cup Awaited(srv.obs)
            /\ Mine(actor) = {}
  <1> DEFINE n == count.turns
             m == Head(up)
  <1>1. n \in Nat /\ UpOK(up, n) /\ Placed(srv, actor, up, cut, n)
    BY Parts
  <1>2. /\ UpOK(Tail(up), n) /\ Once(Tail(up)) /\ Coming(Tail(up)) \subseteq Coming(up)
        /\ m \in Message /\ m.turn =< n /\ (m.kind = "observation" => m.cmd # 0)
        /\ m.kind = "turn" => m.turn \in Coming(up) /\ m.turn \notin Coming(Tail(up))
    BY <1>1, UpTail DEF Placed
  <1>3. m.turn \in Nat /\ m.cmd \in Nat
    BY <1>2 DEF Message
  <1>4. Coming(up) \subseteq (1 .. n) \ cut /\ Coming(up) \cap (Waiting(srv.queued) \cup Awaited(srv.obs)) = {}
    BY <1>1 DEF Placed
  <1>5. Mine(actor) = {}
    BY DEF Mine, Late
  <1> HIDE DEF m, n
  <1>6. m.kind = "turn" => m.turn \in (1 .. n) \ cut /\ m.turn \notin Coming(up') \cup Waiting(srv.queued) \cup Awaited(srv.obs)
    BY <1>2, <1>4
  <1> QED BY <1>2, <1>3, <1>4, <1>5, <1>6 DEF m, n

\* An action that ends with nothing being worked on.
LEMMA Rests ==
  ASSUME ActorInv, NEW a, ActorOK(a, count.turns), a.at \in {"idle", "talk"}, actor' = a,
         SrvOK(srv', count.turns), srv'.queued \in {0, srv.queued}, srv'.obs \in {NoObs, srv.obs},
         UpOK(up', count.turns), Once(up'), Coming(up') \subseteq Coming(up),
         DownOK(down', count.turns), count' \in Count, count'.turns = count.turns, UNCHANGED <<sdk, cut>>
  PROVE  ActorInv'
  <1> DEFINE n == count.turns
  <1>1. n \in Nat /\ Placed(srv, actor, up, cut, n) /\ SdkOK(sdk, n)
    BY Parts
  <1> HIDE DEF n
  <1>2. Mine(a) = {} /\ Waiting(srv'.queued) \subseteq Waiting(srv.queued) /\ Awaited(srv'.obs) \subseteq Awaited(srv.obs)
    BY NoneTyped DEF Mine, Late, Waiting, Awaited
  <1>3. Placed(srv', a, up', cut, n)
    BY <1>1, <1>2 DEF Placed, Late
  <1> QED BY <1>1, <1>3 DEF ActorInv, Typed, n

\* An actor at rest, or on a conversation, works on no turn.
LEMMA IdleOK ==
  ASSUME NEW n \in Nat
  PROVE  /\ ActorOK(IdleActor, n) /\ IdleActor.at = "idle"
         /\ ActorOK([IdleActor EXCEPT !.at = "talk"], n) /\ [IdleActor EXCEPT !.at = "talk"].at = "talk"
  BY DEF IdleActor, ActorOK, Actor, Wishes

\* The journey's record goes, or is marked paused; nothing waits any more.
Freed(s, r) == [s EXCEPT !.pend = r, !.queued = 0]
\* The record of the journey replaced, nothing waits for it any more.
LEMMA PendOK ==
  ASSUME NEW n \in Nat, NEW s, SrvOK(s, n), NEW r \in Run, r.turn =< n
  PROVE  SrvOK(Freed(s, r), n) /\ Freed(s, r).queued = 0 /\ Freed(s, r).obs = s.obs /\ Freed(s, r).pend = r
  <1> DEFINE p == [s EXCEPT !.pend = r]
             t == Freed(s, r)
  <1>1. p \in Server /\ p.obs = s.obs /\ p.pend = r
    BY ServerFields DEF SrvOK, Server
  <1>2. t = [p EXCEPT !.queued = 0]
    BY DEF p, SrvOK, Server, Freed
  <1> HIDE DEF p, t
  <1>3. t \in Server /\ t.obs = s.obs /\ t.queued = 0 /\ t.pend = r
    BY <1>1, <1>2, ServerFields DEF Server
  <1>4. SrvOK(t, n)
    BY <1>3 DEF SrvOK
  <1> QED BY <1>3, <1>4 DEF t

\* handleTurn: a new turn interrupts what runs, or waits for the journey to pause.
LEMMA TakeTurnOK ==
  ASSUME ActorInv, actor.at = "idle", up # <<>>, up' = Tail(up), Head(up).kind = "turn", TakeTurn(Head(up)), UNCHANGED <<sdk, cut>>
  PROVE  ActorInv'
  <1> DEFINE n == count.turns
             m == Head(up)
  <1>1. n \in Nat /\ srv \in Server /\ SrvOK(srv, n) /\ ActorOK(actor, n) /\ SdkOK(sdk, n) /\ DownOK(down, n) /\ Placed(srv, actor, up, cut, n) /\ count \in Count
    BY Parts
  <1>2. /\ UpOK(up', n) /\ Once(up') /\ Coming(up') \subseteq Coming(up) /\ Coming(up') \subseteq (1 .. n) \ cut
        /\ m.turn \in Nat /\ m.turn =< n /\ m.turn \in (1 .. n) \ cut /\ m.turn \notin Coming(up') \cup Waiting(srv.queued) \cup Awaited(srv.obs)
        /\ Mine(actor) = {}
    BY Taken
  <1>3. TakeTurn(m)
    OBVIOUS
  <1> HIDE DEF m
  <1>4. CASE srv.pend.cmd # 0 /\ ~srv.pend.paused
    <2>1. srv' = [srv EXCEPT !.queued = m.turn] /\ Tell("pause", 0, srv.pend.turn) /\ UNCHANGED <<actor, count>>
      BY <1>3, <1>4 DEF TakeTurn
    <2>2. SrvOK(srv', n) /\ srv'.queued = m.turn /\ srv'.obs = srv.obs
      BY <1>1, <1>2, <2>1, ServerFields DEF SrvOK, Server
    <2>3. DownOK(down', n)
      <3>1. srv.pend.turn \in Nat /\ srv.pend.turn =< n /\ "pause" \in Kinds /\ "pause" # "observe"
        BY <1>1, FieldsTyped DEF SrvOK, Kinds
      <3> HIDE DEF n
      <3> QED BY <1>1, <2>1, <3>1, TellOK
    <2>4. Placed(srv', actor, up', cut, n)
      <3> HIDE DEF n
      <3> QED BY <1>1, <1>2, <2>2 DEF Placed, Waiting, Late
    <2> QED BY <1>1, <1>2, <2>1, <2>2, <2>3, <2>4 DEF ActorInv, Typed
  <1>5. CASE ~(srv.pend.cmd # 0 /\ ~srv.pend.paused)
    <2>1. Begin(srv, m.turn)
      BY <1>3, <1>5 DEF TakeTurn
    <2>2. Waiting(srv.queued) \subseteq (1 .. n) \ cut /\ Coming(up') \cap Waiting(srv.queued) = {}
      BY <1>1, <1>2 DEF Placed
    <2>3. m.turn \notin Coming(up') \cup Waiting(srv.queued) /\ Coming(up') \cup Waiting(srv.queued) \subseteq (1 .. n) \ cut
      BY <1>2, <2>2
    <2> QED BY <1>1, <1>2, <2>1, <2>2, <2>3, BeginOK
  <1> QED BY <1>4, <1>5

\* A barge-in heard by the server cancels what it works on.
LEMMA TakeInterruptOK ==
  ASSUME ActorInv, actor.at = "idle", up # <<>>, up' = Tail(up), TakeInterrupt, UNCHANGED <<sdk, cut>>
  PROVE  ActorInv'
  <1> DEFINE n == count.turns
  <1>1. n \in Nat /\ srv \in Server /\ SrvOK(srv, n) /\ ActorOK(actor, n) /\ DownOK(down, n) /\ count \in Count
    BY Parts
  <1>2. UpOK(up', n) /\ Once(up') /\ Coming(up') \subseteq Coming(up)
    BY Taken
  <1>3. DownOK(down', n)
    <2>1. Tell("stop", 0, 0) /\ "stop" \in Kinds /\ "stop" # "observe" /\ 0 =< n
      BY <1>1 DEF TakeInterrupt, Kinds
    <2> HIDE DEF n
    <2> QED BY <1>1, <2>1, TellOK
  <1>4. SrvOK(srv', n) /\ srv'.queued \in {0, srv.queued} /\ srv'.obs = srv.obs
    <2>1. srv' = Abort(srv) \/ srv' = Cleared(Abort(srv))
      BY DEF TakeInterrupt
    <2>2. Abort(srv) \in Server /\ Abort(srv).queued = srv.queued /\ Abort(srv).obs = srv.obs /\ Abort(srv).pend = srv.pend
      BY <1>1, AbortOK
    <2>3. LET c == Cleared(Abort(srv)) IN c \in Server /\ c.queued = 0 /\ c.obs = srv.obs /\ c.pend = NoRun
      BY <2>2, ClearedOK
    <2> QED BY <1>1, <2>1, <2>2, <2>3, NoneTyped DEF SrvOK
  <1> QED BY <1>1, <1>2, <1>3, <1>4, Rests DEF TakeInterrupt

\* The page reports the journey paused: the turn that waited for it begins.
LEMMA TakePausedOK ==
  ASSUME ActorInv, actor.at = "idle", up # <<>>, up' = Tail(up), TakePaused(Head(up)), UNCHANGED <<sdk, cut>>
  PROVE  ActorInv'
  <1> DEFINE n == count.turns
             r == [srv.pend EXCEPT !.paused = TRUE]
             s == Freed(srv, r)
  <1>1. n \in Nat /\ srv \in Server /\ SrvOK(srv, n) /\ ActorOK(actor, n) /\ DownOK(down, n) /\ Placed(srv, actor, up, cut, n) /\ count \in Count
    BY Parts
  <1>2. UpOK(up', n) /\ Once(up') /\ Coming(up') \subseteq Coming(up) /\ Coming(up') \subseteq (1 .. n) \ cut
    BY Taken
  <1>3. r \in Run /\ r.turn = srv.pend.turn /\ r.turn =< n
    BY <1>1, FieldsTyped DEF Run, SrvOK
  <1>4. IF srv.queued # 0 THEN Begin(s, srv.queued) ELSE srv' = s /\ UNCHANGED <<actor, down, count>>
    BY <1>1 DEF TakePaused, Server, Freed
  <1> HIDE DEF r
  <1>5. SrvOK(s, n) /\ s.queued = 0 /\ s.obs = srv.obs
    BY <1>1, <1>3, PendOK
  <1> HIDE DEF s
  <1>6. CASE srv.queued # 0
    <2>1. srv.queued \in (1 .. n) \ cut /\ srv.queued \notin Coming(up') /\ Waiting(s.queued) = {}
      BY <1>1, <1>2, <1>5, <1>6 DEF Placed, Waiting
    <2> QED BY <1>2, <1>4, <1>5, <1>6, <2>1, BeginOK
  <1>7. CASE srv.queued = 0
    BY <1>1, <1>2, <1>4, <1>5, <1>7, Rests
  <1> QED BY <1>6, <1>7

\* A look at the page is asked for, on behalf of a turn that is nowhere else
\* or of an explanation.
LEMMA AskOK ==
  ASSUME ActorInv, NEW s, SrvOK(s, count.turns), s.queued \in {0, srv.queued}, NEW turn \in Nat, turn =< count.turns,
         NEW show \in BOOLEAN, NEW wish \in Wishes, RequestObservation(s, turn, show, wish),
         NEW a, ActorOK(a, count.turns), a.at \in {"idle", "talk"}, actor' = a,
         UpOK(up', count.turns), Once(up'), Coming(up') \subseteq Coming(up), UNCHANGED <<sdk, cut>>,
         show \/ (turn \in (1 .. count.turns) \ cut /\ turn \notin Coming(up) \cup Waiting(srv.queued))
  PROVE  ActorInv'
  <1> DEFINE n == count.turns
             o == [cmd |-> NewCmd, turn |-> turn, show |-> show, wish |-> wish]
  <1>1. n \in Nat /\ Placed(srv, actor, up, cut, n) /\ SdkOK(sdk, n) /\ DownOK(down, n) /\ NewCmd \in Nat /\ NewCmd # 0 /\ count \in Count
    BY Parts
  <1>2. count' \in Count /\ count'.turns = n
    BY <1>1 DEF RequestObservation, Sent, Count
  <1>3. DownOK(down', n)
    <2>1. Tell("observe", NewCmd, turn) /\ "observe" \in Kinds
      BY DEF RequestObservation, Kinds
    <2> HIDE DEF n
    <2> QED BY <1>1, <2>1, TellOK DEF n
  <1>4. o \in Obs /\ o.turn = turn /\ o.show = show
    BY <1>1 DEF Obs
  <1>5. srv' = [s EXCEPT !.obs = o]
    BY DEF RequestObservation
  <1> HIDE DEF o
  <1>6. SrvOK(srv', n) /\ srv'.queued = s.queued /\ srv'.obs = o
    BY <1>4, <1>5, ServerFields DEF SrvOK, Server
  <1> HIDE DEF n
  <1>7. Mine(a) = {} /\ Waiting(srv'.queued) \subseteq Waiting(srv.queued) /\ Awaited(srv'.obs) \subseteq IF show THEN {} ELSE {turn}
    BY <1>4, <1>6 DEF Mine, Late, Waiting, Awaited
  <1>8. Placed(srv', a, up', cut, n)
    BY <1>1, <1>7 DEF Placed, Late, n
  <1> QED BY <1>1, <1>2, <1>3, <1>6, <1>8 DEF ActorInv, Typed, n

\* The page reports a journey ended: what waited for it begins.
LEMMA TakeResultOK ==
  ASSUME ActorInv, actor.at = "idle", up # <<>>, up' = Tail(up), TakeResult(Head(up)), UNCHANGED <<sdk, cut>>
  PROVE  ActorInv'
  <1> DEFINE n == count.turns
             s == Freed(srv, NoRun)
  <1>1. n \in Nat /\ srv \in Server /\ SrvOK(srv, n) /\ ActorOK(actor, n) /\ DownOK(down, n) /\ Placed(srv, actor, up, cut, n) /\ count \in Count
    BY Parts
  <1>2. UpOK(up', n) /\ Once(up') /\ Coming(up') \subseteq Coming(up) /\ Coming(up') \subseteq (1 .. n) \ cut
    BY Taken
  <1>3. \/ srv.queued # 0 /\ Begin(s, srv.queued)
        \/ srv' = s /\ UNCHANGED <<actor, down, count>>
        \/ RequestObservation(s, srv.pend.turn, TRUE, "answer") /\ UNCHANGED actor
        \/ srv' = s /\ Talks /\ UNCHANGED <<down, count>>
    BY DEF TakeResult, Freed
  <1>5. SrvOK(s, n) /\ s.queued = 0 /\ s.obs = srv.obs
    BY <1>1, NoneTyped, PendOK
  <1> HIDE DEF s
  <1>6. CASE srv.queued # 0 /\ Begin(s, srv.queued)
    <2>1. srv.queued \in (1 .. n) \ cut /\ srv.queued \notin Coming(up') /\ Waiting(s.queued) = {}
      BY <1>1, <1>2, <1>5, <1>6 DEF Placed, Waiting
    <2> QED BY <1>2, <1>5, <1>6, <2>1, BeginOK
  <1>7. CASE srv' = s /\ UNCHANGED <<actor, down, count>>
    BY <1>1, <1>2, <1>5, <1>7, Rests
  <1>8. CASE RequestObservation(s, srv.pend.turn, TRUE, "answer") /\ UNCHANGED actor
    <2>1. srv.pend.turn \in Nat /\ srv.pend.turn =< n /\ "answer" \in Wishes
      BY <1>1, FieldsTyped DEF SrvOK, Wishes
    <2>2. PICK show \in BOOLEAN : show /\ RequestObservation(s, srv.pend.turn, show, "answer")
      BY <1>8, Zenon
    <2> QED BY <1>1, <1>2, <1>5, <1>8, <2>1, <2>2, AskOK
  <1>9. CASE srv' = s /\ Talks /\ UNCHANGED <<down, count>>
    BY <1>1, <1>2, <1>5, <1>9, IdleOK, Rests DEF Talks
  <1> QED BY <1>3, <1>6, <1>7, <1>8, <1>9

\* The page reports a navigation done.
LEMMA TakeNavResultOK ==
  ASSUME ActorInv, actor.at = "idle", up # <<>>, up' = Tail(up), TakeNavResult(Head(up)), UNCHANGED <<sdk, cut>>
  PROVE  ActorInv'
  <1> DEFINE n == count.turns
  <1>1. n \in Nat /\ srv \in Server /\ SrvOK(srv, n) /\ DownOK(down, n) /\ count \in Count
    BY Parts
  <1>2. UpOK(up', n) /\ Once(up') /\ Coming(up') \subseteq Coming(up)
    BY Taken
  <1>3. SrvOK(srv', n) /\ srv'.queued = srv.queued /\ srv'.obs = srv.obs
    BY <1>1, ServerFields DEF TakeNavResult, SrvOK, Server
  <1> QED BY <1>1, <1>2, <1>3, IdleOK, Rests DEF TakeNavResult, Talks

\* A handler that goes on with a turn: where it was a moment ago it is no more.
LEMMA GoesOn ==
  ASSUME ActorInv, NEW a, ActorOK(a, count.turns), actor' = a, SrvOK(srv', count.turns),
         UpOK(up', count.turns), Once(up'), Coming(up') \subseteq Coming(up),
         DownOK(down', count.turns), count' \in Count, count'.turns = count.turns, UNCHANGED <<sdk, cut>>,
         a.at \in Late, srv'.queued \in {0, srv.queued}, srv'.obs.cmd = 0,
         a.turn \in 1 .. count.turns, a.turn \notin Coming(up) \cup Waiting(srv.queued),
         srv'.busy # "none", a.turn \in cut => srv'.busy = "aborted"
  PROVE  ActorInv'
  <1> DEFINE n == count.turns
  <1>1. n \in Nat /\ Placed(srv, actor, up, cut, n) /\ SdkOK(sdk, n)
    BY Parts
  <1> HIDE DEF n
  <1>2. Mine(a) = {a.turn} /\ Waiting(srv'.queued) \subseteq Waiting(srv.queued) /\ Awaited(srv'.obs) = {}
    BY DEF Mine, Waiting, Awaited
  <1>3. Placed(srv', a, up', cut, n)
    BY <1>1, <1>2 DEF Placed, Late, n
  <1> QED BY <1>1, <1>3 DEF ActorInv, Typed, n

\* An observation the server asked for is worked on.
LEMMA TakeObservationOK ==
  ASSUME ActorInv, actor.at = "idle", up # <<>>, up' = Tail(up), Head(up).kind = "observation", TakeObservation(Head(up)), UNCHANGED <<sdk, cut>>
  PROVE  ActorInv'
  <1> DEFINE n == count.turns
             a == [at |-> IF srv.obs.show THEN "explain" ELSE "model", turn |-> srv.obs.turn, wish |-> srv.obs.wish]
             q == [srv EXCEPT !.obs = NoObs]
  <1>1. n \in Nat /\ srv \in Server /\ SrvOK(srv, n) /\ DownOK(down, n) /\ count \in Count /\ Placed(srv, actor, up, cut, n)
    BY Parts
  <1>2. UpOK(up', n) /\ Once(up') /\ Coming(up') \subseteq Coming(up) /\ Head(up).cmd # 0
    BY Taken
  <1>3. srv.obs \in Obs /\ srv.obs.turn \in Nat /\ srv.obs.turn =< n /\ srv.obs.wish \in Wishes /\ srv.obs.show \in BOOLEAN /\ srv.obs.cmd # 0
    BY <1>1, <1>2, FieldsTyped DEF SrvOK, Obs, TakeObservation
  <1>4. ActorOK(a, n) /\ a.turn = srv.obs.turn /\ a.at = IF srv.obs.show THEN "explain" ELSE "model"
    BY <1>3 DEF ActorOK, Actor
  <1>5. q \in Server /\ q.obs = NoObs /\ q.queued = srv.queued /\ q.pend = srv.pend
    BY <1>1, NoneTyped, ServerFields DEF Server
  <1>6. srv' = [q EXCEPT !.busy = "live"] /\ actor' = a /\ UNCHANGED <<down, count>>
    BY <1>1 DEF TakeObservation, Server
  <1> HIDE DEF q, a
  <1>7. SrvOK(srv', n) /\ srv'.queued = srv.queued /\ srv'.obs = NoObs /\ srv'.busy = "live"
    <2>1. srv' \in Server /\ srv'.queued = q.queued /\ srv'.obs = q.obs /\ srv'.busy = "live" /\ srv'.pend = q.pend
      BY <1>5, <1>6, ServerFields DEF Server
    <2> QED BY <1>1, <1>5, <2>1, NoneTyped DEF SrvOK
  <1>8. CASE srv.obs.show
    <2>1. Mine(a) = {} /\ Awaited(srv'.obs) = {} /\ a.at = "explain"
      BY <1>4, <1>7, <1>8, NoneTyped DEF Mine, Late, Awaited
    <2>2. Placed(srv', a, up', cut, n)
      <3> HIDE DEF n
      <3> QED BY <1>1, <1>2, <1>7, <2>1 DEF Placed, Late
    <2> QED BY <1>1, <1>2, <1>4, <1>6, <1>7, <2>2 DEF ActorInv, Typed
  <1>9. CASE ~srv.obs.show
    <2>1. Awaited(srv.obs) = {a.turn} /\ a.at \in Late
      BY <1>3, <1>4, <1>9 DEF Awaited, Late
    <2>2. a.turn \in (1 .. n) \ cut /\ a.turn \notin Coming(up) \cup Waiting(srv.queued)
      BY <1>1, <2>1 DEF Placed
    <2> QED BY <1>1, <1>2, <1>4, <1>6, <1>7, <2>1, <2>2, NoneTyped, GoesOn
  <1> QED BY <1>3, <1>8, <1>9

\* Each message, whatever it is.
LEMMA HandleOK ==
  ASSUME ActorInv, Handle
  PROVE  ActorInv'
  <1>1. actor.at = "idle" /\ up # <<>> /\ up' = Tail(up) /\ UNCHANGED <<sdk, cut>>
    BY DEF Handle
  <1>2. \/ Head(up).kind = "turn" /\ TakeTurn(Head(up))
        \/ TakeInterrupt
        \/ TakePaused(Head(up))
        \/ TakeResult(Head(up))
        \/ TakeNavResult(Head(up))
        \/ Head(up).kind = "observation" /\ TakeObservation(Head(up))
        \/ UNCHANGED <<srv, actor, down, count>>
    BY DEF Handle
  <1>3. CASE UNCHANGED <<srv, actor, down, count>>
    <2>1. UpOK(up', count.turns) /\ Once(up') /\ Coming(up') \subseteq Coming(up)
      BY <1>1, Taken
    <2> QED BY <1>1, <1>3, <2>1, Parts, Rests
  <1> QED BY <1>1, <1>2, <1>3, TakeTurnOK, TakeInterruptOK, TakePausedOK, TakeResultOK, TakeNavResultOK, TakeObservationOK

-----------------------------------------------------------------------------
(* The turn, await by await *)

\* While a turn is worked on it is nowhere else.
LEMMA Working1 ==
  ASSUME ActorInv, actor.at \in Late \cup {"plan"}
  PROVE  /\ actor.turn \in 1 .. count.turns /\ actor.turn \notin Coming(up) \cup Waiting(srv.queued) /\ srv.obs.cmd = 0
         /\ actor.at = "plan" => actor.turn \notin cut
         /\ actor.at \in Late => srv.busy # "none" /\ (actor.turn \in cut => srv.busy = "aborted")
  <1>1. Placed(srv, actor, up, cut, count.turns) /\ Mine(actor) = {actor.turn}
    BY Parts DEF Mine
  <1> QED BY <1>1 DEF Placed

\* The server answers with its signal set.
Answering(s, b) == [s EXCEPT !.busy = b]
\* The mark of a running answer does not touch the rest of the server.
LEMMA BusyOK ==
  ASSUME NEW n \in Nat, NEW s, SrvOK(s, n), NEW b \in {"none", "live", "aborted"}
  PROVE  LET t == Answering(s, b) IN SrvOK(t, n) /\ t.busy = b /\ t.queued = s.queued /\ t.obs = s.obs
  <1> DEFINE t == Answering(s, b)
  <1>1. t \in Server /\ t.busy = b /\ t.queued = s.queued /\ t.obs = s.obs /\ t.pend = s.pend
    BY ServerFields DEF SrvOK, Server, Answering
  <1> HIDE DEF t
  <1>2. SrvOK(t, n)
    BY <1>1 DEF SrvOK
  <1> QED BY <1>1, <1>2 DEF t

\* The turn goes to the dynamic agent.
LEMMA GoDynamicOK ==
  ASSUME ActorInv, actor.at \in {"plan", "model"}, actor.turn \notin cut, GoDynamic, UNCHANGED <<sdk, up, down, cut, count>>
  PROVE  ActorInv'
  <1> DEFINE n == count.turns
             a == [actor EXCEPT !.at = "dyn"]
  <1>1. n \in Nat /\ SrvOK(srv, n) /\ DownOK(down, n) /\ UpOK(up, n) /\ Once(up) /\ count \in Count /\ ActorOK(actor, n)
    BY Parts DEF Placed
  <1>2. ActorOK(a, n) /\ a.at = "dyn" /\ a.turn = actor.turn
    BY <1>1 DEF ActorOK, Actor
  <1>3. SrvOK(srv', n) /\ srv'.busy = "live" /\ srv'.queued = srv.queued /\ srv'.obs = srv.obs
    <2>1. srv' = Answering(srv, "live")
      BY DEF GoDynamic, Answering
    <2> QED BY <1>1, <2>1, BusyOK
  <1>4. actor' = a
    BY DEF GoDynamic
  <1> HIDE DEF a
  <1>5. a.turn \in 1 .. n /\ a.turn \notin Coming(up) \cup Waiting(srv.queued) /\ srv.obs.cmd = 0
    BY <1>2, Working1 DEF Late
  <1> QED BY <1>1, <1>2, <1>3, <1>4, <1>5, GoesOn DEF Late

\* A journey is resumed under a new command.
LEMMA ResumeOK ==
  ASSUME ActorInv, srv' = [srv EXCEPT !.pend.cmd = NewCmd, !.pend.gen = srv.gen, !.pend.paused = FALSE],
         Tell("resume", NewCmd, srv.pend.turn), Sent, actor' = IdleActor, UNCHANGED <<sdk, up, cut>>
  PROVE  ActorInv'
  <1> DEFINE n == count.turns
             r == [srv.pend EXCEPT !.cmd = NewCmd, !.gen = srv.gen, !.paused = FALSE]
  <1>1. n \in Nat /\ SrvOK(srv, n) /\ srv \in Server /\ DownOK(down, n) /\ UpOK(up, n) /\ Once(up) /\ count \in Count /\ NewCmd \in Nat /\ ActorOK(IdleActor, n)
    BY Parts, IdleOK DEF Placed
  <1>2. r \in Run /\ r.turn = srv.pend.turn /\ srv.pend.turn \in Nat /\ srv.pend.turn =< n
    <2>1. srv.pend \in Run /\ srv.gen \in Nat /\ srv.pend.turn \in Nat
      BY <1>1, FieldsTyped
    <2> QED BY <1>1, <2>1, Resumed DEF SrvOK
  <1>3. srv' = [srv EXCEPT !.pend = r]
    BY <1>1 DEF Server
  <1> HIDE DEF r
  <1>4. SrvOK(srv', n) /\ srv'.queued = srv.queued /\ srv'.obs = srv.obs
    <2>1. srv' \in Server
      BY <1>1, <1>2, <1>3, ServerFields
    <2>2. srv'.queued = srv.queued /\ srv'.obs = srv.obs /\ srv'.pend = r
      BY <1>1, <1>3 DEF Server
    <2> QED BY <1>1, <1>2, <2>1, <2>2 DEF SrvOK
  <1>5. DownOK(down', n)
    <2>1. "resume" \in Kinds /\ "resume" # "observe"
      BY DEF Kinds
    <2> HIDE DEF n
    <2> QED BY <1>1, <1>2, <2>1, TellOK
  <1>6. count' \in Count /\ count'.turns = n
    BY <1>1 DEF Sent, Count
  <1> QED BY <1>1, <1>4, <1>5, <1>6, IdleOK, Rests

\* What the planner decides: a journey, a resumption, an observation, words, the agent.
LEMMA PlanOK ==
  ASSUME ActorInv, Plan
  PROVE  ActorInv'
  <1> DEFINE n == count.turns
  <1>1. /\ n \in Nat /\ SrvOK(srv, n) /\ srv \in Server /\ DownOK(down, n) /\ UpOK(up, n) /\ Once(up) /\ count \in Count
        /\ ActorOK(actor, n) /\ ActorOK(IdleActor, n) /\ IdleActor.at = "idle"
    BY Parts, IdleOK DEF Placed
  <1>2. /\ actor.at = "plan" /\ actor.turn \in 1 .. n /\ actor.turn \notin Coming(up) \cup Waiting(srv.queued)
        /\ srv.obs.cmd = 0 /\ actor.turn \notin cut
    BY Working1 DEF Plan
  <1>3. Cleared(srv) \in Server /\ Cleared(srv).queued = 0 /\ Cleared(srv).obs = srv.obs /\ Cleared(srv).pend = NoRun
    BY <1>1, ClearedOK
  <1>4. SrvOK(Cleared(srv), n)
    BY <1>1, <1>3, NoneTyped DEF SrvOK
  <1>5. Tell("stop", 0, 0) => DownOK(down', n)
    <2>1. "stop" \in Kinds /\ "stop" # "observe" /\ 0 =< n
      BY <1>1 DEF Kinds
    <2> HIDE DEF n
    <2> QED BY <1>1, <2>1, TellOK
  <1>6. CASE actor' = IdleActor /\ UNCHANGED <<srv, down, count>> /\ Quiet
    BY <1>1, <1>6, Rests DEF Quiet
  <1>7. CASE GoDynamic /\ UNCHANGED <<sdk, up, down, http, cut, count>>
    BY <1>2, <1>7, GoDynamicOK
  <1>8. CASE srv' = Cleared(srv) /\ Tell("stop", 0, 0) /\ Talks /\ UNCHANGED count /\ Quiet
    BY <1>1, <1>3, <1>4, <1>5, <1>8, IdleOK, Rests DEF Quiet, Talks
  <1>9. CASE /\ srv' = [srv EXCEPT !.pend.cmd = NewCmd, !.pend.gen = srv.gen, !.pend.paused = FALSE]
             /\ Tell("resume", NewCmd, srv.pend.turn) /\ Sent /\ actor' = IdleActor /\ Quiet
    BY <1>9, ResumeOK DEF Quiet
  <1>10. ASSUME NEW wish \in {"answer", "nav", "segment"},
                RequestObservation(srv, actor.turn, FALSE, wish), actor' = IdleActor, Quiet
         PROVE  ActorInv'
    <2>1. PICK show \in BOOLEAN : ~show /\ RequestObservation(srv, actor.turn, show, wish)
      BY <1>10, Zenon
    <2>2. wish \in Wishes /\ actor.turn \in Nat /\ actor.turn =< n
      BY <1>1, <1>2 DEF Wishes
    <2>3. up' = up /\ UNCHANGED <<sdk, cut>>
      BY <1>10 DEF Quiet
    <2> QED BY <1>1, <1>2, <1>10, <2>1, <2>2, <2>3, AskOK
  <1>11. ASSUME NEW wish \in {"answer", "run", "show"},
                actor' = [actor EXCEPT !.at = "model", !.wish = wish],
                IF wish # "answer" /\ srv.pend.cmd # 0
                THEN srv' = [Cleared(srv) EXCEPT !.busy = "live"] /\ Tell("stop", 0, 0)
                ELSE srv' = [srv EXCEPT !.busy = "live"] /\ UNCHANGED down,
                UNCHANGED count, Quiet
         PROVE  ActorInv'
    <2> DEFINE a == [actor EXCEPT !.at = "model", !.wish = wish]
    <2>1. ActorOK(a, n) /\ a.at = "model" /\ a.turn = actor.turn
      BY <1>1 DEF ActorOK, Actor, Wishes
    <2>2. SrvOK(srv', n) /\ srv'.queued \in {0, srv.queued} /\ srv'.obs = srv.obs /\ srv'.busy = "live"
      <3>1. srv' \in {Answering(srv, "live"), Answering(Cleared(srv), "live")}
        BY <1>11 DEF Answering
      <3>2. LET t == Answering(srv, "live") IN SrvOK(t, n) /\ t.busy = "live" /\ t.queued = srv.queued /\ t.obs = srv.obs
        BY <1>1, BusyOK
      <3>3. LET t == Answering(Cleared(srv), "live") IN SrvOK(t, n) /\ t.busy = "live" /\ t.queued = 0 /\ t.obs = srv.obs
        BY <1>1, <1>3, <1>4, BusyOK
      <3> QED BY <3>1, <3>2, <3>3
    <2>3. DownOK(down', n)
      BY <1>1, <1>5, <1>11
    <2>4. up' = up /\ UNCHANGED <<sdk, cut>> /\ actor' = a
      BY <1>11 DEF Quiet
    <2> HIDE DEF a
    <2> QED BY <1>1, <1>2, <1>11, <2>1, <2>2, <2>3, <2>4, GoesOn DEF Late
  <1> QED BY <1>6, <1>7, <1>8, <1>9, <1>10, <1>11 DEF Plan

\* Nothing but the handler's own place moves, and its turn stays with it.
LEMMA Moves ==
  ASSUME ActorInv, actor.at \in Late, NEW x \in Late, actor' = [actor EXCEPT !.at = x],
         UNCHANGED <<srv, sdk, up, cut>>, DownOK(down', count.turns), count' \in Count, count'.turns = count.turns
  PROVE  ActorInv'
  <1> DEFINE n == count.turns
             a == [actor EXCEPT !.at = x]
  <1>1. n \in Nat /\ SrvOK(srv, n) /\ UpOK(up, n) /\ Once(up) /\ ActorOK(actor, n)
    BY Parts DEF Placed
  <1>2. ActorOK(a, n) /\ a.at = x /\ a.turn = actor.turn
    BY <1>1 DEF ActorOK, Actor, Late
  <1> HIDE DEF a
  <1>3. /\ a.turn \in 1 .. n /\ a.turn \notin Coming(up) \cup Waiting(srv.queued) /\ srv.obs.cmd = 0
        /\ srv.busy # "none" /\ (a.turn \in cut => srv.busy = "aborted")
    BY <1>2, Working1
  <1> QED BY <1>1, <1>2, <1>3, GoesOn DEF a

\* A turn ends here, or its answer is spoken: the server is left as it was or
\* with its signal taken down.
LEMMA TurnEnds ==
  ASSUME ActorInv, actor' = IdleActor \/ Talks, srv' \in {srv, Answering(srv, "none")},
         UNCHANGED <<sdk, up, down, cut, count>>
  PROVE  ActorInv'
  <1> DEFINE n == count.turns
  <1>1. n \in Nat /\ SrvOK(srv, n) /\ UpOK(up, n) /\ Once(up) /\ DownOK(down, n) /\ count \in Count
    BY Parts DEF Placed
  <1>2. SrvOK(srv', n) /\ srv'.queued = srv.queued /\ srv'.obs = srv.obs
    BY <1>1, BusyOK
  <1> QED BY <1>1, <1>2, IdleOK, Rests DEF Talks

\* The answer of the model over an observed page, when nobody cut it off.
LEMMA ModelOK ==
  ASSUME ActorInv, Model
  PROVE  ActorInv'
  <1>1. actor.at = "model" /\ UNCHANGED <<sdk, up, down, cut, count>>
    BY DEF Model
  <1>2. \/ (actor' = IdleActor \/ Talks) /\ UNCHANGED srv
        \/ ~Hushed /\ GoDynamic
        \/ actor' = [actor EXCEPT !.at = "ack"] /\ UNCHANGED srv
    BY DEF Model
  <1>3. CASE (actor' = IdleActor \/ Talks) /\ UNCHANGED srv
    BY <1>1, <1>3, TurnEnds
  <1>4. CASE ~Hushed /\ GoDynamic
    <2>1. actor.turn \notin cut
      BY <1>1, <1>4, Working1 DEF Late, Hushed
    <2> QED BY <1>1, <1>4, <2>1, GoDynamicOK
  <1>5. CASE actor' = [actor EXCEPT !.at = "ack"] /\ UNCHANGED srv
    <2>1. DownOK(down', count.turns) /\ count \in Count
      BY <1>1, Parts
    <2> QED BY <1>1, <1>5, <2>1, Moves DEF Late
  <1> QED BY <1>2, <1>3, <1>4, <1>5

\* The command goes to the page.
LEMMA ActOK ==
  ASSUME ActorInv, Act
  PROVE  ActorInv'
  <1> DEFINE n == count.turns
  <1>1. /\ n \in Nat /\ SrvOK(srv, n) /\ srv \in Server /\ UpOK(up, n) /\ Once(up) /\ DownOK(down, n) /\ count \in Count
        /\ NewCmd \in Nat /\ ActorOK(actor, n) /\ actor \in Actor
    BY Parts DEF Placed
  <1>2. actor' = IdleActor /\ UNCHANGED <<sdk, up, cut>>
    BY DEF Act
  <1>3. CASE Hushed
    BY <1>1, <1>2, <1>3, TurnEnds DEF Act
  <1>4. CASE ~Hushed
    <2>1. count' \in Count /\ count'.turns = n
      BY <1>1, <1>4 DEF Act, Sent, Count
    <2>2. actor.turn \in Nat /\ actor.turn =< n
      BY <1>1 DEF ActorOK, Actor
    <2> DEFINE q == Answering(srv, "none")
    <2>3. SrvOK(q, n) /\ q.queued = srv.queued /\ q.obs = srv.obs
      BY <1>1, BusyOK
    <2>4. CASE actor.wish = "nav"
      <3>1. srv' = [q EXCEPT !.nav = NewCmd] /\ Tell("nav", NewCmd, actor.turn)
        BY <1>1, <1>4, <2>4 DEF Act, Answering, Server
      <3> HIDE DEF q
      <3>2. SrvOK(srv', n) /\ srv'.queued = srv.queued /\ srv'.obs = srv.obs
        <4>1. srv' \in Server
          BY <1>1, <2>3, <3>1, ServerFields DEF SrvOK
        <4>2. srv'.queued = q.queued /\ srv'.obs = q.obs /\ srv'.pend = q.pend
          BY <2>3, <3>1 DEF SrvOK, Server
        <4> QED BY <2>3, <4>1, <4>2 DEF SrvOK
      <3>3. DownOK(down', n)
        <4>1. "nav" \in Kinds /\ "nav" # "observe"
          BY DEF Kinds
        <4> HIDE DEF n
        <4> QED BY <1>1, <2>2, <3>1, <4>1, TellOK
      <3> QED BY <1>1, <1>2, <2>1, <3>2, <3>3, IdleOK, Rests
    <2>5. CASE actor.wish # "nav"
      <3> DEFINE r == [cmd |-> NewCmd, turn |-> actor.turn, gen |-> srv.gen, paused |-> FALSE, show |-> actor.wish = "show"]
      <3>1. srv' = [q EXCEPT !.pend = r] /\ Tell("run", NewCmd, actor.turn)
        BY <1>1, <1>4, <2>5 DEF Act, Answering, Server
      <3>2. r \in Run /\ r.turn = actor.turn
        <4>1. srv.gen \in Nat
          BY <1>1, FieldsTyped
        <4>2. PICK no, show \in BOOLEAN : no = FALSE /\ show = (actor.wish = "show")
          OBVIOUS
        <4>3. r = [cmd |-> NewCmd, turn |-> actor.turn, gen |-> srv.gen, paused |-> no, show |-> show]
          BY <4>2
        <4> HIDE DEF r
        <4> QED BY <1>1, <2>2, <4>1, <4>3 DEF Run
      <3> HIDE DEF q, r
      <3>3. SrvOK(srv', n) /\ srv'.queued = srv.queued /\ srv'.obs = srv.obs
        <4>1. srv' \in Server
          BY <1>1, <2>3, <3>1, <3>2, ServerFields DEF SrvOK
        <4>2. srv'.queued = q.queued /\ srv'.obs = q.obs /\ srv'.pend = r
          BY <2>3, <3>1 DEF SrvOK, Server
        <4> QED BY <2>2, <2>3, <3>2, <4>1, <4>2 DEF SrvOK
      <3>4. DownOK(down', n)
        <4>1. "run" \in Kinds /\ "run" # "observe"
          BY DEF Kinds
        <4> HIDE DEF n
        <4> QED BY <1>1, <2>2, <3>1, <4>1, TellOK
      <3> QED BY <1>1, <1>2, <2>1, <3>3, <3>4, IdleOK, Rests
    <2> QED BY <2>4, <2>5
  <1> QED BY <1>3, <1>4

\* An explanation or a conversation ends the turn.
LEMMA ExplainOK ==
  ASSUME ActorInv, Explain \/ Talk
  PROVE  ActorInv'
  BY TurnEnds DEF Explain, Talk, Answering

\* The dynamic agent thinks; a tool goes to the page.
LEMMA ThinkOK ==
  ASSUME ActorInv, Think
  PROVE  ActorInv'
  <1> DEFINE n == count.turns
  <1>1. /\ n \in Nat /\ DownOK(down, n) /\ count \in Count /\ UpOK(up, n) /\ Once(up) /\ SrvOK(srv, n)
        /\ NewCmd \in Nat /\ ActorOK(actor, n) /\ actor \in Actor
    BY Parts DEF Placed
  <1>2. actor.at = "dyn" /\ UNCHANGED <<sdk, up, cut>>
    BY DEF Think
  <1>3. CASE (actor' = IdleActor \/ Talks) /\ UNCHANGED <<srv, down, count>>
    BY <1>2, <1>3, TurnEnds
  <1>4. CASE UNCHANGED <<actor, srv, down, count>>
    BY <1>1, <1>2, <1>4, Parts DEF ActorInv, Typed
  <1>5. ASSUME NEW t \in Targets,
               count' = [count EXCEPT !.sends = @ + 1, !.tools = @ + 1],
               down' = Append(down, [kind |-> "tool", cmd |-> NewCmd, turn |-> actor.turn, target |-> t]),
               actor' = [actor EXCEPT !.at = "tool"], UNCHANGED srv
        PROVE  ActorInv'
    <2> DEFINE c == [count EXCEPT !.sends = count.sends + 1]
    <2>5. c \in Count /\ c.turns = n /\ count' = [c EXCEPT !.tools = c.tools + 1]
      BY <1>1, <1>5 DEF Count
    <2> HIDE DEF c
    <2>1. count' \in Count /\ count'.turns = n
      BY <2>5 DEF Count
    <2> DEFINE m == [kind |-> "tool", cmd |-> NewCmd, turn |-> actor.turn, target |-> t]
    <2>2. m \in ToolMessage /\ m.turn =< n /\ m.kind # "observe"
      BY <1>1 DEF ToolMessage, ActorOK, Actor
    <2>3. down' = Append(down, m)
      BY <1>5
    <2> HIDE DEF m, n
    <2>4. DownOK(down', n)
      BY <1>1, <2>2, <2>3, DownAppend
    <2> QED BY <1>2, <1>5, <2>1, <2>4, Moves DEF Late, n
  <1> QED BY <1>3, <1>4, <1>5 DEF Think, EndLoop

\* A tool returns, or its time runs out.
LEMMA ToolOK ==
  ASSUME ActorInv, HttpResult \/ ToolTimeout
  PROVE  ActorInv'
  <1>1. actor.at = "tool" /\ actor' = [actor EXCEPT !.at = "dyn"] /\ UNCHANGED <<srv, sdk, up, down, cut, count>>
    BY DEF HttpResult, ToolTimeout, Returned
  <1>2. DownOK(down, count.turns) /\ count \in Count
    BY Parts
  <1> QED BY <1>1, <1>2, Moves DEF Late

\* An observation that never came is given up; its turn goes with it.
LEMMA ObservationTimeoutOK ==
  ASSUME ActorInv, ObservationTimeout
  PROVE  ActorInv'
  <1> DEFINE n == count.turns
  <1>1. /\ n \in Nat /\ DownOK(down, n) /\ count \in Count /\ UpOK(up, n) /\ SrvOK(srv, n) /\ SdkOK(sdk, n)
        /\ ActorOK(actor, n) /\ Placed(srv, actor, up, cut, n)
    BY Parts
  <1>2. srv' = [srv EXCEPT !.obs = NoObs] /\ UNCHANGED <<actor, sdk, up, down, cut, count>>
    BY DEF ObservationTimeout
  <1>3. srv' \in Server /\ srv'.obs = NoObs /\ srv'.queued = srv.queued /\ srv'.pend = srv.pend /\ srv'.busy = srv.busy
    BY <1>1, <1>2, NoneTyped, ServerFields DEF SrvOK, Server
  <1> HIDE DEF n
  <1>4. SrvOK(srv', n) /\ Awaited(srv'.obs) = {} /\ srv'.obs.cmd = 0
    BY <1>1, <1>3, NoneTyped DEF SrvOK, Awaited
  <1>5. Placed(srv', actor, up, cut, n)
    BY <1>1, <1>3, <1>4 DEF Placed
  <1> QED BY <1>1, <1>2, <1>4, <1>5 DEF ActorInv, Typed, n

\* Barging in cuts a turn off only where it is worked on, and sets its signal.
LEMMA BargeInOK ==
  ASSUME ActorInv, BargeIn
  PROVE  ActorInv'
  <1> DEFINE n == count.turns
  <1>1. /\ n \in Nat /\ DownOK(down, n) /\ count \in Count /\ UpOK(up, n) /\ SrvOK(srv, n) /\ SdkOK(sdk, n)
        /\ ActorOK(actor, n) /\ Placed(srv, actor, up, cut, n)
    BY Parts
  <1>2. /\ srv' = Abort(srv) /\ UNCHANGED <<actor, sdk, up, down>>
        /\ cut' = IF actor.at \in Late THEN cut \cup {actor.turn} ELSE cut
    BY DEF BargeIn, Late
  <1>3. srv' \in Server /\ srv'.obs = srv.obs /\ srv'.queued = srv.queued /\ srv'.pend = srv.pend /\ (srv'.busy = "none" <=> srv.busy = "none") /\ srv'.busy # "live"
    BY <1>1, <1>2, AbortOK DEF SrvOK
  <1>4. count' \in Count /\ count'.turns = n
    BY <1>1 DEF BargeIn, Count
  <1>5. SrvOK(srv', n)
    BY <1>1, <1>3 DEF SrvOK
  <1> HIDE DEF n
  <1>6. CASE actor.at \in Late
    <2>1. Mine(actor) = {actor.turn} /\ Awaited(srv.obs) = {} /\ cut' = cut \cup {actor.turn}
      BY <1>1, <1>2, <1>6 DEF Mine, Awaited, Placed
    <2>2. srv'.busy = "aborted"
      BY <1>1, <1>3, <1>6 DEF Placed, Server
    <2>3. Placed(srv', actor, up, cut', n)
      BY <1>1, <1>3, <1>6, <2>1, <2>2 DEF Placed, Late
    <2> QED BY <1>1, <1>2, <1>4, <1>5, <2>3 DEF ActorInv, Typed, n
  <1>7. CASE actor.at \notin Late
    <2>1. Placed(srv', actor, up, cut', n)
      BY <1>1, <1>2, <1>3, <1>7 DEF Placed
    <2> QED BY <1>1, <1>2, <1>4, <1>5, <2>1 DEF ActorInv, Typed, n
  <1> QED BY <1>6, <1>7

-----------------------------------------------------------------------------
(* The visitor and the browser *)

\* What the visitor says is numbered anew.
LEMMA SpeakOK ==
  ASSUME ActorInv, Speak
  PROVE  ActorInv'
  <1> DEFINE n == count.turns
             k == n + 1
  <1>1. /\ n \in Nat /\ k \in Nat /\ n =< k /\ k # n /\ DownOK(down, n) /\ count \in Count /\ UpOK(up, n) /\ SrvOK(srv, n) /\ SdkOK(sdk, n)
        /\ ActorOK(actor, n) /\ Placed(srv, actor, up, cut, n)
    BY Parts
  <1>2. Say("turn", 0, k, TRUE) /\ UNCHANGED <<srv, actor, sdk, down, cut>> /\ count' = [count EXCEPT !.turns = k]
    BY <1>1 DEF Speak, Count
  <1>3. count' \in Count /\ count'.turns = k
    BY <1>1, <1>2 DEF Count
  <1>4. (1 .. n) \subseteq 1 .. k /\ k \in 1 .. k /\ k \notin 1 .. n
    BY <1>1
  <1> HIDE DEF n, k
  <1>5. UpOK(up, k) /\ DownOK(down, k)
    <2>0. \A i \in DOMAIN up : up[i] \in Message
      BY <1>1 DEF UpOK
    <2>1. \A i \in DOMAIN up : up[i].turn \in Nat
      BY <2>0 DEF Message
    <2>2. \A i \in DOMAIN down : down[i] \in Message \cup ToolMessage
      BY <1>1 DEF DownOK
    <2>3. \A m \in Message \cup ToolMessage : m.turn \in Nat
      BY DEF Message, ToolMessage
    <2>4. UpOK(up, k)
      BY <1>1, <2>1 DEF UpOK
    <2>5. \A i \in DOMAIN down : down[i].turn \in Nat
      BY <2>2, <2>3
    <2> QED BY <1>1, <2>4, <2>5 DEF DownOK
  <1>6. SrvOK(srv, k) /\ ActorOK(actor, k)
    BY <1>1, FieldsTyped DEF SrvOK, ActorOK, Actor
  <1>7. SdkOK(sdk, k)
    BY <1>1 DEF SdkOK, Sdk, ToolMessage
  <1>8. Once(up) /\ k \notin Coming(up)
    BY <1>1, <1>4 DEF Placed
  <1>9. UpOK(up', k) /\ Once(up') /\ Coming(up') = Coming(up) \cup {k}
    <2>1. PICK ok \in BOOLEAN : Say("turn", 0, k, ok)
      BY <1>2, Zenon
    <2>2. "turn" \in Kinds /\ "turn" # "observation" /\ k =< k
      BY <1>1 DEF Kinds
    <2> QED BY <1>1, <1>5, <1>8, <2>1, <2>2, SayOK
  <1>10. Placed(srv, actor, up', cut, k)
    <2>1. Waiting(srv.queued) \cup Awaited(srv.obs) \cup Mine(actor) \subseteq 1 .. n /\ cut \subseteq 1 .. n
      BY <1>1 DEF Placed
    <2>2. k \notin cut \cup Waiting(srv.queued) \cup Awaited(srv.obs) \cup Mine(actor)
      BY <1>4, <2>1
    <2> QED BY <1>1, <1>4, <1>9, <2>1, <2>2 DEF Placed
  <1> QED BY <1>2, <1>3, <1>5, <1>6, <1>7, <1>9, <1>10 DEF ActorInv, Typed

\* What the page does leaves the server's part alone.
LEMMA PageOnly ==
  ASSUME ActorInv, NEW n, n = count.turns, UNCHANGED <<srv, actor, cut>>, count' \in Count, count'.turns = n, SdkOK(sdk', n), DownOK(down', n),
         UpOK(up', n), Once(up'), Coming(up') = Coming(up)
  PROVE  ActorInv'
  <1>1. SrvOK(srv, n) /\ ActorOK(actor, n) /\ Placed(srv, actor, up, cut, n)
    BY Parts
  <1>2. Placed(srv, actor, up', cut, n)
    BY <1>1 DEF Placed
  <1> QED BY <1>1, <1>2 DEF ActorInv, Typed

\* A report of the page is no new turn.
LEMMA Reports ==
  ASSUME ActorInv, NEW kind \in Kinds \ {"turn"}, NEW cmd \in Nat, NEW turn \in Nat, NEW ok \in BOOLEAN,
         turn =< count.turns, kind = "observation" => cmd # 0, Say(kind, cmd, turn, ok)
  PROVE  UpOK(up', count.turns) /\ Once(up') /\ Coming(up') = Coming(up)
  <1>1. UpOK(up, count.turns) /\ Once(up) /\ count.turns \in Nat
    BY Parts DEF Placed
  <1> QED BY <1>1, SayOK

\* The page with one of its fields changed.
LEMMA SdkFields ==
  ASSUME NEW k \in Sdk
  PROVE  /\ k.run \in Nat /\ k.turn \in Nat /\ k.paused \in Nat /\ k.tools \subseteq ToolMessage
         /\ k.aborted \in BOOLEAN /\ k.pauseSoon \in BOOLEAN /\ k.left \in BOOLEAN
  BY DEF Sdk

\* The visitor presses stop on the page.
LEMMA PressStopOK ==
  ASSUME ActorInv, PressStop
  PROVE  ActorInv'
  <1> DEFINE n == count.turns
  <1>1. n \in Nat /\ DownOK(down, n) /\ count \in Count /\ SdkOK(sdk, n)
    BY Parts
  <1>2. count' \in Count /\ count'.turns = n
    BY <1>1 DEF PressStop, Count
  <1>3. UpOK(up', n) /\ Once(up') /\ Coming(up') = Coming(up)
    <2>1. PICK ok \in BOOLEAN : Say("interrupt", 0, 0, ok)
      BY Zenon DEF PressStop
    <2>2. "interrupt" \in Kinds \ {"turn"} /\ "interrupt" # "observation" /\ 0 =< n
      BY <1>1 DEF Kinds
    <2> QED BY <2>1, <2>2, Reports
  <1>4. SdkOK(sdk', n)
    <2>1. PICK b \in BOOLEAN : sdk' = [sdk EXCEPT !.aborted = b]
      BY DEF PressStop
    <2> QED BY <1>1, <2>1 DEF SdkOK, Sdk
  <1> QED BY <1>1, <1>2, <1>3, <1>4, PageOnly DEF PressStop

\* A click of the page belongs to the journey it carries.
LEMMA ClickOK ==
  ASSUME ActorInv, Click
  PROVE  ActorInv'
  <1> DEFINE n == count.turns
  <1>1. n \in Nat /\ DownOK(down, n) /\ count \in Count /\ SdkOK(sdk, n)
    BY Parts
  <1>2. PICK m \in sdk.tools, ok \in BOOLEAN : sdk' = [sdk EXCEPT !.tools = @ \ {m}] /\ Say("tool_result", m.cmd, m.turn, ok)
    BY DEF Click
  <1>3. m.cmd \in Nat /\ m.turn \in Nat /\ m.turn =< n
    BY <1>1, <1>2 DEF SdkOK, Sdk, ToolMessage
  <1>4. UpOK(up', n) /\ Once(up') /\ Coming(up') = Coming(up)
    <2>1. "tool_result" \in Kinds \ {"turn"} /\ "tool_result" # "observation"
      BY DEF Kinds
    <2> QED BY <1>2, <1>3, <2>1, Reports
  <1>5. SdkOK(sdk', n)
    BY <1>1, <1>2 DEF SdkOK, Sdk
  <1> QED BY <1>1, <1>4, <1>5, PageOnly DEF Click

\* The journey on the page goes on, pauses or ends.
LEMMA StepsOK ==
  ASSUME ActorInv, Steps
  PROVE  ActorInv'
  <1> DEFINE n == count.turns
             over == [sdk EXCEPT !.run = 0, !.turn = 0, !.aborted = FALSE, !.pauseSoon = FALSE]
  <1>1. n \in Nat /\ DownOK(down, n) /\ count \in Count /\ SdkOK(sdk, n) /\ sdk \in Sdk /\ sdk.run \in Nat /\ sdk.turn \in Nat /\ sdk.turn =< n
    BY Parts, SdkFields DEF SdkOK
  <1>2. over \in Sdk /\ over.turn = 0 /\ over.paused = sdk.paused /\ over.tools = sdk.tools
    <2>1. PICK no \in BOOLEAN : no = FALSE
      OBVIOUS
    <2> DEFINE a == [sdk EXCEPT !.run = 0]
               b == [a EXCEPT !.turn = 0]
               c == [b EXCEPT !.aborted = no]
               d == [c EXCEPT !.pauseSoon = no]
    <2>2. over = d
      BY <1>1, <2>1 DEF Sdk
    <2> HIDE DEF over
    <2>3. a \in Sdk /\ a.turn = sdk.turn /\ a.paused = sdk.paused /\ a.tools = sdk.tools
      BY <1>1 DEF Sdk
    <2> HIDE DEF a
    <2>4. b \in Sdk /\ b.turn = 0 /\ b.paused = sdk.paused /\ b.tools = sdk.tools
      BY <2>3 DEF Sdk
    <2> HIDE DEF b
    <2>5. c \in Sdk /\ c.turn = 0 /\ c.paused = sdk.paused /\ c.tools = sdk.tools
      BY <2>4 DEF Sdk
    <2> HIDE DEF c
    <2>6. d \in Sdk /\ d.turn = 0 /\ d.paused = sdk.paused /\ d.tools = sdk.tools
      BY <2>5 DEF Sdk
    <2> HIDE DEF d
    <2> QED BY <2>2, <2>6
  <1>3. \/ sdk' = [over EXCEPT !.paused = sdk.turn] /\ Say("paused", sdk.run, sdk.turn, TRUE)
        \/ sdk' = over /\ \E ok \in BOOLEAN : Say("result", sdk.run, sdk.turn, ok)
    BY <1>1 DEF Steps, Sdk
  <1> HIDE DEF over
  <1>4. SdkOK(over, n)
    BY <1>1, <1>2 DEF SdkOK
  <1>5. SdkOK(sdk', n)
    <2>1. SdkOK([over EXCEPT !.paused = sdk.turn], n)
      BY <1>1, <1>4 DEF SdkOK, Sdk
    <2> QED BY <1>3, <1>4, <2>1
  <1>6. PICK kind \in {"paused", "result"}, ok \in BOOLEAN : Say(kind, sdk.run, sdk.turn, ok)
    <2>1. TRUE \in BOOLEAN
      OBVIOUS
    <2> QED BY <1>3, <2>1, Zenon
  <1>7. UpOK(up', n) /\ Once(up') /\ Coming(up') = Coming(up)
    <2>1. kind \in Kinds \ {"turn"} /\ kind # "observation"
      BY DEF Kinds
    <2> QED BY <1>1, <1>6, <2>1, Reports
  <1> QED BY <1>1, <1>5, <1>7, PageOnly DEF Steps

\* A run comes to the page: it starts, goes on, or is refused.
LEMMA TakeRunOK ==
  ASSUME ActorInv, NEW m \in Message, m.turn =< count.turns, DownOK(down', count.turns), TakeRun(m), UNCHANGED <<srv, actor, cut, count>>
  PROVE  ActorInv'
  <1> DEFINE n == count.turns
             resumed == m.kind = "resume"
  <1>1. /\ n \in Nat /\ count \in Count /\ UpOK(up, n) /\ Once(up) /\ SdkOK(sdk, n) /\ sdk \in Sdk /\ sdk.paused \in Nat /\ sdk.paused =< n
        /\ m.cmd \in Nat /\ m.turn \in Nat
    BY Parts, SdkFields DEF SdkOK, Placed, Message
  <1>2. CASE sdk' = [sdk EXCEPT !.run = m.cmd, !.turn = m.turn, !.aborted = FALSE, !.pauseSoon = FALSE, !.paused = 0] /\ UNCHANGED up
    <2>1. PICK no \in BOOLEAN : no = FALSE
      OBVIOUS
    <2> DEFINE a == [sdk EXCEPT !.run = m.cmd]
               b == [a EXCEPT !.turn = m.turn]
               c == [b EXCEPT !.aborted = no]
               d == [c EXCEPT !.pauseSoon = no]
               e == [d EXCEPT !.paused = 0]
    <2>2. sdk' = e
      BY <1>1, <1>2, <2>1 DEF Sdk
    <2>3. a \in Sdk /\ a.paused = sdk.paused /\ a.tools = sdk.tools
      BY <1>1 DEF Sdk
    <2> HIDE DEF a
    <2>4. b \in Sdk /\ b.turn = m.turn /\ b.paused = sdk.paused /\ b.tools = sdk.tools
      BY <1>1, <2>3 DEF Sdk
    <2> HIDE DEF b
    <2>5. c \in Sdk /\ c.turn = m.turn /\ c.paused = sdk.paused /\ c.tools = sdk.tools
      BY <2>4 DEF Sdk
    <2> HIDE DEF c
    <2>6. d \in Sdk /\ d.turn = m.turn /\ d.paused = sdk.paused /\ d.tools = sdk.tools
      BY <2>5 DEF Sdk
    <2> HIDE DEF d
    <2>7. e \in Sdk /\ e.turn = m.turn /\ e.paused = 0 /\ e.tools = sdk.tools
      BY <2>6 DEF Sdk
    <2> HIDE DEF e
    <2>8. SdkOK(sdk', n)
      BY <1>1, <2>2, <2>7 DEF SdkOK
    <2> QED BY <1>1, <1>2, <2>8, PageOnly
  <1>3. CASE /\ sdk' = [sdk EXCEPT !.paused = IF m.kind = "resume" /\ @ = m.turn THEN 0 ELSE @]
             /\ Say("result", m.cmd, m.turn, FALSE)
    <2>1. SdkOK(sdk', n)
      <3>1. sdk' \in {[sdk EXCEPT !.paused = 0], sdk}
        BY <1>1, <1>3 DEF Sdk
      <3>2. SdkOK([sdk EXCEPT !.paused = 0], n)
        BY <1>1 DEF SdkOK, Sdk
      <3> QED BY <1>1, <3>1, <3>2
    <2>2. PICK no \in BOOLEAN : Say("result", m.cmd, m.turn, no)
      BY <1>3, Zenon
    <2>3. "result" \in Kinds \ {"turn"} /\ "result" # "observation"
      BY DEF Kinds
    <2>4. UpOK(up', n) /\ Once(up') /\ Coming(up') = Coming(up)
      BY <1>1, <2>2, <2>3, Reports
    <2> QED BY <1>1, <2>1, <2>4, PageOnly
  <1> QED BY <1>2, <1>3 DEF TakeRun

\* Whatever comes to the page.
LEMMA ReceiveOK ==
  ASSUME ActorInv, Receive
  PROVE  ActorInv'
  <1> DEFINE n == count.turns
             m == Head(down)
  <1>1. /\ n \in Nat /\ count \in Count /\ UpOK(up, n) /\ Once(up) /\ SdkOK(sdk, n) /\ DownOK(down, n)
        /\ sdk \in Sdk /\ sdk.turn \in Nat /\ sdk.paused \in Nat
    BY Parts, SdkFields DEF SdkOK, Placed
  <1>2. /\ DownOK(down', n) /\ m \in Message \cup ToolMessage /\ m.turn =< n /\ (m.kind = "observe" => m.cmd # 0)
        /\ UNCHANGED <<srv, actor, cut, count>>
    BY <1>1, DownTail DEF Receive
  <1>3. /\ m \in ToolMessage => m.kind = "tool" /\ m.turn \in Nat
        /\ m.cmd \in Nat /\ m.turn \in Nat
    BY <1>2 DEF ToolMessage, Message
  <1>4. m \in Message => m.kind # "tool"
    BY <1>2 DEF Message, Kinds
  <1> HIDE DEF m
  <1>5. CASE m.kind \in {"run", "resume"} /\ TakeRun(m)
    <2>1. m \in Message
      BY <1>2, <1>3, <1>5
    <2> QED BY <1>2, <1>5, <2>1, TakeRunOK
  <1>6. CASE m.kind = "pause" /\ sdk' = [sdk EXCEPT !.pauseSoon = @ \/ (sdk.run # 0 /\ sdk.turn = m.turn)] /\ UNCHANGED up
    <2>1. PICK b \in BOOLEAN : sdk' = [sdk EXCEPT !.pauseSoon = b]
      BY <1>1, <1>6 DEF Sdk
    <2>2. SdkOK(sdk', n)
      BY <1>1, <2>1 DEF SdkOK, Sdk
    <2> QED BY <1>1, <1>2, <1>6, <2>2, PageOnly
  <1>7. CASE m.kind = "stop" /\ sdk' = [sdk EXCEPT !.pauseSoon = FALSE, !.paused = 0, !.aborted = sdk.run # 0] /\ UNCHANGED up
    <2>1. PICK no, ab \in BOOLEAN : no = FALSE /\ ab = (sdk.run # 0)
      OBVIOUS
    <2> DEFINE a == [sdk EXCEPT !.pauseSoon = no]
               b == [a EXCEPT !.paused = 0]
               c == [b EXCEPT !.aborted = ab]
    <2>2. sdk' = c
      BY <1>1, <1>7, <2>1 DEF Sdk
    <2>3. a \in Sdk /\ a.turn = sdk.turn /\ a.tools = sdk.tools
      BY <1>1 DEF Sdk
    <2> HIDE DEF a
    <2>4. b \in Sdk /\ b.turn = sdk.turn /\ b.paused = 0 /\ b.tools = sdk.tools
      BY <2>3 DEF Sdk
    <2> HIDE DEF b
    <2>5. c \in Sdk /\ c.turn = sdk.turn /\ c.paused = 0 /\ c.tools = sdk.tools
      BY <2>4 DEF Sdk
    <2> HIDE DEF c
    <2>6. SdkOK(sdk', n)
      BY <1>1, <2>2, <2>5 DEF SdkOK
    <2> QED BY <1>1, <1>2, <1>7, <2>6, PageOnly
  <1>8. CASE m.kind = "observe" /\ Say("observation", m.cmd, m.turn, TRUE) /\ UNCHANGED sdk
    <2>1. PICK ok \in BOOLEAN : Say("observation", m.cmd, m.turn, ok)
      BY <1>8, Zenon
    <2>2. "observation" \in Kinds \ {"turn"} /\ m.cmd # 0
      BY <1>2, <1>8 DEF Kinds
    <2>3. UpOK(up', n) /\ Once(up') /\ Coming(up') = Coming(up)
      BY <1>2, <1>3, <2>1, <2>2, Reports
    <2> QED BY <1>1, <1>2, <1>8, <2>3, PageOnly
  <1>9. CASE m.kind = "observe" /\ UNCHANGED <<up, sdk>>
    BY <1>1, <1>2, <1>9, PageOnly
  <1>10. CASE m.kind = "nav" /\ Say("navigated", m.cmd, m.turn, FALSE) /\ UNCHANGED sdk
    <2>1. PICK ok \in BOOLEAN : Say("navigated", m.cmd, m.turn, ok)
      BY <1>10, Zenon
    <2>2. "navigated" \in Kinds \ {"turn"} /\ "navigated" # "observation"
      BY DEF Kinds
    <2>3. UpOK(up', n) /\ Once(up') /\ Coming(up') = Coming(up)
      BY <1>2, <1>3, <2>1, <2>2, Reports
    <2> QED BY <1>1, <1>2, <1>10, <2>3, PageOnly
  <1>11. CASE sdk' = [sdk EXCEPT !.left = TRUE] /\ UNCHANGED up
    <2>1. PICK b \in BOOLEAN : sdk' = [sdk EXCEPT !.left = b]
      BY <1>11, Zenon
    <2>2. SdkOK(sdk', n)
      BY <1>1, <2>1 DEF SdkOK, Sdk
    <2> QED BY <1>1, <1>2, <1>11, <2>2, PageOnly
  <1>12. CASE m.kind = "tool" /\ sdk' = [sdk EXCEPT !.tools = @ \cup {m}] /\ UNCHANGED up
    <2>1. m \in ToolMessage
      BY <1>2, <1>4, <1>12
    <2>2. SdkOK(sdk', n)
      BY <1>1, <1>2, <1>12, <2>1 DEF SdkOK, Sdk
    <2> QED BY <1>1, <1>2, <1>12, <2>2, PageOnly
  <1> QED BY <1>5, <1>6, <1>7, <1>8, <1>9, <1>10, <1>11, <1>12 DEF Receive, m

-----------------------------------------------------------------------------
(* The theorems *)

\* The first state: nothing asked, nothing under way.
LEMMA ActorInitOK == ActorInit => ActorInv
  <1> SUFFICES ASSUME ActorInit PROVE ActorInv
    OBVIOUS
  <1>1. count \in Count /\ count.turns = 0
    BY DEF ActorInit, Count
  <1>2. srv \in Server /\ srv.pend = NoRun /\ srv.obs = NoObs /\ srv.queued = 0
    BY NoneTyped DEF ActorInit, Server
  <1>3. SrvOK(srv, 0)
    BY <1>2, NoneTyped DEF SrvOK
  <1>4. actor = IdleActor /\ ActorOK(actor, 0)
    BY IdleOK DEF ActorInit
  <1>5. SdkOK(sdk, 0)
    <2>1. PICK no \in BOOLEAN : no = FALSE
      OBVIOUS
    <2>2. sdk = [run |-> 0, turn |-> 0, aborted |-> no, pauseSoon |-> no, paused |-> 0, tools |-> {}, left |-> no]
      BY <2>1 DEF ActorInit
    <2> QED BY <2>2 DEF SdkOK, Sdk
  <1>6. UpOK(up, 0) /\ DownOK(down, 0) /\ Once(up) /\ Coming(up) = {}
    BY DEF ActorInit, UpOK, DownOK, Once, Coming
  <1>7. Placed(srv, actor, up, cut, 0)
    <2>1. Mine(actor) = {} /\ Waiting(srv.queued) = {} /\ Awaited(srv.obs) = {} /\ actor.at = "idle" /\ cut = {}
      BY <1>2, <1>4, IdleOK, NoneTyped DEF Mine, Late, Waiting, Awaited, ActorInit
    <2> QED BY <1>6, <2>1 DEF Placed, Late
  <1> QED BY <1>1, <1>3, <1>4, <1>5, <1>6, <1>7 DEF ActorInv, Typed

\* Every handler keeps the invariant.
LEMMA ActorStep == ActorInv /\ [ActorNext]_actorVars => ActorInv'
  <1> SUFFICES ASSUME ActorInv, [ActorNext]_actorVars PROVE ActorInv'
    OBVIOUS
  <1>1. CASE UNCHANGED actorVars
    BY <1>1 DEF actorVars, ActorInv, Typed, Placed, UpOK, DownOK, Once, Coming
  <1>2. CASE ActorNext
    BY <1>2, HandleOK, PlanOK, ModelOK, ActOK, ExplainOK, ThinkOK, ToolOK, ObservationTimeoutOK, BargeInOK, SpeakOK,
       PressStopOK, ReceiveOK, StepsOK, ClickOK DEF ActorNext, Runtime, Browser
  <1> QED BY <1>1, <1>2

\* A turn is in one place at a time, and once cut off it is only where the abort reads true.
THEOREM ActorInvariance == ActorSpec => []ActorInv
  <1>1. ActorInit => ActorInv
    BY ActorInitOK
  <1>2. ActorInv /\ [ActorNext]_actorVars => ActorInv'
    BY ActorStep
  <1> QED BY <1>1, <1>2, PTL DEF ActorSpec

\* The type invariant, for every number of turns.
THEOREM ActorTypeCorrect == ActorSpec => []ActorTypeOK
  <1>1. ActorInv => ActorTypeOK
    <2> SUFFICES ASSUME ActorInv PROVE ActorTypeOK
      OBVIOUS
    <2>1. srv \in Server /\ actor \in Actor /\ sdk.paused =< count.turns /\ srv.queued =< count.turns
      BY Parts DEF SrvOK, SdkOK
    <2> QED BY <2>1 DEF ActorTypeOK, Server, Actor
  <1> QED BY <1>1, ActorInvariance, PTL

\* What a step adds to the page's queue that is work of a turn that was not cut off.
Spared ==
  Len(down') > Len(down) => LET m == down'[Len(down')]
                            IN m.kind \in {"run", "nav", "tool"} => m.turn \notin cut

\* A step that only takes from the page sends no act.
LEMMA NothingSent ==
  ASSUME ActorInv, down' = down \/ (down' = Tail(down) /\ down # <<>>)
  PROVE  Spared
  <1>1. down \in Seq(Message \cup ToolMessage)
    BY Parts DEF DownOK
  <1>2. ~(Len(down') > Len(down))
    BY <1>1
  <1> QED BY <1>2 DEF Spared

\* A command of another kind than an act is not an act.
LEMMA OtherwiseSent ==
  ASSUME ActorInv, NEW kind \in {"stop", "pause", "resume", "observe"}, NEW cmd \in Nat, NEW turn, Tell(kind, cmd, turn)
  PROVE  Spared
  <1>1. down \in Seq(Message \cup ToolMessage)
    BY Parts DEF DownOK
  <1>2. PICK m : m = Msg(kind, cmd, turn, TRUE)
    OBVIOUS
  <1>3. down' = Append(down, m) /\ m.kind = kind
    BY <1>2 DEF Tell, Msg
  <1>4. PICK S : down \in Seq(S) /\ m \in S
    <2>1. (Message \cup ToolMessage) \subseteq Message \cup ToolMessage \cup {m}
      OBVIOUS
    <2>2. down \in Seq(Message \cup ToolMessage \cup {m})
      BY <1>1, <2>1
    <2> QED BY <2>2
  <1>5. down'[Len(down')] = m
    BY <1>3, <1>4
  <1> QED BY <1>3, <1>5 DEF Spared

\* A turn whose signal is not set was not cut off.
LEMMA Uncut ==
  ASSUME ActorInv, actor.at \in Late, ~Hushed
  PROVE  actor.turn \notin cut
  BY Working1 DEF Hushed

\* To begin a turn sends at most an observation.
LEMMA BeginSent ==
  ASSUME ActorInv, NEW s \in Server, NEW turn, Begin(s, turn)
  PROVE  Spared
  <1>1. NewCmd \in Nat
    BY Parts
  <1>2. CASE UNCHANGED down
    BY <1>2, NothingSent
  <1>3. CASE Tell("stop", 0, 0)
    BY <1>3, OtherwiseSent
  <1>4. CASE Tell("resume", NewCmd, s.pend.turn)
    BY <1>1, <1>4, OtherwiseSent
  <1> QED BY <1>2, <1>3, <1>4 DEF Begin

\* No message from the page makes the server act for a turn that was cut off.
LEMMA HandleSent ==
  ASSUME ActorInv, Handle
  PROVE  Spared
  <1> DEFINE m == Head(up)
             n == count.turns
  <1>1. NewCmd \in Nat /\ srv \in Server /\ n \in Nat /\ SrvOK(srv, n)
    BY Parts
  <1>2. \/ TakeTurn(m) \/ TakeInterrupt \/ TakePaused(m) \/ TakeResult(m) \/ UNCHANGED down
    BY DEF Handle, TakeNavResult, TakeObservation
  <1> HIDE DEF m
  <1>3. CASE TakeTurn(m)
    BY <1>1, <1>3, BeginSent, OtherwiseSent DEF TakeTurn
  <1>4. CASE TakeInterrupt
    BY <1>4, OtherwiseSent DEF TakeInterrupt
  <1>5. CASE TakePaused(m)
    <2> DEFINE r == [srv.pend EXCEPT !.paused = TRUE]
               s == Freed(srv, r)
    <2>1. r \in Run /\ r.turn =< n
      BY <1>1, FieldsTyped DEF Run, SrvOK
    <2>2. Begin(s, srv.queued) \/ UNCHANGED down
      BY <1>1, <1>5 DEF TakePaused, Server, Freed
    <2> HIDE DEF r
    <2>3. s \in Server
      BY <1>1, <2>1, PendOK DEF SrvOK
    <2> HIDE DEF s
    <2> QED BY <2>2, <2>3, BeginSent, NothingSent
  <1>6. CASE TakeResult(m)
    <2> DEFINE s == Freed(srv, NoRun)
    <2>1. Begin(s, srv.queued) \/ UNCHANGED down \/ Tell("observe", NewCmd, srv.pend.turn)
      BY <1>6 DEF TakeResult, Freed, RequestObservation
    <2>2. s \in Server
      BY <1>1, NoneTyped, PendOK DEF SrvOK
    <2> HIDE DEF s
    <2> QED BY <1>1, <2>1, <2>2, BeginSent, NothingSent, OtherwiseSent
  <1>7. CASE UNCHANGED down
    BY <1>7, NothingSent
  <1> QED BY <1>2, <1>3, <1>4, <1>5, <1>6, <1>7

\* What the actor runs on the page is of a turn nobody cut off.
LEMMA ActSent ==
  ASSUME ActorInv, Act
  PROVE  Spared
  <1>1. CASE Hushed
    BY <1>1, NothingSent DEF Act
  <1>2. CASE ~Hushed
    <2>1. actor.turn \notin cut
      BY <1>2, Uncut DEF Act, Late
    <2>2. DownOK(down, count.turns) /\ count.turns \in Nat /\ NewCmd \in Nat /\ actor.turn \in Nat /\ actor.turn =< count.turns
      BY Parts DEF ActorOK, Actor
    <2>3. PICK kind \in {"nav", "run"} : Tell(kind, NewCmd, actor.turn)
      BY <1>2 DEF Act
    <2>4. kind \in Kinds /\ kind # "observe"
      BY DEF Kinds
    <2>5. down'[Len(down')].turn = actor.turn
      BY <2>2, <2>3, <2>4, TellOK
    <2> QED BY <2>1, <2>5 DEF Spared
  <1> QED BY <1>1, <1>2

\* What the dynamic agent calls is of a turn nobody cut off.
LEMMA ThinkSent ==
  ASSUME ActorInv, Think
  PROVE  Spared
  <1>1. UNCHANGED down \/ \E t \in Targets : ~Hushed /\ down' = Append(down, [kind |-> "tool", cmd |-> NewCmd, turn |-> actor.turn, target |-> t])
    BY DEF Think, EndLoop
  <1>2. CASE UNCHANGED down
    BY <1>2, NothingSent
  <1>3. ASSUME ~Hushed, NEW t \in Targets, down' = Append(down, [kind |-> "tool", cmd |-> NewCmd, turn |-> actor.turn, target |-> t])
        PROVE  Spared
    <2>1. actor.turn \notin cut
      BY <1>3, Uncut DEF Think, Late
    <2>2. DownOK(down, count.turns) /\ count.turns \in Nat /\ NewCmd \in Nat /\ actor.turn \in Nat /\ actor.turn =< count.turns
      BY Parts DEF ActorOK, Actor
    <2> DEFINE m == [kind |-> "tool", cmd |-> NewCmd, turn |-> actor.turn, target |-> t]
    <2>3. m \in ToolMessage /\ m.kind # "observe" /\ m.turn = actor.turn
      BY <2>2 DEF ToolMessage
    <2>4. down' = Append(down, m)
      BY <1>3
    <2> HIDE DEF m
    <2>5. down'[Len(down')] = m
      BY <2>2, <2>3, <2>4, DownAppend
    <2> QED BY <2>1, <2>3, <2>5 DEF Spared
  <1> QED BY <1>1, <1>2, <1>3

(***************************************************************************)
(* Barging in is final, for any number of turns, barge-ins and tools: what *)
(* still reaches the page once a person has spoken into a turn is never    *)
(* that turn's work (server.ts resolveTurn, dynamic-agent.ts run).  A turn *)
(* is in one place only, so it is cut off only where it is worked on, and  *)
(* there every later await looks at its signal.                            *)
(***************************************************************************)
THEOREM CutOffTurnsAreSilent == ActorSpec => CutOffTurnsDoNothing
  <1>1. ActorInv /\ [ActorNext]_actorVars => [Spared]_actorVars
    <2> SUFFICES ASSUME ActorInv, ActorNext PROVE Spared
      OBVIOUS
    <2>1. NewCmd \in Nat
      BY Parts
    <2>2. CASE Plan
      <3>1. UNCHANGED down \/ Tell("stop", 0, 0) \/ Tell("resume", NewCmd, srv.pend.turn) \/ Tell("observe", NewCmd, actor.turn)
        BY <2>2 DEF Plan, RequestObservation
      <3> QED BY <2>1, <3>1, NothingSent, OtherwiseSent
    <2>3. CASE Model \/ Explain \/ Talk \/ HttpResult \/ ToolTimeout \/ ObservationTimeout \/ BargeIn \/ Speak \/ PressStop \/ Browser
      <3>1. UNCHANGED down \/ (down' = Tail(down) /\ down # <<>>)
        BY <2>3 DEF Model, Explain, Talk, HttpResult, ToolTimeout, ObservationTimeout, BargeIn, Speak, PressStop, Browser, Receive, Steps, Click
      <3> QED BY <3>1, NothingSent
    <2> QED BY <2>2, <2>3, HandleSent, ActSent, ThinkSent DEF ActorNext, Runtime
  <1> QED BY <1>1, ActorInvariance, PTL DEF ActorSpec, CutOffTurnsDoNothing, Spared

-----------------------------------------------------------------------------
(* The fleet: who holds a hosted demo. *)

\* What the fields of a session object and of a process can hold.
Object == [worker : Workers \cup {"none"}, timer : BOOLEAN, beats : BOOLEAN, final : BOOLEAN, late : BOOLEAN]
Places == Starting \cup Undoing \cup {"away", "locate", "claim", "open", "served"}
Place == [at : Places, worker : Workers \cup {"none"}, obj : 0 .. MaxStarts, gone : BOOLEAN]
Objs == [1 .. MaxStarts -> Object]

\* Who holds the demo: a worker with a heartbeat, with a teardown under way,
\* or with a start that still can succeed.
Opening == proc[First].at \in Starting \cup Undoing
Reserving == {p \in Procs : proc[p].at \in {"reserve", "launch"}}
Beating(w) == \E o \in 1 .. MaxStarts : objs[o].worker = w /\ objs[o].beats
Ending(w) == \E e \in ends : e.worker = w
Launched(w) == \E p \in Procs : At(p) = w /\ proc[p].at \in {"register", "record"}
Launching(w) == \E p \in Procs : At(p) = w /\ proc[p].at \in {"reserve", "launch"}
Holds(w) == Beating(w) \/ Ending(w) \/ Launched(w) \/ (browser = "live" /\ Launching(w))

\* Nothing else happens while the first start is under way.
FirstAlone ==
  Opening => /\ \A c \in Conns : proc[c].at = "away"
             /\ row = NoRow /\ ends = {} /\ \A w \in Workers : sess[w] = 0
             /\ \A o \in 1 .. MaxStarts : ~objs[o].beats /\ ~objs[o].late
\* Whoever holds the demo has its row, under a lease.
Fenced == ~Opening => \A w \in Workers : Holds(w) => row.worker = w /\ row.leased
\* A checkpoint that lands after the end finds nobody else at work.
LateOnes ==
  \A o \in 1 .. MaxStarts : objs[o].late =>
    /\ browser # "live" \/ Ending(objs[o].worker)
    /\ \A v \in Workers : Holds(v) => v = objs[o].worker
Released == \A e \in ends : e.at = "remove" => browser # "live"
Served == \A w \in Workers : sess[w] # 0 => objs[sess[w]].worker = w /\ (objs[sess[w]].beats \/ Ending(w))
Attached == \A p \in Procs : proc[p].at \in {"register", "record"} => proc[p].obj # 0 /\ objs[proc[p].obj].worker = At(p)
Based == \A p \in Procs : proc[p].at # "away" => At(p) \in Workers
\* Objects are made one after the other, and each start that was let in finds one.
Numbered == \E k \in 0 .. MaxStarts : Used = 1 .. k /\ k + Cardinality(Reserving) =< MaxStarts

FleetInv == TypeOK /\ FirstAlone /\ Fenced /\ LateOnes /\ Released /\ Served /\ Attached /\ Based /\ Numbered

-----------------------------------------------------------------------------
\* The types, with the sets of objects and processes named.
LEMMA FleetTyped ==
  TypeOK <=> /\ row \in [status : {"none", "active", "ended"}, worker : Workers \cup {"none"}, leased : BOOLEAN]
             /\ dir \in [worker : Workers \cup {"none"}, fresh : BOOLEAN]
             /\ slot \in BOOLEAN /\ browser \in {"none", "live", "released"}
             /\ sess \in [Workers -> 0 .. MaxStarts] /\ lease \subseteq Workers
             /\ objs \in Objs /\ proc \in [Procs -> Place]
             /\ ends \subseteq [by : Callers, worker : Workers, obj : 1 .. MaxStarts, at : {"finish", "stop", "remove"}]
             /\ faults \in 0 .. 1
  BY DEF TypeOK, Objs, Object, Place, Places

\* The types after a step, field by field.
LEMMA TypedOn ==
  ASSUME row' \in [status : {"none", "active", "ended"}, worker : Workers \cup {"none"}, leased : BOOLEAN],
         dir' \in [worker : Workers \cup {"none"}, fresh : BOOLEAN],
         slot' \in BOOLEAN, browser' \in {"none", "live", "released"},
         sess' \in [Workers -> 0 .. MaxStarts], lease' \subseteq Workers,
         objs' \in Objs, proc' \in [Procs -> Place],
         ends' \subseteq [by : Callers, worker : Workers, obj : 1 .. MaxStarts, at : {"finish", "stop", "remove"}],
         faults' \in 0 .. 1
  PROVE  TypeOK'
  BY DEF TypeOK, Objs, Object, Place, Places

\* A process moves on, or goes.
LEMMA Moved ==
  ASSUME proc \in [Procs -> Place], NEW p \in Procs
  PROVE  /\ \A at \in Places : Goes(p, at) => /\ proc' \in [Procs -> Place] /\ proc'[p].at = at /\ proc'[p].worker = proc[p].worker /\ proc'[p].obj = proc[p].obj
                                              /\ \A q \in Procs \ {p} : proc'[q] = proc[q]
         /\ Leaves(p) => proc' \in [Procs -> Place] /\ proc'[p] = Away /\ \A q \in Procs \ {p} : proc'[q] = proc[q]
  <1>1. ASSUME NEW at \in Places, Goes(p, at)
        PROVE  /\ proc' \in [Procs -> Place] /\ proc'[p].at = at /\ proc'[p].worker = proc[p].worker /\ proc'[p].obj = proc[p].obj
               /\ \A q \in Procs \ {p} : proc'[q] = proc[q]
    <2>1. proc[p] \in Place
      OBVIOUS
    <2>2. proc' = [proc EXCEPT ![p] = [proc[p] EXCEPT !.at = at]]
      BY <1>1 DEF Goes
    <2>3. [proc[p] EXCEPT !.at = at] \in Place
      BY <2>1 DEF Place
    <2> QED BY <2>1, <2>2, <2>3 DEF Place
  <1>2. ASSUME Leaves(p)
        PROVE  proc' \in [Procs -> Place] /\ proc'[p] = Away /\ \A q \in Procs \ {p} : proc'[q] = proc[q]
    <2>1. Away \in Place
      <3>1. PICK no \in BOOLEAN : no = FALSE
        OBVIOUS
      <3>2. Away = [at |-> "away", worker |-> "none", obj |-> 0, gone |-> no]
        BY <3>1 DEF Away
      <3> QED BY <3>2, FleetAssumption DEF Place, Places
    <2> QED BY <1>2, <2>1 DEF Leaves
  <1> QED BY <1>1, <1>2

\* endSession stills the object a worker has under the session.
LEMMA StilledOK ==
  ASSUME NEW w \in Workers, sess \in [Workers -> 0 .. MaxStarts], NEW os \in Objs, NEW late \in BOOLEAN
  PROVE  /\ Stilled(w, os, late) \in Objs
         /\ \A o \in 1 .. MaxStarts :
              /\ Stilled(w, os, late)[o].worker = os[o].worker
              /\ Stilled(w, os, late)[o].beats => os[o].beats
              /\ o # sess[w] => Stilled(w, os, late)[o] = os[o]
  <1> DEFINE S == Stilled(w, os, late)
             s == sess[w]
  <1>1. CASE s = 0
    BY <1>1 DEF Stilled
  <1>2. CASE s # 0
    <2>1. PICK no, yes \in BOOLEAN : no = FALSE /\ yes = TRUE
      OBVIOUS
    <2>2. s \in 1 .. MaxStarts /\ os[s] \in Object
      BY <1>2 DEF Objs
    <2> DEFINE a == [os[s] EXCEPT !.timer = no]
               b == [a EXCEPT !.beats = no]
               c == [b EXCEPT !.final = yes]
               l == os[s].late \/ (late /\ os[s].beats)
               d == [c EXCEPT !.late = l]
    <2>3. S = [os EXCEPT ![s] = d]
      BY <1>2, <2>1, <2>2 DEF Stilled, Objs, Object
    <2>4. l \in BOOLEAN
      OBVIOUS
    <2> HIDE DEF S, l
    <2>5. a \in Object /\ a.worker = os[s].worker
      BY <2>2 DEF Object
    <2> HIDE DEF a
    <2>6. b \in Object /\ b.worker = os[s].worker /\ ~b.beats
      BY <2>1, <2>5 DEF Object
    <2> HIDE DEF b
    <2>7. c \in Object /\ c.worker = os[s].worker /\ ~c.beats
      BY <2>6 DEF Object
    <2> HIDE DEF c
    <2>8. d \in Object /\ d.worker = os[s].worker /\ ~d.beats
      BY <2>4, <2>7 DEF Object
    <2> HIDE DEF d
    <2>9. S \in Objs /\ \A o \in 1 .. MaxStarts : S[o] = IF o = s THEN d ELSE os[o]
      BY <2>2, <2>3, <2>8 DEF Objs
    <2> QED BY <2>2, <2>8, <2>9 DEF S
  <1> QED BY <1>1, <1>2

\* There are finitely many processes, so starts can be counted.
LEMMA ProcsFinite ==
  /\ IsFiniteSet(Procs) /\ First \in Procs /\ First \notin Conns
  /\ \A S \in SUBSET Procs : IsFiniteSet(S) /\ Cardinality(S) \in Nat
  <1>1. Procs = Conns \cup {First} /\ First \notin Conns
    BY FleetAssumption DEF Procs, First
  <1>2. IsFiniteSet(Procs)
    BY <1>1, FleetAssumption, FS_AddElement
  <1>3. \A S \in SUBSET Procs : IsFiniteSet(S)
    BY <1>2, FS_Subset
  <1> QED BY <1>1, <1>2, <1>3, FS_CardinalityType

\* No new object, and nobody more about to make one.
LEMMA NumberedOn ==
  ASSUME Numbered, Used' = Used, Reserving' \subseteq Reserving
  PROVE  Numbered'
  <1>1. Reserving \in SUBSET Procs
    BY DEF Reserving
  <1>2. IsFiniteSet(Reserving) /\ Cardinality(Reserving) \in Nat
    BY <1>1, ProcsFinite
  <1>3. Cardinality(Reserving') =< Cardinality(Reserving) /\ Cardinality(Reserving') \in Nat
    BY <1>2, FS_Subset, FS_CardinalityType
  <1>4. PICK k \in 0 .. MaxStarts : Used = 1 .. k /\ k + Cardinality(Reserving) =< MaxStarts
    BY DEF Numbered
  <1>5. Used' = 1 .. k /\ k + Cardinality(Reserving)' =< MaxStarts
    BY <1>2, <1>3, <1>4, FleetAssumption
  <1> QED BY <1>5 DEF Numbered

\* The heartbeats, teardowns and owners are what they were.
SameObjects ==
  \A o \in 1 .. MaxStarts : objs'[o].worker = objs[o].worker /\ objs'[o].beats = objs[o].beats /\ objs'[o].late = objs[o].late

\* A process moves on to nothing stronger.
LEMMA ProcOnly ==
  ASSUME FleetInv, TypeOK', NEW p \in Procs, \A q \in Procs \ {p} : proc'[q] = proc[q],
         UNCHANGED <<row, sess, ends>>, SameObjects,
         proc'[p].at \in {"register", "record"} => proc[p].at \in {"register", "record"} /\ proc'[p].obj = proc[p].obj,
         proc'[p].at \in {"reserve", "launch"} => proc[p].at \in {"reserve", "launch"},
         proc'[p].at \in Starting \cup Undoing => proc[p].at \in Starting \cup Undoing /\ proc'[p].worker = proc[p].worker,
         proc'[p].at # "away" => proc'[p].worker \in Workers,
         Opening => p = First,
         browser' \in {browser, "released"} \/ Opening'
  PROVE  FleetInv'
  <1>1. Used' = Used
    BY DEF Used, SameObjects
  <1>2. Reserving' \subseteq Reserving
    BY DEF Reserving
  <1>3. Numbered'
    BY <1>1, <1>2, NumberedOn DEF FleetInv
  <1>4. Based'
    BY DEF FleetInv, Based, At
  <1>5. Attached'
    BY FleetTyped DEF FleetInv, Attached, At, SameObjects, Starting, Place
  <1>6. Served'
    BY FleetTyped DEF FleetInv, Served, SameObjects, Ending
  <1>7. Opening' => Opening
    BY ProcsFinite DEF Opening
  <1>8. FirstAlone'
    BY <1>7, ProcsFinite DEF FleetInv, FirstAlone, SameObjects, Procs
  <1>9. Opening' \/ \A w \in Workers : Holds(w)' => Holds(w)
    <2>1. \A w \in Workers : Beating(w)' => Beating(w)
      BY DEF Beating, SameObjects
    <2>2. \A w \in Workers : Ending(w)' => Ending(w)
      BY DEF Ending
    <2>3. \A w \in Workers : Launched(w)' => Launched(w)
      BY DEF Launched, At, Starting
    <2>4. \A w \in Workers : Launching(w)' => Launching(w)
      BY DEF Launching, At, Starting
    <2> QED BY <2>1, <2>2, <2>3, <2>4 DEF Holds
  <1>10. Opening' \/ (browser' = "live" => browser = "live")
    OBVIOUS
  <1>11. CASE Opening'
    <2>1. Fenced'
      BY <1>11 DEF Fenced
    <2>2. LateOnes'
      BY <1>8, <1>11 DEF FirstAlone, LateOnes
    <2>3. Released'
      BY <1>8, <1>11 DEF FirstAlone, Released
    <2> QED BY <1>3, <1>4, <1>5, <1>6, <1>8, <2>1, <2>2, <2>3 DEF FleetInv
  <1>12. CASE ~Opening'
    <2>1. CASE ~Opening
      <3>1. Fenced'
        BY <1>9, <1>12, <2>1 DEF FleetInv, Fenced
      <3>2. LateOnes'
        BY <1>9, <1>10, <1>12, <2>1 DEF FleetInv, LateOnes, SameObjects, Ending
      <3>3. Released'
        BY <1>10, <1>12 DEF FleetInv, Released
      <3> QED BY <1>3, <1>4, <1>5, <1>6, <1>8, <3>1, <3>2, <3>3 DEF FleetInv
    <2>2. CASE Opening
      <3>1. \A q \in Procs : proc'[q].at \notin Starting
        BY <1>12, <2>2, ProcsFinite DEF FleetInv, FirstAlone, Opening, Procs, Starting, Undoing
      <3>2. \A w \in Workers : ~Holds(w)'
        BY <2>2, <3>1 DEF FleetInv, FirstAlone, Holds, Beating, Ending, Launched, Launching, Starting, SameObjects
      <3>3. Fenced' /\ LateOnes' /\ Released'
        BY <2>2, <3>2 DEF FleetInv, FirstAlone, Fenced, LateOnes, Released, SameObjects
      <3> QED BY <1>3, <1>4, <1>5, <1>6, <1>8, <3>3 DEF FleetInv
    <2> QED BY <2>1, <2>2
  <1> QED BY <1>11, <1>12

\* What the invariant gives, in the form the steps use it.
LEMMA FleetParts ==
  ASSUME FleetInv
  PROVE  /\ row \in [status : {"none", "active", "ended"}, worker : Workers \cup {"none"}, leased : BOOLEAN]
         /\ dir \in [worker : Workers \cup {"none"}, fresh : BOOLEAN]
         /\ slot \in BOOLEAN /\ browser \in {"none", "live", "released"}
         /\ sess \in [Workers -> 0 .. MaxStarts] /\ lease \subseteq Workers
         /\ objs \in Objs /\ proc \in [Procs -> Place]
         /\ ends \subseteq [by : Callers, worker : Workers, obj : 1 .. MaxStarts, at : {"finish", "stop", "remove"}]
         /\ faults \in 0 .. 1
         /\ "none" \notin Workers /\ MaxStarts \in Nat
         /\ FirstAlone /\ Fenced /\ LateOnes /\ Released /\ Served /\ Attached /\ Based /\ Numbered
  BY FleetTyped, FleetAssumption DEF FleetInv

\* A process that left holds nothing.
LEMMA AwayFields ==
  Away.at = "away" /\ Away.worker = "none" /\ Away.obj = 0 /\ Away \in Place
  <1>1. PICK no \in BOOLEAN : no = FALSE
    OBVIOUS
  <1>2. Away = [at |-> "away", worker |-> "none", obj |-> 0, gone |-> no]
    BY <1>1 DEF Away
  <1> QED BY <1>2, FleetAssumption DEF Place, Places

\* While the first start is under way, whoever acts is that start.
LEMMA Alone ==
  ASSUME FleetInv, NEW p \in Procs, proc[p].at # "away", Opening
  PROVE  p = First
  BY ProcsFinite, FleetParts DEF FirstAlone, Procs

\* Capacity is taken, or the start is turned away.
LEMMA ReserveOK ==
  ASSUME FleetInv, NEW p \in Procs, Reserve(p)
  PROVE  FleetInv'
  <1>1. /\ proc[p].at = "reserve" /\ UNCHANGED <<row, dir, browser, sess, objs, ends, faults>>
        /\ Goes(p, "launch") \/ Goes(p, "giveback") \/ Leaves(p)
        /\ slot' \in {TRUE, slot} /\ lease' \subseteq lease \cup {At(p)}
    BY DEF Reserve
  <1>2. proc \in [Procs -> Place] /\ proc[p].worker \in Workers
    BY <1>1, FleetParts DEF Based, At
  <1>3. proc' \in [Procs -> Place] /\ \A q \in Procs \ {p} : proc'[q] = proc[q]
    BY <1>1, <1>2, Moved DEF Places, Starting, Undoing
  <1>4. \/ proc'[p].at \in {"launch", "giveback"} /\ proc'[p].worker = proc[p].worker
        \/ proc'[p] = Away
    BY <1>1, <1>2, Moved DEF Places, Starting, Undoing
  <1>5. slot' \in BOOLEAN
    BY <1>1, FleetParts
  <1>6. TypeOK'
    BY <1>1, <1>2, <1>3, <1>5, FleetParts, TypedOn DEF At
  <1>7. Opening => p = First
    BY <1>1, Alone
  <1> QED BY <1>1, <1>2, <1>3, <1>4, <1>6, <1>7, AwayFields, ProcOnly DEF Starting, Undoing, SameObjects

\* The directory learns the worker.
LEMMA RegisterOK ==
  ASSUME FleetInv, NEW p \in Procs, Register(p)
  PROVE  FleetInv'
  <1>1. /\ proc[p].at = "register" /\ UNCHANGED <<row, slot, browser, sess, lease, objs, ends, faults>>
        /\ Goes(p, "record") \/ Goes(p, "discard")
        /\ dir' = dir \/ dir' = [worker |-> At(p), fresh |-> TRUE]
    BY DEF Register, Local
  <1>2. proc \in [Procs -> Place] /\ proc[p].worker \in Workers
    BY <1>1, FleetParts DEF Based, At
  <1>3. proc' \in [Procs -> Place] /\ \A q \in Procs \ {p} : proc'[q] = proc[q]
    BY <1>1, <1>2, Moved DEF Places, Starting, Undoing
  <1>4. proc'[p].at \in {"record", "discard"} /\ proc'[p].worker = proc[p].worker /\ proc'[p].obj = proc[p].obj
    BY <1>1, <1>2, Moved DEF Places, Starting, Undoing
  <1>5. dir' \in [worker : Workers \cup {"none"}, fresh : BOOLEAN]
    <2>1. PICK yes \in BOOLEAN : yes = TRUE
      OBVIOUS
    <2>2. dir' = dir \/ dir' = [worker |-> At(p), fresh |-> yes]
      BY <1>1, <2>1
    <2> QED BY <1>2, <2>2, FleetParts DEF At
  <1>6. TypeOK'
    BY <1>1, <1>3, <1>5, FleetParts, TypedOn
  <1>7. Opening => p = First
    BY <1>1, Alone
  <1> QED BY <1>1, <1>2, <1>3, <1>4, <1>6, <1>7, ProcOnly DEF Starting, Undoing, SameObjects

\* A start that failed takes back what it took.
LEMMA UndoOK ==
  ASSUME FleetInv, NEW p \in Procs, Undo(p)
  PROVE  FleetInv'
  <1>1. /\ UNCHANGED <<row, sess, objs, ends, faults>> /\ browser' \in {browser, "released"}
        /\ (proc[p].at = "discard" /\ Goes(p, "giveback")) \/ (proc[p].at = "giveback" /\ Leaves(p))
        /\ dir' \in {dir, Nowhere} /\ lease' \subseteq lease /\ slot' \in {slot, FALSE}
    BY DEF Undo, Local
  <1>2. proc \in [Procs -> Place] /\ proc[p].worker \in Workers /\ proc[p].at \in {"discard", "giveback"}
    BY <1>1, FleetParts DEF Based, At
  <1>3. proc' \in [Procs -> Place] /\ \A q \in Procs \ {p} : proc'[q] = proc[q]
    BY <1>1, <1>2, Moved DEF Places, Starting, Undoing
  <1>4. (proc'[p].at = "giveback" /\ proc'[p].worker = proc[p].worker) \/ proc'[p] = Away
    BY <1>1, <1>2, Moved DEF Places, Starting, Undoing
  <1>5. dir' \in [worker : Workers \cup {"none"}, fresh : BOOLEAN] /\ slot' \in BOOLEAN
    <2>1. PICK no \in BOOLEAN : no = FALSE
      OBVIOUS
    <2>2. Nowhere = [worker |-> "none", fresh |-> no]
      BY <2>1 DEF Nowhere
    <2>3. slot' \in BOOLEAN
      BY <1>1, FleetParts
    <2> QED BY <1>1, <2>2, <2>3, FleetParts
  <1>6. TypeOK'
    BY <1>1, <1>3, <1>5, FleetParts, TypedOn
  <1>7. Opening => p = First
    BY <1>2, Alone
  <1> QED BY <1>1, <1>2, <1>3, <1>4, <1>6, <1>7, AwayFields, ProcOnly DEF Starting, Undoing, SameObjects

\* The directory is read.
LEMMA LocateOK ==
  ASSUME FleetInv, NEW c \in Conns, Locate(c)
  PROVE  FleetInv'
  <1>1. proc[c].at = "locate" /\ UNCHANGED <<row, dir, slot, browser, sess, lease, objs, ends, faults>> /\ (Goes(c, "claim") \/ Leaves(c))
    BY DEF Locate, Shared, Local
  <1>2. proc \in [Procs -> Place] /\ c \in Procs /\ proc[c].worker \in Workers
    BY <1>1, FleetParts DEF Based, At, Procs
  <1>3. proc' \in [Procs -> Place] /\ \A q \in Procs \ {c} : proc'[q] = proc[q]
    BY <1>1, <1>2, Moved DEF Places, Starting, Undoing
  <1>4. (proc'[c].at = "claim" /\ proc'[c].worker = proc[c].worker) \/ proc'[c] = Away
    BY <1>1, <1>2, Moved DEF Places, Starting, Undoing
  <1>6. TypeOK'
    BY <1>1, <1>3, FleetParts, TypedOn
  <1>7. Opening => c = First
    BY <1>1, <1>2, Alone
  <1> QED BY <1>1, <1>2, <1>3, <1>4, <1>6, <1>7, AwayFields, ProcOnly DEF Starting, Undoing, SameObjects

\* The grace timer of an object is set or cleared.
LEMMA TimerOK ==
  ASSUME FleetInv, NEW o \in Nat, NEW t \in BOOLEAN, objs' = [objs EXCEPT ![o].timer = t]
  PROVE  objs' \in Objs /\ SameObjects
  <1>1. objs \in Objs
    BY FleetParts
  <1>2. \A i \in 1 .. MaxStarts : objs'[i] = IF i = o THEN [objs[i] EXCEPT !.timer = t] ELSE objs[i]
    BY <1>1 DEF Objs
  <1>3. \A i \in 1 .. MaxStarts : [objs[i] EXCEPT !.timer = t] \in Object
    BY <1>1 DEF Objs, Object
  <1>4. objs' \in Objs
    BY <1>1, <1>2, <1>3 DEF Objs
  <1>5. \A i \in 1 .. MaxStarts : LET x == [objs[i] EXCEPT !.timer = t]
                                 IN x.worker = objs[i].worker /\ x.beats = objs[i].beats /\ x.late = objs[i].late
    BY <1>1 DEF Objs, Object
  <1> QED BY <1>2, <1>4, <1>5 DEF SameObjects

\* An entry touched is an entry.
LEMMA TouchedOK ==
  ASSUME FleetInv
  PROVE  Touched \in [worker : Workers \cup {"none"}, fresh : BOOLEAN]
  <1>1. PICK yes \in BOOLEAN : yes = TRUE
    OBVIOUS
  <1>2. Touched = dir \/ Touched = [dir EXCEPT !.fresh = yes]
    BY <1>1 DEF Touched
  <1> QED BY <1>2, FleetParts

\* A socket is taken in, or has gone meanwhile.
LEMMA FoundOK ==
  ASSUME FleetInv, NEW c \in Conns, NEW w \in Workers, NEW o \in 0 .. MaxStarts, Found(c, w, o)
  PROVE  /\ proc' \in [Procs -> Place] /\ \A q \in Procs \ {c} : proc'[q] = proc[q]
         /\ proc'[c] = Away \/ (proc'[c].at = "open" /\ proc'[c].worker = w)
  <1>1. proc \in [Procs -> Place] /\ c \in Procs
    BY FleetParts DEF Procs
  <1>2. PICK no \in BOOLEAN : no = FALSE
    OBVIOUS
  <1> DEFINE x == [at |-> "open", worker |-> w, obj |-> o, gone |-> no]
  <1>3. x \in Place /\ x.at = "open" /\ x.worker = w
    BY DEF Place, Places
  <1>4. proc' = [proc EXCEPT ![c] = IF proc[c].gone THEN Away ELSE x]
    BY <1>2 DEF Found
  <1> HIDE DEF x
  <1> QED BY <1>1, <1>3, <1>4, AwayFields

\* A socket finds the session, or asks where it is.
LEMMA ConnectOK ==
  ASSUME FleetInv, NEW c \in Conns, Connect(c)
  PROVE  FleetInv'
  <1>1. /\ UNCHANGED <<row, slot, browser, sess, lease, ends, faults>>
        /\ proc[c].at = "away" /\ proc[First].at \in {"served", "away"}
    BY DEF Connect
  <1>2. proc \in [Procs -> Place] /\ c \in Procs /\ c # First /\ sess \in [Workers -> 0 .. MaxStarts] /\ objs \in Objs
    BY FleetParts, ProcsFinite DEF Procs
  <1>3. PICK w \in Workers :
          IF sess[w] # 0
          THEN /\ Found(c, w, sess[w]) /\ dir' = Touched
               /\ objs' = [objs EXCEPT ![sess[w]].timer = FALSE]
          ELSE proc' = [proc EXCEPT ![c] = [Away EXCEPT !.at = "locate", !.worker = w]] /\ UNCHANGED <<dir, objs>>
    BY DEF Connect
  <1>4. /\ proc' \in [Procs -> Place] /\ \A q \in Procs \ {c} : proc'[q] = proc[q]
        /\ proc'[c] = Away \/ (proc'[c].at \in {"open", "locate"} /\ proc'[c].worker = w)
        /\ objs' \in Objs /\ SameObjects /\ dir' \in [worker : Workers \cup {"none"}, fresh : BOOLEAN]
    <2>1. CASE sess[w] # 0
      <3>1. sess[w] \in 0 .. MaxStarts /\ sess[w] \in Nat
        BY <1>2, FleetAssumption
      <3>2. PICK no \in BOOLEAN : no = FALSE
        OBVIOUS
      <3>3. objs' = [objs EXCEPT ![sess[w]].timer = no]
        BY <1>3, <2>1, <3>2
      <3>4. objs' \in Objs /\ SameObjects
        BY <3>1, <3>3, TimerOK
      <3>5. Found(c, w, sess[w]) /\ dir' = Touched
        BY <1>3, <2>1
      <3> QED BY <3>1, <3>4, <3>5, FoundOK, TouchedOK
    <2>2. CASE sess[w] = 0
      <3> DEFINE x == [Away EXCEPT !.at = "locate", !.worker = w]
      <3>1. x \in Place /\ x.at = "locate" /\ x.worker = w
        BY AwayFields DEF Place, Places
      <3>2. proc' = [proc EXCEPT ![c] = x] /\ UNCHANGED <<dir, objs>>
        BY <1>3, <2>2
      <3> HIDE DEF x
      <3> QED BY <1>2, <3>1, <3>2, FleetParts DEF SameObjects
    <2> QED BY <2>1, <2>2
  <1>5. TypeOK'
    BY <1>1, <1>4, FleetParts, TypedOn
  <1>6. ~Opening
    BY <1>1 DEF Opening, Starting, Undoing
  <1> QED BY <1>1, <1>2, <1>4, <1>5, <1>6, AwayFields, ProcOnly DEF Starting, Undoing

\* The server learns that a socket is closed.
LEMMA CloseOK ==
  ASSUME FleetInv, NEW c \in Conns, Close(c)
  PROVE  FleetInv'
  <1>1. UNCHANGED <<row, dir, slot, browser, sess, lease, ends, faults>>
    BY DEF Close, Shared
  <1>2. proc \in [Procs -> Place] /\ c \in Procs /\ c # First /\ objs \in Objs
    BY FleetParts, ProcsFinite DEF Procs
  <1>3. proc[c].at # "away"
    BY DEF Close, Starting, Undoing
  <1>4. ~Opening
    BY <1>2, <1>3, Alone
  <1>5. CASE /\ proc[c].at = "open" /\ Leaves(c)
             /\ objs' = [objs EXCEPT ![proc[c].obj].timer = TRUE]
    <2>1. proc' \in [Procs -> Place] /\ proc'[c] = Away /\ \A q \in Procs \ {c} : proc'[q] = proc[q]
      BY <1>2, <1>5, Moved
    <2>2. PICK yes \in BOOLEAN : yes = TRUE
      OBVIOUS
    <2>3. objs' = [objs EXCEPT ![proc[c].obj].timer = yes] /\ proc[c].obj \in Nat
      BY <1>2, <1>5, <2>2, FleetAssumption DEF Place
    <2>4. objs' \in Objs /\ SameObjects
      BY <2>3, TimerOK
    <2>5. TypeOK'
      BY <1>1, <2>1, <2>4, FleetParts, TypedOn
    <2> QED BY <1>1, <1>2, <1>4, <2>1, <2>4, <2>5, AwayFields, ProcOnly DEF Starting, Undoing
  <1>6. CASE proc' = [proc EXCEPT ![c].gone = TRUE] /\ UNCHANGED objs
    <2>1. PICK yes \in BOOLEAN : yes = TRUE
      OBVIOUS
    <2> DEFINE x == [proc[c] EXCEPT !.gone = yes]
    <2>2. x \in Place /\ x.at = proc[c].at /\ x.worker = proc[c].worker /\ x.obj = proc[c].obj
      BY <1>2 DEF Place
    <2>3. proc' = [proc EXCEPT ![c] = x]
      BY <1>6, <2>1
    <2> HIDE DEF x
    <2>4. proc' \in [Procs -> Place] /\ proc'[c] = x /\ \A q \in Procs \ {c} : proc'[q] = proc[q]
      BY <1>2, <2>2, <2>3
    <2>5. TypeOK'
      BY <1>1, <1>6, <2>4, FleetParts, TypedOn
    <2>6. proc[c].worker \in Workers
      BY <1>2, <1>3, FleetParts DEF Based, At
    <2> QED BY <1>1, <1>2, <1>4, <1>6, <2>2, <2>4, <2>5, <2>6, ProcOnly DEF SameObjects
  <1> QED BY <1>5, <1>6 DEF Close

-----------------------------------------------------------------------------
(* A start *)

\* Each start that was let in finds an object that was never used.
LEMMA FreshOK ==
  ASSUME FleetInv, NEW p \in Procs, proc[p].at \in {"reserve", "launch"}
  PROVE  /\ Fresh \in 1 .. MaxStarts /\ objs[Fresh].worker = "none"
         /\ \E k \in 0 .. MaxStarts : Used = 1 .. k /\ Fresh = k + 1 /\ k + Cardinality(Reserving) =< MaxStarts
  <1>1. PICK k \in 0 .. MaxStarts : Used = 1 .. k /\ k + Cardinality(Reserving) =< MaxStarts
    BY FleetParts DEF Numbered
  <1>2. k \in Nat /\ MaxStarts \in Nat
    BY <1>1, FleetAssumption
  <1>3. Cardinality(Used) = k
    <2>1. Cardinality(1 .. k) = k
      BY <1>2, FS_Interval, Z3
    <2> QED BY <1>1, <2>1
  <1>4. Reserving \in SUBSET Procs /\ p \in Reserving
    BY DEF Reserving
  <1>5. IsFiniteSet(Reserving) /\ Cardinality(Reserving) \in Nat
    BY <1>4, ProcsFinite
  <1>6. Cardinality(Reserving) # 0
    BY <1>4, <1>5, FS_EmptySet
  <1>7. Fresh = k + 1 /\ Fresh \in 1 .. MaxStarts
    BY <1>1, <1>2, <1>3, <1>5, <1>6 DEF Fresh
  <1>8. Fresh \notin Used
    BY <1>1, <1>2, <1>7
  <1> QED BY <1>1, <1>7, <1>8 DEF Used

\* A browser is attached to: the worker held the demo already.
LEMMA LaunchOK ==
  ASSUME FleetInv, NEW p \in Procs, Launch(p)
  PROVE  FleetInv'
  <1>1. proc[p].at = "launch" /\ UNCHANGED <<row, dir, slot, sess, ends, faults>>
    BY DEF Launch
  <1>2. proc \in [Procs -> Place] /\ proc[p].worker \in Workers /\ objs \in Objs /\ proc[p] \in Place /\ MaxStarts \in Nat
    BY <1>1, FleetParts DEF Based, At
  <1>3. Opening => p = First
    BY <1>1, Alone
  <1>4. ASSUME Attaches(p), browser' = "live",
               objs' = [objs EXCEPT ![Fresh].worker = At(p)],
               proc' = [proc EXCEPT ![p].at = "register", ![p].obj = Fresh],
               UNCHANGED lease
        PROVE  FleetInv'
    <2> DEFINE f == Fresh
               w == At(p)
    <2>1. f \in 1 .. MaxStarts /\ objs[f].worker = "none" /\ \E k \in 0 .. MaxStarts : Used = 1 .. k /\ f = k + 1 /\ k + Cardinality(Reserving) =< MaxStarts
      BY <1>1, FreshOK
    <2>2. w \in Workers /\ w # "none"
      BY <1>2, FleetAssumption DEF At
    <2>3. objs' = [objs EXCEPT ![f] = [objs[f] EXCEPT !.worker = w]]
      BY <1>4
    <2>4. proc' = [proc EXCEPT ![p] = [[proc[p] EXCEPT !.at = "register"] EXCEPT !.obj = f]]
      BY <1>2, <1>4 DEF Place
    <2>5. w = proc[p].worker
      BY DEF At
    <2> HIDE DEF f, w
    <2>6. /\ objs' \in Objs /\ objs'[f].worker = w /\ objs'[f].beats = objs[f].beats /\ objs'[f].late = objs[f].late
          /\ \A o \in 1 .. MaxStarts : o # f => objs'[o] = objs[o]
      <3>1. objs[f] \in Object
        BY <1>2, <2>1 DEF Objs
      <3> DEFINE x == [objs[f] EXCEPT !.worker = w]
      <3>2. x \in Object /\ x.worker = w /\ x.beats = objs[f].beats /\ x.late = objs[f].late
        BY <2>2, <3>1 DEF Object
      <3>3. objs' = [objs EXCEPT ![f] = x]
        BY <2>3
      <3> HIDE DEF x
      <3> QED BY <1>2, <2>1, <3>2, <3>3 DEF Objs
    <2>7. /\ proc' \in [Procs -> Place] /\ proc'[p].at = "register" /\ proc'[p].obj = f /\ proc'[p].worker = w
          /\ \A q \in Procs \ {p} : proc'[q] = proc[q]
      <3> DEFINE y == [proc[p] EXCEPT !.at = "register"]
                 x == [y EXCEPT !.obj = f]
      <3>1. y \in Place /\ y.at = "register" /\ y.worker = w
        BY <1>2, <2>5 DEF Place, Places, Starting
      <3>2. proc' = [proc EXCEPT ![p] = x]
        BY <2>4
      <3> HIDE DEF y
      <3>3. x \in Place /\ x.at = "register" /\ x.worker = w /\ x.obj = f
        BY <1>2, <2>1, <3>1 DEF Place
      <3> HIDE DEF x
      <3> QED BY <1>2, <3>2, <3>3
    <2>8. TypeOK'
      BY <1>1, <1>4, <2>6, <2>7, FleetParts, TypedOn
    <2>9. Opening' <=> Opening
      BY <1>1, <2>7, ProcsFinite DEF Opening, Starting
    <2>10. FirstAlone'
      BY <1>1, <1>3, <2>1, <2>6, <2>7, <2>9, FleetParts, ProcsFinite DEF FirstAlone, Procs
    <2>11. ~Opening => browser = "live"
      BY <1>1, <1>4 DEF Attaches, Opening, Starting
    <2>12. ~Opening => Holds(w) /\ \A v \in Workers : Holds(v)' => Holds(v)
      <3>1. ASSUME ~Opening PROVE Holds(w)
        BY <1>1, <2>11, <3>1 DEF Holds, Launching, w
      <3>2. ASSUME ~Opening, NEW v \in Workers, Holds(v)' PROVE Holds(v)
        <4>1. Beating(v)' => Beating(v) \/ v = w
          BY <2>6 DEF Beating
        <4>2. Ending(v)' => Ending(v)
          BY <1>1 DEF Ending
        <4>3. Launched(v)' => Launched(v) \/ v = w
          BY <2>7 DEF Launched, At
        <4>4. Launching(v)' => Launching(v)
          BY <2>7 DEF Launching, At
        <4> QED BY <2>11, <3>1, <3>2, <4>1, <4>2, <4>3, <4>4 DEF Holds
      <3> QED BY <3>1, <3>2
    <2>13. Fenced'
      BY <1>1, <2>9, <2>12, FleetParts DEF Fenced
    <2>14. LateOnes'
      <3>1. CASE Opening
        BY <2>9, <2>10, <3>1 DEF FirstAlone, LateOnes
      <3>2. CASE ~Opening
        <4>1. \A o \in 1 .. MaxStarts : objs'[o].late => objs[o].late
          BY <2>1, <2>6
        <4>2. ~objs[f].late
          BY <2>1, <2>2, <2>12, <3>2, FleetParts DEF LateOnes
        <4> SUFFICES ASSUME NEW o \in 1 .. MaxStarts, objs'[o].late
                     PROVE  /\ browser' # "live" \/ Ending(objs[o].worker)'
                            /\ \A v \in Workers : Holds(v)' => v = objs'[o].worker
          BY DEF LateOnes
        <4>3. o # f /\ objs'[o] = objs[o] /\ objs[o].late
          BY <2>6, <4>1, <4>2
        <4>4. Ending(objs[o].worker) /\ \A v \in Workers : Holds(v) => v = objs[o].worker
          BY <2>11, <3>2, <4>3, FleetParts DEF LateOnes
        <4>5. Ending(objs[o].worker)'
          BY <1>1, <4>3, <4>4 DEF Ending
        <4> QED BY <2>12, <3>2, <4>3, <4>4, <4>5
      <3> QED BY <3>1, <3>2
    <2>15. Released'
      <3>1. CASE Opening
        BY <2>9, <2>10, <3>1 DEF FirstAlone, Released
      <3>2. CASE ~Opening
        BY <1>1, <2>11, <3>2, FleetParts DEF Released
      <3> QED BY <3>1, <3>2
    <2>16. Served'
      <3> SUFFICES ASSUME NEW v \in Workers, sess'[v] # 0
                   PROVE  objs'[sess'[v]].worker = v /\ (objs'[sess'[v]].beats \/ Ending(v)')
        BY DEF Served
      <3>1. sess[v] # 0 /\ sess[v] \in 1 .. MaxStarts /\ sess' = sess
        BY <1>1, FleetParts
      <3>2. objs[sess[v]].worker = v /\ (objs[sess[v]].beats \/ Ending(v)) /\ v # "none"
        BY <3>1, FleetParts DEF Served
      <3>3. sess[v] # f
        BY <2>1, <3>2
      <3> QED BY <1>1, <2>6, <3>1, <3>2, <3>3 DEF Ending
    <2>17. Attached'
      <3> SUFFICES ASSUME NEW q \in Procs, proc'[q].at \in {"register", "record"}
                   PROVE  proc'[q].obj # 0 /\ objs'[proc'[q].obj].worker = proc'[q].worker
        BY DEF Attached, At
      <3>1. CASE q = p
        BY <2>1, <2>6, <2>7, <3>1
      <3>2. CASE q # p
        <4>1. proc'[q] = proc[q] /\ proc[q] \in Place
          BY <1>2, <2>7, <3>2
        <4>2. proc[q].obj # 0 /\ objs[proc[q].obj].worker = proc[q].worker /\ proc[q].worker \in Workers
          BY <4>1, FleetParts DEF Attached, At, Based
        <4>3. proc[q].obj \in 1 .. MaxStarts /\ proc[q].obj # f
          BY <1>2, <2>1, <4>1, <4>2, FleetParts DEF Place
        <4> QED BY <2>6, <4>1, <4>2, <4>3
      <3> QED BY <3>1, <3>2
    <2>18. Based'
      BY <2>2, <2>7, FleetParts DEF Based, At
    <2>19. Numbered'
      <3>1. PICK k \in 0 .. MaxStarts : Used = 1 .. k /\ f = k + 1 /\ k + Cardinality(Reserving) =< MaxStarts
        BY <2>1
      <3>2. Used' = Used \cup {f}
        BY <2>1, <2>2, <2>6 DEF Used
      <3>3. Used' = 1 .. (k + 1) /\ k + 1 \in 0 .. MaxStarts
        BY <1>2, <2>1, <3>1, <3>2
      <3>4. Reserving' = Reserving \ {p} /\ p \in Reserving
        BY <1>1, <2>7 DEF Reserving
      <3>5. Reserving \in SUBSET Procs
        BY DEF Reserving
      <3>6. IsFiniteSet(Reserving) /\ Cardinality(Reserving) \in Nat
        BY <3>5, ProcsFinite
      <3>7. Cardinality(Reserving \ {p}) = Cardinality(Reserving) - 1
        BY <3>4, <3>6, FS_RemoveElement
      <3>8. k + 1 + Cardinality(Reserving)' =< MaxStarts
        BY <1>2, <3>1, <3>4, <3>6, <3>7
      <3> QED BY <3>3, <3>8 DEF Numbered
    <2> QED BY <2>8, <2>10, <2>13, <2>14, <2>15, <2>16, <2>17, <2>18, <2>19 DEF FleetInv
  <1>5. ASSUME browser' \in {browser} \cup (IF p = First THEN {"live"} ELSE {}),
               lease' = lease \ {At(p)}, Goes(p, "giveback"), UNCHANGED objs
        PROVE  FleetInv'
    <2>1. /\ proc' \in [Procs -> Place] /\ proc'[p].at = "giveback" /\ proc'[p].worker = proc[p].worker
          /\ \A q \in Procs \ {p} : proc'[q] = proc[q]
      BY <1>2, <1>5, Moved DEF Places, Undoing
    <2>2. browser' = browser \/ (browser' = "live" /\ p = First)
      BY <1>5
    <2>3. p = First => Opening'
      BY <2>1 DEF Opening, Undoing
    <2>4. browser' \in {"none", "live", "released"} /\ lease' \subseteq Workers
      BY <1>5, <2>2, FleetParts
    <2>5. TypeOK'
      BY <1>1, <1>5, <2>1, <2>4, FleetParts, TypedOn
    <2> QED BY <1>1, <1>2, <1>3, <1>5, <2>1, <2>2, <2>3, <2>5, ProcOnly DEF Starting, Undoing, SameObjects
  <1> QED BY <1>4, <1>5 DEF Launch

\* What a row says of its worker.
LEMMA ActiveRow ==
  ASSUME NEW w \in Workers
  PROVE  /\ Active(w) \in [status : {"none", "active", "ended"}, worker : Workers \cup {"none"}, leased : BOOLEAN]
         /\ Active(w).worker = w /\ Active(w).leased
  <1>1. PICK yes \in BOOLEAN : yes = TRUE
    OBVIOUS
  <1>2. Active(w) = [status |-> "active", worker |-> w, leased |-> yes]
    BY <1>1 DEF Active
  <1> QED BY <1>1, <1>2

\* The start is over: its worker serves the demo.
LEMMA RecordOK ==
  ASSUME FleetInv, NEW p \in Procs, Record(p)
  PROVE  FleetInv'
  <1> DEFINE w == At(p)
             o == proc[p].obj
  <1>1. proc[p].at = "record" /\ UNCHANGED <<slot, browser, lease, ends, faults>>
    BY DEF Record
  <1>2. proc \in [Procs -> Place] /\ w = proc[p].worker /\ w \in Workers /\ objs \in Objs /\ proc[p] \in Place /\ MaxStarts \in Nat
    BY <1>1, FleetParts DEF Based, At
  <1>3. Opening => p = First
    BY <1>1, Alone
  <1>4. o \in 1 .. MaxStarts /\ objs[o].worker = w
    BY <1>1, <1>2, FleetParts DEF Attached, Place
  <1>5. CASE Goes(p, "discard") /\ UNCHANGED <<row, dir, sess, objs>>
    <2>1. /\ proc' \in [Procs -> Place] /\ proc'[p].at = "discard" /\ proc'[p].worker = proc[p].worker
          /\ \A q \in Procs \ {p} : proc'[q] = proc[q]
      BY <1>2, <1>5, Moved DEF Places, Undoing
    <2>2. TypeOK'
      BY <1>1, <1>5, <2>1, FleetParts, TypedOn
    <2> QED BY <1>1, <1>2, <1>3, <1>5, <2>1, <2>2, ProcOnly DEF Starting, Undoing, SameObjects
  <1>6. ASSUME row' = Active(w), sess' = [sess EXCEPT ![w] = o],
               objs' = [objs EXCEPT ![o].beats = TRUE],
               IF p = First THEN Goes(p, "served") /\ UNCHANGED dir ELSE Found(p, w, o) /\ dir' = Touched
        PROVE  FleetInv'
    <2> HIDE DEF w, o
    <2>1. /\ proc' \in [Procs -> Place] /\ \A q \in Procs \ {p} : proc'[q] = proc[q]
          /\ proc'[p] = Away \/ (proc'[p].at \in {"served", "open"} /\ proc'[p].worker = w)
      <3>1. CASE p = First
        BY <1>2, <1>6, <3>1, Moved DEF Places
      <3>2. CASE p # First
        <4>1. p \in Conns /\ o \in 0 .. MaxStarts /\ Found(p, w, o)
          BY <1>2, <1>4, <1>6, <3>2 DEF Procs
        <4> QED BY <1>2, <4>1, FoundOK
      <3> QED BY <3>1, <3>2
    <2>2. dir' \in [worker : Workers \cup {"none"}, fresh : BOOLEAN]
      BY <1>6, FleetParts, TouchedOK
    <2>3. /\ objs' \in Objs /\ objs'[o].worker = w /\ objs'[o].beats
          /\ \A i \in 1 .. MaxStarts : objs'[i].worker = objs[i].worker /\ objs'[i].late = objs[i].late /\ (objs[i].beats => objs'[i].beats)
          /\ \A i \in 1 .. MaxStarts : i # o => objs'[i] = objs[i]
      <3>1. PICK yes \in BOOLEAN : yes = TRUE
        OBVIOUS
      <3> DEFINE x == [objs[o] EXCEPT !.beats = yes]
      <3>2. x \in Object /\ x.worker = objs[o].worker /\ x.beats /\ x.late = objs[o].late
        BY <1>2, <1>4, <3>1 DEF Objs, Object
      <3>3. objs' = [objs EXCEPT ![o] = x]
        BY <1>6, <3>1
      <3> HIDE DEF x
      <3> QED BY <1>2, <1>4, <3>2, <3>3 DEF Objs
    <2>4. sess' \in [Workers -> 0 .. MaxStarts] /\ sess'[w] = o /\ \A v \in Workers : v # w => sess'[v] = sess[v]
      BY <1>2, <1>4, <1>6, FleetParts
    <2>5. row' \in [status : {"none", "active", "ended"}, worker : Workers \cup {"none"}, leased : BOOLEAN] /\ row'.worker = w /\ row'.leased
      BY <1>2, <1>6, ActiveRow
    <2>6. TypeOK'
      BY <1>1, <2>1, <2>2, <2>3, <2>4, <2>5, FleetParts, TypedOn
    <2>7. ~Opening'
      BY <1>3, <2>1, AwayFields, ProcsFinite DEF Opening, Starting, Undoing
    <2>8. FirstAlone'
      BY <2>7 DEF FirstAlone
    <2>9. \A v \in Workers : Holds(v) => v = w
      <3>1. CASE ~Opening
        <4>1. Holds(w)
          BY <1>1, <1>2 DEF Holds, Launched, w
        <4> QED BY <1>2, <3>1, <4>1, FleetParts DEF Fenced
      <3>2. CASE Opening
        <4>1. \A q \in Procs : proc[q].at \in Starting => q = p
          BY <1>3, <3>2, FleetParts DEF FirstAlone, Procs, Starting
        <4> QED BY <3>2, <4>1, FleetParts DEF FirstAlone, Holds, Beating, Ending, Launched, Launching, Starting, w
      <3> QED BY <3>1, <3>2
    <2>10. \A v \in Workers : Holds(v)' => v = w
      <3> SUFFICES ASSUME NEW v \in Workers, Holds(v)', v # w PROVE FALSE
        OBVIOUS
      <3>1. Beating(v)' => Beating(v)
        BY <1>4, <2>3 DEF Beating
      <3>2. Ending(v)' => Ending(v)
        BY <1>1 DEF Ending
      <3>3. Launched(v)' => Launched(v)
        BY <2>1, AwayFields DEF Launched, At
      <3>4. Launching(v)' => Launching(v)
        BY <2>1, AwayFields DEF Launching, At
      <3> QED BY <1>1, <2>9, <3>1, <3>2, <3>3, <3>4 DEF Holds
    <2>11. Fenced'
      BY <2>5, <2>10 DEF Fenced
    <2>12. LateOnes'
      <3> SUFFICES ASSUME NEW i \in 1 .. MaxStarts, objs'[i].late
                   PROVE  /\ browser' # "live" \/ Ending(objs[i].worker)'
                          /\ \A v \in Workers : Holds(v)' => v = objs'[i].worker
        BY <2>3 DEF LateOnes
      <3>1. objs[i].late /\ objs'[i].worker = objs[i].worker /\ ~Opening
        BY <2>3, FleetParts DEF FirstAlone
      <3>2. Holds(w)
        BY <1>1, <1>2 DEF Holds, Launched, w
      <3>3. w = objs[i].worker /\ (browser # "live" \/ Ending(objs[i].worker))
        BY <1>2, <3>1, <3>2, FleetParts DEF LateOnes
      <3> QED BY <1>1, <2>10, <3>1, <3>3 DEF Ending
    <2>13. Released'
      BY <1>1, FleetParts DEF Released
    <2>14. Served'
      <3> SUFFICES ASSUME NEW v \in Workers, sess'[v] # 0
                   PROVE  objs'[sess'[v]].worker = v /\ (objs'[sess'[v]].beats \/ Ending(v)')
        BY DEF Served
      <3>1. CASE v = w
        BY <2>3, <2>4, <3>1
      <3>2. CASE v # w
        <4>1. sess'[v] = sess[v] /\ sess[v] \in 1 .. MaxStarts
          BY <2>4, <3>2, FleetParts
        <4>2. objs[sess[v]].worker = v /\ (objs[sess[v]].beats \/ Ending(v))
          BY <4>1, FleetParts DEF Served
        <4> QED BY <1>1, <2>3, <4>1, <4>2 DEF Ending
      <3> QED BY <3>1, <3>2
    <2>15. Attached'
      <3> SUFFICES ASSUME NEW q \in Procs, proc'[q].at \in {"register", "record"}
                   PROVE  proc'[q].obj # 0 /\ objs'[proc'[q].obj].worker = proc'[q].worker
        BY DEF Attached, At
      <3>1. q # p /\ proc'[q] = proc[q] /\ proc[q] \in Place
        BY <1>2, <2>1, AwayFields
      <3>2. proc[q].obj # 0 /\ objs[proc[q].obj].worker = proc[q].worker
        BY <3>1, FleetParts DEF Attached, At
      <3>3. proc[q].obj \in 1 .. MaxStarts
        BY <1>2, <3>1, <3>2 DEF Place
      <3> QED BY <2>3, <3>1, <3>2, <3>3
    <2>16. Based'
      BY <1>2, <2>1, AwayFields, FleetParts DEF Based, At
    <2>17. Numbered'
      <3>1. Used' = Used
        BY <2>3 DEF Used
      <3>2. Reserving' \subseteq Reserving
        BY <2>1, AwayFields DEF Reserving
      <3> QED BY <3>1, <3>2, FleetParts, NumberedOn
    <2> QED BY <2>6, <2>8, <2>11, <2>12, <2>13, <2>14, <2>15, <2>16, <2>17 DEF FleetInv
  <1> QED BY <1>5, <1>6 DEF Record

\* A worker takes the demo over: nobody else holds it.
LEMMA ClaimOK ==
  ASSUME FleetInv, NEW c \in Conns, Claim(c)
  PROVE  FleetInv'
  <1> DEFINE w == At(c)
  <1>1. proc[c].at = "claim" /\ UNCHANGED <<dir, slot, browser, sess, lease, objs, ends, faults>>
    BY DEF Claim, Local
  <1>2. proc \in [Procs -> Place] /\ c \in Procs /\ c # First /\ w = proc[c].worker /\ w \in Workers /\ MaxStarts \in Nat
    BY <1>1, FleetParts, ProcsFinite DEF Based, At, Procs
  <1>3. ~Opening
    BY <1>1, <1>2, Alone
  <1>4. CASE Leaves(c) /\ UNCHANGED row
    <2>1. proc' \in [Procs -> Place] /\ proc'[c] = Away /\ \A q \in Procs \ {c} : proc'[q] = proc[q]
      BY <1>2, <1>4, Moved
    <2>2. TypeOK'
      BY <1>1, <1>4, <2>1, FleetParts, TypedOn
    <2> QED BY <1>1, <1>2, <1>3, <1>4, <2>1, <2>2, AwayFields, ProcOnly DEF Starting, Undoing, SameObjects
  <1>5. CASE Claimable(w) /\ Fresh + Cardinality(Reserving) =< MaxStarts /\ row' = Active(w) /\ Goes(c, "reserve")
    <2> HIDE DEF w
    <2>1. /\ proc' \in [Procs -> Place] /\ proc'[c].at = "reserve" /\ proc'[c].worker = w
          /\ \A q \in Procs \ {c} : proc'[q] = proc[q]
      BY <1>2, <1>5, Moved DEF Places, Starting
    <2>2. row' \in [status : {"none", "active", "ended"}, worker : Workers \cup {"none"}, leased : BOOLEAN] /\ row'.worker = w /\ row'.leased
      BY <1>2, <1>5, ActiveRow
    <2>3. TypeOK'
      BY <1>1, <2>1, <2>2, FleetParts, TypedOn
    <2>4. ~Opening'
      BY <1>2, <1>3, <2>1, ProcsFinite DEF Opening
    <2>5. \A v \in Workers : Holds(v) => v = w
      BY <1>3, <1>5, FleetParts DEF Fenced, Claimable
    <2>6. \A v \in Workers : Holds(v)' => v = w
      <3> SUFFICES ASSUME NEW v \in Workers, Holds(v)', v # w PROVE FALSE
        OBVIOUS
      <3>1. (Beating(v)' => Beating(v)) /\ (Ending(v)' => Ending(v))
        BY <1>1 DEF Beating, Ending
      <3>2. Launched(v)' => Launched(v)
        BY <2>1 DEF Launched, At
      <3>3. Launching(v)' => Launching(v)
        BY <2>1 DEF Launching, At
      <3> QED BY <1>1, <2>5, <3>1, <3>2, <3>3 DEF Holds
    <2>7. FirstAlone' /\ Fenced'
      BY <2>2, <2>4, <2>6 DEF FirstAlone, Fenced
    <2>8. LateOnes'
      <3> SUFFICES ASSUME NEW i \in 1 .. MaxStarts, objs[i].late
                   PROVE  /\ browser # "live" \/ Ending(objs[i].worker)'
                          /\ \A v \in Workers : Holds(v)' => v = objs[i].worker
        BY <1>1 DEF LateOnes
      <3>1. /\ browser # "live" \/ Ending(objs[i].worker)
            /\ \A v \in Workers : Holds(v) => v = objs[i].worker
        BY FleetParts DEF LateOnes
      <3>2. Ending(objs[i].worker) => objs[i].worker = w
        <4>1. Ending(objs[i].worker) => objs[i].worker \in Workers
          BY FleetParts DEF Ending
        <4> QED BY <2>5, <4>1 DEF Holds
      <3>3. CASE browser = "live"
        BY <1>1, <2>6, <3>1, <3>2, <3>3 DEF Ending
      <3>4. CASE browser # "live"
        <4>1. \A v \in Workers : Holds(v)' => Holds(v)
          <5>1. \A v \in Workers : (Beating(v)' => Beating(v)) /\ (Ending(v)' => Ending(v))
            BY <1>1 DEF Beating, Ending
          <5>2. \A v \in Workers : Launched(v)' => Launched(v)
            BY <2>1 DEF Launched, At
          <5> QED BY <1>1, <3>4, <5>1, <5>2 DEF Holds
        <4> QED BY <3>1, <3>4, <4>1
      <3> QED BY <3>3, <3>4
    <2>9. Released' /\ Served'
      BY <1>1, FleetParts DEF Released, Served, Ending
    <2>10. Attached'
      BY <1>1, <2>1, FleetParts DEF Attached, At
    <2>11. Based'
      BY <1>2, <2>1, FleetParts DEF Based, At
    <2>12. Numbered'
      <3>1. PICK k \in 0 .. MaxStarts : Used = 1 .. k /\ k + Cardinality(Reserving) =< MaxStarts
        BY FleetParts DEF Numbered
      <3>2. Cardinality(1 .. k) = k
        BY <1>2, <3>1, FS_Interval, Z3
      <3>3. Fresh = k + 1
        BY <3>1, <3>2 DEF Fresh
      <3>4. Reserving \in SUBSET Procs
        BY DEF Reserving
      <3>5. IsFiniteSet(Reserving) /\ Cardinality(Reserving) \in Nat
        BY <3>4, ProcsFinite
      <3>6. Reserving' = Reserving \cup {c} /\ c \notin Reserving
        BY <1>1, <1>2, <2>1 DEF Reserving
      <3>7. Cardinality(Reserving \cup {c}) = Cardinality(Reserving) + 1
        BY <3>5, <3>6, FS_AddElement
      <3>8. k + Cardinality(Reserving)' =< MaxStarts
        BY <1>2, <1>5, <3>1, <3>3, <3>5, <3>6, <3>7
      <3>9. Used' = 1 .. k
        BY <1>1, <3>1 DEF Used
      <3> QED BY <3>8, <3>9 DEF Numbered
    <2> QED BY <2>3, <2>7, <2>8, <2>9, <2>10, <2>11, <2>12 DEF FleetInv
  <1> QED BY <1>4, <1>5 DEF Claim, Reserving

-----------------------------------------------------------------------------
(* Heartbeats, ends and faults *)

\* A checkpoint writes the row of a worker, and nobody else holds the demo.
LEMMA CheckpointOK ==
  ASSUME FleetInv, NEW o \in Used, Checkpoint(o)
  PROVE  FleetInv'
  <1> DEFINE w == objs[o].worker
  <1>1. /\ UNCHANGED <<slot, browser, sess, lease, proc, ends, faults>>
        /\ objs[o].beats \/ objs[o].late
        /\ row' = Active(w) /\ dir' \in {Touched, dir}
    BY DEF Checkpoint
  <1>2. o \in 1 .. MaxStarts /\ objs \in Objs /\ objs[o] \in Object /\ w \in Workers
    BY FleetParts DEF Used, Objs, Object
  <1>3. PICK no \in BOOLEAN : no = FALSE
    OBVIOUS
  <1> DEFINE x == [objs[o] EXCEPT !.late = no]
  <1>4. objs' = [objs EXCEPT ![o] = x]
    BY <1>3 DEF Checkpoint
  <1>5. x \in Object /\ x.worker = w /\ x.beats = objs[o].beats /\ ~x.late
    BY <1>2, <1>3 DEF Object
  <1> HIDE DEF x
  <1>6. /\ objs' \in Objs
        /\ \A i \in 1 .. MaxStarts : objs'[i].worker = objs[i].worker /\ objs'[i].beats = objs[i].beats /\ (objs'[i].late => objs[i].late)
    BY <1>2, <1>4, <1>5 DEF Objs
  <1>7. ~Opening /\ Opening' = Opening
    BY <1>1, <1>2, FleetParts DEF FirstAlone, Opening
  <1>8. \A v \in Workers : Holds(v) => v = w
    <2>1. objs[o].beats => Holds(w)
      BY <1>2 DEF Holds, Beating
    <2> QED BY <1>1, <1>2, <1>7, <2>1, FleetParts DEF Fenced, LateOnes
  <1>9. \A v \in Workers : Holds(v)' => Holds(v)
    BY <1>1, <1>6 DEF Holds, Beating, Ending, Launched, Launching, At
  <1>10. row' \in [status : {"none", "active", "ended"}, worker : Workers \cup {"none"}, leased : BOOLEAN] /\ row'.worker = w /\ row'.leased
    BY <1>1, <1>2, ActiveRow
  <1>11. TypeOK'
    BY <1>1, <1>6, <1>10, FleetParts, TouchedOK, TypedOn
  <1>12. FirstAlone' /\ Fenced'
    BY <1>7, <1>8, <1>9, <1>10 DEF FirstAlone, Fenced
  <1>13. LateOnes'
    BY <1>1, <1>6, <1>9, FleetParts DEF LateOnes, Ending
  <1>14. Released' /\ Based'
    BY <1>1, FleetParts DEF Released, Based, At
  <1>15. Served'
    BY <1>1, <1>6, FleetParts DEF Served, Ending
  <1>16. Attached'
    BY <1>1, <1>6, FleetParts DEF Attached, At, Place
  <1>17. Numbered'
    <2>1. Used' = Used /\ Reserving' = Reserving
      BY <1>1, <1>6 DEF Used, Reserving
    <2> QED BY <2>1, FleetParts, NumberedOn
  <1> QED BY <1>11, <1>12, <1>13, <1>14, <1>15, <1>16, <1>17 DEF FleetInv

\* The end of a session, whoever asked for it: its worker holds the demo.
LEMMA EndsOK ==
  ASSUME FleetInv, NEW by \in Callers, NEW w \in Workers, Ends(by, w), NEW late \in BOOLEAN,
         NEW os \in Objs, \A o \in 1 .. MaxStarts : os[o].worker = objs[o].worker /\ os[o].beats = objs[o].beats /\ os[o].late = objs[o].late,
         objs' = Stilled(w, os, late), UNCHANGED <<Shared, sess, proc, faults>>, lease' \subseteq lease
  PROVE  FleetInv'
  <1> DEFINE s == sess[w]
  <1>1. UNCHANGED <<row, dir, slot, browser, sess, proc, faults>> /\ s \in 0 .. MaxStarts /\ objs \in Objs
    BY FleetParts DEF Shared
  <1>2. /\ objs' \in Objs
        /\ \A o \in 1 .. MaxStarts : /\ objs'[o].worker = objs[o].worker /\ (objs'[o].beats => objs[o].beats)
                                     /\ o # s => objs'[o].beats = objs[o].beats /\ objs'[o].late = objs[o].late
    <2>1. /\ Stilled(w, os, late) \in Objs
          /\ \A o \in 1 .. MaxStarts :
              /\ Stilled(w, os, late)[o].worker = os[o].worker
              /\ Stilled(w, os, late)[o].beats => os[o].beats
              /\ o # sess[w] => Stilled(w, os, late)[o] = os[o]
      <3>1. sess \in [Workers -> 0 .. MaxStarts]
        BY FleetParts
      <3> QED BY <3>1, StilledOK, Zenon
    <2> QED BY <2>1
  <1>3. /\ s = 0 => ends' = ends /\ SameObjects
        /\ s # 0 => \E e \in [by : Callers, worker : Workers, obj : 1 .. MaxStarts, at : {"finish", "stop"}] : e.worker = w /\ ends' = ends \cup {e}
    <2>1. CASE s = 0
      <3>1. objs' = os
        BY <2>1 DEF Stilled
      <3> QED BY <2>1, <3>1 DEF Ends, SameObjects
    <2>2. CASE s # 0
      <3> DEFINE e == [by |-> by, worker |-> w, obj |-> sess[w], at |-> IF objs[sess[w]].final THEN "stop" ELSE "finish"]
      <3>1. e \in [by : Callers, worker : Workers, obj : 1 .. MaxStarts, at : {"finish", "stop"}] /\ e.worker = w
        BY <1>1, <2>2
      <3>2. ends' = ends \cup {e}
        BY <2>2 DEF Ends
      <3> QED BY <2>2, <3>1, <3>2
    <2> QED BY <2>1, <2>2
  <1>4. ends' \subseteq [by : Callers, worker : Workers, obj : 1 .. MaxStarts, at : {"finish", "stop", "remove"}]
    BY <1>3, FleetParts
  <1>5. TypeOK'
    BY <1>1, <1>2, <1>4, FleetParts, TypedOn
  <1>6. Numbered' /\ Based'
    <2>1. Used' = Used /\ Reserving' = Reserving
      BY <1>1, <1>2 DEF Used, Reserving
    <2> QED BY <1>1, <2>1, FleetParts, NumberedOn DEF Based, At
  <1>7. Attached'
    BY <1>1, <1>2, FleetParts DEF Attached, At, Place
  <1>8. \A v \in Workers : (Launched(v)' <=> Launched(v)) /\ (Launching(v)' <=> Launching(v)) /\ (Beating(v)' => Beating(v))
    BY <1>1, <1>2 DEF Launched, Launching, Beating, At
  <1>9. CASE s = 0
    <2>1. \A v \in Workers : Holds(v)' => Holds(v)
      BY <1>1, <1>3, <1>8, <1>9 DEF Holds, Ending
    <2>2. FirstAlone' /\ Fenced'
      BY <1>1, <1>3, <1>9, <2>1, FleetParts DEF FirstAlone, Fenced, Opening, SameObjects
    <2>3. LateOnes'
      BY <1>1, <1>3, <1>9, <2>1, FleetParts DEF LateOnes, Ending, SameObjects
    <2>4. Released' /\ Served'
      BY <1>1, <1>3, <1>9, FleetParts DEF Released, Served, Ending, SameObjects
    <2> QED BY <1>5, <1>6, <1>7, <2>2, <2>3, <2>4 DEF FleetInv
  <1>10. CASE s # 0
    <2>1. s \in 1 .. MaxStarts /\ objs[s].worker = w /\ Holds(w) /\ ~Opening
      BY <1>1, <1>10, FleetParts DEF Served, Holds, Beating, FirstAlone
    <2>2. PICK e \in [by : Callers, worker : Workers, obj : 1 .. MaxStarts, at : {"finish", "stop"}] : e.worker = w /\ ends' = ends \cup {e}
      BY <1>3, <1>10
    <2>3. Ending(w)' /\ \A v \in Workers : (Ending(v) => Ending(v)') /\ (Ending(v)' => Ending(v) \/ v = w)
      BY <2>2 DEF Ending
    <2>4. \A v \in Workers : Holds(v) => v = w
      BY <2>1, FleetParts DEF Fenced
    <2>5. \A v \in Workers : Holds(v)' => v = w
      BY <1>1, <1>8, <2>3, <2>4 DEF Holds
    <2>6. FirstAlone' /\ Fenced'
      <3>1. ~Opening'
        BY <1>1, <2>1 DEF Opening
      <3>2. row'.worker = w /\ row'.leased
        BY <1>1, <2>1, FleetParts DEF Fenced
      <3> QED BY <2>5, <3>1, <3>2 DEF FirstAlone, Fenced
    <2>7. LateOnes'
      <3> SUFFICES ASSUME NEW i \in 1 .. MaxStarts, objs'[i].late
                   PROVE  /\ browser' # "live" \/ Ending(objs[i].worker)'
                          /\ \A v \in Workers : Holds(v)' => v = objs'[i].worker
        BY <1>2 DEF LateOnes
      <3>1. CASE i = s
        BY <1>2, <2>1, <2>3, <2>5, <3>1
      <3>2. CASE i # s
        <4>1. objs[i].late /\ objs'[i].worker = objs[i].worker
          BY <1>2, <3>2
        <4>2. w = objs[i].worker
          BY <2>1, <4>1, FleetParts DEF LateOnes
        <4> QED BY <2>3, <2>5, <4>1, <4>2
      <3> QED BY <3>1, <3>2
    <2>8. Released'
      BY <1>1, <2>2, FleetParts DEF Released
    <2>9. Served'
      <3> SUFFICES ASSUME NEW v \in Workers, sess[v] # 0
                   PROVE  objs'[sess[v]].worker = v /\ (objs'[sess[v]].beats \/ Ending(v)')
        BY <1>1 DEF Served
      <3>1. sess[v] \in 1 .. MaxStarts /\ objs[sess[v]].worker = v /\ (objs[sess[v]].beats \/ Ending(v))
        BY FleetParts DEF Served
      <3> QED BY <1>2, <2>1, <2>3, <3>1
    <2> QED BY <1>5, <1>6, <1>7, <2>6, <2>7, <2>8, <2>9 DEF FleetInv
  <1> QED BY <1>9, <1>10

\* The grace period, the reaper and a person all call endSession.
LEMMA EndingsOK ==
  ASSUME FleetInv, (\E o \in Used : GraceEnds(o)) \/ (\E w \in Workers : Reap(w) \/ Dismiss(w))
  PROVE  FleetInv'
  <1>1. ASSUME NEW o \in Used, GraceEnds(o) PROVE FleetInv'
    <2>1. o \in 1 .. MaxStarts /\ o \in Nat /\ objs[o].worker \in Workers /\ objs \in Objs
      BY FleetParts DEF Used, Objs, Object
    <2>2. PICK no \in BOOLEAN : no = FALSE
      OBVIOUS
    <2> DEFINE os == [objs EXCEPT ![o].timer = no]
    <2>3. PICK late \in BOOLEAN : objs' = Stilled(objs[o].worker, os, late)
      BY <1>1, <2>2 DEF GraceEnds
    <2>4. os \in Objs /\ \A i \in 1 .. MaxStarts : os[i].worker = objs[i].worker /\ os[i].beats = objs[i].beats /\ os[i].late = objs[i].late
      <3> DEFINE x == [objs[o] EXCEPT !.timer = no]
      <3>1. x \in Object /\ x.worker = objs[o].worker /\ x.beats = objs[o].beats /\ x.late = objs[o].late
        BY <2>1 DEF Objs, Object
      <3>2. os = [objs EXCEPT ![o] = x]
        OBVIOUS
      <3> HIDE DEF x
      <3> QED BY <2>1, <3>1, <3>2 DEF Objs
    <2>5. Ends("grace", objs[o].worker) /\ UNCHANGED <<Shared, sess, lease, proc, faults>>
      BY <1>1 DEF GraceEnds
    <2> HIDE DEF os
    <2> QED BY <2>1, <2>3, <2>4, <2>5, FleetAssumption, EndsOK
  <1>2. ASSUME NEW w \in Workers, Reap(w) \/ Dismiss(w) PROVE FleetInv'
    <2>1. PICK late \in BOOLEAN : objs' = Stilled(w, objs, late)
      BY <1>2 DEF Reap, Dismiss
    <2>2. UNCHANGED <<Shared, sess, proc, faults>> /\ lease' \subseteq lease
      BY <1>2 DEF Reap, Dismiss
    <2>3. \E by \in Callers : Ends(by, w)
      BY <1>2 DEF Reap, Dismiss
    <2>4. objs \in Objs
      BY FleetParts
    <2> QED BY <2>1, <2>2, <2>3, <2>4, EndsOK
  <1> QED BY <1>1, <1>2

\* The teardown keeps the row until its worker forgot the session.
LEMMA TearDownOK ==
  ASSUME FleetInv, NEW e \in ends, TearDown(e)
  PROVE  FleetInv'
  <1> DEFINE w == e.worker
             Ended == [by : Callers, worker : Workers, obj : 1 .. MaxStarts, at : {"finish", "stop", "remove"}]
  <1>1. e \in Ended /\ w \in Workers /\ ends \subseteq Ended /\ UNCHANGED <<objs, proc, faults>>
    BY FleetParts DEF TearDown
  <1>2. ~Opening /\ ~Opening'
    BY <1>1, FleetParts DEF FirstAlone, Opening
  <1>3. \A v \in Workers : Holds(v) => v = w
    BY <1>1, <1>2, FleetParts DEF Fenced, Holds, Ending
  <1>4. row.worker = w /\ row.leased
    BY <1>1, <1>2, FleetParts DEF Fenced, Holds, Ending
  <1>5. Numbered' /\ Attached' /\ Based'
    <2>1. Used' = Used /\ Reserving' = Reserving
      BY <1>1 DEF Used, Reserving
    <2> QED BY <1>1, <2>1, FleetParts, NumberedOn DEF Attached, Based, At
  <1>6. ASSUME NEW at \in {"stop", "remove"}, ends' = (ends \ {e}) \cup {[e EXCEPT !.at = at]}
        PROVE  ends' \subseteq Ended /\ (\A v \in Workers : Ending(v)' <=> Ending(v)) /\ (at = "stop" => \A d \in ends' : d.at = "remove" => d \in ends)
    <2> DEFINE d == [e EXCEPT !.at = at]
    <2>1. d \in Ended /\ d.worker = w /\ d.at = at
      BY <1>1
    <2> HIDE DEF d
    <2>2. ends' = (ends \ {e}) \cup {d}
      BY <1>6 DEF d
    <2> QED BY <1>1, <2>1, <2>2 DEF Ending
  <1>7. ASSUME e.at = "finish", row' \in {[status |-> "ended", worker |-> w, leased |-> row.leased], row},
               ends' = (ends \ {e}) \cup {[e EXCEPT !.at = "stop"]}, UNCHANGED <<dir, slot, browser, sess, lease>>
        PROVE  FleetInv'
    <2>1. ends' \subseteq Ended /\ (\A v \in Workers : Ending(v)' <=> Ending(v)) /\ \A d \in ends' : d.at = "remove" => d \in ends
      BY <1>6, <1>7
    <2>2. row' \in [status : {"none", "active", "ended"}, worker : Workers \cup {"none"}, leased : BOOLEAN] /\ row'.worker = w /\ row'.leased
      <3>1. row.leased \in BOOLEAN /\ row \in [status : {"none", "active", "ended"}, worker : Workers \cup {"none"}, leased : BOOLEAN]
        BY FleetParts
      <3> DEFINE new == [status |-> "ended", worker |-> w, leased |-> row.leased]
      <3>2. new \in [status : {"none", "active", "ended"}, worker : Workers \cup {"none"}, leased : BOOLEAN] /\ new.worker = w /\ new.leased
        BY <1>1, <1>4, <3>1
      <3>3. row' = new \/ row' = row
        BY <1>7
      <3> HIDE DEF new
      <3> QED BY <1>4, <3>1, <3>2, <3>3
    <2>3. TypeOK'
      BY <1>1, <1>7, <2>1, <2>2, FleetParts, TypedOn
    <2>4. \A v \in Workers : Holds(v)' <=> Holds(v)
      BY <1>1, <1>7, <2>1 DEF Holds, Beating, Launched, Launching, At
    <2>5. FirstAlone' /\ Fenced'
      BY <1>2, <1>3, <2>2, <2>4 DEF FirstAlone, Fenced
    <2>6. LateOnes'
      <3> SUFFICES ASSUME NEW i \in 1 .. MaxStarts, objs[i].late
                   PROVE  (browser # "live" \/ Ending(objs[i].worker)') /\ \A v \in Workers : Holds(v)' => v = objs[i].worker
        BY <1>1, <1>7 DEF LateOnes
      <3>1. (browser # "live" \/ Ending(objs[i].worker)) /\ \A v \in Workers : Holds(v) => v = objs[i].worker
        BY FleetParts DEF LateOnes
      <3>2. Ending(objs[i].worker) => objs[i].worker \in Workers
        BY <1>1 DEF Ending
      <3> QED BY <1>1, <2>1, <2>4, <3>1, <3>2
    <2>7. Released'
      BY <1>7, <2>1, FleetParts DEF Released
    <2>8. Served'
      BY <1>1, <1>7, <2>1, FleetParts DEF Served
    <2> QED BY <1>5, <2>3, <2>5, <2>6, <2>7, <2>8 DEF FleetInv
  <1>8. ASSUME e.at = "stop", browser' = "released", ends' = (ends \ {e}) \cup {[e EXCEPT !.at = "remove"]},
               UNCHANGED <<row, dir, slot, sess, lease>>
        PROVE  FleetInv'
    <2>1. ends' \subseteq Ended /\ \A v \in Workers : Ending(v)' <=> Ending(v)
      BY <1>6, <1>8
    <2>2. TypeOK'
      BY <1>1, <1>8, <2>1, FleetParts, TypedOn
    <2>3. \A v \in Workers : Holds(v)' => Holds(v)
      BY <1>1, <1>8, <2>1 DEF Holds, Beating, Launched, Launching, At
    <2>4. FirstAlone' /\ Fenced'
      BY <1>2, <1>3, <1>4, <1>8, <2>3 DEF FirstAlone, Fenced
    <2>5. LateOnes' /\ Released'
      BY <1>1, <1>8, <2>3, FleetParts DEF LateOnes, Released
    <2>6. Served'
      BY <1>1, <1>8, <2>1, FleetParts DEF Served
    <2> QED BY <1>5, <2>2, <2>4, <2>5, <2>6 DEF FleetInv
  <1>9. ASSUME e.at = "remove", Remove(e), ends' = ends \ {e}, UNCHANGED <<row, browser>>
        PROVE  FleetInv'
    <2>1. browser # "live"
      BY <1>9, FleetParts DEF Released
    <2>2. dir' \in {Nowhere, dir} /\ sess' = [sess EXCEPT ![w] = 0] /\ lease' \subseteq lease /\ slot' = FALSE
      BY <1>9 DEF Remove, Forget
    <2>3. dir' \in [worker : Workers \cup {"none"}, fresh : BOOLEAN] /\ slot' \in BOOLEAN
      <3>1. PICK no \in BOOLEAN : no = FALSE
        OBVIOUS
      <3>2. Nowhere = [worker |-> "none", fresh |-> no]
        BY <3>1 DEF Nowhere
      <3>3. Nowhere \in [worker : Workers \cup {"none"}, fresh : BOOLEAN]
        BY <3>2
      <3>4. dir \in [worker : Workers \cup {"none"}, fresh : BOOLEAN]
        BY FleetParts
      <3> QED BY <2>2, <3>3, <3>4
    <2>4. sess' \in [Workers -> 0 .. MaxStarts] /\ sess'[w] = 0 /\ \A v \in Workers \ {w} : sess'[v] = sess[v]
      BY <1>1, <2>2, FleetParts
    <2>5. TypeOK'
      BY <1>1, <1>9, <2>2, <2>3, <2>4, FleetParts, TypedOn
    <2>6. \A v \in Workers : Holds(v)' => Holds(v)
      BY <1>1, <1>9 DEF Holds, Beating, Ending, Launched, Launching, At
    <2>7. FirstAlone' /\ Fenced'
      BY <1>2, <1>3, <1>4, <1>9, <2>6 DEF FirstAlone, Fenced
    <2>8. LateOnes' /\ Released'
      BY <1>1, <1>9, <2>1, <2>6, FleetParts DEF LateOnes, Released
    <2>9. Served'
      <3> SUFFICES ASSUME NEW v \in Workers, sess'[v] # 0 PROVE FALSE
        BY DEF Served
      <3>1. v # w /\ sess[v] # 0 /\ sess[v] \in 1 .. MaxStarts
        BY <2>4, FleetParts
      <3>2. Holds(v)
        BY <3>1, FleetParts DEF Served, Holds, Beating
      <3> QED BY <1>3, <3>1, <3>2
    <2> QED BY <1>5, <2>5, <2>7, <2>8, <2>9 DEF FleetInv
  <1> QED BY <1>7, <1>8, <1>9 DEF TearDown

\* A crash takes no demo to anybody else.
LEMMA CrashOK ==
  ASSUME FleetInv, NEW w \in Workers, Crash(w)
  PROVE  FleetInv'
  <1>1. /\ UNCHANGED <<row, dir, slot, browser>> /\ faults' \in 0 .. 1 /\ lease' \subseteq lease /\ ends' = {e \in ends : e.worker # w}
        /\ sess' = [sess EXCEPT ![w] = 0]
    <2>1. UNCHANGED <<row, dir, slot, browser>> /\ faults' = 1 /\ lease' = lease \ {w}
      BY DEF Crash, Shared
    <2>2. ends' = {e \in ends : e.worker # w} /\ sess' = [sess EXCEPT ![w] = 0]
      BY DEF Crash
    <2> QED BY <2>1, <2>2
  <1>2. sess' \in [Workers -> 0 .. MaxStarts] /\ sess'[w] = 0 /\ \A v \in Workers \ {w} : sess'[v] = sess[v]
    BY <1>1, FleetParts
  <1>3. /\ objs' \in Objs
        /\ \A o \in 1 .. MaxStarts : /\ objs'[o].worker = objs[o].worker
                                     /\ objs[o].worker # w => objs'[o] = objs[o]
                                     /\ objs[o].worker = w => ~objs'[o].beats /\ ~objs'[o].late
    <2>1. PICK no \in BOOLEAN : no = FALSE
      OBVIOUS
    <2> DEFINE Lost(o) == [worker |-> w, timer |-> no, beats |-> no, final |-> objs[o].final, late |-> no]
    <2>2. \A o : [Unused EXCEPT !.worker = w, !.final = objs[o].final] = Lost(o)
      <3> TAKE o
      <3> DEFINE f == objs[o].final
      <3> HIDE DEF f
      <3>1. Unused = [worker |-> "none", timer |-> no, beats |-> no, final |-> no, late |-> no]
        BY <2>1 DEF Unused
      <3>2. [Unused EXCEPT !.worker = w, !.final = f] = [worker |-> w, timer |-> no, beats |-> no, final |-> f, late |-> no]
        <4>1. [Unused EXCEPT !.worker = w] = [worker |-> w, timer |-> no, beats |-> no, final |-> no, late |-> no]
          BY <3>1
        <4> DEFINE u == [Unused EXCEPT !.worker = w]
        <4>2. [Unused EXCEPT !.worker = w, !.final = f] = [u EXCEPT !.final = f]
          OBVIOUS
        <4> HIDE DEF u
        <4>3. u = [worker |-> w, timer |-> no, beats |-> no, final |-> no, late |-> no]
          BY <4>1 DEF u
        <4> QED BY <4>2, <4>3
      <3> QED BY <3>2 DEF f
    <2>3. objs' = [o \in 1 .. MaxStarts |-> IF objs[o].worker = w THEN Lost(o) ELSE objs[o]]
      BY <2>2 DEF Crash
    <2>4. \A o \in 1 .. MaxStarts : Lost(o) \in Object /\ Lost(o).worker = w /\ ~Lost(o).beats /\ ~Lost(o).late
      BY <2>1, FleetParts DEF Objs, Object
    <2> HIDE DEF Lost
    <2> QED BY <2>3, <2>4, FleetParts DEF Objs
  <1>4. /\ proc' \in [Procs -> Place]
        /\ \A p \in Procs : /\ proc'[p] = proc[p] \/ proc'[p] = Away
                            /\ proc[p].worker = w /\ proc[p].at # "served" => proc'[p] = Away
    BY FleetParts, AwayFields DEF Crash, At
  <1>5. TypeOK'
    BY <1>1, <1>2, <1>3, <1>4, FleetParts, TypedOn
  <1>6. Opening' => Opening
    BY <1>4, ProcsFinite, AwayFields DEF Opening, Starting, Undoing
  <1>7. \A v \in Workers : Holds(v)' => Holds(v)
    <2>1. \A v \in Workers : (Beating(v)' => Beating(v)) /\ (Ending(v)' => Ending(v))
      BY <1>1, <1>3 DEF Beating, Ending
    <2>2. \A v \in Workers : (Launched(v)' => Launched(v)) /\ (Launching(v)' => Launching(v))
      BY <1>4, AwayFields DEF Launched, Launching, At
    <2> QED BY <1>1, <2>1, <2>2 DEF Holds
  <1>8. FirstAlone'
    <2> SUFFICES ASSUME Opening'
                 PROVE  /\ \A c \in Conns : proc'[c].at = "away"
                        /\ row' = NoRow /\ ends' = {} /\ \A v \in Workers : sess'[v] = 0
                        /\ \A o \in 1 .. MaxStarts : ~objs'[o].beats /\ ~objs'[o].late
      BY DEF FirstAlone
    <2>1. /\ \A c \in Conns : proc[c].at = "away"
          /\ row = NoRow /\ ends = {} /\ \A v \in Workers : sess[v] = 0
          /\ \A o \in 1 .. MaxStarts : ~objs[o].beats /\ ~objs[o].late
      BY <1>6, FleetParts DEF FirstAlone
    <2>2. \A c \in Conns : proc'[c].at = "away"
      BY <1>4, <2>1, AwayFields DEF Procs
    <2>3. \A v \in Workers : sess'[v] = 0
      BY <1>2, <2>1
    <2>4. \A o \in 1 .. MaxStarts : ~objs'[o].beats /\ ~objs'[o].late
      BY <1>3, <2>1
    <2> QED BY <1>1, <2>1, <2>2, <2>3, <2>4
  <1>9. Fenced'
    <2>1. CASE ~Opening
      BY <1>1, <1>7, <2>1, FleetParts DEF Fenced
    <2>2. CASE Opening
      <3> SUFFICES ASSUME ~Opening', NEW v \in Workers, Holds(v)' PROVE FALSE
        BY DEF Fenced
      <3>1. ~Beating(v)'
        BY <1>3, <2>2, FleetParts DEF Beating, FirstAlone
      <3>2. ~Ending(v)'
        BY <1>1, <2>2, FleetParts DEF Ending, FirstAlone
      <3>3. \A p \in Procs : proc'[p].at \notin Starting
        BY <1>4, <2>2, AwayFields, ProcsFinite, FleetParts DEF FirstAlone, Opening, Procs, Starting, Undoing
      <3> QED BY <3>1, <3>2, <3>3 DEF Holds, Launched, Launching, Starting
    <2> QED BY <2>1, <2>2
  <1>10. LateOnes'
    <2> SUFFICES ASSUME NEW i \in 1 .. MaxStarts, objs'[i].late
                 PROVE  (browser' # "live" \/ \E e \in ends' : e.worker = objs'[i].worker) /\ \A v \in Workers : Holds(v)' => v = objs'[i].worker
      BY DEF LateOnes, Ending
    <2>1. objs[i].worker # w /\ objs'[i] = objs[i]
      BY <1>3
    <2>2. (browser # "live" \/ Ending(objs[i].worker)) /\ \A v \in Workers : Holds(v) => v = objs[i].worker
      BY <2>1, FleetParts DEF LateOnes
    <2>3. Ending(objs[i].worker) => \E e \in ends' : e.worker = objs'[i].worker
      BY <1>1, <2>1 DEF Ending
    <2> QED BY <1>1, <1>7, <2>1, <2>2, <2>3
  <1>11. Released'
    BY <1>1, FleetParts DEF Released
  <1>12. Served'
    <2> SUFFICES ASSUME NEW v \in Workers, sess'[v] # 0
                 PROVE  objs'[sess'[v]].worker = v /\ (objs'[sess'[v]].beats \/ Ending(v)')
      BY DEF Served
    <2>1. v # w /\ sess'[v] = sess[v] /\ sess[v] \in 1 .. MaxStarts
      BY <1>2, FleetParts
    <2>2. objs[sess[v]].worker = v /\ (objs[sess[v]].beats \/ Ending(v))
      BY <2>1, FleetParts DEF Served
    <2>3. Ending(v) => Ending(v)'
      BY <1>1, <2>1 DEF Ending
    <2> QED BY <1>3, <2>1, <2>2, <2>3
  <1>13. Attached'
    <2> SUFFICES ASSUME NEW q \in Procs, proc'[q].at \in {"register", "record"}
                 PROVE  proc'[q].obj # 0 /\ objs'[proc'[q].obj].worker = proc'[q].worker
      BY DEF Attached, At
    <2>1. proc'[q] = proc[q] /\ proc[q] \in Place
      BY <1>4, AwayFields, FleetParts
    <2>2. proc[q].obj # 0 /\ objs[proc[q].obj].worker = proc[q].worker
      BY <2>1, FleetParts DEF Attached, At
    <2>3. proc[q].obj \in 1 .. MaxStarts
      BY <2>1, <2>2, FleetParts DEF Place
    <2> QED BY <1>3, <2>1, <2>2, <2>3
  <1>14. Based'
    BY <1>4, AwayFields, FleetParts DEF Based, At
  <1>15. Numbered'
    <2>1. Used' = Used
      BY <1>3 DEF Used
    <2>2. Reserving' \subseteq Reserving
      BY <1>4, AwayFields DEF Reserving
    <2> QED BY <2>1, <2>2, FleetParts, NumberedOn
  <1> QED BY <1>5, <1>8, <1>9, <1>10, <1>11, <1>12, <1>13, <1>14, <1>15 DEF FleetInv

\* A lease lapses only where nobody holds the demo.
LEMMA LapseOK ==
  ASSUME FleetInv, Lapse, "late" \notin Faults
  PROVE  FleetInv'
  <1>1. UNCHANGED <<sess, lease, objs, proc, ends, faults>>
    BY DEF Lapse, Local
  <1>2. /\ browser' \in {browser, "released"}
        /\ row' = row \/ (row.leased /\ ~Busy(row.worker) /\ row' = [row EXCEPT !.leased = FALSE])
        /\ dir' = dir \/ dir' = [dir EXCEPT !.fresh = FALSE]
        /\ slot' \in {slot, FALSE}
    BY DEF Lapse
  <1>3. PICK no \in BOOLEAN : no = FALSE
    OBVIOUS
  <1>4. /\ row' \in [status : {"none", "active", "ended"}, worker : Workers \cup {"none"}, leased : BOOLEAN]
        /\ dir' \in [worker : Workers \cup {"none"}, fresh : BOOLEAN] /\ slot' \in BOOLEAN
    BY <1>2, <1>3, FleetParts
  <1>5. TypeOK'
    BY <1>1, <1>2, <1>4, FleetParts, TypedOn
  <1>6. \A v \in Workers : Holds(v)' => Holds(v)
    BY <1>1, <1>2 DEF Holds, Beating, Ending, Launched, Launching, At
  <1>7. \A v \in Workers : Holds(v) => Busy(v)
    <2>1. \A v \in Workers : Beating(v) => Busy(v)
      BY FleetParts DEF Beating, Busy, Used
    <2>2. \A v \in Workers : Ending(v) \/ Launched(v) \/ Launching(v) => Busy(v)
      BY DEF Ending, Launched, Launching, Busy, Starting
    <2> QED BY <2>1, <2>2 DEF Holds
  <1>8. row' = row \/ (~Opening /\ \A v \in Workers : ~Holds(v))
    <2> SUFFICES ASSUME row.leased, ~Busy(row.worker) PROVE ~Opening /\ \A v \in Workers : ~Holds(v)
      BY <1>2
    <2>1. ~Opening
      BY FleetParts DEF FirstAlone, NoRow
    <2> QED BY <1>7, <2>1, FleetParts DEF Fenced
  <1>9. FirstAlone' /\ Fenced'
    <2>1. Opening' = Opening
      BY <1>1 DEF Opening
    <2> QED BY <1>1, <1>6, <1>8, <2>1, FleetParts DEF FirstAlone, Fenced
  <1>10. LateOnes' /\ Released'
    BY <1>1, <1>2, <1>6, FleetParts DEF LateOnes, Released, Ending
  <1>11. Served' /\ Attached' /\ Based'
    BY <1>1, FleetParts DEF Served, Attached, Based, At, Ending
  <1>12. Numbered'
    <2>1. Used' = Used /\ Reserving' = Reserving
      BY <1>1 DEF Used, Reserving
    <2> QED BY <2>1, FleetParts, NumberedOn
  <1> QED BY <1>5, <1>9, <1>10, <1>11, <1>12 DEF FleetInv

-----------------------------------------------------------------------------
\* The first state: one start, alone.
LEMMA FleetInit ==
  Init => FleetInv
  <1> SUFFICES ASSUME Init PROVE FleetInv
    OBVIOUS
  <1> DEFINE v == CHOOSE u \in Workers : TRUE
  <1>1. v \in Workers /\ "none" \notin Workers /\ MaxStarts \in Nat /\ MaxStarts >= 1
    BY FleetAssumption
  <1>2. PICK no \in BOOLEAN : no = FALSE
    OBVIOUS
  <1>3. /\ row = NoRow /\ dir = Nowhere /\ slot = no /\ browser = "none" /\ ends = {} /\ faults = 0 /\ lease = {}
        /\ sess = [u \in Workers |-> 0] /\ objs = [o \in 1 .. MaxStarts |-> Unused]
        /\ proc = [p \in Procs |-> IF p = First THEN [Away EXCEPT !.at = "reserve", !.worker = v] ELSE Away]
    BY <1>2 DEF Init, NothingYet
  <1> HIDE DEF v
  <1>4. NoRow = [status |-> "none", worker |-> "none", leased |-> no] /\ Nowhere = [worker |-> "none", fresh |-> no]
        /\ Unused = [worker |-> "none", timer |-> no, beats |-> no, final |-> no, late |-> no]
    BY <1>2 DEF NoRow, Nowhere, Unused
  <1>5. Away = [at |-> "away", worker |-> "none", obj |-> 0, gone |-> no]
    BY <1>2 DEF Away
  <1> DEFINE a == [Away EXCEPT !.at = "reserve"]
             b == [Away EXCEPT !.at = "reserve", !.worker = v]
  <1>6. a = [at |-> "reserve", worker |-> "none", obj |-> 0, gone |-> no]
    BY <1>5
  <1>7. b = [a EXCEPT !.worker = v]
    OBVIOUS
  <1>8. proc = [p \in Procs |-> IF p = First THEN b ELSE Away]
    BY <1>3
  <1> HIDE DEF a
  <1>9. b = [at |-> "reserve", worker |-> v, obj |-> 0, gone |-> no]
    BY <1>6, <1>7
  <1> HIDE DEF b
  <1>10. b \in Place /\ b.at = "reserve" /\ b.worker = v
    BY <1>1, <1>2, <1>9 DEF Place, Places, Starting
  <1>11. /\ proc \in [Procs -> Place] /\ proc[First].at = "reserve" /\ proc[First].worker = v
         /\ \A p \in Procs \ {First} : proc[p] = Away
    BY <1>8, <1>10, AwayFields, ProcsFinite
  <1>12. objs \in Objs /\ \A o \in 1 .. MaxStarts : objs[o].worker = "none" /\ ~objs[o].beats /\ ~objs[o].late
    <2>1. Unused \in Object /\ Unused.worker = "none" /\ ~Unused.beats /\ ~Unused.late
      BY <1>2, <1>4 DEF Object
    <2> QED BY <1>3, <2>1 DEF Objs
  <1>13. sess \in [Workers -> 0 .. MaxStarts] /\ \A u \in Workers : sess[u] = 0
    BY <1>1, <1>3
  <1>14. /\ row \in [status : {"none", "active", "ended"}, worker : Workers \cup {"none"}, leased : BOOLEAN]
         /\ dir \in [worker : Workers \cup {"none"}, fresh : BOOLEAN] /\ slot \in BOOLEAN
    BY <1>2, <1>3, <1>4
  <1>15. TypeOK
    BY <1>3, <1>11, <1>12, <1>13, <1>14, FleetTyped
  <1>16. Opening
    BY <1>11 DEF Opening, Starting
  <1>17. FirstAlone /\ Fenced
    BY <1>3, <1>11, <1>12, <1>13, <1>16, AwayFields, ProcsFinite DEF FirstAlone, Fenced, Procs
  <1>18. LateOnes /\ Released /\ Served
    BY <1>3, <1>12, <1>13 DEF LateOnes, Released, Served
  <1>19. Attached /\ Based
    BY <1>1, <1>11, AwayFields DEF Attached, Based, At
  <1>20. Numbered
    <2>1. Reserving = {First}
      BY <1>11, AwayFields, ProcsFinite DEF Reserving
    <2>2. Cardinality({First}) = 1
      BY FS_Singleton
    <2>3. Used = 1 .. 0
      BY <1>12 DEF Used
    <2> QED BY <1>1, <2>1, <2>2, <2>3 DEF Numbered
  <1> QED BY <1>15, <1>17, <1>18, <1>19, <1>20 DEF FleetInv

\* Every step keeps the invariant while heartbeats are on time.
LEMMA FleetSteps ==
  ASSUME FleetInv, [Next]_vars, "late" \notin Faults
  PROVE  FleetInv'
  <1>1. ASSUME NEW p \in Procs, Works(p) PROVE FleetInv'
    BY <1>1, ReserveOK, LaunchOK, RegisterOK, RecordOK, UndoOK DEF Works
  <1>2. ASSUME NEW c \in Conns, Connect(c) \/ Locate(c) \/ Claim(c) \/ Close(c) PROVE FleetInv'
    BY <1>2, ConnectOK, LocateOK, ClaimOK, CloseOK
  <1>3. ASSUME NEW o \in Used, Checkpoint(o) PROVE FleetInv'
    BY <1>3, CheckpointOK
  <1>4. ASSUME NEW w \in Workers, Crash(w) PROVE FleetInv'
    BY <1>4, CrashOK
  <1>5. ASSUME NEW e \in ends, TearDown(e) PROVE FleetInv'
    BY <1>5, TearDownOK
  <1>6. CASE Lapse
    BY <1>6, LapseOK
  <1>7. CASE UNCHANGED vars
    <2>1. UNCHANGED <<row, dir, slot, browser, sess, lease, objs, proc, ends, faults>>
      BY <1>7 DEF vars
    <2>2. TypeOK'
      BY <2>1, FleetParts, TypedOn
    <2>3. FirstAlone' /\ Released' /\ Served' /\ Attached' /\ Based'
      BY <2>1, FleetParts DEF FirstAlone, Opening, Released, Served, Ending, Attached, Based, At
    <2>4. \A w \in Workers : Holds(w)' <=> Holds(w)
      BY <2>1 DEF Holds, Beating, Ending, Launched, Launching, At
    <2>5. Fenced' /\ LateOnes'
      BY <2>1, <2>4, FleetParts DEF Fenced, LateOnes, Ending, Opening
    <2>6. Numbered'
      BY <2>1, FleetParts, NumberedOn DEF Used, Reserving
    <2> QED BY <2>2, <2>3, <2>5, <2>6 DEF FleetInv
  <1> QED BY <1>1, <1>2, <1>3, <1>4, <1>5, <1>6, <1>7, EndingsOK DEF Next

\* With heartbeats on time the row fences the workers off: FleetInv holds throughout.
THEOREM FleetInvariance ==
  ASSUME "late" \notin Faults
  PROVE  Spec => []FleetInv
  <1>1. Init => FleetInv
    BY FleetInit
  <1>2. FleetInv /\ [Next]_vars => FleetInv'
    BY FleetSteps
  <1> QED BY <1>1, <1>2, PTL DEF Spec

\* The state of a hosted demo stays well typed.
THEOREM FleetTypeCorrect ==
  ASSUME "late" \notin Faults
  PROVE  Spec => []TypeOK
  <1>1. FleetInv => TypeOK
    BY DEF FleetInv
  <1> QED BY <1>1, FleetInvariance, PTL

\* No two workers serve the demo at a time, whoever crashes and takes it over.
THEOREM DrivenAlone ==
  ASSUME "late" \notin Faults
  PROVE  Spec => []DrivenByOne
  <1>1. FleetInv => DrivenByOne
    <2> SUFFICES ASSUME FleetInv, NEW v \in Drivers, NEW w \in Drivers PROVE v = w
      BY DEF DrivenByOne
    <2>1. v \in Workers /\ w \in Workers /\ sess[v] # 0 /\ sess[w] # 0 /\ sess \in [Workers -> 0 .. MaxStarts]
      BY FleetParts DEF Drivers
    <2>2. ~Opening
      BY <2>1, FleetParts DEF FirstAlone
    <2>3. Holds(v) /\ Holds(w)
      BY <2>1, FleetParts DEF Served, Holds, Beating
    <2> QED BY <2>1, <2>2, <2>3, FleetParts DEF Fenced
  <1> QED BY <1>1, FleetInvariance, PTL
=============================================================================
