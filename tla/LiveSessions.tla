---------------------------- MODULE LiveSessions ----------------------------
(***************************************************************************)
(* One hosted demo of the live-assist server: the session a worker keeps   *)
(* in memory, its row, its directory entry, its slots and its managed      *)
(* browser, under sockets that come and go, workers that crash and others  *)
(* that take the demo over.  One action is the code between two awaits.    *)
(***************************************************************************)
EXTENDS Naturals, FiniteSets

CONSTANTS Workers,
          Conns,       \* sockets of the visitor
          Callers,     \* of endSession: of "grace", "reaper", "person"
          Faults,      \* of "crash", "launch", "store", "late"
          MaxStarts    \* browsers a worker attaches to, over the whole behaviour

ASSUME FleetAssumption ==
  /\ Workers # {} /\ "none" \notin Workers
  /\ IsFiniteSet(Conns) /\ "first" \notin Conns
  /\ "grace" \in Callers /\ MaxStarts \in Nat \ {0}

VARIABLES row,      \* the row of customer_sessions
          dir,      \* the entry of the session directory
          slot,     \* the session is a member of the shared capacity set
          browser,  \* the managed browser
          sess,     \* sessions: the object each worker serves, 0 for none
          lease,    \* workers with an in-process lease for the session
          objs,     \* session objects ever made
          proc,     \* the first start and the socket handlers
          ends,     \* calls of endSession under way
          faults    \* crashes so far

vars == <<row, dir, slot, browser, sess, lease, objs, proc, ends, faults>>

First == "first"                       \* POST /api/v2/session
Procs == Conns \cup {First}
Starting == {"reserve", "launch", "register", "record"}
Undoing == {"discard", "giveback"}
Nowhere == [worker |-> "none", fresh |-> FALSE]
NoRow == [status |-> "none", worker |-> "none", leased |-> FALSE]
Unused == [worker |-> "none", timer |-> FALSE, beats |-> FALSE, final |-> FALSE, late |-> FALSE]
Away == [at |-> "away", worker |-> "none", obj |-> 0, gone |-> FALSE]

TypeOK ==
  /\ row \in [status : {"none", "active", "ended"}, worker : Workers \cup {"none"}, leased : BOOLEAN]
  /\ dir \in [worker : Workers \cup {"none"}, fresh : BOOLEAN]
  /\ slot \in BOOLEAN /\ browser \in {"none", "live", "released"}
  /\ sess \in [Workers -> 0 .. MaxStarts] /\ lease \subseteq Workers
  /\ objs \in [1 .. MaxStarts -> [worker : Workers \cup {"none"}, timer : BOOLEAN, beats : BOOLEAN, final : BOOLEAN, late : BOOLEAN]]
  /\ proc \in [Procs -> [at : Starting \cup Undoing \cup {"away", "locate", "claim", "open", "served"},
                         worker : Workers \cup {"none"}, obj : 0 .. MaxStarts, gone : BOOLEAN]]
  /\ ends \subseteq [by : Callers, worker : Workers, obj : 1 .. MaxStarts, at : {"finish", "stop", "remove"}]
  /\ faults \in 0 .. 1

NothingYet ==
  /\ row = NoRow /\ dir = Nowhere /\ slot = FALSE /\ browser = "none"
  /\ sess = [w \in Workers |-> 0] /\ lease = {} /\ ends = {} /\ faults = 0
  /\ objs = [o \in 1 .. MaxStarts |-> Unused]
NeverStarted == NothingYet /\ proc = [p \in Procs |-> Away]
Init ==
  /\ NothingYet
  /\ proc = [p \in Procs |-> IF p = First THEN [Away EXCEPT !.at = "reserve", !.worker = CHOOSE w \in Workers : TRUE] ELSE Away]

Used == {o \in 1 .. MaxStarts : objs[o].worker # "none"}
Fresh == Cardinality(Used) + 1
Goes(p, at) == proc' = [proc EXCEPT ![p].at = at]
Leaves(p) == proc' = [proc EXCEPT ![p] = Away]
At(p) == proc[p].worker
Shared == <<row, dir, slot, browser>>
Local == <<sess, lease, objs>>

-----------------------------------------------------------------------------
(* startLiveSession: capacity before the browser, then the directory and   *)
(* the row, and only then the sessions map.                                *)

\* The shared slot first: a member enters again, anyone else may find the set
\* full; then the one of the process.
Reserve(p) ==
  /\ proc[p].at = "reserve"
  /\ \/ slot' = TRUE /\ lease' = lease \cup {At(p)} /\ Goes(p, "launch")
     \/ slot' = TRUE /\ Goes(p, "giveback") /\ UNCHANGED lease
     \/ ~slot /\ Leaves(p) /\ UNCHANGED <<slot, lease>>
  /\ UNCHANGED <<row, dir, browser, sess, objs, ends, faults>>

\* A recovery attaches to the browser of the row, which must still be live.
Attaches(p) == p = First \/ browser = "live"
Launch(p) ==
  /\ proc[p].at = "launch"
  /\ \/ /\ Attaches(p)
        /\ browser' = "live"
        /\ objs' = [objs EXCEPT ![Fresh].worker = At(p)]
        /\ proc' = [proc EXCEPT ![p].at = "register", ![p].obj = Fresh]
        /\ UNCHANGED lease
     \/ /\ ~Attaches(p) \/ "launch" \in Faults
        /\ browser' \in {browser} \cup (IF p = First THEN {"live"} ELSE {})      \* made, and not attached to
        /\ lease' = lease \ {At(p)}
        /\ Goes(p, "giveback")
        /\ UNCHANGED objs
  /\ UNCHANGED <<row, dir, slot, sess, ends, faults>>

Register(p) ==
  /\ proc[p].at = "register"
  /\ \/ dir' = [worker |-> At(p), fresh |-> TRUE] /\ Goes(p, "record")
     \/ "store" \in Faults /\ Goes(p, "discard") /\ UNCHANGED dir
  /\ UNCHANGED <<row, slot, browser, Local, ends, faults>>

\* A socket finds its session: the grace timer is cleared, the entry touched.
\* A socket that closed during the start has no close handler any more.
Found(c, w, o) ==
  proc' = [proc EXCEPT ![c] = IF proc[c].gone THEN Away ELSE [at |-> "open", worker |-> w, obj |-> o, gone |-> FALSE]]
Touched == IF dir = Nowhere THEN dir ELSE [dir EXCEPT !.fresh = TRUE]

Active(w) == [status |-> "active", worker |-> w, leased |-> TRUE]
Record(p) ==
  /\ proc[p].at = "record"
  /\ \/ /\ row' = Active(At(p))
        /\ sess' = [sess EXCEPT ![At(p)] = proc[p].obj]
        /\ objs' = [objs EXCEPT ![proc[p].obj].beats = TRUE]
        /\ IF p = First THEN Goes(p, "served") /\ UNCHANGED dir ELSE Found(p, At(p), proc[p].obj) /\ dir' = Touched
     \/ "store" \in Faults /\ Goes(p, "discard") /\ UNCHANGED <<row, dir, sess, objs>>
  /\ UNCHANGED <<slot, browser, lease, ends, faults>>

\* A failed start takes everything back, in this order.
Undo(p) ==
  \/ /\ proc[p].at = "discard" /\ Goes(p, "giveback")
     /\ dir' = Nowhere /\ browser' = "released" /\ lease' = lease \ {At(p)}
     /\ UNCHANGED <<row, slot, sess, objs, ends, faults>>
  \/ /\ proc[p].at = "giveback" /\ slot' = FALSE /\ Leaves(p)
     /\ UNCHANGED <<row, dir, browser, Local, ends, faults>>

-----------------------------------------------------------------------------
(* The socket: served here, sent to the worker of the directory, or the    *)
(* reason to take the demo over.                                           *)

Connect(c) ==
  /\ proc[c].at = "away" /\ proc[First].at \in {"served", "away"}
  /\ \E w \in Workers :
       IF sess[w] # 0
       THEN /\ Found(c, w, sess[w]) /\ dir' = Touched
            /\ objs' = [objs EXCEPT ![sess[w]].timer = FALSE]
       ELSE proc' = [proc EXCEPT ![c] = [Away EXCEPT !.at = "locate", !.worker = w]] /\ UNCHANGED <<dir, objs>>
  /\ UNCHANGED <<row, slot, browser, sess, lease, ends, faults>>

Stale == dir = Nowhere \/ ~dir.fresh
Locate(c) ==
  /\ proc[c].at = "locate"
  /\ IF Stale THEN Goes(c, "claim") ELSE Leaves(c)       \* redirected, or an unknown session
  /\ UNCHANGED <<Shared, Local, ends, faults>>

\* wrong: the worker of the row may still be at work
ClaimableAnyway(w) == row.status = "active"
Claimable(w) == row.status = "active" /\ (row.worker = w \/ ~row.leased)
Claim(c) ==
  /\ proc[c].at = "claim"
  /\ IF Claimable(At(c)) /\ Fresh + Cardinality({p \in Procs : proc[p].at \in {"reserve", "launch"}}) =< MaxStarts
     THEN row' = Active(At(c)) /\ Goes(c, "reserve")
     ELSE Leaves(c) /\ UNCHANGED row
  /\ UNCHANGED <<dir, slot, browser, Local, ends, faults>>

\* The server learns that a socket is closed; the page may be back by then.
Close(c) ==
  /\ \/ /\ proc[c].at = "open" /\ Leaves(c)
        /\ objs' = [objs EXCEPT ![proc[c].obj].timer = TRUE]
     \/ /\ proc[c].at \in {"locate", "claim"} \cup Starting \cup Undoing /\ ~proc[c].gone
        /\ proc' = [proc EXCEPT ![c].gone = TRUE]
        /\ UNCHANGED objs
  /\ UNCHANGED <<Shared, sess, lease, ends, faults>>

-----------------------------------------------------------------------------
(* checkpointDurableSession, of the heartbeat and after a turn, writes the *)
(* row without looking at it; one that was under way when the session ended *)
(* lands all the same.                                                     *)

Checkpoint(o) ==
  /\ objs[o].beats \/ objs[o].late
  /\ objs' = [objs EXCEPT ![o].late = FALSE]
  /\ row' = Active(objs[o].worker)
  /\ dir' = IF objs[o].beats THEN Touched ELSE dir
  /\ UNCHANGED <<slot, browser, sess, lease, proc, ends, faults>>

-----------------------------------------------------------------------------
(* endSession, called with the id of the session: it ends whatever object  *)
(* the worker has under it.                                                *)

Ends(by, w) ==
  IF sess[w] = 0 THEN UNCHANGED ends
  ELSE ends' = ends \cup {[by |-> by, worker |-> w, obj |-> sess[w], at |-> IF objs[sess[w]].final THEN "stop" ELSE "finish"]}
Stilled(w, os, late) ==
  IF sess[w] = 0 THEN os
  ELSE [os EXCEPT ![sess[w]].timer = FALSE, ![sess[w]].beats = FALSE, ![sess[w]].final = TRUE,
                  ![sess[w]].late = @ \/ (late /\ os[sess[w]].beats)]
Idle(by, w) == \A e \in ends : ~(e.by = by /\ e.worker = w)

GraceEnds(o) ==
  /\ objs[o].timer /\ Idle("grace", objs[o].worker)
  /\ Ends("grace", objs[o].worker)
  /\ \E late \in BOOLEAN : objs' = Stilled(objs[o].worker, [objs EXCEPT ![o].timer = FALSE], late)
  /\ UNCHANGED <<Shared, sess, lease, proc, faults>>

\* The reaper drops the lease before it calls the teardown.  No start takes as
\* long as an idle lease (15 minutes).
Reap(w) ==
  /\ "reaper" \in Callers /\ w \in lease /\ Idle("reaper", w)
  /\ ~\E p \in Procs : At(p) = w /\ proc[p].at \in Starting
  /\ lease' = lease \ {w}
  /\ Ends("reaper", w)
  /\ \E late \in BOOLEAN : objs' = Stilled(w, objs, late)
  /\ UNCHANGED <<Shared, sess, proc, faults>>

\* DELETE /api/session/:id, or the product is archived: heard by one worker.
Dismiss(w) ==
  /\ "person" \in Callers /\ sess[w] # 0 /\ Idle("person", w)
  /\ Ends("person", w)
  /\ \E late \in BOOLEAN : objs' = Stilled(w, objs, late)
  /\ UNCHANGED <<Shared, sess, lease, proc, faults>>

Forget(w) ==
  /\ sess' = [sess EXCEPT ![w] = 0] /\ lease' = lease \ {w}
  /\ slot' = FALSE
\* wrong: an unreachable directory cuts the teardown short
RemoveOrGiveUp(e) ==
  \/ dir' = Nowhere /\ Forget(e.worker)
  \/ "store" \in Faults /\ UNCHANGED <<dir, sess, lease, slot>>
Remove(e) ==
  /\ dir' = Nowhere \/ ("store" \in Faults /\ UNCHANGED dir)
  /\ Forget(e.worker)

TearDown(e) ==
  /\ \/ /\ e.at = "finish"
        /\ \/ row' = [status |-> "ended", worker |-> e.worker, leased |-> row.leased]
           \/ "store" \in Faults /\ UNCHANGED row            \* a failing update is only logged
        /\ ends' = (ends \ {e}) \cup {[e EXCEPT !.at = "stop"]}
        /\ UNCHANGED <<dir, slot, browser, sess, lease>>
     \/ /\ e.at = "stop" /\ browser' = "released"
        /\ ends' = (ends \ {e}) \cup {[e EXCEPT !.at = "remove"]}
        /\ UNCHANGED <<row, dir, slot, sess, lease>>
     \/ /\ e.at = "remove" /\ Remove(e)
        /\ ends' = ends \ {e}
        /\ UNCHANGED <<row, browser>>
  /\ UNCHANGED <<objs, proc, faults>>

-----------------------------------------------------------------------------
(* A crash takes the memory of a worker; what it held outside lapses. *)

Crash(w) ==
  /\ "crash" \in Faults /\ faults = 0 /\ faults' = 1
  /\ sess' = [sess EXCEPT ![w] = 0] /\ lease' = lease \ {w}
  /\ objs' = [o \in 1 .. MaxStarts |-> IF objs[o].worker = w THEN [Unused EXCEPT !.worker = w, !.final = objs[o].final] ELSE objs[o]]
  /\ proc' = [p \in Procs |-> IF At(p) = w /\ proc[p].at # "served" THEN Away ELSE proc[p]]
  /\ ends' = {e \in ends : e.worker # w}
  /\ UNCHANGED Shared

\* On time: no lease of a worker lapses while it beats, starts or tears down.
Busy(w) == (\E o \in Used : objs[o].worker = w /\ objs[o].beats)
           \/ (\E p \in Procs : At(p) = w /\ proc[p].at \in Starting) \/ (\E e \in ends : e.worker = w)
Lapse ==
  /\ \/ /\ row.leased /\ ("late" \in Faults \/ ~Busy(row.worker))
        /\ row' = [row EXCEPT !.leased = FALSE] /\ UNCHANGED <<dir, slot, browser>>
     \/ /\ dir.fresh /\ ("late" \in Faults \/ ~Busy(dir.worker))
        /\ dir' = [dir EXCEPT !.fresh = FALSE] /\ UNCHANGED <<row, slot, browser>>
     \/ /\ slot /\ \A w \in Workers : ~Busy(w)
        /\ slot' = FALSE /\ UNCHANGED <<row, dir, browser>>
     \/ /\ browser = "live" /\ \A w \in Workers : ~Busy(w) /\ sess[w] = 0      \* the provider's own timeout
        /\ browser' = "released" /\ UNCHANGED <<row, dir, slot>>
  /\ UNCHANGED <<Local, proc, ends, faults>>

-----------------------------------------------------------------------------
Works(p) == Reserve(p) \/ Launch(p) \/ Register(p) \/ Record(p) \/ Undo(p)
Next ==
  \/ \E p \in Procs : Works(p)
  \/ \E c \in Conns : Connect(c) \/ Locate(c) \/ Claim(c) \/ Close(c)
  \/ \E o \in Used : Checkpoint(o) \/ GraceEnds(o)
  \/ \E w \in Workers : Reap(w) \/ Dismiss(w) \/ Crash(w)
  \/ \E e \in ends : TearDown(e)
  \/ Lapse

\* What runs by itself goes on; visitors, people and crashes come as they like.
\* The reaper is sure to come only where no socket is open.
Fairness ==
  /\ \A p \in Procs : WF_vars(Works(p))
  /\ \A c \in Conns : WF_vars(Locate(c) \/ Claim(c))
  /\ \A o \in 1 .. MaxStarts : WF_vars(GraceEnds(o))
  /\ \A w \in Workers : WF_vars(Reap(w) /\ \A c \in Conns : proc[c].at # "open")
  /\ WF_vars(\E e \in ends : TearDown(e))
  /\ WF_vars(slot /\ Lapse)

Spec == Init /\ [][Next]_vars
FairSpec == Spec /\ Fairness

-----------------------------------------------------------------------------
(* What can go wrong *)

Drivers == {w \in DOMAIN sess : sess[w] # 0 /\ ~objs[sess[w]].final}

\* While heartbeats are on time, no two workers serve the demo: whoever takes
\* it over after a crash has it alone (the fence of claimRecovery).
DrivenByOne == \A v, w \in Drivers : v = w

\* When the visitor stays away, every worker lets go of the demo and both
\* slots come back, whether or not a socket was ever opened, a start failed
\* or a worker died.
Deserted == \A c \in Conns : proc[c].at = "away"
LetGo == ~slot /\ lease = {} /\ \A w \in Workers : sess[w] = 0
DesertedIsLetGo == <>[]Deserted => <>[]LetGo

\* The grace period is for demos nobody is connected to: it never ends one
\* with an open socket (DURABLE_BACKBONE.md: "A dropped socket gets a
\* reconnect grace period").
GraceSparesVisitors ==
  [][\A o \in Used : GraceEnds(o) => ~\E c \in Conns : proc[c].at = "open" /\ proc[c].obj = sess[objs[o].worker]]_vars
=============================================================================
