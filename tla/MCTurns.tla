------------------------------- MODULE MCTurns -------------------------------
(***************************************************************************)
(* The two servers, each on its own instances: a behaviour belongs to one  *)
(* part and leaves the variables of the other as they began, at rest, where *)
(* the fairness of the other asks for nothing.  Hosted demos have two      *)
(* instances: two workers and two sockets for who drives a demo, one       *)
(* worker and one socket for whether it is ever let go (with two sockets   *)
(* it may not be: see the README).                                         *)
(***************************************************************************)
EXTENDS TurnActor, LiveSessions

VARIABLE part

all == <<part, actorVars, vars>>

\* One worker and one socket; the constants of LiveSessions are those of two and two.
Lone == INSTANCE LiveSessions WITH Workers <- {"w1"}, Conns <- {"c1"}, Callers <- {"grace", "reaper", "person"},
          Faults <- {"crash", "launch", "store"}, MaxStarts <- 3

AnyInit ==
  /\ part \in {"turns", "fleet", "lone"}
  /\ ActorInit /\ (part # "turns" => ~srv.dynamic)
  /\ CASE part = "fleet" -> Init
       [] part = "lone" -> Lone!Init
       [] OTHER -> Lone!NeverStarted
AnyNext ==
  /\ UNCHANGED part
  /\ \/ part = "turns" /\ ActorNext /\ UNCHANGED vars
     \/ part = "fleet" /\ Next /\ UNCHANGED actorVars
     \/ part = "lone" /\ Lone!Next /\ UNCHANGED actorVars
AnySpec == AnyInit /\ [][AnyNext]_all /\ ActorFairness /\ Lone!Fairness

LoneIsLetGo == part = "lone" => Lone!DesertedIsLetGo
=============================================================================
