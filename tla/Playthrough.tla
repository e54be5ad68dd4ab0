---------------------------- MODULE Playthrough -----------------------------
(***************************************************************************)
(* What a guided demo promises its visitor, whatever the director does     *)
(* inside: after an intake, the modules of one playlist are played in      *)
(* order, one slot at a time.  A slot is left only by moving to the next   *)
(* one; the module in a slot changes only while the demo is held, and the  *)
(* new module is then not played again later.  The demo closes exactly     *)
(* when the playlist has no further slot, or the visitor stops it.         *)
(***************************************************************************)
EXTENDS Integers, Sequences

CONSTANTS Modules, NoModule

VARIABLES stage,   \* "off", "intake", "playing", "held" or "closing"
          list,    \* the playlist
          slot,    \* slots before the current one
          module   \* the module in the current slot

tour == <<stage, list, slot, module>>

More == slot + 1 < Len(list)

Init == stage = "off" /\ list = << >> /\ slot = 0 /\ module = NoModule

Welcome ==
  /\ stage = "off"
  /\ stage' = "intake"
  /\ list' = << >> /\ slot' = 0 /\ module' = NoModule

AskNext == stage = "intake" /\ UNCHANGED tour

(* Wherever a slot is entered, its module may turn out to be unavailable:  *)
(* it is then held in the same step.                                       *)
Enter ==
  /\ stage = "intake"
  /\ list' \in Seq(Modules)
  /\ slot' = 0
  /\ IF list' = << >>
     THEN stage' = "closing" /\ module' = NoModule
     ELSE stage' \in {"playing", "held"} /\ module' = list'[1]

Hold ==
  /\ stage \in {"playing", "held"}
  /\ stage' = "held"
  /\ UNCHANGED <<list, slot, module>>

Resume ==
  /\ stage = "held"
  /\ stage' = "playing"
  /\ UNCHANGED <<list, slot, module>>

Replace ==
  /\ stage = "held"
  /\ stage' = "playing"
  /\ slot' = slot
  /\ module' \in Modules
  /\ list'[slot + 1] = module'
  /\ \A k \in 1..slot : list'[k] = list[k]
  /\ \A k \in (slot + 2)..Len(list') : list'[k] # module'
  /\ Len(list') \in {Len(list), Len(list) - 1}

Next ==
  /\ stage = "held"
  /\ More
  /\ stage' \in {"playing", "held"}
  /\ slot' = slot + 1
  /\ module' = list[slot + 2]
  /\ list' = list

Close ==
  /\ stage \in {"playing", "held"}
  /\ ~More
  /\ stage' = "closing"
  /\ slot' = slot + 1
  /\ module' = NoModule
  /\ list' = list

Leave ==
  /\ stage # "off"
  /\ stage' = "off"
  /\ module' = NoModule
  /\ UNCHANGED <<list, slot>>

Step == Welcome \/ AskNext \/ Enter \/ Hold \/ Resume \/ Replace \/ Next \/ Close \/ Leave

Spec == Init /\ [][Step]_tour
=============================================================================
