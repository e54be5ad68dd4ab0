---------------------------- MODULE MCGuidedDemo ----------------------------
(* A two-module tour for a known persona, and a shorter one for the rest   *)
(* whose only module is not available to the visitor.                      *)
EXTENDS GuidedDemo

CONSTANTS m1, m2, m3, j1, j2, buyer, q1, q2

MCJourneyOf == [m \in {m1, m2, m3} |-> IF m = m2 THEN j2 ELSE j1]
MCPersonaQuestion == [p \in {buyer} |-> NoQuestion]
MCPersonaPlaylist == [p \in {buyer} |-> <<m1, m2>>]
MCDefaultPlaylist == <<m3>>
MCSteps == 1..LastStep
=============================================================================
