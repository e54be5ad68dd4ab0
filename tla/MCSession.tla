----------------------------- MODULE MCSession ------------------------------
(***************************************************************************)
(* A visitor's session: the director of the guided demo, and the voice     *)
(* between browser and server.  They share no state: a behaviour belongs   *)
(* to one part and leaves the variables of the other as they began.        *)
(***************************************************************************)
EXTENDS DemoSession, VoiceChannel

CONSTANTS m1, m2, m3, j1, j2, s1, s2, buyer, guest, loop, q1, q2, q3
VARIABLE part
all == <<part, vars, voiceVars>>

\* A profile with three modules, two of which share a journey, a persona with a question and a playlist of its own, a persona
\* with neither, and a persona asked a generic question again.
MCJourneyOf == [m \in {m1, m2, m3} |-> IF m = m2 THEN j2 ELSE j1]
MCPersonaQuestion == [p \in {buyer, guest, loop} |->
  CASE p = buyer -> q3 [] p = guest -> NoQuestion [] p = loop -> q1]
MCPersonaPlaylist == [p \in {buyer, guest, loop} |->
  CASE p = buyer -> <<m1, m2, m3>> [] p = guest -> << >> [] p = loop -> <<m3>>]
MCDefaultPlaylist == <<m2, m1>>

AnyInit == part \in {"director", "voice"} /\ Init /\ VoiceInit
AnyNext ==
  /\ UNCHANGED part
  /\ \/ part = "director" /\ Next /\ UNCHANGED voiceVars
     \/ part = "voice" /\ VoiceNext /\ UNCHANGED vars
AnySpec == AnyInit /\ [][AnyNext]_all /\ Fairness
=============================================================================
