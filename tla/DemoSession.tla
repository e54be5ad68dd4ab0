---------------------------- MODULE DemoSession -----------------------------
(***************************************************************************)
(* One guided-demo session state driven through the director by every      *)
(* legal sequence of its operations.  This is the widest environment the   *)
(* director can meet: no assumption is made on how the server and the      *)
(* browser order their calls, so what holds here holds for every caller.   *)
(***************************************************************************)
EXTENDS DemoDirector

VARIABLES demo,   \* the session state
          order   \* the instruction returned by the last operation

vars == <<demo, order>>

Init == demo = Idle /\ order = NoOrder

(* Every operation restores the stored state before it looks at it.        *)
Now == Restore(demo)

Take(t) == demo' = t.state /\ order' = t.order

Capture ==
  /\ MayCaptureIntake(Now)
  /\ \E p \in Personas \union {NoPersona} : Take(CaptureIntake(Now, p))

Interrupt == MayBeginInterruption(Now) /\ Take(BeginInterruption(Now))

SettleAtStep ==
  \E c \in Checkpoints :
    MaySettleInterruption(Now, c.journey) /\ Take(CheckpointInterruption(Now, c))

SettleAtEnd ==
  \E j \in Journeys :
    MaySettleInterruption(Now, j) /\ Take(CompleteModuleDuringInterruption(Now))

BeginAnswer == MayBeginAnswer(Now) /\ Take(BeginInterruptionAnswer(Now))

FinishAnswer == MayFinishAnswer(Now) /\ Take(FinishInterruptionAnswer(Now))

ReplaceModule ==
  /\ MayReplace(Now)
  /\ \E m \in Modules : Take(ReplaceAfterInterruption(Now, m))

ReportResult ==
  /\ MayTakeResult(Now)
  /\ \E ok \in BOOLEAN : Take(JourneyResult(Now, ok))

Press(action) == MayControl(Now, action) /\ Take(Control(Now, action))

FinishClosing == MayCompleteClosing(Now) /\ Take(CompleteClosing(Now))

Next ==
  \/ Capture \/ Interrupt \/ SettleAtStep \/ SettleAtEnd
  \/ BeginAnswer \/ FinishAnswer \/ ReplaceModule \/ ReportResult
  \/ \E action \in ControlActions : Press(action)
  \/ FinishClosing

Spec == Init /\ [][Next]_vars

-----------------------------------------------------------------------------
(* Types of the session state and of the last instruction.                 *)
TypeOK == demo \in DemoState /\ order \in Orders

(* restore never discards a state the director produced: no sequence of    *)
(* legal calls builds a state that isValid then silently resets to idle,   *)
(* which would drop the lead's answers in the middle of a demo.            *)
StateSurvivesRestore == IsValid(demo)

(* While a module is on stage, activeModuleId is the playlist entry at     *)
(* moduleIndex; continue, skip and a finished module all move from that    *)
(* index, so a mismatch would play the wrong module next.                  *)
PositionInPlaylist ==
  demo.phase \in ModulePhases =>
    /\ HasSlot(demo, demo.index)
    /\ demo.module = demo.playlist[demo.index + 1]

(* From the current slot on, no module is listed twice, even after any     *)
(* number of replacements: "it cannot run twice when it was already the    *)
(* next planned module" (replaceAfterInterruption).                        *)
NothingRepeatsAhead ==
  \A i, j \in (demo.index + 1)..Len(demo.playlist) :
    demo.playlist[i] = demo.playlist[j] => i = j

(* A waiting demo is never stranded: whatever put it there, the view shows *)
(* the visitor a way forward besides Stop.                                 *)
NeverStranded ==
  demo.phase = "awaiting_resume" =>
    Buttons(demo) \intersect {"continue", "retry", "skip"} # {}

(* The view never shows a button that control would refuse.                *)
ShownButtonsWork == \A a \in Buttons(demo) : MayControl(demo, a)

(* A resume instruction always names the module on stage and a checkpoint  *)
(* of that module's journey: the browser is never told to continue one     *)
(* journey from a position recorded in another.                            *)
ResumeMatchesModule ==
  order.kind = "resume" =>
    /\ demo.phase = "playing"
    /\ order.module = demo.module
    /\ order.checkpoint \in Checkpoints
    /\ order.checkpoint.journey = JourneyOf[demo.module]

-----------------------------------------------------------------------------
(* The session as the visitor sees it.                                     *)
StageOf(s) ==
  CASE s.phase \in TerminalPhases -> "off"
    [] s.phase \in {"pausing", "awaiting_resume", "answering"} -> "held"
    [] OTHER -> s.phase

Visitor == INSTANCE Playthrough
  WITH stage <- StageOf(demo), list <- demo.playlist,
       slot <- demo.index, module <- demo.module

(* Every sequence of director calls is a playthrough.                      *)
ImplementsPlaythrough == Visitor!Spec
=============================================================================
