---------------------------- MODULE DemoDirector ----------------------------
(***************************************************************************)
(* The deterministic conductor of a guided demo                            *)
(* (cloud runtime, src/demo-director.ts, class DeterministicDemoDirector). *)
(*                                                                         *)
(* The director owns no state: each operation takes the session state and  *)
(* returns a transition, that is a new state and an instruction for the    *)
(* browser.  It is modelled the same way, by operators on a state record.  *)
(* An operation that throws is split in two: a predicate that says when    *)
(* the call is legal (May...) and the transition of a legal call.  Answer  *)
(* texts, timestamps and the list of completed step ids are left out; a    *)
(* checkpoint keeps the journey and the step to resume at.                 *)
(***************************************************************************)
EXTENDS Integers, Sequences

CONSTANTS
  Modules,          \* demo modules of the signed profile
  Journeys,         \* journeys the modules name
  JourneyOf,        \* the journey each module plays
  Steps,            \* ids of the top-level workflow steps
  Personas,         \* personas of the signed profile
  Questions,        \* intake questions of the signed profile
  FirstQuestion,    \* first generic question
  SecondQuestion,   \* second generic question
  PersonaQuestion,  \* question of a persona, or NoQuestion
  PersonaPlaylist,  \* playlist of a persona, << >> when it has none
  DefaultPlaylist,  \* playlist of every other visitor
  NoModule, NoPersona, NoQuestion, NoCheckpoint   \* absent optional fields

(***************************************************************************)
(* What validateSdkCatalog enforces of a signed profile: references name   *)
(* existing entries, the two generic questions differ, and no playlist     *)
(* lists a module twice (sdk-contracts, validation.ts).                    *)
(***************************************************************************)
Distinct(list) == \A i, j \in 1..Len(list) : list[i] = list[j] => i = j

ASSUME ProfileAssumption ==
  /\ JourneyOf \in [Modules -> Journeys]
  /\ FirstQuestion \in Questions
  /\ SecondQuestion \in Questions
  /\ FirstQuestion # SecondQuestion
  /\ PersonaQuestion \in [Personas -> Questions \union {NoQuestion}]
  /\ PersonaPlaylist \in [Personas -> Seq(Modules)]
  /\ DefaultPlaylist \in Seq(Modules)
  /\ \A p \in Personas : Distinct(PersonaPlaylist[p])
  /\ Distinct(DefaultPlaylist)

Checkpoints == [journey : Journeys, next : Steps]

ASSUME AbsenceAssumption ==
  /\ NoModule \notin Modules
  /\ NoPersona \notin Personas
  /\ NoQuestion \notin Questions
  /\ NoCheckpoint \notin Checkpoints

Phases == {"idle", "intake", "playing", "pausing", "awaiting_resume",
           "answering", "closing", "completed", "stopped"}
TerminalPhases == {"idle", "completed", "stopped"}
ModulePhases == {"playing", "pausing", "awaiting_resume", "answering"}
ResumeReasons == {"none", "interruption", "failure", "module_complete"}

DemoState ==
  [phase : Phases,
   genericIndex : 0..2,
   question : Questions \union {NoQuestion},
   persona : Personas \union {NoPersona},
   personaAsked : BOOLEAN,
   playlist : Seq(Modules),
   index : Nat,                   \* zero-based, as in the code
   module : Modules \union {NoModule},
   reason : ResumeReasons,
   checkpoint : Checkpoints \union {NoCheckpoint},
   finished : BOOLEAN]            \* moduleCompletedDuringInterruption

Idle ==
  [phase |-> "idle", genericIndex |-> 0, question |-> NoQuestion,
   persona |-> NoPersona, personaAsked |-> FALSE, playlist |-> << >>,
   index |-> 0, module |-> NoModule, reason |-> "none",
   checkpoint |-> NoCheckpoint, finished |-> FALSE]

(***************************************************************************)
(* isValid and restore: a stored state that the pinned profile does not    *)
(* admit falls back to the idle demo.                                      *)
(***************************************************************************)
IsValid(s) ==
  /\ s.genericIndex \in 0..2
  /\ s.index \in Nat
  /\ s.question # NoQuestion => s.question \in Questions
  /\ s.module # NoModule => s.module \in Modules
  /\ \A i \in 1..Len(s.playlist) : s.playlist[i] \in Modules
  /\ s.persona # NoPersona => s.persona \in Personas
  /\ s.checkpoint # NoCheckpoint =>
       /\ s.module \in Modules
       /\ JourneyOf[s.module] = s.checkpoint.journey
  /\ s.finished =>
       /\ s.reason = "interruption"
       /\ s.checkpoint = NoCheckpoint
       /\ s.module # NoModule
       /\ s.phase \in {"awaiting_resume", "answering"}

Restore(s) == IF IsValid(s) THEN s ELSE Idle

(***************************************************************************)
(* Transitions.                                                            *)
(***************************************************************************)
NoOrder == [kind |-> "none", module |-> NoModule, checkpoint |-> NoCheckpoint]
StopOrder == [NoOrder EXCEPT !.kind = "stop"]
RunOrder(m) == [NoOrder EXCEPT !.kind = "run", !.module = m]
ResumeOrder(m, c) == [kind |-> "resume", module |-> m, checkpoint |-> c]

Orders == [kind : {"none", "run", "resume", "stop"},
           module : Modules \union {NoModule},
           checkpoint : Checkpoints \union {NoCheckpoint}]

Transition(s, o) == [state |-> s, order |-> o]

HasSlot(s, i) == i < Len(s.playlist)     \* playlistModuleIds[i] is defined

(* The module at the given slot is played, or the demo closes when the     *)
(* playlist has no such slot (tails of beginPlaylist and advanceModule).   *)
PlaySlot(s, i) ==
  LET t == [s EXCEPT !.index = i, !.reason = "none",
                     !.checkpoint = NoCheckpoint, !.finished = FALSE]
  IN  IF HasSlot(s, i)
      THEN Transition([t EXCEPT !.phase = "playing", !.module = s.playlist[i + 1]],
                      RunOrder(s.playlist[i + 1]))
      ELSE Transition([t EXCEPT !.phase = "closing", !.module = NoModule], NoOrder)

AdvanceModuleTwice(s) == PlaySlot(s, s.index + 2)   \* wrong: skips a slot
AdvanceModule(s) == PlaySlot(s, s.index + 1)

BeginPlaylist(s) ==
  LET own == IF s.persona = NoPersona THEN << >> ELSE PersonaPlaylist[s.persona]
  IN  PlaySlot([s EXCEPT !.question = NoQuestion,
                         !.playlist = IF own = << >> THEN DefaultPlaylist ELSE own], 0)

Start == Transition([Idle EXCEPT !.phase = "intake", !.question = FirstQuestion], NoOrder)

PersonaQuestionOf(s) ==
  IF s.persona = NoPersona THEN NoQuestion ELSE PersonaQuestion[s.persona]

MayCaptureIntake(s) ==
  /\ s.phase = "intake"
  /\ s.question # NoQuestion
  /\ s.question \in {FirstQuestion, SecondQuestion, PersonaQuestionOf(s)}

(* persona is what classifyPersona finds in the answer.                    *)
CaptureIntake(s, persona) ==
  LET answered == [s EXCEPT !.genericIndex = 2]
  IN  IF s.question = FirstQuestion
      THEN Transition([s EXCEPT !.persona = persona, !.genericIndex = 1,
                                !.question = SecondQuestion], NoOrder)
      ELSE IF s.question = SecondQuestion
      THEN IF PersonaQuestionOf(s) # NoQuestion /\ ~s.personaAsked
           THEN Transition([answered EXCEPT !.personaAsked = TRUE,
                                            !.question = PersonaQuestionOf(s)], NoOrder)
           ELSE BeginPlaylist(answered)
      ELSE BeginPlaylist([s EXCEPT !.personaAsked = TRUE])

MayBeginInterruption(s) == s.phase = "playing" /\ s.module # NoModule

BeginInterruption(s) == Transition([s EXCEPT !.phase = "pausing"], NoOrder)

PlaysJourney(s, journey) == s.module # NoModule /\ JourneyOf[s.module] = journey

MaySettleInterruption(s, journey) == s.phase = "pausing" /\ PlaysJourney(s, journey)

CheckpointInterruption(s, c) ==
  Transition([s EXCEPT !.phase = "awaiting_resume", !.reason = "interruption",
                       !.checkpoint = c, !.finished = FALSE], NoOrder)

CompleteModuleDuringInterruption(s) ==
  Transition([s EXCEPT !.phase = "awaiting_resume", !.reason = "interruption",
                       !.checkpoint = NoCheckpoint, !.finished = TRUE], NoOrder)

(* An interruption whose browser outcome is known.                         *)
VerifiedInterruption(s) ==
  /\ s.reason = "interruption"
  /\ s.checkpoint # NoCheckpoint \/ s.finished

AnswerablePosition(s) ==
  s.reason \in {"failure", "module_complete"} \/ VerifiedInterruption(s)

MayBeginAnswer(s) == s.phase = "awaiting_resume" /\ AnswerablePosition(s)
BeginInterruptionAnswer(s) == Transition([s EXCEPT !.phase = "answering"], NoOrder)

MayFinishAnswer(s) == s.phase = "answering" /\ AnswerablePosition(s)
FinishInterruptionAnswer(s) == Transition([s EXCEPT !.phase = "awaiting_resume"], NoOrder)

KeepLater(list, i, m) == list   \* wrong: leaves the later occurrence
(* The playlist without the occurrence of m after slot i.  A validated     *)
(* playlist has at most one, and replacing never adds one, so removing the *)
(* first is what the code's filter does.                                   *)
DropLater(list, i, m) ==
  LET later == {k \in (i + 2)..Len(list) : list[k] = m}
      at    == CHOOSE k \in later : TRUE
  IN  IF later = {} THEN list
      ELSE [k \in 1..(Len(list) - 1) |-> IF k < at THEN list[k] ELSE list[k + 1]]

MayReplace(s) == MayBeginAnswer(s) /\ s.module # NoModule


ReplaceAfterInterruption(s, m) ==
  Transition([s EXCEPT !.playlist = [DropLater(s.playlist, s.index, m)
                                       EXCEPT ![s.index + 1] = m],
                       !.phase = "playing", !.module = m, !.reason = "none",
                       !.checkpoint = NoCheckpoint, !.finished = FALSE],
             RunOrder(m))

MayTakeResult(s) == s.phase = "playing" /\ s.module # NoModule

JourneyResult(s, ok) ==
  IF ~ok
  THEN Transition([s EXCEPT !.phase = "awaiting_resume", !.reason = "failure",
                            !.checkpoint = NoCheckpoint], NoOrder)
  ELSE IF HasSlot(s, s.index + 1)
  THEN Transition([s EXCEPT !.phase = "awaiting_resume", !.reason = "module_complete",
                            !.checkpoint = NoCheckpoint, !.finished = FALSE], NoOrder)
  ELSE AdvanceModule(s)

(***************************************************************************)
(* control: the five buttons, and continue spoken by the visitor.          *)
(***************************************************************************)
ControlActions == {"start", "stop", "retry", "skip", "continue"}

MayControlWhilePlaying(s, action) ==   \* wrong: continue ignores the phase
  CASE action = "start" -> s.phase \in TerminalPhases
    [] action = "stop"  -> s.phase \notin TerminalPhases
    [] action = "continue" -> s.phase \in {"playing", "awaiting_resume"} /\ s.module # NoModule
    [] OTHER -> s.phase = "awaiting_resume" /\ s.module # NoModule

MayControl(s, action) ==
  CASE action = "start" -> s.phase \in TerminalPhases
    [] action = "stop"  -> s.phase \notin TerminalPhases
    [] action = "continue" ->
         /\ s.phase = "awaiting_resume"
         /\ s.module # NoModule
         /\ s.reason = "module_complete" \/ VerifiedInterruption(s)
    [] OTHER -> s.phase = "awaiting_resume" /\ s.module # NoModule

Stop(s) ==
  Transition([s EXCEPT !.phase = "stopped", !.question = NoQuestion,
                       !.module = NoModule, !.checkpoint = NoCheckpoint,
                       !.reason = "none", !.finished = FALSE], StopOrder)

RetryKeepingOutcome(s) ==       \* wrong: leaves finished set
  Transition([s EXCEPT !.phase = "playing", !.checkpoint = NoCheckpoint,
                       !.reason = "none"], RunOrder(s.module))

Retry(s) ==
  Transition([s EXCEPT !.phase = "playing", !.checkpoint = NoCheckpoint,
                       !.reason = "none", !.finished = FALSE], RunOrder(s.module))

ContinueFromCheckpoint(s) ==    \* wrong: forgets a module finished meanwhile
  IF s.reason = "module_complete" THEN AdvanceModule(s)
  ELSE Transition([s EXCEPT !.phase = "playing", !.reason = "none"],
                  ResumeOrder(s.module, s.checkpoint))

(* Continue keeps the checkpoint in the state: only resumeReason goes.     *)
Continue(s) ==
  IF s.reason = "module_complete" \/ s.finished THEN AdvanceModule(s)
  ELSE Transition([s EXCEPT !.phase = "playing", !.reason = "none"],
                  ResumeOrder(s.module, s.checkpoint))

Control(s, action) ==
  CASE action = "start" -> Start
    [] action = "stop"  -> Stop(s)
    [] action = "retry" -> Retry(s)
    [] action = "skip"  -> AdvanceModule(s)
    [] action = "continue" -> Continue(s)

MayCompleteClosing(s) == s.phase = "closing"

CompleteClosing(s) ==
  Transition([s EXCEPT !.phase = "completed", !.module = NoModule,
                       !.question = NoQuestion], NoOrder)

ButtonsAtCheckpointOnly(s) ==   \* wrong: forgets a module finished meanwhile
  {a \in ControlActions :
     CASE a = "start" -> s.phase \in TerminalPhases
       [] a = "stop"  -> s.phase \notin TerminalPhases
       [] a = "continue" ->
            /\ s.phase = "awaiting_resume"
            /\ s.reason = "module_complete" \/ s.checkpoint # NoCheckpoint
       [] OTHER -> s.phase = "awaiting_resume" /\ s.reason = "failure"}
ButtonsAlwaysContinue(s) ==     \* wrong: offers continue after a failure
  {a \in ControlActions :
     CASE a = "start" -> s.phase \in TerminalPhases
       [] a = "stop"  -> s.phase \notin TerminalPhases
       [] OTHER -> s.phase = "awaiting_resume"}

(***************************************************************************)
(* view: the buttons the server lets the browser show.                     *)
(***************************************************************************)
Buttons(s) ==
  {a \in ControlActions :
     CASE a = "start" -> s.phase \in TerminalPhases
       [] a = "stop"  -> s.phase \notin TerminalPhases
       [] a = "continue" ->
            /\ s.phase = "awaiting_resume"
            /\ s.reason = "module_complete" \/ VerifiedInterruption(s)
       [] OTHER -> s.phase = "awaiting_resume" /\ s.reason = "failure"}
=============================================================================
