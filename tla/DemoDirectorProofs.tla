------------------------- MODULE DemoDirectorProofs -------------------------
(***************************************************************************)
(* What every operation of the director preserves, for any signed profile. *)
(*                                                                         *)
(* Sound is the inductive strengthening of the properties of DemoSession:  *)
(* none of them is preserved by itself.  That a stored state survives a    *)
(* restore needs the module of a checkpoint, which needs the module on     *)
(* stage to be the playlist entry; that a waiting demo shows a button      *)
(* needs the reason of the wait, which only the operations that put it     *)
(* there know.  Each lemma takes one operation and is used by every module *)
(* that calls it.                                                          *)
(***************************************************************************)
EXTENDS DemoDirector, TLAPS

(* No module is listed twice from position i on.                           *)
DistinctFrom(list, i) ==
  \A k, l \in (i + 1)..Len(list) : list[k] = list[l] => k = l

(* A module is on stage exactly in the module phases, and it is the        *)
(* playlist entry at the position of the demo.                             *)
OnStage(s) ==
  IF s.phase \in ModulePhases
  THEN HasSlot(s, s.index) /\ s.module = s.playlist[s.index + 1]
  ELSE s.module = NoModule /\ s.checkpoint = NoCheckpoint /\ s.reason = "none"

(* A demo that waits or answers has a reason an answer may leave from.     *)
WaitsForCause(s) ==
  s.phase \in {"awaiting_resume", "answering"} => AnswerablePosition(s)

(* A checkpoint is one of the journey of the module on stage.              *)
CheckpointFits(s) ==
  s.checkpoint # NoCheckpoint => JourneyOf[s.module] = s.checkpoint.journey

(* A module marked as completed during an interruption waits without a     *)
(* checkpoint.                                                             *)
FinishedFits(s) ==
  s.finished =>
    /\ s.phase \in {"awaiting_resume", "answering"}
    /\ s.reason = "interruption"
    /\ s.checkpoint = NoCheckpoint

(* The strengthened type invariant of the demo state.                      *)
Sound(s) ==
  /\ s \in DemoState
  /\ OnStage(s)
  /\ WaitsForCause(s)
  /\ CheckpointFits(s)
  /\ FinishedFits(s)
  /\ DistinctFrom(s.playlist, s.index)

(* What a transition must return: a sound state, an instruction, and, if   *)
(* that resumes a journey, the module on stage and a checkpoint of its     *)
(* journey.                                                                *)
ResumeFits(t) ==
  t.order.kind = "resume" =>
    /\ t.state.phase = "playing"
    /\ t.order.module = t.state.module
    /\ t.order.checkpoint \in Checkpoints
    /\ t.order.checkpoint.journey = JourneyOf[t.state.module]

Good(t) == Sound(t.state) /\ t.order \in Orders /\ ResumeFits(t)

-----------------------------------------------------------------------------
(* The idle demo is sound.                                                 *)
LEMMA IdleSound == Sound(Idle)
  BY DEF Sound, Idle, DemoState, Phases, ResumeReasons, OnStage, WaitsForCause,
         CheckpointFits, FinishedFits, DistinctFrom, ModulePhases

(* A sound state is valid, so restore keeps it.                            *)
LEMMA SoundSurvives ==
  ASSUME NEW s, Sound(s)
  PROVE  IsValid(s) /\ Restore(s) = s
<1>1. s \in DemoState /\ OnStage(s) /\ CheckpointFits(s) /\ FinishedFits(s)
  BY DEF Sound
<1>2. s.playlist \in Seq(Modules) /\ s.index \in Nat
  BY <1>1 DEF DemoState
<1>3. s.checkpoint # NoCheckpoint \/ s.finished => s.module \in Modules
  <2>1. s.checkpoint # NoCheckpoint \/ s.finished => s.phase \in ModulePhases
    BY <1>1 DEF OnStage, FinishedFits, ModulePhases
  <2>2. QED
    BY <1>1, <1>2, <2>1 DEF OnStage, HasSlot
<1>4. IsValid(s)
  BY <1>1, <1>2, <1>3, AbsenceAssumption
     DEF IsValid, DemoState, CheckpointFits, FinishedFits
<1>5. QED
  BY <1>4 DEF Restore

-----------------------------------------------------------------------------
(* Entering a slot from any state whose playlist is distinct from there.   *)
LEMMA PlaySlotGood ==
  ASSUME NEW s, s \in DemoState, NEW i \in Nat, DistinctFrom(s.playlist, i)
  PROVE  Good(PlaySlot(s, i))
<1> DEFINE t == [s EXCEPT !.index = i, !.reason = "none",
                          !.checkpoint = NoCheckpoint, !.finished = FALSE]
<1>1. t \in DemoState /\ t.index = i /\ t.reason = "none" /\ t.finished = FALSE
      /\ t.checkpoint = NoCheckpoint /\ t.playlist = s.playlist
  BY DEF DemoState, ResumeReasons
<1>2. CASE HasSlot(s, i)
  <2> DEFINE m == s.playlist[i + 1]
             u == [t EXCEPT !.phase = "playing", !.module = m]
  <2>1. m \in Modules
    BY <1>2 DEF HasSlot, DemoState
  <2>2. PlaySlot(s, i).state = u /\ PlaySlot(s, i).order = RunOrder(m)
    BY <1>2 DEF PlaySlot, Transition
  <2>3. u \in DemoState /\ u.index = i /\ u.reason = "none" /\ u.finished = FALSE
        /\ u.checkpoint = NoCheckpoint /\ u.playlist = s.playlist
        /\ u.phase = "playing" /\ u.module = m
    BY <1>1, <2>1 DEF DemoState, Phases
  <2> HIDE DEF u
  <2>4. Sound(u)
    BY <1>2, <2>3 DEF Sound, OnStage, HasSlot, WaitsForCause, CheckpointFits,
                      FinishedFits, ModulePhases
  <2>5. RunOrder(m) \in Orders /\ RunOrder(m).kind = "run"
    BY <2>1 DEF RunOrder, NoOrder, Orders
  <2>6. QED
    BY <2>2, <2>4, <2>5 DEF Good, ResumeFits
<1>3. CASE ~HasSlot(s, i)
  <2> DEFINE u == [t EXCEPT !.phase = "closing", !.module = NoModule]
  <2>1. PlaySlot(s, i).state = u /\ PlaySlot(s, i).order = NoOrder
    BY <1>3 DEF PlaySlot, Transition
  <2>2. u \in DemoState /\ u.index = i /\ u.reason = "none" /\ u.finished = FALSE
        /\ u.checkpoint = NoCheckpoint /\ u.playlist = s.playlist
        /\ u.phase = "closing" /\ u.module = NoModule
    BY <1>1 DEF DemoState, Phases
  <2> HIDE DEF u
  <2>3. Sound(u)
    BY <2>2 DEF Sound, OnStage, WaitsForCause, CheckpointFits, FinishedFits, ModulePhases
  <2>4. NoOrder \in Orders /\ NoOrder.kind = "none"
    BY DEF NoOrder, Orders
  <2>5. QED
    BY <2>1, <2>3, <2>4 DEF Good, ResumeFits
<1>4. QED
  BY <1>2, <1>3

(* What the visitor sees of it.                                            *)
LEMMA PlaySlotView ==
  ASSUME NEW s, s \in DemoState, NEW i \in Nat
  PROVE  /\ PlaySlot(s, i).state.playlist = s.playlist
         /\ PlaySlot(s, i).state.index = i
         /\ IF HasSlot(s, i)
            THEN PlaySlot(s, i).state.phase = "playing"
                 /\ PlaySlot(s, i).state.module = s.playlist[i + 1]
            ELSE PlaySlot(s, i).state.phase = "closing"
                 /\ PlaySlot(s, i).state.module = NoModule
<1> DEFINE t == [s EXCEPT !.index = i, !.reason = "none",
                          !.checkpoint = NoCheckpoint, !.finished = FALSE]
<1>1. /\ t.index = i /\ t.playlist = s.playlist
      /\ DOMAIN t = DOMAIN s
  BY DEF DemoState
<1>2. CASE HasSlot(s, i)
  BY <1>1, <1>2 DEF PlaySlot, Transition, DemoState
<1>3. CASE ~HasSlot(s, i)
  BY <1>1, <1>3 DEF PlaySlot, Transition, DemoState
<1>4. QED
  BY <1>2, <1>3

(* continue and skip.                                                      *)
LEMMA AdvanceGood ==
  ASSUME NEW s, Sound(s)
  PROVE  Good(AdvanceModule(s))
<1>1. s \in DemoState /\ s.index + 1 \in Nat /\ s.playlist \in Seq(Modules)
  BY DEF Sound, DemoState
<1>2. DistinctFrom(s.playlist, s.index + 1)
  BY <1>1 DEF Sound, DistinctFrom, DemoState
<1>3. QED
  BY <1>1, <1>2, PlaySlotGood DEF AdvanceModule

(* The first slot of a playlist of the profile.                            *)
LEMMA BeginPlaylistGood ==
  ASSUME NEW s, s \in DemoState
  PROVE  Good(BeginPlaylist(s))
<1> DEFINE own == IF s.persona = NoPersona THEN << >> ELSE PersonaPlaylist[s.persona]
           list == IF own = << >> THEN DefaultPlaylist ELSE own
           t == [s EXCEPT !.question = NoQuestion, !.playlist = list]
<1>1. list \in Seq(Modules) /\ Distinct(list)
  BY ProfileAssumption DEF DemoState
<1>2. t \in DemoState /\ t.playlist = list
  BY <1>1 DEF DemoState
<1>3. DistinctFrom(list, 0)
  BY <1>1 DEF DistinctFrom, Distinct
<1>4. BeginPlaylist(s) = PlaySlot(t, 0)
  BY DEF BeginPlaylist
<1> HIDE DEF t, list
<1>5. QED
  BY <1>2, <1>3, <1>4, PlaySlotGood

-----------------------------------------------------------------------------
(* Intake.                                                                 *)
LEMMA StartGood == Good(Start)
<1> DEFINE u == [Idle EXCEPT !.phase = "intake", !.question = FirstQuestion]
<1>1. Start.state = u /\ Start.order = NoOrder
  BY DEF Start, Transition
<1>2. u \in DemoState /\ u.phase = "intake" /\ u.module = NoModule
      /\ u.checkpoint = NoCheckpoint /\ u.reason = "none" /\ u.finished = FALSE
      /\ u.playlist = << >> /\ u.index = 0
  <2>1. FirstQuestion \in Questions \union {NoQuestion}
    BY ProfileAssumption
  <2>2. Idle \in DemoState
    BY IdleSound DEF Sound
  <2>3. u \in DemoState
    BY <2>1, <2>2 DEF DemoState, Phases
  <2>4. QED
    BY <2>3 DEF Idle
<1> HIDE DEF u
<1>3. Sound(u)
  BY <1>2 DEF Sound, OnStage, WaitsForCause, CheckpointFits, FinishedFits,
              DistinctFrom, ModulePhases
<1>4. NoOrder \in Orders /\ NoOrder.kind = "none"
  BY DEF NoOrder, Orders
<1>5. QED
  BY <1>1, <1>3, <1>4 DEF Good, ResumeFits

(* An answer that only moves to another question keeps the demo off stage. *)
LEMMA AskedGood ==
  ASSUME NEW s, Sound(s), s.phase = "intake",
         NEW t, t \in DemoState, t.phase = "intake",
         t.module = s.module, t.checkpoint = s.checkpoint, t.reason = s.reason,
         t.finished = s.finished, t.playlist = s.playlist, t.index = s.index
  PROVE  Good(Transition(t, NoOrder))
<1>1. Sound(t)
  BY DEF Sound, OnStage, WaitsForCause, CheckpointFits, FinishedFits,
         DistinctFrom, ModulePhases
<1>2. NoOrder \in Orders /\ NoOrder.kind = "none"
  BY DEF NoOrder, Orders
<1>3. QED
  BY <1>1, <1>2 DEF Good, ResumeFits, Transition

(* Capturing a lead field in the intake gives a good transition.           *)
LEMMA CaptureIntakeGood ==
  ASSUME NEW s, Sound(s), MayCaptureIntake(s), NEW p \in Personas \union {NoPersona}
  PROVE  Good(CaptureIntake(s, p))
<1> DEFINE first == [s EXCEPT !.persona = p, !.genericIndex = 1, !.question = SecondQuestion]
           second == [s EXCEPT !.genericIndex = 2]
           third == [second EXCEPT !.personaAsked = TRUE, !.question = PersonaQuestionOf(s)]
           asked == [s EXCEPT !.personaAsked = TRUE]
<1>1. s \in DemoState /\ s.phase = "intake"
  BY DEF Sound, MayCaptureIntake
<1>2. CASE s.question = FirstQuestion
  <2>1. CaptureIntake(s, p) = Transition(first, NoOrder)
    BY <1>2 DEF CaptureIntake
  <2>2. first \in DemoState
    <3>1. SecondQuestion \in Questions \union {NoQuestion}
      BY ProfileAssumption
    <3>2. [s EXCEPT !.genericIndex = 1] \in DemoState
      BY <1>1 DEF DemoState
    <3>3. QED
      BY <1>1, <3>1, <3>2 DEF DemoState
  <2>3. first.phase = "intake" /\ first.module = s.module
        /\ first.checkpoint = s.checkpoint /\ first.reason = s.reason
        /\ first.finished = s.finished /\ first.playlist = s.playlist
        /\ first.index = s.index
    BY <1>1 DEF DemoState
  <2> HIDE DEF first
  <2>4. QED
    BY <1>1, <2>1, <2>2, <2>3, AskedGood
<1>3. CASE /\ s.question = SecondQuestion
           /\ PersonaQuestionOf(s) # NoQuestion
           /\ ~s.personaAsked
  <2>1. CaptureIntake(s, p) = Transition(third, NoOrder)
    BY <1>3, ProfileAssumption DEF CaptureIntake
  <2>2. PersonaQuestionOf(s) \in Questions
    BY <1>1, <1>3, ProfileAssumption DEF PersonaQuestionOf, DemoState
  <2>3. third \in DemoState
    <3>1. second \in DemoState
      BY <1>1 DEF DemoState
    <3> HIDE DEF second
    <3>2. QED
      BY <2>2, <3>1 DEF DemoState
  <2>4. third.phase = "intake" /\ third.module = s.module
        /\ third.checkpoint = s.checkpoint /\ third.reason = s.reason
        /\ third.finished = s.finished /\ third.playlist = s.playlist
        /\ third.index = s.index
    BY <1>1 DEF DemoState
  <2> HIDE DEF third
  <2>5. QED
    BY <1>1, <2>1, <2>3, <2>4, AskedGood
<1>4. CASE /\ s.question = SecondQuestion
           /\ ~(PersonaQuestionOf(s) # NoQuestion /\ ~s.personaAsked)
  <2>1. CaptureIntake(s, p) = BeginPlaylist(second)
    BY <1>4, ProfileAssumption DEF CaptureIntake
  <2>2. second \in DemoState
    BY <1>1 DEF DemoState
  <2> HIDE DEF second
  <2>3. QED
    BY <2>1, <2>2, BeginPlaylistGood
<1>5. CASE s.question \notin {FirstQuestion, SecondQuestion}
  <2>1. CaptureIntake(s, p) = BeginPlaylist(asked)
    BY <1>5 DEF CaptureIntake
  <2>2. asked \in DemoState
    BY <1>1 DEF DemoState
  <2> HIDE DEF asked
  <2>3. QED
    BY <2>1, <2>2, BeginPlaylistGood
<1>6. QED
  BY <1>2, <1>3, <1>4, <1>5

-----------------------------------------------------------------------------
(* A transition that keeps the module on stage, with no instruction.       *)
LEMMA HeldGood ==
  ASSUME NEW s, Sound(s), s.phase \in ModulePhases,
         NEW t, t \in DemoState, t.phase \in ModulePhases,
         t.module = s.module, t.playlist = s.playlist, t.index = s.index,
         WaitsForCause(t), CheckpointFits(t), FinishedFits(t)
  PROVE  Good(Transition(t, NoOrder))
<1>1. Sound(t)
  BY DEF Sound, OnStage, DistinctFrom, HasSlot
<1>2. NoOrder \in Orders /\ NoOrder.kind = "none"
  BY DEF NoOrder, Orders
<1>3. QED
  BY <1>1, <1>2 DEF Good, ResumeFits, Transition

(* Barging in on a playing module gives a good transition.                 *)
LEMMA BeginInterruptionGood ==
  ASSUME NEW s, Sound(s), MayBeginInterruption(s)
  PROVE  Good(BeginInterruption(s))
<1> DEFINE t == [s EXCEPT !.phase = "pausing"]
<1>1. s \in DemoState /\ s.phase = "playing" /\ CheckpointFits(s) /\ FinishedFits(s)
  BY DEF Sound, MayBeginInterruption
<1>2. /\ t \in DemoState /\ t.phase = "pausing" /\ t.module = s.module
      /\ t.playlist = s.playlist /\ t.index = s.index /\ t.finished = s.finished
      /\ t.checkpoint = s.checkpoint /\ t.reason = s.reason
  BY <1>1 DEF DemoState, Phases
<1>3. BeginInterruption(s) = Transition(t, NoOrder)
  BY DEF BeginInterruption
<1> HIDE DEF t
<1>4. WaitsForCause(t) /\ CheckpointFits(t) /\ FinishedFits(t)
  BY <1>1, <1>2 DEF WaitsForCause, CheckpointFits, FinishedFits
<1>5. QED
  BY <1>1, <1>2, <1>3, <1>4, HeldGood DEF ModulePhases

(* Pausing at a step boundary gives a good transition.                     *)
LEMMA CheckpointInterruptionGood ==
  ASSUME NEW s, Sound(s), NEW c \in Checkpoints, MaySettleInterruption(s, c.journey)
  PROVE  Good(CheckpointInterruption(s, c))
<1> DEFINE t == [s EXCEPT !.phase = "awaiting_resume", !.reason = "interruption",
                          !.checkpoint = c, !.finished = FALSE]
<1>1. s \in DemoState /\ s.phase = "pausing" /\ JourneyOf[s.module] = c.journey
  BY DEF Sound, MaySettleInterruption, PlaysJourney
<1>2. /\ t \in DemoState /\ t.phase = "awaiting_resume" /\ t.module = s.module
      /\ t.playlist = s.playlist /\ t.index = s.index /\ t.finished = FALSE
      /\ t.checkpoint = c /\ t.reason = "interruption"
  BY <1>1 DEF DemoState, Phases, ResumeReasons
<1>3. CheckpointInterruption(s, c) = Transition(t, NoOrder)
  BY DEF CheckpointInterruption
<1> HIDE DEF t
<1>4. WaitsForCause(t) /\ CheckpointFits(t) /\ FinishedFits(t)
  BY <1>1, <1>2, AbsenceAssumption
     DEF WaitsForCause, CheckpointFits, FinishedFits, AnswerablePosition, VerifiedInterruption
<1>5. QED
  BY <1>1, <1>2, <1>3, <1>4, HeldGood DEF ModulePhases

(* A module that ends while it was to be paused gives a good transition.   *)
LEMMA CompleteModuleGood ==
  ASSUME NEW s, Sound(s), NEW j \in Journeys, MaySettleInterruption(s, j)
  PROVE  Good(CompleteModuleDuringInterruption(s))
<1> DEFINE t == [s EXCEPT !.phase = "awaiting_resume", !.reason = "interruption",
                          !.checkpoint = NoCheckpoint, !.finished = TRUE]
<1>1. s \in DemoState /\ s.phase = "pausing"
  BY DEF Sound, MaySettleInterruption
<1>2. /\ t \in DemoState /\ t.phase = "awaiting_resume" /\ t.module = s.module
      /\ t.playlist = s.playlist /\ t.index = s.index /\ t.finished = TRUE
      /\ t.checkpoint = NoCheckpoint /\ t.reason = "interruption"
  BY <1>1 DEF DemoState, Phases, ResumeReasons
<1>3. CompleteModuleDuringInterruption(s) = Transition(t, NoOrder)
  BY DEF CompleteModuleDuringInterruption
<1> HIDE DEF t
<1>4. WaitsForCause(t) /\ CheckpointFits(t) /\ FinishedFits(t)
  BY <1>2 DEF WaitsForCause, CheckpointFits, FinishedFits,
              AnswerablePosition, VerifiedInterruption
<1>5. QED
  BY <1>1, <1>2, <1>3, <1>4, HeldGood DEF ModulePhases

(* Beginning and finishing an answer only move between the two phases in   *)
(* which the module waits for a known reason.                              *)
LEMMA AnswerGood ==
  ASSUME NEW s, Sound(s)
  PROVE  /\ MayBeginAnswer(s) => Good(BeginInterruptionAnswer(s))
         /\ MayFinishAnswer(s) => Good(FinishInterruptionAnswer(s))
<1> SUFFICES ASSUME s.phase \in {"awaiting_resume", "answering"},
                    NEW phase \in {"awaiting_resume", "answering"}
             PROVE  Good(Transition([s EXCEPT !.phase = phase], NoOrder))
  BY DEF MayBeginAnswer, MayFinishAnswer, BeginInterruptionAnswer, FinishInterruptionAnswer
<1> DEFINE t == [s EXCEPT !.phase = phase]
<1>1. /\ s \in DemoState /\ WaitsForCause(s) /\ CheckpointFits(s) /\ FinishedFits(s)
  BY DEF Sound
<1>2. /\ t \in DemoState /\ t.phase = phase /\ t.module = s.module
      /\ t.playlist = s.playlist /\ t.index = s.index /\ t.finished = s.finished
      /\ t.checkpoint = s.checkpoint /\ t.reason = s.reason
  BY <1>1 DEF DemoState, Phases
<1> HIDE DEF t
<1>3. WaitsForCause(t) /\ CheckpointFits(t) /\ FinishedFits(t)
  BY <1>1, <1>2 DEF WaitsForCause, CheckpointFits, FinishedFits,
                    AnswerablePosition, VerifiedInterruption
<1>4. Good(Transition(t, NoOrder))
  BY <1>1, <1>2, <1>3, HeldGood DEF ModulePhases
<1>5. QED
  BY <1>4 DEF t

-----------------------------------------------------------------------------
(* What the filter of replaceAfterInterruption returns: the slots up to i  *)
(* are untouched, m is gone from the later ones, and the others keep their *)
(* order, so nothing that was listed once is listed twice.                 *)
Dropped(list, i, m, d) ==
  /\ d \in Seq(Modules)
  /\ Len(d) \in {Len(list), Len(list) - 1}
  /\ i < Len(d)
  /\ \A k \in 1..(i + 1) : d[k] = list[k]
  /\ \A k \in (i + 2)..Len(d) : d[k] # m
  /\ DistinctFrom(d, i)

(* The filter of replaceAfterInterruption returns such a playlist.         *)
LEMMA DropLaterFacts ==
  ASSUME NEW list \in Seq(Modules), NEW i \in Nat, i < Len(list),
         NEW m \in Modules, DistinctFrom(list, i)
  PROVE  Dropped(list, i, m, DropLater(list, i, m))
<1> DEFINE later == {k \in (i + 2)..Len(list) : list[k] = m}
           at == CHOOSE k \in later : TRUE
           shorter == [k \in 1..(Len(list) - 1) |-> IF k < at THEN list[k] ELSE list[k + 1]]
<1>1. CASE later = {}
  <2>1. DropLater(list, i, m) = list
    BY <1>1 DEF DropLater
  <2>2. QED
    BY <1>1, <2>1 DEF Dropped
<1>2. CASE later # {}
  <2>1. DropLater(list, i, m) = shorter
    BY <1>2 DEF DropLater
  <2>2. at \in (i + 2)..Len(list) /\ list[at] = m
    BY <1>2
  <2>3. \A k \in (i + 2)..Len(list) : list[k] = m => k = at
    BY <2>2 DEF DistinctFrom
  <2> HIDE DEF at, later
  <2>4. shorter \in Seq(Modules) /\ Len(shorter) = Len(list) - 1
    <3>1. \A k \in 1..(Len(list) - 1) : (IF k < at THEN list[k] ELSE list[k + 1]) \in Modules
      OBVIOUS
    <3>2. Len(list) - 1 \in Nat
      BY <2>2
    <3>3. QED
      BY <3>1, <3>2
  <2>5. \A k \in 1..(Len(list) - 1) : shorter[k] = IF k < at THEN list[k] ELSE list[k + 1]
    OBVIOUS
  <2> HIDE DEF shorter
  <2>6. \A k \in 1..(i + 1) : shorter[k] = list[k]
    BY <2>2, <2>5
  <2>7. \A k \in (i + 2)..(Len(list) - 1) : shorter[k] # m
    BY <2>2, <2>3, <2>5
  <2>8. DistinctFrom(shorter, i)
    <3>1. SUFFICES ASSUME NEW k \in (i + 1)..(Len(list) - 1), NEW l \in (i + 1)..(Len(list) - 1),
                          shorter[k] = shorter[l]
                   PROVE  k = l
      BY <2>4 DEF DistinctFrom
    <3> DEFINE old(n) == IF n < at THEN n ELSE n + 1
    <3>2. old(k) \in (i + 1)..Len(list) /\ old(l) \in (i + 1)..Len(list)
      BY <2>2
    <3>3. list[old(k)] = list[old(l)]
      BY <2>5, <3>1
    <3>4. old(k) = old(l)
      BY <3>2, <3>3 DEF DistinctFrom
    <3>5. QED
      BY <2>2, <3>4
  <2>9. QED
    BY <2>1, <2>2, <2>4, <2>6, <2>7, <2>8 DEF Dropped
<1>3. QED
  BY <1>1, <1>2

(* A replacement keeps the demo on the slot it was in.                     *)
LEMMA ReplaceFacts ==
  ASSUME NEW s, Sound(s), MayReplace(s), NEW m \in Modules
  PROVE  /\ Good(ReplaceAfterInterruption(s, m))
         /\ ReplaceAfterInterruption(s, m).state.phase = "playing"
         /\ ReplaceAfterInterruption(s, m).state.module = m
         /\ ReplaceAfterInterruption(s, m).state.index = s.index
         /\ LET old == s.playlist
                new == ReplaceAfterInterruption(s, m).state.playlist
            IN  /\ new[s.index + 1] = m
                /\ \A k \in 1..s.index : new[k] = old[k]
                /\ \A k \in (s.index + 2)..Len(new) : new[k] # m
                /\ Len(new) \in {Len(old), Len(old) - 1}
<1> DEFINE i == s.index
           old == s.playlist
           kept == DropLater(old, i, m)
           list == [kept EXCEPT ![i + 1] = m]
           u == [s EXCEPT !.playlist = list, !.phase = "playing", !.module = m]
           t == [u EXCEPT !.reason = "none", !.checkpoint = NoCheckpoint, !.finished = FALSE]
<1>1. /\ s \in DemoState /\ old \in Seq(Modules) /\ i \in Nat
      /\ i < Len(old) /\ DistinctFrom(old, i)
  BY DEF Sound, DemoState, MayReplace, MayBeginAnswer, OnStage, HasSlot, ModulePhases
<1>2. ReplaceAfterInterruption(s, m) = Transition(t, RunOrder(m))
  BY DEF ReplaceAfterInterruption
<1>3. Dropped(old, i, m, kept)
  <2> HIDE DEF i, old
  <2>1. QED
    BY <1>1, DropLaterFacts
<1>4. /\ list \in Seq(Modules)
      /\ Len(list) \in {Len(old), Len(old) - 1}
      /\ i < Len(list)
      /\ list[i + 1] = m
      /\ \A k \in 1..i : list[k] = old[k]
      /\ \A k \in (i + 2)..Len(list) : list[k] # m
      /\ DistinctFrom(list, i)
  <2> HIDE DEF i, old, kept
  <2>1. /\ list \in Seq(Modules) /\ Len(list) = Len(kept) /\ list[i + 1] = m
        /\ \A k \in 1..Len(kept) : k # i + 1 => list[k] = kept[k]
    BY <1>1, <1>3 DEF Dropped
  <2> HIDE DEF list
  <2>2. /\ Len(kept) \in {Len(old), Len(old) - 1} /\ i < Len(kept) /\ Len(kept) \in Nat
        /\ \A k \in 1..(i + 1) : kept[k] = old[k]
        /\ \A k \in (i + 2)..Len(kept) : kept[k] # m
        /\ \A k, l \in (i + 1)..Len(kept) : kept[k] = kept[l] => k = l
    BY <1>3 DEF Dropped, DistinctFrom
  <2>3. \A k \in 1..i : list[k] = old[k]
    BY <1>1, <2>1, <2>2
  <2>4. \A k \in (i + 2)..Len(list) : list[k] = kept[k] /\ list[k] # m
    BY <1>1, <2>1, <2>2
  <2>5. DistinctFrom(list, i)
    <3>1. SUFFICES ASSUME NEW k \in (i + 1)..Len(list), NEW l \in (i + 1)..Len(list),
                          list[k] = list[l]
                   PROVE  k = l
      BY DEF DistinctFrom
    <3>2. k = i + 1 \/ k \in (i + 2)..Len(list)
      BY <1>1
    <3>3. l = i + 1 \/ l \in (i + 2)..Len(list)
      BY <1>1
    <3>4. QED
      BY <1>1, <2>1, <2>2, <2>4, <3>1, <3>2, <3>3
  <2>6. QED
    BY <2>1, <2>2, <2>3, <2>4, <2>5
<1> HIDE DEF list
<1>5. u \in DemoState /\ u.phase = "playing" /\ u.module = m /\ u.playlist = list /\ u.index = i
  BY <1>1, <1>4 DEF DemoState, Phases
<1> HIDE DEF u
<1>6. /\ t \in DemoState /\ t.phase = "playing" /\ t.module = m /\ t.playlist = list
      /\ t.index = i /\ t.finished = FALSE /\ t.checkpoint = NoCheckpoint
  BY <1>5 DEF DemoState, ResumeReasons
<1> HIDE DEF t
<1>7. Sound(t)
  BY <1>4, <1>6 DEF Sound, OnStage, HasSlot, WaitsForCause, CheckpointFits,
                    FinishedFits, ModulePhases
<1>8. RunOrder(m) \in Orders /\ RunOrder(m).kind = "run"
  BY DEF RunOrder, NoOrder, Orders
<1>9. Good(Transition(t, RunOrder(m)))
  BY <1>7, <1>8 DEF Good, ResumeFits, Transition
<1>10. QED
  BY <1>2, <1>4, <1>6, <1>9 DEF Transition

(* The outcome of a journey, reported while its module plays.              *)
LEMMA JourneyResultGood ==
  ASSUME NEW s, Sound(s), MayTakeResult(s), NEW ok \in BOOLEAN
  PROVE  Good(JourneyResult(s, ok))
<1> DEFINE failed == [s EXCEPT !.phase = "awaiting_resume", !.reason = "failure",
                               !.checkpoint = NoCheckpoint]
           done == [s EXCEPT !.phase = "awaiting_resume", !.reason = "module_complete",
                             !.checkpoint = NoCheckpoint, !.finished = FALSE]
<1>1. s \in DemoState /\ s.phase = "playing" /\ s.finished = FALSE
  BY DEF Sound, MayTakeResult, FinishedFits, DemoState
<1>2. CASE ~ok
  <2>1. JourneyResult(s, ok) = Transition(failed, NoOrder)
    BY <1>2 DEF JourneyResult
  <2>2. /\ failed \in DemoState /\ failed.phase = "awaiting_resume"
        /\ failed.module = s.module /\ failed.playlist = s.playlist
        /\ failed.index = s.index /\ failed.finished = FALSE
        /\ failed.checkpoint = NoCheckpoint /\ failed.reason = "failure"
    BY <1>1 DEF DemoState, Phases, ResumeReasons
  <2> HIDE DEF failed
  <2>3. WaitsForCause(failed) /\ CheckpointFits(failed) /\ FinishedFits(failed)
    BY <2>2 DEF WaitsForCause, CheckpointFits, FinishedFits, AnswerablePosition
  <2>4. QED
    BY <1>1, <2>1, <2>2, <2>3, HeldGood DEF ModulePhases
<1>3. CASE ok /\ HasSlot(s, s.index + 1)
  <2>1. JourneyResult(s, ok) = Transition(done, NoOrder)
    BY <1>3 DEF JourneyResult
  <2>2. /\ done \in DemoState /\ done.phase = "awaiting_resume"
        /\ done.module = s.module /\ done.playlist = s.playlist
        /\ done.index = s.index /\ done.finished = FALSE
        /\ done.checkpoint = NoCheckpoint /\ done.reason = "module_complete"
    BY <1>1 DEF DemoState, Phases, ResumeReasons
  <2> HIDE DEF done
  <2>3. WaitsForCause(done) /\ CheckpointFits(done) /\ FinishedFits(done)
    BY <2>2 DEF WaitsForCause, CheckpointFits, FinishedFits, AnswerablePosition
  <2>4. QED
    BY <1>1, <2>1, <2>2, <2>3, HeldGood DEF ModulePhases
<1>4. CASE ok /\ ~HasSlot(s, s.index + 1)
  BY <1>4, AdvanceGood DEF JourneyResult
<1>5. QED
  BY <1>2, <1>3, <1>4

-----------------------------------------------------------------------------
(* A transition that leaves the stage.                                     *)
LEMMA OffStageGood ==
  ASSUME NEW s, Sound(s), NEW o \in {NoOrder, StopOrder},
         NEW t, t \in DemoState, t.phase \in {"stopped", "completed"},
         t.module = NoModule, t.checkpoint = NoCheckpoint, t.reason = "none",
         t.finished = FALSE, t.playlist = s.playlist, t.index = s.index
  PROVE  Good(Transition(t, o))
<1>1. Sound(t)
  BY DEF Sound, OnStage, WaitsForCause, CheckpointFits, FinishedFits, ModulePhases
<1>2. o \in Orders /\ o.kind \in {"none", "stop"}
  BY DEF NoOrder, StopOrder, Orders
<1>3. QED
  BY <1>1, <1>2 DEF Good, ResumeFits, Transition

(* Stopping gives a good transition.                                       *)
LEMMA StopGood ==
  ASSUME NEW s, Sound(s)
  PROVE  Good(Stop(s))
<1> DEFINE u == [s EXCEPT !.phase = "stopped", !.question = NoQuestion, !.module = NoModule]
           t == [u EXCEPT !.checkpoint = NoCheckpoint, !.reason = "none", !.finished = FALSE]
<1>1. u \in DemoState /\ u.phase = "stopped" /\ u.module = NoModule
      /\ u.playlist = s.playlist /\ u.index = s.index
  BY DEF Sound, DemoState, Phases
<1>2. Stop(s) = Transition(t, StopOrder)
  BY DEF Stop
<1> HIDE DEF u
<1>3. /\ t \in DemoState /\ t.phase = "stopped" /\ t.module = NoModule
      /\ t.checkpoint = NoCheckpoint /\ t.reason = "none" /\ t.finished = FALSE
      /\ t.playlist = s.playlist /\ t.index = s.index
  BY <1>1 DEF DemoState, ResumeReasons
<1> HIDE DEF t
<1>4. QED
  BY <1>2, <1>3, OffStageGood

(* The end of the closing gives a good transition.                         *)
LEMMA CompleteClosingGood ==
  ASSUME NEW s, Sound(s), MayCompleteClosing(s)
  PROVE  Good(CompleteClosing(s))
<1> DEFINE t == [s EXCEPT !.phase = "completed", !.module = NoModule, !.question = NoQuestion]
<1>1. /\ s \in DemoState /\ s.checkpoint = NoCheckpoint /\ s.reason = "none"
      /\ s.finished = FALSE
  BY DEF Sound, MayCompleteClosing, OnStage, FinishedFits, ModulePhases, DemoState
<1>2. /\ t \in DemoState /\ t.phase = "completed" /\ t.module = NoModule
      /\ t.checkpoint = NoCheckpoint /\ t.reason = "none" /\ t.finished = FALSE
      /\ t.playlist = s.playlist /\ t.index = s.index
  BY <1>1 DEF DemoState, Phases
<1>3. CompleteClosing(s) = Transition(t, NoOrder)
  BY DEF CompleteClosing
<1> HIDE DEF t
<1>4. QED
  BY <1>2, <1>3, OffStageGood

(* Retrying the module on stage gives a good transition.                   *)
LEMMA RetryGood ==
  ASSUME NEW s, Sound(s), s.phase = "awaiting_resume"
  PROVE  Good(Retry(s))
<1> DEFINE t == [s EXCEPT !.phase = "playing", !.checkpoint = NoCheckpoint,
                          !.reason = "none", !.finished = FALSE]
<1>1. s \in DemoState /\ OnStage(s) /\ s.module \in Modules \union {NoModule}
  BY DEF Sound, DemoState
<1>2. /\ t \in DemoState /\ t.phase = "playing" /\ t.module = s.module
      /\ t.checkpoint = NoCheckpoint /\ t.finished = FALSE
      /\ t.playlist = s.playlist /\ t.index = s.index
  BY <1>1 DEF DemoState, Phases, ResumeReasons
<1>3. Retry(s) = Transition(t, RunOrder(s.module))
  BY DEF Retry
<1> HIDE DEF t
<1>4. Sound(t)
  BY <1>1, <1>2 DEF Sound, OnStage, HasSlot, WaitsForCause, CheckpointFits, FinishedFits, ModulePhases
<1>5. RunOrder(s.module) \in Orders /\ RunOrder(s.module).kind = "run"
  BY <1>1 DEF RunOrder, NoOrder, Orders
<1>6. QED
  BY <1>3, <1>4, <1>5 DEF Good, ResumeFits, Transition

(* continue either moves on or resumes the module on stage from its own    *)
(* checkpoint; which of the two is settled by the reason of the wait.      *)
LEMMA ContinueGood ==
  ASSUME NEW s, Sound(s), MayControl(s, "continue")
  PROVE  Good(Continue(s))
<1> DEFINE t == [s EXCEPT !.phase = "playing", !.reason = "none"]
<1>1. s \in DemoState /\ OnStage(s) /\ CheckpointFits(s) /\ s.phase = "awaiting_resume"
      /\ (s.reason = "module_complete" \/ VerifiedInterruption(s))
  BY DEF Sound, MayControl
<1>2. CASE s.reason = "module_complete" \/ s.finished
  BY <1>2, AdvanceGood DEF Continue
<1>3. CASE ~(s.reason = "module_complete" \/ s.finished)
  <2>1. s.checkpoint \in Checkpoints /\ s.checkpoint # NoCheckpoint
    BY <1>1, <1>3 DEF VerifiedInterruption, DemoState
  <2>2. /\ t \in DemoState /\ t.phase = "playing" /\ t.module = s.module
        /\ t.checkpoint = s.checkpoint /\ t.finished = FALSE
        /\ t.playlist = s.playlist /\ t.index = s.index
    BY <1>1, <1>3 DEF DemoState, Phases, ResumeReasons
  <2>3. Continue(s) = Transition(t, ResumeOrder(s.module, s.checkpoint))
    BY <1>3 DEF Continue
  <2> HIDE DEF t
  <2>4. Sound(t)
    BY <1>1, <2>2 DEF Sound, OnStage, HasSlot, WaitsForCause, CheckpointFits, FinishedFits, ModulePhases
  <2>5. ResumeOrder(s.module, s.checkpoint) \in Orders
    BY <1>1 DEF ResumeOrder, Orders, DemoState
  <2>6. ResumeFits(Transition(t, ResumeOrder(s.module, s.checkpoint)))
    BY <1>1, <2>1, <2>2 DEF ResumeFits, Transition, ResumeOrder, CheckpointFits
  <2>7. QED
    BY <2>3, <2>4, <2>5, <2>6 DEF Good, Transition
<1>4. QED
  BY <1>2, <1>3

(* The five buttons.                                                       *)
LEMMA ControlGood ==
  ASSUME NEW s, Sound(s), NEW a \in ControlActions, MayControl(s, a)
  PROVE  Good(Control(s, a))
<1>1. CASE a = "start"
  BY <1>1, StartGood DEF Control
<1>2. CASE a = "stop"
  BY <1>2, StopGood DEF Control
<1>3. CASE a = "retry"
  BY <1>3, RetryGood DEF Control, MayControl
<1>4. CASE a = "skip"
  BY <1>4, AdvanceGood DEF Control
<1>5. CASE a = "continue"
  BY <1>5, ContinueGood DEF Control
<1>6. QED
  BY <1>1, <1>2, <1>3, <1>4, <1>5 DEF ControlActions
=============================================================================
