-------------------------- MODULE DemoSessionProofs --------------------------
(***************************************************************************)
(* The properties of DemoSession for every signed profile: the inductive   *)
(* invariant is that the state is Sound, as defined with the lemmas on the *)
(* director's operations, and that the last instruction fits the state.    *)
(* Then the order of the audio in VoiceChannel, for every set of           *)
(* narrations and answers: the invariant follows the numbers of the chunks *)
(* from the lines to come, over the channel, to the queue, the player and  *)
(* what was heard, and each narration from its request to its end.         *)
(***************************************************************************)
EXTENDS DemoSession, DemoDirectorProofs, VoiceChannel, SequenceTheorems, WellFoundedInduction

(* The inductive invariant: the state and the last order are a good        *)
(* transition.                                                             *)
SInv == Good(Transition(demo, order))

(* What the invariant says of the state, and that a restore keeps the      *)
(* state.                                                                  *)
LEMMA SInvFacts ==
  ASSUME SInv
  PROVE  /\ Sound(demo)
         /\ order \in Orders
         /\ ResumeFits(Transition(demo, order))
         /\ Now = demo
<1>1. Sound(demo) /\ order \in Orders /\ ResumeFits(Transition(demo, order))
  BY DEF SInv, Good, Transition
<1>2. QED
  BY <1>1, SoundSurvives DEF Now

(* The initial state satisfies the invariant.                              *)
LEMMA InitSInv == Init => SInv
<1> SUFFICES ASSUME Init PROVE SInv
  OBVIOUS
<1>1. NoOrder \in Orders /\ NoOrder.kind = "none"
  BY DEF NoOrder, Orders
<1>2. QED
  BY <1>1, IdleSound DEF Init, SInv, Good, Transition, ResumeFits

(* Taking a good transition establishes the invariant.                     *)
LEMMA TakeAnyGood ==
  ASSUME NEW t, Good(t), Take(t)
  PROVE  SInv'
  BY DEF Take, Transition, SInv, Good, ResumeFits

(* Every operation of the director keeps the invariant.                    *)
LEMMA NextSInv == SInv /\ [Next]_vars => SInv'
<1> SUFFICES ASSUME SInv, [Next]_vars PROVE SInv'
  OBVIOUS
<1> USE SInvFacts
<1>1. CASE Capture
  BY <1>1, CaptureIntakeGood, TakeAnyGood DEF Capture
<1>2. CASE Interrupt
  BY <1>2, BeginInterruptionGood, TakeAnyGood DEF Interrupt
<1>3. CASE SettleAtStep
  BY <1>3, CheckpointInterruptionGood, TakeAnyGood DEF SettleAtStep
<1>4. CASE SettleAtEnd
  BY <1>4, CompleteModuleGood, TakeAnyGood DEF SettleAtEnd
<1>5. CASE BeginAnswer
  BY <1>5, AnswerGood, TakeAnyGood DEF BeginAnswer
<1>6. CASE FinishAnswer
  BY <1>6, AnswerGood, TakeAnyGood DEF FinishAnswer
<1>7. CASE ReplaceModule
  BY <1>7, ReplaceFacts, TakeAnyGood DEF ReplaceModule
<1>8. CASE ReportResult
  BY <1>8, JourneyResultGood, TakeAnyGood DEF ReportResult
<1>9. ASSUME NEW a \in ControlActions, Press(a) PROVE SInv'
  BY <1>9, ControlGood, TakeAnyGood DEF Press
<1>10. CASE FinishClosing
  BY <1>10, CompleteClosingGood, TakeAnyGood DEF FinishClosing
<1>11. CASE UNCHANGED vars
  BY <1>11 DEF vars, SInv, Good, Transition, ResumeFits
<1>12. QED
  BY <1>1, <1>2, <1>3, <1>4, <1>5, <1>6, <1>7, <1>8, <1>9, <1>10, <1>11 DEF Next

(* The inductive invariant holds in every reachable state.                 *)
THEOREM Invariance == Spec => []SInv
  BY InitSInv, NextSInv, PTL DEF Spec

-----------------------------------------------------------------------------
(* The types are those of the session state and of the instruction.        *)
THEOREM TypeCorrect == Spec => []TypeOK
<1>1. SInv => TypeOK
  BY SInvFacts DEF Sound, TypeOK
<1>2. QED
  BY <1>1, Invariance, PTL

(* restore never discards a state that legal calls produced.               *)
THEOREM SurvivesRestore == Spec => []StateSurvivesRestore
<1>1. SInv => StateSurvivesRestore
  BY SInvFacts, SoundSurvives DEF StateSurvivesRestore
<1>2. QED
  BY <1>1, Invariance, PTL

(* The module on stage is the playlist entry at moduleIndex.               *)
THEOREM OnStageInPlaylist == Spec => []PositionInPlaylist
<1>1. SInv => PositionInPlaylist
  BY SInvFacts DEF Sound, OnStage, PositionInPlaylist
<1>2. QED
  BY <1>1, Invariance, PTL

(* No number of replacements makes a module run twice from here on.        *)
THEOREM NoRepeat == Spec => []NothingRepeatsAhead
<1>1. SInv => NothingRepeatsAhead
  BY SInvFacts DEF Sound, DistinctFrom, NothingRepeatsAhead
<1>2. QED
  BY <1>1, Invariance, PTL

(* A waiting demo always shows a way forward besides Stop.                 *)
THEOREM WayForward == Spec => []NeverStranded
<1>1. SInv => NeverStranded
  <2> SUFFICES ASSUME SInv, demo.phase = "awaiting_resume"
               PROVE  Buttons(demo) \intersect {"continue", "retry", "skip"} # {}
    BY DEF NeverStranded
  <2>1. AnswerablePosition(demo)
    BY SInvFacts DEF Sound, WaitsForCause
  <2>2. CASE demo.reason = "failure"
    BY <2>2 DEF Buttons, ControlActions
  <2>3. CASE demo.reason = "module_complete" \/ VerifiedInterruption(demo)
    BY <2>3 DEF Buttons, ControlActions
  <2>4. QED
    BY <2>1, <2>2, <2>3 DEF AnswerablePosition
<1>2. QED
  BY <1>1, Invariance, PTL

(* No shown button is refused.                                             *)
THEOREM ButtonsWork == Spec => []ShownButtonsWork
<1>1. SInv => ShownButtonsWork
  <2> SUFFICES ASSUME SInv, NEW a \in Buttons(demo)
               PROVE  MayControl(demo, a)
    BY DEF ShownButtonsWork
  <2>1. demo.phase = "awaiting_resume" => demo.module # NoModule
    BY SInvFacts, AbsenceAssumption DEF Sound, OnStage, HasSlot, ModulePhases, DemoState
  <2>2. a \in ControlActions
    BY DEF Buttons
  <2>3. QED
    BY <2>1, <2>2 DEF Buttons, MayControl, ControlActions
<1>2. QED
  BY <1>1, Invariance, PTL

(* A resumed journey is that of the module on stage.                       *)
THEOREM ResumeFitsModule == Spec => []ResumeMatchesModule
<1>1. SInv => ResumeMatchesModule
  BY SInvFacts DEF ResumeFits, Transition, ResumeMatchesModule
<1>2. QED
  BY <1>1, Invariance, PTL

-----------------------------------------------------------------------------
(* Each operation as a step of Playthrough.                                *)

(* Holding a module is a step of the playthrough.                          *)
LEMMA HeldStep ==
  ASSUME demo.phase \in ModulePhases, demo'.phase \in ModulePhases \ {"playing"},
         demo'.playlist = demo.playlist, demo'.index = demo.index,
         demo'.module = demo.module
  PROVE  Visitor!Step
  BY DEF Visitor!Step, Visitor!Hold, StageOf, ModulePhases, TerminalPhases

(* Resuming the module on stage is a step of the playthrough.              *)
LEMMA ResumedStep ==
  ASSUME demo.phase = "awaiting_resume", demo'.phase = "playing",
         demo'.playlist = demo.playlist, demo'.index = demo.index,
         demo'.module = demo.module
  PROVE  Visitor!Step
  BY DEF Visitor!Step, Visitor!Resume, StageOf, TerminalPhases

(* Stopping or completing the demo is a step of the playthrough.           *)
LEMMA LeftStep ==
  ASSUME demo.phase \in Phases \ TerminalPhases, demo'.phase \in {"stopped", "completed"},
         demo'.module = NoModule,
         demo'.playlist = demo.playlist, demo'.index = demo.index
  PROVE  Visitor!Step
<1>1. StageOf(demo') = "off" /\ StageOf(demo) # "off"
  BY DEF StageOf, TerminalPhases, Phases
<1>2. QED
  BY <1>1 DEF Visitor!Step, Visitor!Leave

(* The next slot is entered from a held module, or the demo closes.        *)
LEMMA AdvancedStep ==
  ASSUME Sound(demo), demo' = AdvanceModule(demo).state,
         \/ demo.phase = "awaiting_resume"
         \/ demo.phase = "playing" /\ ~HasSlot(demo, demo.index + 1)
  PROVE  Visitor!Step
<1>1. demo \in DemoState /\ demo.index \in Nat /\ demo.index + 1 \in Nat
  BY DEF Sound, DemoState
<1>2. /\ demo'.playlist = demo.playlist /\ demo'.index = demo.index + 1
      /\ IF HasSlot(demo, demo.index + 1)
         THEN demo'.phase = "playing" /\ demo'.module = demo.playlist[demo.index + 2]
         ELSE demo'.phase = "closing" /\ demo'.module = NoModule
  <2>1. (demo.index + 1) + 1 = demo.index + 2
    BY <1>1
  <2>2. QED
    BY <1>1, <2>1, PlaySlotView DEF AdvanceModule
<1>3. Visitor!More <=> HasSlot(demo, demo.index + 1)
  BY DEF Visitor!More, HasSlot
<1>4. CASE HasSlot(demo, demo.index + 1)
  BY <1>2, <1>3, <1>4 DEF Visitor!Step, Visitor!Next, StageOf, TerminalPhases
<1>5. CASE ~HasSlot(demo, demo.index + 1)
  BY <1>2, <1>3, <1>5 DEF Visitor!Step, Visitor!Close, StageOf, TerminalPhases
<1>6. QED
  BY <1>4, <1>5

(* The next question of the intake is a step of the playthrough.           *)
LEMMA AskedStep ==
  ASSUME demo.phase = "intake", demo'.phase = "intake",
         demo'.playlist = demo.playlist, demo'.index = demo.index,
         demo'.module = demo.module
  PROVE  Visitor!Step
  BY DEF Visitor!Step, Visitor!AskNext, Visitor!tour, StageOf, TerminalPhases

(* Beginning a playlist is a step of the playthrough.                      *)
LEMMA EnteredStep ==
  ASSUME demo.phase = "intake", Sound(demo'), NEW s, s \in DemoState,
         demo' = BeginPlaylist(s).state
  PROVE  Visitor!Step
<1> DEFINE own == IF s.persona = NoPersona THEN << >> ELSE PersonaPlaylist[s.persona]
           list == IF own = << >> THEN DefaultPlaylist ELSE own
           t == [s EXCEPT !.question = NoQuestion, !.playlist = list]
<1>1. list \in Seq(Modules)
  BY ProfileAssumption DEF DemoState
<1>2. t \in DemoState /\ t.playlist = list
  BY <1>1 DEF DemoState
<1>3. demo' = PlaySlot(t, 0).state
  BY DEF BeginPlaylist
<1> HIDE DEF t, list
<1>4. /\ demo'.playlist = list /\ demo'.index = 0
      /\ IF HasSlot(t, 0)
         THEN demo'.phase = "playing" /\ demo'.module = list[0 + 1]
         ELSE demo'.phase = "closing" /\ demo'.module = NoModule
  BY <1>2, <1>3, PlaySlotView
<1>5. HasSlot(t, 0) <=> list # << >>
  BY <1>1, <1>2 DEF HasSlot
<1>6. QED
  BY <1>1, <1>4, <1>5 DEF Visitor!Step, Visitor!Enter, StageOf, TerminalPhases

(* Capturing a lead field is a step of the playthrough.                    *)
LEMMA CaptureStep ==
  ASSUME SInv, SInv', Capture
  PROVE  Visitor!Step
<1>1. PICK p \in Personas \union {NoPersona} : demo' = CaptureIntake(demo, p).state
  BY SInvFacts DEF Capture, Take
<1>2. /\ demo \in DemoState /\ demo.phase = "intake" /\ Sound(demo')
  BY SInvFacts DEF Capture, MayCaptureIntake, Sound, SInv, Good, Transition
<1> DEFINE first == [demo EXCEPT !.persona = p, !.genericIndex = 1, !.question = SecondQuestion]
           second == [demo EXCEPT !.genericIndex = 2]
           third == [second EXCEPT !.personaAsked = TRUE, !.question = PersonaQuestionOf(demo)]
           asked == [demo EXCEPT !.personaAsked = TRUE]
<1>3. CASE demo' = first
  <2>1. demo'.phase = "intake" /\ demo'.playlist = demo.playlist
        /\ demo'.index = demo.index /\ demo'.module = demo.module
    BY <1>2, <1>3 DEF DemoState
  <2>2. QED
    BY <1>2, <2>1, AskedStep
<1>4. CASE demo' = third
  <2>1. demo'.phase = "intake" /\ demo'.playlist = demo.playlist
        /\ demo'.index = demo.index /\ demo'.module = demo.module
    BY <1>2, <1>4 DEF DemoState
  <2>2. QED
    BY <1>2, <2>1, AskedStep
<1>5. second \in DemoState /\ asked \in DemoState
  <2>1. second \in DemoState
    BY <1>2 DEF DemoState
  <2>2. asked \in DemoState
    BY <1>2 DEF DemoState
  <2>3. QED
    BY <2>1, <2>2
<1>6. \/ demo' = first \/ demo' = third
      \/ demo' = BeginPlaylist(second).state \/ demo' = BeginPlaylist(asked).state
  BY <1>1 DEF CaptureIntake, Transition
<1> HIDE DEF first, second, third, asked
<1>7. QED
  BY <1>2, <1>3, <1>4, <1>5, <1>6, EnteredStep

(* Replacing the module on stage is a step of the playthrough.             *)
LEMMA ReplaceStep ==
  ASSUME SInv, ReplaceModule
  PROVE  Visitor!Step
<1>1. PICK m \in Modules : demo' = ReplaceAfterInterruption(demo, m).state
  BY SInvFacts DEF ReplaceModule, Take
<1>2. Sound(demo) /\ MayReplace(demo)
  BY SInvFacts DEF ReplaceModule
<1>3. demo.phase = "awaiting_resume" /\ demo.index \in Nat
  BY <1>2 DEF MayReplace, MayBeginAnswer, Sound, DemoState
<1>4. /\ demo'.phase = "playing" /\ demo'.module = m /\ demo'.index = demo.index
      /\ demo'.playlist[demo.index + 1] = m
      /\ \A k \in 1..demo.index : demo'.playlist[k] = demo.playlist[k]
      /\ \A k \in (demo.index + 2)..Len(demo'.playlist) : demo'.playlist[k] # m
      /\ Len(demo'.playlist) \in {Len(demo.playlist), Len(demo.playlist) - 1}
  BY <1>1, <1>2, ReplaceFacts
<1>5. Visitor!Replace
  BY <1>3, <1>4 DEF Visitor!Replace, StageOf, TerminalPhases
<1>6. QED
  BY <1>5 DEF Visitor!Step

(* The result of a journey is a step of the playthrough.                   *)
LEMMA ResultStep ==
  ASSUME SInv, ReportResult
  PROVE  Visitor!Step
<1>1. PICK ok \in BOOLEAN : demo' = JourneyResult(demo, ok).state
  BY SInvFacts DEF ReportResult, Take
<1>2. Sound(demo) /\ demo \in DemoState /\ demo.phase = "playing"
  BY SInvFacts DEF ReportResult, MayTakeResult, Sound
<1>3. CASE ok /\ ~HasSlot(demo, demo.index + 1)
  BY <1>1, <1>2, <1>3, AdvancedStep DEF JourneyResult
<1>4. CASE ~ok \/ HasSlot(demo, demo.index + 1)
  <2>1. demo'.phase = "awaiting_resume" /\ demo'.playlist = demo.playlist
        /\ demo'.index = demo.index /\ demo'.module = demo.module
    BY <1>1, <1>2, <1>4 DEF JourneyResult, Transition, DemoState
  <2>2. QED
    BY <1>2, <2>1, HeldStep DEF ModulePhases
<1>5. QED
  BY <1>3, <1>4

(* An accepted button is a step of the playthrough.                        *)
LEMMA PressStep ==
  ASSUME SInv, NEW a \in ControlActions, Press(a)
  PROVE  Visitor!Step
<1>1. Sound(demo) /\ demo \in DemoState /\ MayControl(demo, a) /\ demo' = Control(demo, a).state
  BY SInvFacts DEF Press, Take, Sound
<1>2. CASE a = "start"
  <2>1. demo.phase \in TerminalPhases /\ demo' = Start.state
    BY <1>1, <1>2 DEF MayControl, Control
  <2>2. demo'.phase = "intake" /\ demo'.playlist = << >> /\ demo'.index = 0
        /\ demo'.module = NoModule
    BY <2>1 DEF Start, Transition, Idle
  <2>3. QED
    BY <2>1, <2>2 DEF Visitor!Step, Visitor!Welcome, StageOf, TerminalPhases
<1>3. CASE a = "stop"
  <2>1. demo.phase \in Phases \ TerminalPhases /\ demo' = Stop(demo).state
    BY <1>1, <1>3 DEF MayControl, Control, DemoState
  <2>2. demo'.phase = "stopped" /\ demo'.playlist = demo.playlist
        /\ demo'.index = demo.index /\ demo'.module = NoModule
    BY <1>1, <2>1 DEF Stop, Transition, DemoState
  <2>3. QED
    BY <2>1, <2>2, LeftStep
<1>4. CASE a = "retry"
  <2>1. demo.phase = "awaiting_resume" /\ demo' = Retry(demo).state
    BY <1>1, <1>4 DEF MayControl, Control
  <2>2. demo'.phase = "playing" /\ demo'.playlist = demo.playlist
        /\ demo'.index = demo.index /\ demo'.module = demo.module
    BY <1>1, <2>1 DEF Retry, Transition, DemoState
  <2>3. QED
    BY <2>1, <2>2, ResumedStep
<1>5. CASE a = "skip"
  <2>1. demo.phase = "awaiting_resume" /\ demo' = AdvanceModule(demo).state
    BY <1>1, <1>5 DEF MayControl, Control
  <2>2. QED
    BY <1>1, <2>1, AdvancedStep
<1>6. CASE a = "continue"
  <2>1. demo.phase = "awaiting_resume" /\ demo' = Continue(demo).state
    BY <1>1, <1>6 DEF MayControl, Control
  <2>2. CASE demo.reason = "module_complete" \/ demo.finished
    BY <1>1, <2>1, <2>2, AdvancedStep DEF Continue
  <2>3. CASE ~(demo.reason = "module_complete" \/ demo.finished)
    <3>1. demo'.phase = "playing" /\ demo'.playlist = demo.playlist
          /\ demo'.index = demo.index /\ demo'.module = demo.module
      BY <1>1, <2>1, <2>3 DEF Continue, Transition, DemoState
    <3>2. QED
      BY <2>1, <3>1, ResumedStep
  <2>4. QED
    BY <2>2, <2>3
<1>7. QED
  BY <1>2, <1>3, <1>4, <1>5, <1>6 DEF ControlActions

(* The operations that hold the module on stage where it is.               *)
LEMMA HoldSteps ==
  ASSUME SInv, Interrupt \/ SettleAtStep \/ SettleAtEnd \/ BeginAnswer \/ FinishAnswer
  PROVE  Visitor!Step
<1>1. demo \in DemoState
  BY SInvFacts DEF Sound
<1>2. demo.phase \in ModulePhases
  BY SInvFacts DEF Interrupt, SettleAtStep, SettleAtEnd, BeginAnswer, FinishAnswer,
       MayBeginInterruption, MaySettleInterruption, MayBeginAnswer, MayFinishAnswer, ModulePhases
<1>3. /\ demo'.phase \in {"pausing", "awaiting_resume", "answering"}
      /\ demo'.playlist = demo.playlist /\ demo'.index = demo.index
      /\ demo'.module = demo.module
  <2>1. CASE Interrupt
    BY <1>1, <2>1, SInvFacts DEF Interrupt, Take, BeginInterruption, Transition, DemoState
  <2>2. CASE SettleAtStep
    <3>1. PICK c \in Checkpoints : demo' = CheckpointInterruption(demo, c).state
      BY <2>2, SInvFacts DEF SettleAtStep, Take
    <3>2. QED
      BY <1>1, <3>1 DEF CheckpointInterruption, Transition, DemoState
  <2>3. CASE SettleAtEnd
    <3>1. demo' = CompleteModuleDuringInterruption(demo).state
      BY <2>3, SInvFacts DEF SettleAtEnd, Take
    <3>2. QED
      BY <1>1, <3>1 DEF CompleteModuleDuringInterruption, Transition, DemoState
  <2>4. CASE BeginAnswer
    BY <1>1, <2>4, SInvFacts DEF BeginAnswer, Take, BeginInterruptionAnswer, Transition, DemoState
  <2>5. CASE FinishAnswer
    BY <1>1, <2>5, SInvFacts DEF FinishAnswer, Take, FinishInterruptionAnswer, Transition, DemoState
  <2>6. QED
    BY <2>1, <2>2, <2>3, <2>4, <2>5
<1>4. QED
  BY <1>2, <1>3, HeldStep DEF ModulePhases

(* The end of the closing is a step of the playthrough.                    *)
LEMMA FinishStep ==
  ASSUME SInv, FinishClosing
  PROVE  Visitor!Step
<1>1. demo \in DemoState /\ demo.phase = "closing" /\ demo' = CompleteClosing(demo).state
  BY SInvFacts DEF FinishClosing, MayCompleteClosing, Take, Sound
<1>2. demo'.phase = "completed" /\ demo'.playlist = demo.playlist
      /\ demo'.index = demo.index /\ demo'.module = NoModule
  BY <1>1 DEF CompleteClosing, Transition, DemoState
<1>3. QED
  BY <1>1, <1>2, LeftStep DEF TerminalPhases, Phases

(* Every legal sequence of director calls is a playthrough of one playlist *)
(* at a time, whatever the profile.                                        *)
THEOREM Refinement == Spec => ImplementsPlaythrough
<1>1. Init => Visitor!Init
  BY DEF Init, Visitor!Init, StageOf, TerminalPhases, Idle
<1>2. SInv /\ SInv' /\ [Next]_vars => [Visitor!Step]_(Visitor!tour)
  <2>1. SUFFICES ASSUME SInv, SInv', Next PROVE Visitor!Step
    BY DEF vars, Visitor!tour, StageOf
  <2>2. ASSUME NEW a \in ControlActions, Press(a) PROVE Visitor!Step
    BY <2>1, <2>2, PressStep
  <2>3. QED
    BY <2>1, <2>2, CaptureStep, HoldSteps, ReplaceStep, ResultStep, FinishStep DEF Next
<1>3. QED
  BY <1>1, <1>2, Invariance, PTL DEF Spec, ImplementsPlaythrough, Visitor!Spec

-----------------------------------------------------------------------------
(* The order of the audio *)

\* Records: what is in them, as far as the order of the audio is concerned.
Pieces == [utt : Utterances, seq : Nat \ {0}]
ClientFields == {"mic", "listening", "player", "playing", "items", "next", "played", "blocked", "wait", "pumpSoon", "barrier", "probe", "local",
                 "committed", "restart"}
EngineFields == {"gen", "seq", "tasks", "out", "turn", "stt"}
SessionFields == {"queue", "saying", "last", "said"}
DownKinds == {"chunk", "end", "cancel", "final", "no_speech", "listen", "error"}
UpKinds == {"say", "turn", "ended", "failed", "cancelled"}
Downs == [kind : DownKinds, utt : Utterances \cup {"none"}, seq : Nat]
Ups == [kind : UpKinds, utt : Utterances \cup {"none"}, seq : Nat]
Tasks == [utt : Utterances, gen : Nat, left : Seq(Nat \ {0})]
Waiter == [at : {"idle", "waiting", "completed", "interrupted", "failed"}, last : Nat, ended : BOOLEAN]

\* What the browser has of the audio.
Held(c) == c.items \cup ({c.player} \ {NoItem})
\* n is later than all the browser has or had.
Later(n, c, h) == h < n /\ c.played < n /\ \A i \in Held(c) : i.seq < n
\* and than all that is on its way to it.
Chunk(m) == m.kind = "chunk"
After(n, c, h, d) == Later(n, c, h) /\ \A k \in DOMAIN d : Chunk(d[k]) => d[k].seq < n

\* What is queued comes after what was played and what plays.
InLine(c, h) ==
  /\ \A i \in c.items : i.seq > h /\ i.seq > c.played
  /\ \A i, j \in c.items : i.seq = j.seq => i = j
  /\ c.player # NoItem =>
       /\ c.player.seq > c.played /\ (~c.playing => c.player.seq > h) /\ c.player.seq >= h
       /\ \A i \in c.items : i.seq > c.player.seq
Listens(c, h) ==
  /\ c = [f \in ClientFields |-> c[f]]
  /\ c.items \subseteq Pieces /\ c.player \in Pieces \cup {NoItem} /\ c.playing \in BOOLEAN /\ c.played \in Nat /\ h \in Nat
  /\ InLine(c, h)

Arriving(d, c, h) ==
  /\ d \in Seq(Downs)
  /\ \A k \in DOMAIN d : Chunk(d[k]) => d[k].utt \in Utterances /\ Later(d[k].seq, c, h)
  /\ \A j, k \in DOMAIN d : j < k /\ Chunk(d[j]) /\ Chunk(d[k]) => d[j].seq < d[k].seq

\* The numbers of the lines that are not cut off are those to come.
Coming(e, d, c, h) ==
  /\ e = [f \in EngineFields |-> e[f]] /\ e.gen \in Nat /\ e.seq \in Nat /\ e.tasks \in Seq(Tasks)
  /\ After(e.seq + 1, c, h, d)
  /\ \A i \in DOMAIN e.tasks :
       /\ e.tasks[i].left # <<>> /\ e.tasks[i].gen <= e.gen
       /\ e.tasks[i].gen = e.gen =>
            \A p \in DOMAIN e.tasks[i].left :
              /\ e.tasks[i].left[p] <= e.seq /\ After(e.tasks[i].left[p], c, h, d)
              /\ \A q \in DOMAIN e.tasks[i].left : p < q => e.tasks[i].left[p] < e.tasks[i].left[q]
              /\ \A j \in DOMAIN e.tasks : i < j /\ e.tasks[j].gen = e.gen =>
                   \A q \in DOMAIN e.tasks[j].left : e.tasks[i].left[p] < e.tasks[j].left[q]
Spoken(x) ==
  /\ x = [f \in SessionFields |-> x[f]] /\ x.queue \in Seq(Ups) /\ x.saying \in Utterances \cup {"none"} /\ x.last \in Nat
  /\ \A k \in DOMAIN x.queue : x.queue[k].kind = "say" => x.queue[k].utt \in Narrations

\* Where a narration is.
Asks(m, u) == m.kind = "say" /\ m.utt = u
Brings(m, u) == Chunk(m) /\ m.utt = u
Ends(m, u) == m.kind = "end" /\ m.utt = u
Owed(q, u) == \E k \in DOMAIN q : Asks(q[k], u)
Worked(ts, u) == \E i \in DOMAIN ts : ts[i].utt = u
Under(d, u) == \E k \in DOMAIN d : Brings(d[k], u)
Closing(d, u) == \E k \in DOMAIN d : Ends(d[k], u)
Within(c, u, n) == \A i \in Held(c) : i.utt = u => i.seq <= n
UnderWithin(d, u, n) == \A k \in DOMAIN d : Brings(d[k], u) => d[k].seq <= n
Silent(c, u) == \A i \in Held(c) : i.utt # u

Once(q, u) == \A j, k \in DOMAIN q : Asks(q[j], u) /\ Asks(q[k], u) => j = k
OneTask(ts, u) == \A i, j \in DOMAIN ts : ts[i].utt = u /\ ts[j].utt = u => i = j
OneEnd(d, u) == \A j, k \in DOMAIN d : Ends(d[j], u) /\ Ends(d[k], u) => j = k

\* A narration is asked for, worked on, closed and over, in this order.
Course(u, w, q, saying, last, ts, d, c) ==
  /\ Once(q, u) /\ OneTask(ts, u) /\ OneEnd(d, u)
  /\ Owed(q, u) => ~Worked(ts, u) /\ saying # u /\ ~Under(d, u) /\ ~Closing(d, u) /\ ~w.ended /\ w.at # "idle"
  /\ Worked(ts, u) => saying = u
  /\ saying = u => ~Closing(d, u) /\ ~w.ended /\ w.at # "idle"
  /\ saying = u /\ last # Nothing => ~Worked(ts, u) /\ Within(c, u, last) /\ UnderWithin(d, u, last)
  /\ \A k \in DOMAIN d : Ends(d[k], u) =>
       /\ ~w.ended /\ w.at # "idle"
       /\ \A j \in DOMAIN d : Brings(d[j], u) => j < k
       /\ d[k].seq # Nothing => Within(c, u, d[k].seq) /\ UnderWithin(d, u, d[k].seq)
  /\ w.ended => w.at # "idle" /\ ~Under(d, u) /\ (w.last # Nothing => Within(c, u, w.last))
  /\ w.at = "idle" => ~Under(d, u)
  /\ w.at = "completed" => w.ended /\ (w.last # Nothing => Silent(c, u))
InOrder(ws, c, h, d, e, x) ==
  /\ ws \in [Narrations -> Waiter]
  /\ Listens(c, h)
  /\ Arriving(d, c, h)
  /\ Coming(e, d, c, h)
  /\ Spoken(x)
  /\ \A u \in Narrations : Course(u, ws[u], x.queue, x.saying, x.last, e.tasks, d, c)
VoiceInv == InOrder(waiters, client, heard, downlink, engine, session)

-----------------------------------------------------------------------------
(* The queue of the browser *)

\* A queue that is not empty has a first piece.
LEMMA FirstOfQueue ==
  ASSUME NEW items, items \subseteq Pieces, items # {}
  PROVE  Earliest(items) \in items /\ \A k \in items : Earliest(items).seq =< k.seq
  <1> DEFINE nums == {i.seq : i \in items}
  <1>1. nums \subseteq Nat /\ nums # {}
    BY DEF Pieces
  <1>2. IsWellFoundedOn(OpToRel(<, Nat), Nat)
    BY NatLessThanWellFounded
  <1>3. PICK x \in nums : \A y \in nums : <<y, x>> \notin OpToRel(<, Nat)
    BY <1>1, <1>2, WFMin
  <1>4. ASSUME NEW y \in nums PROVE x =< y
    <2>1. <<y, x>> \notin OpToRel(<, Nat)
      BY <1>3
    <2>2. x \in Nat /\ y \in Nat
      BY <1>1
    <2>3. ~(y < x)
      BY <2>1, <2>2 DEF OpToRel
    <2> QED BY <2>2, <2>3
  <1>5. PICK i \in items : i.seq = x
    BY <1>3
  <1>6. \A k \in items : i.seq =< k.seq
    BY <1>4, <1>5
  <1> QED BY <1>6 DEF Earliest

\* Two clients with the same audio.
SameAudio(c, d) ==
  /\ d = [f \in ClientFields |-> d[f]]
  /\ d.items = c.items /\ d.player = c.player /\ d.playing = c.playing /\ d.played = c.played
\* The same audio is as well ordered under another microphone, barrier or probe.
LEMMA SameListens ==
  ASSUME NEW c, NEW d, NEW h, Listens(c, h), SameAudio(c, d)
  PROVE  Listens(d, h) /\ Held(d) = Held(c) /\ d.played = c.played
  BY DEF Listens, InLine, SameAudio, Held

\* Nothing is left.
Emptied(c, d) ==
  /\ d = [f \in ClientFields |-> d[f]]
  /\ d.items = {} /\ d.player = NoItem /\ d.playing = FALSE /\ d.played = c.played
\* Nothing is in order.
LEMMA EmptiedListens ==
  ASSUME NEW c, NEW d, NEW h, Listens(c, h), Emptied(c, d)
  PROVE  Listens(d, h) /\ Held(d) = {}
  BY DEF Listens, InLine, Emptied, Held

\* The first piece becomes the player's.
Begun(c, d, i) ==
  /\ d = [f \in ClientFields |-> d[f]]
  /\ d.items = c.items \ {i} /\ d.player = i /\ d.playing = FALSE /\ d.played = c.played
\* The first piece can play: the others are later.
LEMMA BegunListens ==
  ASSUME NEW c, NEW d, NEW h, NEW i, Listens(c, h), Begun(c, d, i), c.player = NoItem,
         i \in c.items, \A k \in c.items : i.seq =< k.seq
  PROVE  Listens(d, h) /\ Held(d) = Held(c)
  <1>1. i \in Pieces /\ i # NoItem
    BY DEF Listens, Pieces, NoItem
  <1>2. c.items \subseteq Pieces /\ h \in Nat /\ c.played \in Nat
    BY DEF Listens
  <1>4. \A k \in c.items : k.seq \in Nat /\ k.seq > h /\ k.seq > c.played
    BY <1>2 DEF Listens, InLine, Pieces
  <1>5. \A k \in c.items \ {i} : k.seq > i.seq
    BY <1>4 DEF Listens, InLine
  <1>3. InLine(d, h)
    BY <1>1, <1>2, <1>4, <1>5 DEF Listens, InLine, Begun
  <1> QED BY <1>1, <1>3 DEF Listens, Begun, Held

\* A pump keeps what the browser has, and its order.
LEMMA PumpedListens ==
  ASSUME NEW c, NEW h, Listens(c, h)
  PROVE  Listens(Pumped(c), h) /\ Held(Pumped(c)) = Held(c) /\ Pumped(c).played = c.played
  <1> DEFINE d == Pumped(c)
             head == Earliest(c.items)
  <1>1. c = [f \in ClientFields |-> c[f]]
    BY DEF Listens
  <1>2. CASE c.player # NoItem \/ c.blocked
    BY <1>2 DEF Pumped
  <1>3. CASE ~(c.player # NoItem \/ c.blocked) /\ c.items = {}
    <2>1. d = [c EXCEPT !.wait = FALSE]
      BY <1>3 DEF Pumped
    <2>2. SameAudio(c, d)
      BY <1>1, <2>1 DEF SameAudio, ClientFields
    <2> QED BY <2>2, SameListens
  <1>4. CASE ~(c.player # NoItem \/ c.blocked) /\ c.items # {}
    <2> DEFINE next == IF c.next = 0 THEN head.seq ELSE c.next
    <2>1. CASE head.seq > next
      <3>1. d = [c EXCEPT !.next = next, !.wait = TRUE]
        BY <1>4, <2>1 DEF Pumped
      <3> HIDE DEF next
      <3>2. SameAudio(c, d)
        BY <1>1, <3>1 DEF SameAudio, ClientFields
      <3> QED BY <3>2, SameListens
    <2>2. CASE ~(head.seq > next)
      <3> DEFINE n == IF next > head.seq THEN next ELSE head.seq + 1
      <3>1. d = [c EXCEPT !.wait = FALSE, !.player = head, !.playing = FALSE, !.items = c.items \ {head}, !.next = n]
        BY <1>4, <2>2 DEF Pumped
      <3>2. head \in c.items /\ \A k \in c.items : head.seq =< k.seq
        BY <1>4, FirstOfQueue DEF Listens
      <3> HIDE DEF next, n, head, d
      <3>3. Begun(c, d, head)
        BY <1>1, <3>1 DEF Begun, ClientFields
      <3>4. d.played = c.played
        BY <3>3 DEF Begun
      <3> QED BY <1>4, <3>2, <3>3, <3>4, BegunListens DEF d
    <2> QED BY <2>1, <2>2
  <1> QED BY <1>2, <1>3, <1>4

-----------------------------------------------------------------------------
(* What the browser does on its own *)

\* It has no more audio than before.
Fewer(c, h, d, g) == Held(d) \subseteq Held(c) /\ \A n \in Nat : Later(n, c, h) => Later(n, d, g)
\* Less audio, and nothing new was heard or played.
LEMMA FewerStays ==
  ASSUME NEW c, NEW d, NEW h, Held(d) \subseteq Held(c), d.played = c.played
  PROVE  Fewer(c, h, d, h)
  BY DEF Fewer, Later
\* What arrives is then as late as before.
LEMMA FewerArriving ==
  ASSUME NEW c, NEW h, NEW d, NEW g, NEW dl, Fewer(c, h, d, g), Arriving(dl, c, h)
  PROVE  Arriving(dl, d, g)
  <1>1. ASSUME NEW k \in DOMAIN dl, Chunk(dl[k]) PROVE Later(dl[k].seq, d, g)
    <2>1. dl[k] \in Downs
      BY DEF Arriving
    <2> QED BY <1>1, <2>1 DEF Fewer, Arriving, Downs
  <1> QED BY <1>1 DEF Arriving
\* And so is what is still to come.
LEMMA FewerComing ==
  ASSUME NEW c, NEW h, NEW d, NEW g, NEW dl, NEW e, Fewer(c, h, d, g), Coming(e, dl, c, h)
  PROVE  Coming(e, dl, d, g)
  <1>1. ASSUME NEW n \in Nat, After(n, c, h, dl) PROVE After(n, d, g, dl)
    BY <1>1 DEF After, Fewer
  <1>2. e.seq + 1 \in Nat
    BY DEF Coming
  <1>3. After(e.seq + 1, d, g, dl)
    BY <1>1, <1>2 DEF Coming
  <1>4. \A i \in DOMAIN e.tasks : \A p \in DOMAIN e.tasks[i].left : e.tasks[i].left[p] \in Nat
    <2>1. ASSUME NEW i \in DOMAIN e.tasks, NEW p \in DOMAIN e.tasks[i].left PROVE e.tasks[i].left[p] \in Nat
      <3>1. e.tasks[i] \in Tasks
        BY DEF Coming
      <3>2. e.tasks[i].left \in Seq(Nat \ {0})
        BY <3>1 DEF Tasks
      <3> QED BY <3>2
    <2> QED BY <2>1
  <1>5. ASSUME NEW i \in DOMAIN e.tasks, e.tasks[i].gen = e.gen, NEW p \in DOMAIN e.tasks[i].left
        PROVE  After(e.tasks[i].left[p], d, g, dl)
    BY <1>1, <1>4, <1>5 DEF Coming
  <1> HIDE DEF After
  <1> QED BY <1>3, <1>5 DEF Coming

\* A waiter stays, or its narration is interrupted, fails, or is over.
Waits(u, w, v, d) ==
  /\ v.last = w.last /\ v.ended = w.ended
  /\ \/ v.at = w.at
     \/ w.at # "idle" /\ v.at \in {"interrupted", "failed"}
     \/ w.at # "idle" /\ v.at = "completed" /\ w.ended /\ (w.last # Nothing => Silent(d, u))
Patient(ws, vs, d) == vs \in [Narrations -> Waiter] /\ \A u \in Narrations : Waits(u, ws[u], vs[u], d)

\* What is said to the server is not that a narration is wanted.
Acked(x, y) == y = x \/ \E m \in Ups : m.kind # "say" /\ y = [x EXCEPT !.queue = Append(x.queue, m)]
\* An acknowledgement only grows the queue of the control socket.
LEMMA AckedSpoken ==
  ASSUME NEW x, NEW y, Spoken(x), Acked(x, y)
  PROVE  /\ Spoken(y) /\ y.saying = x.saying /\ y.last = x.last /\ y.said = x.said
         /\ y.queue = x.queue \/ \E m \in Ups : m.kind # "say" /\ y.queue = Append(x.queue, m)
  <1>1. CASE y = x
    BY <1>1
  <1>2. ASSUME NEW m \in Ups, m.kind # "say", y = [x EXCEPT !.queue = Append(x.queue, m)]
        PROVE  /\ Spoken(y) /\ y.saying = x.saying /\ y.last = x.last /\ y.said = x.said
               /\ y.queue = Append(x.queue, m)
    <2>1. x = [f \in SessionFields |-> x[f]]
      BY DEF Spoken
    <2>2. y = [f \in SessionFields |-> y[f]] /\ y.saying = x.saying /\ y.last = x.last /\ y.said = x.said /\ y.queue = Append(x.queue, m)
      BY <1>2, <2>1 DEF SessionFields
    <2>3. y.queue \in Seq(Ups) /\ \A k \in DOMAIN y.queue : y.queue[k].kind = "say" => y.queue[k].utt \in Narrations
      <3>1. x.queue \in Seq(Ups)
        BY DEF Spoken
      <3>2. y.queue \in Seq(Ups) /\ \A k \in DOMAIN y.queue : y.queue[k] = m \/ (k \in DOMAIN x.queue /\ y.queue[k] = x.queue[k])
        BY <1>2, <2>2, <3>1
      <3> QED BY <1>2, <3>2 DEF Spoken
    <2> QED BY <2>2, <2>3 DEF Spoken
  <1> QED BY <1>1, <1>2 DEF Acked

\* It asks for no narration.
LEMMA AppendAsks ==
  ASSUME NEW q \in Seq(Ups), NEW m \in Ups, m.kind # "say", NEW u, Once(q, u)
  PROVE  Once(Append(q, m), u) /\ (Owed(Append(q, m), u) => Owed(q, u))
  <1>1. \A k \in DOMAIN Append(q, m) : Asks(Append(q, m)[k], u) => k \in DOMAIN q /\ Append(q, m)[k] = q[k]
    BY DEF Asks
  <1> QED BY <1>1 DEF Once, Owed

\* A narration stays on its course when the browser has less of it.
LEMMA CourseMoves ==
  ASSUME NEW u, NEW w, NEW v, NEW q, NEW p, NEW saying, NEW last, NEW ts, NEW dl, NEW c, NEW d,
         Course(u, w, q, saying, last, ts, dl, c), Held(d) \subseteq Held(c), Waits(u, w, v, d),
         Once(p, u), Owed(p, u) => Owed(q, u)
  PROVE  Course(u, v, p, saying, last, ts, dl, d)
  <1>1. \A n : Within(c, u, n) => Within(d, u, n)
    BY DEF Within
  <1>2. Silent(c, u) => Silent(d, u)
    BY DEF Silent
  <1> HIDE DEF Within
  <1> QED BY <1>1, <1>2 DEF Course, Waits

\* A step of the browser that brings no audio keeps everything in order.
LEMMA AudioMoves ==
  ASSUME NEW ws, NEW c, NEW h, NEW dl, NEW e, NEW x, InOrder(ws, c, h, dl, e, x),
         NEW vs, NEW d, NEW g, NEW y, Listens(d, g), Fewer(c, h, d, g), Patient(ws, vs, d), Acked(x, y)
  PROVE  InOrder(vs, d, g, dl, e, y)
  <1>1. Arriving(dl, d, g) /\ Coming(e, dl, d, g)
    BY FewerArriving, FewerComing DEF InOrder
  <1>2. /\ Spoken(y) /\ y.saying = x.saying /\ y.last = x.last
        /\ y.queue = x.queue \/ \E m \in Ups : m.kind # "say" /\ y.queue = Append(x.queue, m)
    BY AckedSpoken DEF InOrder
  <1>3. ASSUME NEW u \in Narrations
        PROVE  Course(u, vs[u], y.queue, y.saying, y.last, e.tasks, dl, d)
    <2>1. Course(u, ws[u], x.queue, x.saying, x.last, e.tasks, dl, c)
      BY DEF InOrder
    <2>2. Once(x.queue, u) /\ x.queue \in Seq(Ups)
      BY <2>1 DEF Course, InOrder, Spoken
    <2>3. Once(y.queue, u) /\ (Owed(y.queue, u) => Owed(x.queue, u))
      BY <1>2, <2>2, AppendAsks
    <2>4. Waits(u, ws[u], vs[u], d) /\ Held(d) \subseteq Held(c)
      BY DEF Patient, Fewer
    <2> QED BY <1>2, <2>1, <2>3, <2>4, CourseMoves
  <1> QED BY <1>1, <1>2, <1>3 DEF InOrder, Patient
\* The same, of a step.
LEMMA ClientMoves ==
  ASSUME VoiceInv, Listens(client', heard'), Fewer(client, heard, client', heard'), UNCHANGED <<engine, downlink>>,
         Patient(waiters, waiters', client'), Acked(session, session')
  PROVE  VoiceInv'
  BY AudioMoves DEF VoiceInv

\* The parts of a step.
ClientShaped(c) == c = [f \in ClientFields |-> c[f]]
\* An interruption of every waiting narration is such a change.
LEMMA InterruptedPatient ==
  ASSUME NEW ws \in [Narrations -> Waiter], NEW d
  PROVE  Patient(ws, Interrupted(ws), d)
  <1>1. ASSUME NEW u \in Narrations PROVE Interrupted(ws)[u] \in Waiter /\ Waits(u, ws[u], Interrupted(ws)[u], d)
    <2>1. Interrupted(ws)[u] = IF ws[u].at = "waiting" THEN [ws[u] EXCEPT !.at = "interrupted"] ELSE ws[u]
      BY DEF Interrupted
    <2>2. ws[u] \in Waiter
      OBVIOUS
    <2> QED BY <2>1, <2>2 DEF Waiter, Waits
  <1> QED BY <1>1 DEF Patient, Interrupted
\* So is no change.
LEMMA SamePatient ==
  ASSUME NEW ws \in [Narrations -> Waiter], NEW d
  PROVE  Patient(ws, ws, d)
  BY DEF Patient, Waits
\* An acknowledgement is no request.
LEMMA AckAcked ==
  ASSUME NEW kind \in {"turn", "ended", "failed", "cancelled"}, NEW seq \in Nat
  PROVE  Acked(session, Ack(kind, seq))
  <1> DEFINE m == [kind |-> kind, utt |-> "none", seq |-> seq]
  <1>1. m \in Ups /\ m.kind # "say"
    <2>1. kind \in UpKinds /\ kind # "say"
      BY DEF UpKinds
    <2> QED BY <2>1 DEF Ups
  <1>2. Ack(kind, seq) = [session EXCEPT !.queue = Append(session.queue, m)]
    BY DEF Ack
  <1> QED BY <1>1, <1>2 DEF Acked
\* Nor is what a cancelled playback tells the server.
LEMMA AckCancelAcked ==
  ASSUME VoiceInv
  PROVE  Acked(session, AckCancel)
  <1>1. client.player # NoItem => client.player.seq \in Nat
    BY DEF VoiceInv, InOrder, Listens, Pieces
  <1>2. CASE client.player # NoItem
    <2>1. Acked(session, Ack("cancelled", client.player.seq))
      BY <1>1, <1>2, AckAcked
    <2> QED BY <1>2, <2>1 DEF AckCancel
  <1>3. CASE client.player = NoItem
    BY <1>3 DEF AckCancel, Acked
  <1> QED BY <1>2, <1>3
\* A cancelled playback leaves no audio.
LEMMA CancelledEmptied ==
  ASSUME NEW c, ClientShaped(c)
  PROVE  Emptied(c, Cancelled(c))
  BY DEF ClientShaped, Emptied, Cancelled, ClientFields
\* A new utterance of the person leaves the audio.
LEMMA FreshSame ==
  ASSUME NEW c, ClientShaped(c)
  PROVE  SameAudio(c, Fresh(c))
  BY DEF ClientShaped, SameAudio, Fresh, ClientFields
\* A rejected probe leaves it too.
LEMMA RejectedSame ==
  ASSUME NEW c, ClientShaped(c)
  PROVE  SameAudio(c, Rejected(c))
  BY DEF ClientShaped, SameAudio, Rejected, ClientFields
\* What every step of the browser needs of the invariant.
LEMMA Shapes ==
  VoiceInv => ClientShaped(client) /\ waiters \in [Narrations -> Waiter] /\ Listens(client, heard)
  BY DEF VoiceInv, InOrder, Listens, ClientShaped

\* A step that leaves the audio.
LEMMA StepSame ==
  ASSUME VoiceInv, SameAudio(client, client'), UNCHANGED <<engine, downlink, heard>>, Patient(waiters, waiters', client'), Acked(session, session')
  PROVE  VoiceInv'
  <1>1. Listens(client', heard') /\ Held(client') = Held(client) /\ client'.played = client.played
    BY Shapes, SameListens
  <1>2. Fewer(client, heard, client', heard')
    BY <1>1, FewerStays
  <1> QED BY <1>1, <1>2, ClientMoves
\* A step that drops it.
LEMMA StepEmptied ==
  ASSUME VoiceInv, Emptied(client, client'), UNCHANGED <<engine, downlink, heard>>, Patient(waiters, waiters', client'), Acked(session, session')
  PROVE  VoiceInv'
  <1>1. Listens(client', heard') /\ Held(client') = {} /\ client'.played = client.played
    BY Shapes, EmptiedListens DEF Emptied
  <1>2. Fewer(client, heard, client', heard')
    BY <1>1, FewerStays
  <1> QED BY <1>1, <1>2, ClientMoves

\* Microphone and probe.
LEMMA OpenMicKeeps == VoiceInv /\ OpenMic => VoiceInv'
  <1> SUFFICES ASSUME VoiceInv, OpenMic PROVE VoiceInv'
    OBVIOUS
  <1>1. Emptied(client, Cancelled(client))
    BY Shapes, CancelledEmptied
  <1>2. client' = [Cancelled(client) EXCEPT !.barrier = FALSE, !.mic = "opening"]
    BY DEF OpenMic
  <1>3. Emptied(client, client')
    BY <1>1, <1>2 DEF Emptied, ClientFields
  <1>4. Patient(waiters, waiters', client')
    BY Shapes, InterruptedPatient DEF OpenMic
  <1>5. Acked(session, session')
    BY AckCancelAcked DEF OpenMic
  <1> QED BY <1>3, <1>4, <1>5, StepEmptied DEF OpenMic
\* The microphone, loud sounds and typed turns.
LEMMA MicKeeps ==
  ASSUME VoiceInv, MicReady \/ StopMic \/ LoudSound \/ StillLoud \/ TypeTurn \/ Restart
  PROVE  VoiceInv'
  <1>1. ClientShaped(client) /\ Patient(waiters, waiters, client')
    BY Shapes, SamePatient
  <1>2. UNCHANGED <<waiters, engine, downlink, heard>>
    BY DEF MicReady, StopMic, LoudSound, StillLoud, TypeTurn, Restart
  <1>3. Acked(session, session')
    <2>1. session' = session \/ session' = Ack("turn", 0)
      BY DEF MicReady, StopMic, LoudSound, StillLoud, TypeTurn, Restart
    <2>2. Acked(session, Ack("turn", 0))
      BY AckAcked
    <2> QED BY <2>1, <2>2 DEF Acked
  <1>4. SameAudio(client, client')
    <2>1. CASE MicReady
      BY <1>1, <2>1 DEF MicReady, Fresh, SameAudio, ClientShaped, ClientFields
    <2>2. CASE StopMic
      BY <1>1, <2>2 DEF StopMic, SameAudio, ClientShaped, ClientFields
    <2>3. CASE LoudSound
      BY <1>1, <2>3 DEF LoudSound, SameAudio, ClientShaped, ClientFields
    <2>4. CASE StillLoud
      BY <1>1, <2>4 DEF StillLoud, SameAudio, ClientShaped, ClientFields
    <2>5. CASE TypeTurn
      BY <1>1, <2>5 DEF TypeTurn, SameAudio, ClientShaped
    <2>6. CASE Restart
      BY <1>1, <2>6 DEF Restart, Fresh, SameAudio, ClientShaped, ClientFields
    <2> QED BY <2>1, <2>2, <2>3, <2>4, <2>5, <2>6
  <1> QED BY <1>1, <1>2, <1>3, <1>4, StepSame
\* A probe that expires resumes the player or gives everything up.
LEMMA ProbeExpiresKeeps == VoiceInv /\ ProbeExpires => VoiceInv'
  <1> SUFFICES ASSUME VoiceInv, ProbeExpires PROVE VoiceInv'
    OBVIOUS
  <1> DEFINE r == Rejected(client)
  <1>1. SameAudio(client, r)
    BY Shapes, RejectedSame
  <1>2. Emptied(r, Cancelled(r))
    BY <1>1, CancelledEmptied DEF SameAudio, ClientShaped
  <1>3. Emptied(client, Cancelled(r))
    BY <1>1, <1>2 DEF SameAudio, Emptied
  <1>4. CASE client' = r /\ UNCHANGED <<waiters, session>>
    BY <1>1, <1>4, Shapes, SamePatient, StepSame DEF ProbeExpires, Acked
  <1>5. CASE client' = Cancelled(r) /\ waiters' = Interrupted(waiters) /\ session' = AckCancel
    BY <1>3, <1>5, Shapes, InterruptedPatient, AckCancelAcked, StepEmptied DEF ProbeExpires
  <1> QED BY <1>4, <1>5 DEF ProbeExpires

\* The player.
LEMMA StartsKeeps == VoiceInv /\ Starts => VoiceInv' /\ heard' > heard
  <1> SUFFICES ASSUME VoiceInv, Starts PROVE VoiceInv' /\ heard' > heard
    OBVIOUS
  <1> DEFINE p == client.player
  <1>1. p # NoItem /\ p \in Pieces /\ p.seq \in Nat /\ ~client.playing /\ heard' = p.seq /\ heard \in Nat
    BY Shapes DEF Starts, Listens, Pieces
  <1>2. p.seq > heard /\ p.seq > client.played /\ \A i \in client.items : i.seq > p.seq
    BY <1>1, Shapes DEF Listens, InLine
  <1>3. /\ ClientShaped(client') /\ client'.items = client.items /\ client'.player = p /\ client'.playing = TRUE
        /\ client'.played = client.played
    BY Shapes DEF Starts, ClientShaped, ClientFields
  <1>8. InLine(client, heard) /\ client.items \subseteq Pieces /\ client.played \in Nat
    BY Shapes DEF Listens
  <1>9. \A i \in client.items : i.seq \in Nat
    BY <1>8 DEF Pieces
  <1>10. InLine(client', heard')
    BY <1>1, <1>2, <1>3, <1>8, <1>9 DEF InLine
  <1>4. Listens(client', heard')
    BY <1>1, <1>3, <1>8, <1>10 DEF Listens, ClientShaped
  <1>5. Held(client') = Held(client) /\ p \in Held(client)
    BY <1>1, <1>3 DEF Held
  <1>6. Fewer(client, heard, client', heard')
    BY <1>1, <1>3, <1>5 DEF Fewer, Later
  <1>7. Patient(waiters, waiters', client') /\ Acked(session, session') /\ UNCHANGED <<engine, downlink>>
    BY Shapes, SamePatient DEF Starts, Acked
  <1> QED BY <1>1, <1>2, <1>4, <1>6, <1>7, ClientMoves
\* The player is let go, its piece was played or not.
LEMMA PlayerLeaves ==
  ASSUME VoiceInv, client.player # NoItem, ClientShaped(client'), client'.items = client.items, client'.player = NoItem,
         client'.playing = FALSE, client'.played \in {client.played, client.player.seq}, heard' = heard
  PROVE  Listens(client', heard') /\ Fewer(client, heard, client', heard')
  <1> DEFINE p == client.player
  <1>1. p \in Pieces /\ p.seq \in Nat /\ heard \in Nat /\ client.played \in Nat /\ client.items \subseteq Pieces
    BY Shapes DEF Listens, Pieces
  <1>2. p.seq > client.played /\ \A i \in client.items : i.seq > p.seq
    BY Shapes DEF Listens, InLine
  <1>3. Listens(client', heard')
    BY <1>1, <1>2, Shapes DEF Listens, InLine, ClientShaped
  <1>4. Held(client') \subseteq Held(client) /\ p \in Held(client)
    BY DEF Held
  <1>5. Fewer(client, heard, client', heard')
    BY <1>1, <1>4 DEF Fewer, Later
  <1> QED BY <1>3, <1>5
\* What the browser keeps then is later than what was played.
LEMMA HeldIsLater ==
  ASSUME NEW c, NEW h, Listens(c, h)
  PROVE  \A i \in Held(c) : i.seq > c.played /\ i.seq \in Nat /\ c.played \in Nat
  BY DEF Listens, InLine, Held, Pieces
\* A narration is only completed when the browser has none of it.
LEMMA ResolvedPatient ==
  ASSUME NEW ws \in [Narrations -> Waiter], NEW u, NEW d, NEW h, Listens(d, h),
         u \in Narrations /\ ws[u].at = "waiting" /\ ws[u].ended /\ ws[u].last # Nothing => Within(d, u, ws[u].last)
  PROVE  Patient(ws, Resolved(ws, u, d.played), d)
  <1> DEFINE vs == Resolved(ws, u, d.played)
  <1>1. CASE ~(u \in Narrations /\ ws[u].at = "waiting" /\ ws[u].ended /\ (ws[u].last = Nothing \/ d.played >= ws[u].last))
    BY <1>1, SamePatient DEF Resolved
  <1>2. CASE u \in Narrations /\ ws[u].at = "waiting" /\ ws[u].ended /\ (ws[u].last = Nothing \/ d.played >= ws[u].last)
    <2>1. vs = [ws EXCEPT ![u].at = "completed"]
      BY <1>2 DEF Resolved
    <2>2. ws[u] \in Waiter /\ ws[u].last \in Nat
      BY <1>2 DEF Waiter
    <2>3. ws[u].last # Nothing => Silent(d, u)
      <3>1. SUFFICES ASSUME ws[u].last # Nothing, NEW i \in Held(d), i.utt = u PROVE FALSE
        BY DEF Silent
      <3>2. i.seq =< ws[u].last
        BY <1>2, <3>1 DEF Within
      <3>3. i.seq > d.played /\ i.seq \in Nat /\ d.played \in Nat
        BY <3>1, HeldIsLater
      <3> QED BY <1>2, <2>2, <3>1, <3>2, <3>3
    <2>4. vs \in [Narrations -> Waiter]
      BY <2>1, <2>2 DEF Waiter
    <2>5. vs[u] = [ws[u] EXCEPT !.at = "completed"]
      BY <1>2, <2>1
    <2>6. Waits(u, ws[u], vs[u], d)
      BY <1>2, <2>2, <2>3, <2>5 DEF Waits, Waiter
    <2>7. \A v \in Narrations : v # u => vs[v] = ws[v]
      BY <2>1
    <2> QED BY <2>4, <2>6, <2>7 DEF Patient, Waits
  <1> QED BY <1>1, <1>2
\* What a narration that was told over has left ends at its last number.
LEMMA WithinNow ==
  ASSUME VoiceInv, NEW u \in Narrations, waiters[u].ended, waiters[u].last # Nothing
  PROVE  Within(client, u, waiters[u].last)
  BY DEF VoiceInv, InOrder, Course
\* A piece that ended.
LEMMA EndedKeeps == VoiceInv /\ Ended => VoiceInv'
  <1> SUFFICES ASSUME VoiceInv, Ended PROVE VoiceInv'
    OBVIOUS
  <1> DEFINE p == client.player
             played == IF p.seq > client.played THEN p.seq ELSE client.played
  <1>1. p # NoItem /\ p \in Pieces /\ p.seq \in Nat /\ played = p.seq
    BY Shapes DEF Ended, Listens, InLine, Pieces
  <1>2. client' = [client EXCEPT !.player = NoItem, !.playing = FALSE, !.played = played, !.pumpSoon = TRUE]
    BY DEF Ended
  <1>3. /\ ClientShaped(client') /\ client'.items = client.items /\ client'.player = NoItem /\ client'.playing = FALSE
        /\ client'.played = played
    <2> HIDE DEF played
    <2> QED BY <1>2, Shapes DEF ClientShaped, ClientFields
  <1>4. Listens(client', heard') /\ Fewer(client, heard, client', heard')
    BY <1>1, <1>3, PlayerLeaves DEF Ended
  <1>5. p.utt \in Narrations /\ waiters[p.utt].at = "waiting" /\ waiters[p.utt].ended /\ waiters[p.utt].last # Nothing
          => Within(client', p.utt, waiters[p.utt].last)
    BY <1>4, WithinNow DEF Fewer, Within
  <1>6. waiters' = Resolved(waiters, p.utt, client'.played)
    BY <1>3 DEF Ended
  <1>7. Patient(waiters, waiters', client')
    BY <1>4, <1>5, <1>6, Shapes, ResolvedPatient
  <1>8. Acked(session, session')
    BY <1>1, AckAcked DEF Ended
  <1> QED BY <1>4, <1>7, <1>8, ClientMoves DEF Ended
\* A narration that failed.
LEMMA FailedPatient ==
  ASSUME NEW ws \in [Narrations -> Waiter], NEW u \in Narrations, ws[u].at = "waiting", NEW d
  PROVE  Patient(ws, [ws EXCEPT ![u].at = "failed"], d)
  <1> DEFINE vs == [ws EXCEPT ![u].at = "failed"]
  <1>1. ws[u] \in Waiter
    OBVIOUS
  <1>2. vs[u] = [ws[u] EXCEPT !.at = "failed"] /\ \A v \in Narrations : v # u => vs[v] = ws[v]
    OBVIOUS
  <1>3. vs \in [Narrations -> Waiter]
    BY <1>1 DEF Waiter
  <1>4. Waits(u, ws[u], vs[u], d)
    BY <1>1, <1>2 DEF Waits, Waiter
  <1> QED BY <1>2, <1>3, <1>4 DEF Patient, Waits
\* A piece that failed.
LEMMA PlaybackFailsKeeps == VoiceInv /\ PlaybackFails => VoiceInv'
  <1> SUFFICES ASSUME VoiceInv, PlaybackFails PROVE VoiceInv'
    OBVIOUS
  <1> DEFINE p == client.player
  <1>1. p # NoItem /\ p \in Pieces /\ p.seq \in Nat
    BY Shapes DEF PlaybackFails, Listens, Pieces
  <1>3. /\ ClientShaped(client') /\ client'.items = client.items /\ client'.player = NoItem /\ client'.playing = FALSE
        /\ client'.played = client.played
    BY Shapes DEF PlaybackFails, ClientShaped, ClientFields
  <1>4. Listens(client', heard') /\ Fewer(client, heard, client', heard')
    BY <1>1, <1>3, PlayerLeaves DEF PlaybackFails
  <1>7. Patient(waiters, waiters', client')
    BY Shapes, SamePatient, FailedPatient DEF PlaybackFails
  <1>8. Acked(session, session')
    <2>1. session' = Ack("failed", p.seq)
      BY DEF PlaybackFails
    <2> QED BY <1>1, <2>1, AckAcked
  <1> QED BY <1>4, <1>7, <1>8, ClientMoves DEF PlaybackFails
\* A refused piece goes back to the head of the queue.
LEMMA PlaybackBlockedKeeps == VoiceInv /\ PlaybackBlocked => VoiceInv'
  <1> SUFFICES ASSUME VoiceInv, PlaybackBlocked PROVE VoiceInv'
    OBVIOUS
  <1> DEFINE p == client.player
             n == IF p.seq < client.next THEN p.seq ELSE client.next
  <1>1. p # NoItem /\ p \in Pieces /\ p.seq \in Nat /\ ~client.playing
    BY Shapes DEF PlaybackBlocked, Listens, Pieces
  <1>2. p.seq > heard /\ p.seq > client.played /\ \A i \in client.items : i.seq > p.seq
    BY <1>1, Shapes DEF Listens, InLine
  <1>3. client' = [client EXCEPT !.player = NoItem, !.items = client.items \cup {p}, !.blocked = TRUE, !.next = n]
    BY DEF PlaybackBlocked
  <1> HIDE DEF n
  <1>4. /\ ClientShaped(client') /\ client'.items = client.items \cup {p} /\ client'.player = NoItem /\ client'.playing = client.playing
        /\ client'.played = client.played
    BY <1>3, Shapes DEF ClientShaped, ClientFields
  <1>5. client.items \subseteq Pieces /\ heard \in Nat /\ client.played \in Nat /\ InLine(client, heard)
    BY Shapes DEF Listens
  <1>6. \A i \in client.items \cup {p} : i.seq > heard /\ i.seq > client.played
    BY <1>2, <1>5 DEF InLine
  <1>7. \A i, j \in client.items \cup {p} : i.seq = j.seq => i = j
    BY <1>1, <1>2, <1>5 DEF InLine, Pieces
  <1>8. Listens(client', heard)
    <2>1. InLine(client', heard)
      BY <1>4, <1>6, <1>7 DEF InLine
    <2>2. client'.items \subseteq Pieces /\ client'.playing \in BOOLEAN
      BY <1>1, <1>4, <1>5, Shapes DEF Listens
    <2> QED BY <1>4, <1>5, <2>1, <2>2 DEF Listens, ClientShaped
  <1>9. Held(client') = Held(client)
    BY <1>1, <1>4 DEF Held
  <1>10. Fewer(client, heard, client', heard') /\ heard' = heard
    BY <1>4, <1>9, FewerStays DEF PlaybackBlocked
  <1>11. Patient(waiters, waiters', client') /\ Acked(session, session') /\ UNCHANGED <<engine, downlink>>
    BY Shapes, SamePatient DEF PlaybackBlocked, Acked
  <1> QED BY <1>8, <1>10, <1>11, ClientMoves
\* A pump of the same audio.
LEMMA PumpsKeeps ==
  ASSUME VoiceInv, NEW c, SameAudio(client, c), client' = Pumped(c), UNCHANGED <<waiters, engine, downlink, session, heard>>
  PROVE  VoiceInv'
  <1>1. Listens(c, heard) /\ Held(c) = Held(client) /\ c.played = client.played
    BY Shapes, SameListens
  <1>2. Listens(client', heard) /\ Held(client') = Held(client) /\ client'.played = client.played
    BY <1>1, PumpedListens
  <1>3. Fewer(client, heard, client', heard')
    BY <1>2, FewerStays
  <1>4. Patient(waiters, waiters', client') /\ Acked(session, session')
    BY Shapes, SamePatient DEF Acked
  <1> QED BY <1>2, <1>3, <1>4, ClientMoves
\* The pump after a piece, and the one that gives up a missing number.
LEMMA PumpKeeps ==
  ASSUME VoiceInv, PumpAgain \/ SkipMissing
  PROVE  VoiceInv'
  <1>1. CASE PumpAgain
    <2>1. SameAudio(client, [client EXCEPT !.pumpSoon = FALSE])
      BY Shapes DEF SameAudio, ClientShaped, ClientFields
    <2> QED BY <1>1, <2>1, PumpsKeeps DEF PumpAgain
  <1>2. CASE SkipMissing
    <2> DEFINE n == Earliest(client.items).seq
               c == [client EXCEPT !.wait = FALSE, !.next = n]
    <2>1. client' = Pumped(c)
      BY <1>2 DEF SkipMissing
    <2> HIDE DEF n
    <2>2. SameAudio(client, c)
      BY Shapes DEF SameAudio, ClientShaped, ClientFields
    <2> HIDE DEF c
    <2> QED BY <1>2, <2>1, <2>2, PumpsKeeps DEF SkipMissing
  <1> QED BY <1>1, <1>2
\* A narration that nobody answers.
LEMMA InactivityKeeps ==
  ASSUME VoiceInv, NEW u \in Narrations, Inactivity(u)
  PROVE  VoiceInv'
  <1>1. SameAudio(client, client')
    BY Shapes DEF Inactivity, SameAudio, ClientShaped
  <1>2. Patient(waiters, waiters', client')
    BY Shapes, FailedPatient DEF Inactivity
  <1> QED BY <1>1, <1>2, StepSame DEF Inactivity, Acked

-----------------------------------------------------------------------------
(* Sequences *)

\* The rest of a sequence.
LEMMA TailIs ==
  ASSUME NEW S, NEW q \in Seq(S), q # <<>>
  PROVE  /\ Tail(q) \in Seq(S) /\ Head(q) = q[1] /\ 1 \in DOMAIN q /\ Head(q) \in S
         /\ \A k \in DOMAIN Tail(q) : k + 1 \in DOMAIN q /\ k \in Nat /\ k >= 1 /\ Tail(q)[k] = q[k + 1]
  OBVIOUS
\* A longer sequence.
LEMMA AppendIs ==
  ASSUME NEW S, NEW q \in Seq(S), NEW m \in S
  PROVE  /\ Append(q, m) \in Seq(S) /\ Len(q) \in Nat /\ Append(q, m)[Len(q) + 1] = m /\ Len(q) + 1 \in DOMAIN Append(q, m)
         /\ \A k \in DOMAIN q : k \in DOMAIN Append(q, m) /\ Append(q, m)[k] = q[k] /\ k =< Len(q) /\ k \in Nat
         /\ \A k \in DOMAIN Append(q, m) : k = Len(q) + 1 \/ k \in DOMAIN q
  OBVIOUS
Step(i, k) == IF k < i THEN k ELSE k + 1
\* A part of a sequence.
LEMMA PartIs ==
  ASSUME NEW S, NEW q \in Seq(S), NEW m \in Nat, NEW n \in Nat, 1 <= m, m <= n + 1, n <= Len(q)
  PROVE  /\ SubSeq(q, m, n) \in Seq(S) /\ Len(SubSeq(q, m, n)) = n + 1 - m
         /\ \A k \in 1 .. n + 1 - m : SubSeq(q, m, n)[k] = q[m + k - 1]
  <1>1. \A k \in m .. n : q[k] \in S
    <2>1. q \in [1 .. Len(q) -> S] /\ Len(q) \in Nat
      BY LenProperties
    <2> QED BY <2>1
  <1>2. /\ SubSeq(q, m, n) \in Seq(S) /\ Len(SubSeq(q, m, n)) = (IF m <= n THEN n - m + 1 ELSE 0)
        /\ \A k \in 1 .. n - m + 1 : SubSeq(q, m, n)[k] = q[m + k - 1]
    BY <1>1, SubSeqProperties
  <1>3. n - m + 1 = n + 1 - m /\ (IF m <= n THEN n - m + 1 ELSE 0) = n + 1 - m
    OBVIOUS
  <1> QED BY <1>2, <1>3
\* A sequence without one of its elements.
LEMMA WithoutIs ==
  ASSUME NEW S, NEW q \in Seq(S), NEW i \in DOMAIN q
  PROVE  /\ Without(q, i) \in Seq(S)
         /\ \A k \in DOMAIN Without(q, i) : k \in Nat /\ Step(i, k) \in DOMAIN q \ {i} /\ Without(q, i)[k] = q[Step(i, k)]
  <1> DEFINE n == Len(q)
             a == SubSeq(q, 1, i - 1)
             b == SubSeq(q, i + 1, n)
  <1>1. n \in Nat /\ i \in 1 .. n /\ DOMAIN q = 1 .. n
    BY LenProperties
  <1>2. a \in Seq(S) /\ Len(a) = i - 1 /\ \A k \in 1 .. i - 1 : a[k] = q[k]
    <2>1. i - 1 \in Nat /\ i - 1 <= Len(q) /\ 1 <= (i - 1) + 1 /\ (i - 1) + 1 - 1 = i - 1
      BY <1>1
    <2>2. a \in Seq(S) /\ Len(a) = i - 1 /\ \A k \in 1 .. i - 1 : a[k] = q[1 + k - 1]
      BY <2>1, PartIs
    <2> QED BY <2>2
  <1>3. b \in Seq(S) /\ Len(b) = n - i /\ \A k \in 1 .. n - i : b[k] = q[k + i]
    <2>1. i + 1 \in Nat /\ 1 <= i + 1 /\ i + 1 <= n + 1 /\ n <= Len(q) /\ n + 1 - (i + 1) = n - i
      BY <1>1
    <2> HIDE DEF n
    <2>2. b \in Seq(S) /\ Len(b) = n - i /\ \A k \in 1 .. n - i : b[k] = q[(i + 1) + k - 1]
      BY <1>1, <2>1, PartIs
    <2> QED BY <1>1, <2>2
  <1> HIDE DEF a, b, n
  <1>4. /\ a \o b \in Seq(S) /\ Len(a \o b) = Len(a) + Len(b)
        /\ \A k \in 1 .. Len(a) + Len(b) : (a \o b)[k] = IF k <= Len(a) THEN a[k] ELSE b[k - Len(a)]
    BY <1>2, <1>3, ConcatProperties
  <1>5. Without(q, i) = a \o b
    BY DEF Without, a, b, n
  <1>8. Len(a) + Len(b) = n - 1
    BY <1>1, <1>2, <1>3
  <1>6. ASSUME NEW k \in 1 .. n - 1
        PROVE  k \in Nat /\ Step(i, k) \in (1 .. n) \ {i} /\ (a \o b)[k] = q[Step(i, k)]
    <2>1. CASE k < i
      <3>1. (a \o b)[k] = a[k]
        BY <1>1, <1>2, <1>4, <1>8, <2>1
      <3>2. k \in 1 .. i - 1
        BY <1>1, <2>1
      <3>3. a[k] = q[k]
        BY <1>2, <3>2
      <3> QED BY <1>1, <2>1, <3>1, <3>3 DEF Step
    <2>2. CASE ~(k < i)
      <3>1. (a \o b)[k] = b[k - (i - 1)]
        BY <1>1, <1>2, <1>4, <1>8, <2>2
      <3>2. k - (i - 1) \in 1 .. n - i /\ k - (i - 1) + i = k + 1
        BY <1>1, <2>2
      <3>3. b[k - (i - 1)] = q[k + 1]
        BY <1>3, <3>2
      <3> QED BY <1>1, <2>2, <3>1, <3>3 DEF Step
    <2> QED BY <2>1, <2>2
  <1>7. DOMAIN (a \o b) = 1 .. n - 1
    BY <1>4, <1>8, LenProperties
  <1> QED BY <1>1, <1>4, <1>5, <1>6, <1>7

-----------------------------------------------------------------------------
(* What arrives *)

\* Without its first message, the channel holds less.
LEMMA ArrivingTail ==
  ASSUME NEW d, NEW c, NEW h, Arriving(d, c, h), d # <<>>
  PROVE  Arriving(Tail(d), c, h) /\ Head(d) = d[1] /\ 1 \in DOMAIN d /\ d[1] \in Downs
         /\ \A k \in DOMAIN Tail(d) : k + 1 \in DOMAIN d /\ k \in Nat /\ k >= 1 /\ Tail(d)[k] = d[k + 1]
  <1>1. d \in Seq(Downs)
    BY DEF Arriving
  <1>2. /\ Tail(d) \in Seq(Downs) /\ Head(d) = d[1] /\ 1 \in DOMAIN d /\ d[1] \in Downs
        /\ \A k \in DOMAIN Tail(d) : k + 1 \in DOMAIN d /\ k \in Nat /\ k >= 1 /\ Tail(d)[k] = d[k + 1]
    BY <1>1, TailIs
  <1>3. ASSUME NEW k \in DOMAIN Tail(d), Chunk(Tail(d)[k])
        PROVE  Tail(d)[k].utt \in Utterances /\ Later(Tail(d)[k].seq, c, h)
    BY <1>2, <1>3 DEF Arriving
  <1>4. ASSUME NEW j \in DOMAIN Tail(d), NEW k \in DOMAIN Tail(d), j < k, Chunk(Tail(d)[j]), Chunk(Tail(d)[k])
        PROVE  Tail(d)[j].seq < Tail(d)[k].seq
    <2>1. j + 1 < k + 1
      BY <1>2, <1>4
    <2> QED BY <1>2, <1>4, <2>1 DEF Arriving
  <1> HIDE DEF Later
  <1> QED BY <1>2, <1>3, <1>4 DEF Arriving
\* Less is on its way.
LEMMA AfterTail ==
  ASSUME NEW d, NEW c, NEW h, Arriving(d, c, h), d # <<>>, NEW n, After(n, c, h, d)
  PROVE  After(n, c, h, Tail(d))
  BY ArrivingTail DEF After
\* What is to come comes after it.
LEMMA ComingTail ==
  ASSUME NEW e, NEW d, NEW c, NEW h, Arriving(d, c, h), d # <<>>, Coming(e, d, c, h)
  PROVE  Coming(e, Tail(d), c, h)
  <1>1. After(e.seq + 1, c, h, Tail(d))
    BY AfterTail DEF Coming
  <1>2. ASSUME NEW i \in DOMAIN e.tasks, e.tasks[i].gen = e.gen, NEW p \in DOMAIN e.tasks[i].left
        PROVE  After(e.tasks[i].left[p], c, h, Tail(d))
    <2>1. After(e.tasks[i].left[p], c, h, d)
      BY <1>2 DEF Coming
    <2> QED BY <2>1, AfterTail
  <1> HIDE DEF After
  <1> QED BY <1>1, <1>2 DEF Coming
\* A narration stays on its course when a message is dropped.
LEMMA CourseTail ==
  ASSUME NEW u, NEW w, NEW q, NEW saying, NEW last, NEW ts, NEW d, NEW c, NEW h, Arriving(d, c, h), d # <<>>,
         Course(u, w, q, saying, last, ts, d, c)
  PROVE  Course(u, w, q, saying, last, ts, Tail(d), c)
  <1> DEFINE b == Tail(d)
  <1>1. \A k \in DOMAIN b : k + 1 \in DOMAIN d /\ k \in Nat /\ b[k] = d[k + 1]
    BY ArrivingTail
  <1> HIDE DEF b
  <1>2. (Under(b, u) => Under(d, u)) /\ (Closing(b, u) => Closing(d, u))
    BY <1>1 DEF Under, Closing
  <1>3. \A n : UnderWithin(d, u, n) => UnderWithin(b, u, n)
    BY <1>1 DEF UnderWithin
  <1>4. OneEnd(b, u)
    <2>1. SUFFICES ASSUME NEW j \in DOMAIN b, NEW k \in DOMAIN b, Ends(b[j], u), Ends(b[k], u) PROVE j = k
      BY DEF OneEnd
    <2>2. j + 1 = k + 1
      BY <1>1, <2>1 DEF Course, OneEnd
    <2> QED BY <1>1, <2>2
  <1>5. ASSUME NEW k \in DOMAIN b, Ends(b[k], u)
        PROVE  /\ ~w.ended /\ w.at # "idle"
               /\ \A j \in DOMAIN b : Brings(b[j], u) => j < k
               /\ b[k].seq # Nothing => Within(c, u, b[k].seq) /\ UnderWithin(b, u, b[k].seq)
    <2>1. k + 1 \in DOMAIN d /\ Ends(d[k + 1], u) /\ b[k] = d[k + 1] /\ k \in Nat
      BY <1>1, <1>5
    <2>2. /\ ~w.ended /\ w.at # "idle"
          /\ \A j \in DOMAIN d : Brings(d[j], u) => j < k + 1
          /\ d[k + 1].seq # Nothing => Within(c, u, d[k + 1].seq) /\ UnderWithin(d, u, d[k + 1].seq)
      BY <2>1 DEF Course
    <2>3. ASSUME NEW j \in DOMAIN b, Brings(b[j], u) PROVE j < k
      <3>1. j + 1 < k + 1 /\ j \in Nat
        BY <1>1, <2>2, <2>3
      <3> QED BY <2>1, <3>1
    <2> QED BY <1>3, <2>1, <2>2, <2>3
  <1>6. Course(u, w, q, saying, last, ts, b, c)
    <2> HIDE DEF Under, Closing, UnderWithin, OneEnd, Within, Ends, Brings
    <2> QED BY <1>2, <1>3, <1>4, <1>5 DEF Course
  <1> QED BY <1>6 DEF b
\* A message that the browser ignores changes no order.
LEMMA DropMessage ==
  ASSUME NEW ws, NEW c, NEW h, NEW d, NEW e, NEW x, InOrder(ws, c, h, d, e, x), d # <<>>
  PROVE  InOrder(ws, c, h, Tail(d), e, x)
  <1>1. Arriving(d, c, h)
    BY DEF InOrder
  <1>2. Arriving(Tail(d), c, h) /\ Coming(e, Tail(d), c, h)
    BY <1>1, ArrivingTail, ComingTail DEF InOrder
  <1>3. \A u \in Narrations : Course(u, ws[u], x.queue, x.saying, x.last, e.tasks, Tail(d), c)
    BY <1>1, CourseTail DEF InOrder
  <1> QED BY <1>2, <1>3 DEF InOrder

\* A message that brings no audio and closes nothing.
LEMMA ArrivingNote ==
  ASSUME NEW d, NEW c, NEW h, Arriving(d, c, h), NEW m \in Downs, ~Chunk(m)
  PROVE  /\ Arriving(Append(d, m), c, h) /\ \A n : After(n, c, h, d) => After(n, c, h, Append(d, m))
         /\ Len(d) \in Nat /\ Append(d, m)[Len(d) + 1] = m /\ Len(d) + 1 \in DOMAIN Append(d, m)
         /\ \A k \in DOMAIN d : k \in DOMAIN Append(d, m) /\ Append(d, m)[k] = d[k] /\ k =< Len(d) /\ k \in Nat
         /\ \A k \in DOMAIN Append(d, m) : k = Len(d) + 1 \/ k \in DOMAIN d
  <1> DEFINE b == Append(d, m)
  <1>1. d \in Seq(Downs)
    BY DEF Arriving
  <1>2. /\ b \in Seq(Downs) /\ Len(d) \in Nat /\ b[Len(d) + 1] = m /\ Len(d) + 1 \in DOMAIN b
        /\ \A k \in DOMAIN d : k \in DOMAIN b /\ b[k] = d[k] /\ k =< Len(d) /\ k \in Nat
        /\ \A k \in DOMAIN b : k = Len(d) + 1 \/ k \in DOMAIN d
    BY <1>1, AppendIs
  <1> HIDE DEF b
  <1>3. \A k \in DOMAIN b : Chunk(b[k]) => k \in DOMAIN d /\ b[k] = d[k]
    BY <1>2
  <1>4. Arriving(b, c, h)
    <2> HIDE DEF Chunk, Later
    <2> QED BY <1>2, <1>3 DEF Arriving
  <1>5. \A n : After(n, c, h, d) => After(n, c, h, b)
    BY <1>3 DEF After
  <1> QED BY <1>2, <1>4, <1>5 DEF b
\* Nor does one that the server adds without audio.
LEMMA ComingAfter ==
  ASSUME NEW e, NEW d, NEW b, NEW c, NEW h, Coming(e, d, c, h), \A n : After(n, c, h, d) => After(n, c, h, b)
  PROVE  Coming(e, b, c, h)
  <1> HIDE DEF After
  <1> QED BY DEF Coming
\* It moves no narration.
LEMMA CourseNote ==
  ASSUME NEW u, NEW w, NEW q, NEW saying, NEW last, NEW ts, NEW d, NEW b, NEW c,
         Course(u, w, q, saying, last, ts, d, c),
         \A k \in DOMAIN d : k \in DOMAIN b /\ b[k] = d[k],
         \A k \in DOMAIN b : Brings(b[k], u) \/ Ends(b[k], u) => k \in DOMAIN d
  PROVE  Course(u, w, q, saying, last, ts, b, c)
  <1>1. Under(b, u) = Under(d, u) /\ Closing(b, u) = Closing(d, u)
    <2> HIDE DEF Brings, Ends
    <2> QED BY DEF Under, Closing
  <1>2. \A n : UnderWithin(b, u, n) = UnderWithin(d, u, n)
    <2> HIDE DEF Brings, Ends
    <2> QED BY DEF UnderWithin
  <1>3. OneEnd(b, u)
    <2> HIDE DEF Brings, Ends
    <2> QED BY DEF Course, OneEnd
  <1> HIDE DEF Brings, Ends, UnderWithin, Under, Closing, OneEnd
  <1>4. ASSUME NEW k \in DOMAIN b, Ends(b[k], u)
        PROVE  /\ ~w.ended /\ w.at # "idle"
               /\ \A j \in DOMAIN b : Brings(b[j], u) => j < k
               /\ b[k].seq # Nothing => Within(c, u, b[k].seq) /\ UnderWithin(b, u, b[k].seq)
    BY <1>2, <1>4 DEF Course
  <1> QED BY <1>1, <1>2, <1>3, <1>4 DEF Course
\* So everything stays in order.
LEMMA NoteSent ==
  ASSUME NEW ws, NEW c, NEW h, NEW d, NEW e, NEW x, InOrder(ws, c, h, d, e, x), NEW m \in Downs, m.kind \notin {"chunk", "end"}
  PROVE  InOrder(ws, c, h, Append(d, m), e, x)
  <1> DEFINE b == Append(d, m)
  <1>1. ~Chunk(m) /\ \A u : ~Brings(m, u) /\ ~Ends(m, u)
    BY DEF Chunk, Brings, Ends
  <1>2. Arriving(d, c, h) /\ Coming(e, d, c, h)
    BY DEF InOrder
  <1>3. /\ Arriving(b, c, h) /\ \A n : After(n, c, h, d) => After(n, c, h, b)
        /\ \A k \in DOMAIN d : k \in DOMAIN b /\ b[k] = d[k]
        /\ \A k \in DOMAIN b : k \in DOMAIN d \/ b[k] = m
    BY <1>1, <1>2, ArrivingNote
  <1> HIDE DEF b
  <1>4. Coming(e, b, c, h)
    BY <1>2, <1>3, ComingAfter
  <1>5. ASSUME NEW u \in Narrations PROVE Course(u, ws[u], x.queue, x.saying, x.last, e.tasks, b, c)
    <2>1. Course(u, ws[u], x.queue, x.saying, x.last, e.tasks, d, c)
      BY DEF InOrder
    <2>2. \A k \in DOMAIN b : Brings(b[k], u) \/ Ends(b[k], u) => k \in DOMAIN d
      BY <1>1, <1>3
    <2> QED BY <1>3, <2>1, <2>2, CourseNote
  <1>6. InOrder(ws, c, h, b, e, x)
    BY <1>3, <1>4, <1>5 DEF InOrder
  <1> QED BY <1>6 DEF b

-----------------------------------------------------------------------------
(* What the browser does with it *)

Handles(c, d) == SameAudio(c, d) \/ Emptied(c, d)
\* The browser keeps or drops its audio.
LEMMA HandlesInOrder ==
  ASSUME NEW ws, NEW c, NEW h, NEW dl, NEW e, NEW x, InOrder(ws, c, h, dl, e, x),
         NEW vs, NEW d, NEW y, Handles(c, d), Patient(ws, vs, d), Acked(x, y)
  PROVE  InOrder(vs, d, h, dl, e, y)
  <1>1. Listens(c, h)
    BY DEF InOrder
  <1>2. Listens(d, h) /\ Held(d) \subseteq Held(c) /\ d.played = c.played
    BY <1>1, SameListens, EmptiedListens DEF Handles, Emptied
  <1>3. Fewer(c, h, d, h)
    BY <1>2, FewerStays
  <1> QED BY <1>2, <1>3, AudioMoves

\* A piece is queued.
LEMMA QueuedListens ==
  ASSUME NEW c, NEW h, Listens(c, h), NEW p \in Pieces, Later(p.seq, c, h), NEW d, ClientShaped(d),
         d.items = c.items \cup {p}, d.player = c.player, d.playing = c.playing, d.played = c.played
  PROVE  Listens(d, h) /\ Held(d) = Held(c) \cup {p}
  <1>1. c.items \subseteq Pieces /\ c.player \in Pieces \cup {NoItem} /\ c.playing \in BOOLEAN /\ c.played \in Nat /\ h \in Nat
    BY DEF Listens
  <1>2. p.seq \in Nat /\ \A i \in c.items : i.seq \in Nat
    BY <1>1 DEF Pieces
  <1>3. p.seq > h /\ p.seq > c.played /\ (\A i \in c.items : p.seq > i.seq) /\ (c.player # NoItem => p.seq > c.player.seq)
    BY <1>1, <1>2 DEF Later, Held, Pieces
  <1>4. InLine(c, h)
    BY DEF Listens
  <1>5. \A i \in d.items : i.seq > h /\ i.seq > d.played
    BY <1>3, <1>4 DEF InLine
  <1>6. \A i, j \in d.items : i.seq = j.seq => i = j
    BY <1>2, <1>3, <1>4 DEF InLine
  <1>7. c.player # NoItem => \A i \in d.items : i.seq > d.player.seq
    BY <1>3, <1>4 DEF InLine
  <1>8. InLine(d, h)
    BY <1>4, <1>5, <1>6, <1>7 DEF InLine
  <1>9. Held(d) = Held(c) \cup {p}
    BY DEF Held
  <1> QED BY <1>1, <1>8, <1>9 DEF Listens, ClientShaped
\* Numbers later than the piece stay later.
LEMMA QueuedLater ==
  ASSUME NEW c, NEW h, NEW d, NEW p, Held(d) = Held(c) \cup {p}, d.played = c.played, NEW n, Later(n, c, h), p.seq < n
  PROVE  Later(n, d, h)
  BY DEF Later
\* A chunk that is queued was the first on its way, so everything stays in order.
LEMMA ChunkInOrder ==
  ASSUME NEW ws, NEW c, NEW h, NEW dl, NEW e, NEW x, InOrder(ws, c, h, dl, e, x), dl # <<>>, Chunk(Head(dl)),
         NEW p, p = [utt |-> Head(dl).utt, seq |-> Head(dl).seq], NEW d, ClientShaped(d),
         d.items = c.items \cup {p}, d.player = c.player, d.playing = c.playing, d.played = c.played
  PROVE  InOrder(ws, d, h, Tail(dl), e, x)
  <1> DEFINE b == Tail(dl)
  <1>1. Arriving(dl, c, h) /\ Coming(e, dl, c, h) /\ Listens(c, h) /\ ws \in [Narrations -> Waiter]
    BY DEF InOrder
  <1>2. /\ Arriving(b, c, h) /\ 1 \in DOMAIN dl /\ dl[1] \in Downs /\ Head(dl) = dl[1]
        /\ \A k \in DOMAIN b : k + 1 \in DOMAIN dl /\ k \in Nat /\ k >= 1 /\ b[k] = dl[k + 1]
    BY <1>1, ArrivingTail
  <1>3. InOrder(ws, c, h, b, e, x)
    BY DropMessage
  <1> HIDE DEF b
  <1>4. Chunk(dl[1]) /\ p.seq = dl[1].seq /\ p.utt = dl[1].utt /\ p.utt \in Utterances /\ Later(p.seq, c, h)
    BY <1>1, <1>2 DEF Arriving
  <1>5. p \in Pieces /\ p.seq \in Nat
    <2>1. p.seq \in Nat /\ h \in Nat
      BY <1>1, <1>2, <1>4 DEF Listens, Downs
    <2>2. p.seq # 0
      BY <1>4, <2>1 DEF Later
    <2> QED BY <1>4, <2>1, <2>2 DEF Pieces
  <1>6. Listens(d, h) /\ Held(d) = Held(c) \cup {p}
    BY <1>1, <1>4, <1>5, QueuedListens
  <1>7. Arriving(b, d, h)
    <2>1. ASSUME NEW k \in DOMAIN b, Chunk(b[k]) PROVE Later(b[k].seq, d, h)
      <3>1. Later(b[k].seq, c, h)
        BY <1>2, <2>1 DEF Arriving
      <3>2. dl[1].seq < dl[k + 1].seq
        <4>1. 1 < k + 1
          BY <1>2
        <4> QED BY <1>1, <1>2, <1>4, <2>1, <4>1 DEF Arriving
      <3> QED BY <1>2, <1>4, <1>6, <3>1, <3>2, QueuedLater
    <2> HIDE DEF Later
    <2> QED BY <1>2, <2>1 DEF Arriving
  <1>8. Coming(e, b, d, h)
    <2>1. ASSUME NEW n, After(n, c, h, dl) PROVE After(n, d, h, b)
      <3>1. p.seq < n /\ Later(n, c, h) /\ \A k \in DOMAIN b : Chunk(b[k]) => b[k].seq < n
        BY <1>2, <1>4, <2>1 DEF After
      <3>2. Later(n, d, h)
        BY <1>6, <3>1, QueuedLater
      <3> QED BY <3>1, <3>2 DEF After
    <2> HIDE DEF After
    <2> QED BY <1>1, <2>1 DEF Coming
  <1>9. ASSUME NEW u \in Narrations PROVE Course(u, ws[u], x.queue, x.saying, x.last, e.tasks, b, d)
    <2>1. Course(u, ws[u], x.queue, x.saying, x.last, e.tasks, dl, c) /\ Course(u, ws[u], x.queue, x.saying, x.last, e.tasks, b, c)
      BY <1>3 DEF InOrder
    <2>2. CASE p.utt # u
      <3>1. (\A n : Within(c, u, n) => Within(d, u, n)) /\ (Silent(c, u) => Silent(d, u))
        BY <1>6, <2>2 DEF Within, Silent
      <3> HIDE DEF Within, Silent
      <3> QED BY <2>1, <3>1 DEF Course
    <2>3. CASE p.utt = u
      <3>1. Brings(dl[1], u)
        BY <1>4, <2>3 DEF Brings
      <3>2. Under(dl, u)
        BY <1>2, <3>1 DEF Under
      <3>3. ~ws[u].ended /\ ws[u].at # "completed"
        BY <2>1, <3>2 DEF Course
      <3>4. \A n : Within(c, u, n) /\ UnderWithin(dl, u, n) => Within(d, u, n)
        BY <1>2, <1>4, <1>6, <3>1 DEF Within, UnderWithin
      <3>5. x.saying = u /\ x.last # Nothing => Within(d, u, x.last)
        BY <2>1, <3>4 DEF Course
      <3>6. \A k \in DOMAIN b : Ends(b[k], u) /\ b[k].seq # Nothing => Within(d, u, b[k].seq)
        <4>1. SUFFICES ASSUME NEW k \in DOMAIN b, Ends(b[k], u), b[k].seq # Nothing PROVE Within(d, u, b[k].seq)
          OBVIOUS
        <4>2. k + 1 \in DOMAIN dl /\ b[k] = dl[k + 1]
          BY <1>2
        <4>3. Within(c, u, b[k].seq) /\ UnderWithin(dl, u, b[k].seq)
          BY <2>1, <4>1, <4>2 DEF Course
        <4> QED BY <3>4, <4>3
      <3> HIDE DEF Within, UnderWithin, OneEnd, Once, OneTask, Under, Closing, Worked, Owed, Brings, Ends
      <3> QED BY <2>1, <3>3, <3>5, <3>6 DEF Course
    <2> QED BY <2>2, <2>3
  <1>10. InOrder(ws, d, h, b, e, x)
    BY <1>1, <1>6, <1>7, <1>8, <1>9, <1>3 DEF InOrder
  <1> QED BY <1>10 DEF b

\* The end of a narration.
ToldOver(ws, u, n, vs) ==
  /\ vs \in [Narrations -> Waiter] /\ vs[u].at = ws[u].at /\ vs[u].ended = TRUE /\ vs[u].last = n
  /\ \A v \in Narrations : v # u => vs[v] = ws[v]
\* The waiter of a narration that was told over.
LEMMA Over ==
  ASSUME NEW ws \in [Narrations -> Waiter], NEW u \in Narrations, NEW n \in Nat
  PROVE  ToldOver(ws, u, n, [ws EXCEPT ![u].ended = TRUE, ![u].last = n])
  <1> DEFINE vs == [ws EXCEPT ![u].ended = TRUE, ![u].last = n]
  <1>2. ws[u] \in Waiter
    OBVIOUS
  <1>3. vs[u] = [ws[u] EXCEPT !.ended = TRUE, !.last = n] /\ DOMAIN vs = Narrations /\ \A v \in Narrations : v # u => vs[v] = ws[v]
    OBVIOUS
  <1>4. vs[u] \in Waiter /\ vs[u].at = ws[u].at /\ vs[u].ended = TRUE /\ vs[u].last = n
    BY <1>2, <1>3 DEF Waiter
  <1>5. vs = [v \in Narrations |-> vs[v]]
    OBVIOUS
  <1> HIDE DEF vs
  <1>6. ToldOver(ws, u, n, vs)
    BY <1>3, <1>4, <1>5 DEF ToldOver
  <1> QED BY <1>6 DEF vs
\* The end of a narration comes after its last chunk, so all that is left of it is in the browser.
LEMMA EndInOrder ==
  ASSUME NEW ws, NEW c, NEW h, NEW dl, NEW e, NEW x, InOrder(ws, c, h, dl, e, x), dl # <<>>,
         NEW u \in Narrations, Ends(Head(dl), u), ws[u].at = "waiting",
         NEW vs, ToldOver(ws, u, Head(dl).seq, vs)
  PROVE  /\ InOrder(vs, c, h, Tail(dl), e, x)
         /\ vs \in [Narrations -> Waiter] /\ (vs[u].last # Nothing => Within(c, u, vs[u].last))
  <1> DEFINE b == Tail(dl)
             n == Head(dl).seq
  <1>1. Arriving(dl, c, h) /\ ws \in [Narrations -> Waiter]
    BY DEF InOrder
  <1>2. /\ 1 \in DOMAIN dl /\ dl[1] \in Downs /\ Head(dl) = dl[1]
        /\ \A k \in DOMAIN b : k + 1 \in DOMAIN dl /\ k \in Nat /\ k >= 1 /\ b[k] = dl[k + 1]
    BY <1>1, ArrivingTail
  <1>3. InOrder(ws, c, h, b, e, x)
    BY DropMessage
  <1>4. n \in Nat /\ dl[1].seq = n /\ Ends(dl[1], u)
    BY <1>2 DEF Downs
  <1>5. /\ vs \in [Narrations -> Waiter] /\ vs[u].at = ws[u].at /\ vs[u].ended = TRUE /\ vs[u].last = n
        /\ \A v \in Narrations : v # u => vs[v] = ws[v]
    BY DEF ToldOver
  <1> HIDE DEF b, n
  <1>6. Course(u, ws[u], x.queue, x.saying, x.last, e.tasks, dl, c) /\ Course(u, ws[u], x.queue, x.saying, x.last, e.tasks, b, c)
    BY <1>3 DEF InOrder
  <1>7. Closing(dl, u)
    BY <1>2, <1>4 DEF Closing
  <1>8. ~Owed(x.queue, u) /\ x.saying # u /\ (n # Nothing => Within(c, u, n))
    <2> HIDE DEF Within, UnderWithin, OneEnd, Once, OneTask, Under, Closing, Worked, Owed, Brings, Ends
    <2> QED BY <1>2, <1>4, <1>6, <1>7 DEF Course
  <1>9. ~Under(b, u)
    <2>1. SUFFICES ASSUME NEW k \in DOMAIN b, Brings(b[k], u) PROVE FALSE
      BY DEF Under
    <2>2. k + 1 < 1 /\ k \in Nat
      BY <1>2, <1>4, <1>6, <2>1 DEF Course
    <2> QED BY <2>2
  <1>10. ~Closing(b, u)
    <2>1. SUFFICES ASSUME NEW k \in DOMAIN b, Ends(b[k], u) PROVE FALSE
      BY DEF Closing
    <2>2. k + 1 = 1 /\ k \in Nat /\ k >= 1
      BY <1>2, <1>4, <1>6, <2>1 DEF Course, OneEnd
    <2> QED BY <2>2
  <1>11. Course(u, vs[u], x.queue, x.saying, x.last, e.tasks, b, c)
    <2>1. \A k \in DOMAIN b : ~Ends(b[k], u)
      BY <1>10 DEF Closing
    <2> HIDE DEF Within, UnderWithin, OneEnd, Once, OneTask, Under, Closing, Worked, Owed, Brings, Ends
    <2> QED BY <1>5, <1>6, <1>8, <1>9, <1>10, <2>1 DEF Course
  <1>12. InOrder(vs, c, h, b, e, x)
    BY <1>3, <1>5, <1>11 DEF InOrder
  <1> QED BY <1>5, <1>8, <1>12 DEF b
\* The next utterance leaves the audio.
LEMMA RolledSame ==
  ASSUME NEW c, ClientShaped(c)
  PROVE  SameAudio(c, Rolled(c))
  BY DEF ClientShaped, SameAudio, Rolled, Fresh, ClientFields
\* An accepted utterance drops it, once.
LEMMA CommittedHandles ==
  ASSUME NEW c, ClientShaped(c)
  PROVE  Handles(c, Committed(c)) /\ ClientShaped(Committed(c))
  <1>1. CASE c.committed
    BY <1>1 DEF Committed, Handles, SameAudio, ClientShaped
  <1>2. CASE ~c.committed
    <2> DEFINE d == Cancelled(c)
    <2>1. Emptied(c, d)
      BY CancelledEmptied
    <2>2. Committed(c) = [d EXCEPT !.committed = TRUE, !.barrier = TRUE]
      BY <1>2 DEF Committed
    <2> HIDE DEF d
    <2>3. Emptied(c, Committed(c))
      BY <2>1, <2>2 DEF Emptied, ClientFields
    <2> QED BY <2>3 DEF Handles, Emptied, ClientShaped
  <1> QED BY <1>1, <1>2
\* And the two together.
LEMMA HandlesSame ==
  ASSUME NEW c, NEW d, NEW f, Handles(c, d), SameAudio(d, f)
  PROVE  Handles(c, f)
  BY DEF Handles, SameAudio, Emptied
\* No change at all.
LEMMA HandlesItself ==
  ASSUME NEW c, ClientShaped(c)
  PROVE  Handles(c, c)
  BY DEF Handles, SameAudio, ClientShaped

\* Every message of the server.
LEMMA ReceiveKeeps == VoiceInv /\ Receive => VoiceInv'
  <1> SUFFICES ASSUME VoiceInv, Receive PROVE VoiceInv'
    OBVIOUS
  <1> DEFINE m == Head(downlink)
             commits == m.kind \in {"cancel", "final"} /\ ~client.committed
             acked == IF commits THEN AckCancel ELSE session
  <1>1. downlink # <<>> /\ downlink' = Tail(downlink) /\ UNCHANGED <<engine, heard>>
    BY DEF Receive
  <1>2. InOrder(waiters, client, heard, downlink, engine, session) /\ InOrder(waiters, client, heard, downlink', engine, session)
    BY <1>1, DropMessage DEF VoiceInv
  <1>3. m \in Downs /\ m.kind \in DownKinds
    <2>1. Arriving(downlink, client, heard)
      BY <1>2 DEF InOrder
    <2> QED BY <1>1, <2>1, ArrivingTail DEF Downs
  <1>4. ClientShaped(client) /\ waiters \in [Narrations -> Waiter] /\ Listens(client, heard)
    BY Shapes
  <1>5. CASE m.kind = "chunk"
    <2>1. waiters' = waiters /\ session' = session
      BY <1>5 DEF Receive
    <2>2. CASE client.barrier
      <3>1. client' = client
        BY <1>5, <2>2 DEF Receive
      <3> QED BY <1>1, <1>2, <2>1, <3>1 DEF VoiceInv
    <2>3. CASE ~client.barrier
      <3> DEFINE p == [utt |-> m.utt, seq |-> m.seq]
                 c == [client EXCEPT !.items = client.items \cup {p}]
      <3>1. client' = Pumped(c)
        BY <1>5, <2>3 DEF Receive
      <3>2. /\ ClientShaped(c) /\ c.items = client.items \cup {p} /\ c.player = client.player /\ c.playing = client.playing
            /\ c.played = client.played
        <4> HIDE DEF p
        <4> QED BY <1>4 DEF ClientShaped, ClientFields
      <3>3. Chunk(m)
        BY <1>5 DEF Chunk
      <3> HIDE DEF c
      <3>4. InOrder(waiters, c, heard, downlink', engine, session)
        BY <1>1, <1>2, <3>2, <3>3, ChunkInOrder
      <3>5. Listens(c, heard)
        BY <3>4 DEF InOrder
      <3>6. Listens(client', heard) /\ Held(client') = Held(c) /\ client'.played = c.played
        BY <3>1, <3>5, PumpedListens
      <3>7. Fewer(c, heard, client', heard)
        BY <3>6, FewerStays
      <3>8. Patient(waiters, waiters, client') /\ Acked(session, session)
        BY <1>4, SamePatient DEF Acked
      <3>9. InOrder(waiters, client', heard, downlink', engine, session)
        BY <3>4, <3>6, <3>7, <3>8, AudioMoves
      <3> QED BY <1>1, <2>1, <3>9 DEF VoiceInv
    <2> QED BY <2>2, <2>3
  <1>6. CASE m.kind = "end"
    <2>1. client' = client /\ session' = session
      BY <1>6 DEF Receive
    <2>2. CASE m.utt \in Narrations /\ waiters[m.utt].at = "waiting"
      <3> DEFINE u == m.utt
                 ws == [waiters EXCEPT ![u].ended = TRUE, ![u].last = m.seq]
      <3>1. waiters' = Resolved(ws, u, client.played)
        BY <1>6, <2>2 DEF Receive
      <3>2. Ends(m, u)
        BY <1>6 DEF Ends
      <3>3. /\ InOrder(ws, client, heard, downlink', engine, session)
            /\ ws \in [Narrations -> Waiter] /\ (ws[u].last # Nothing => Within(client, u, ws[u].last))
        <4>1. u \in Narrations /\ waiters[u].at = "waiting" /\ Ends(Head(downlink), u) /\ downlink # <<>>
          BY <1>1, <2>2, <3>2
        <4>2. m.seq \in Nat
          BY <1>3 DEF Downs
        <4>3. ToldOver(waiters, u, Head(downlink).seq, ws)
          BY <1>4, <4>1, <4>2, Over
        <4> HIDE DEF ws, u
        <4> QED BY <1>1, <1>2, <4>1, <4>3, EndInOrder
      <3> HIDE DEF ws, u
      <3>4. Patient(ws, waiters', client)
        BY <1>4, <3>1, <3>3, ResolvedPatient
      <3>5. Handles(client, client) /\ Acked(session, session)
        BY <1>4, HandlesItself DEF Acked
      <3>6. InOrder(waiters', client, heard, downlink', engine, session)
        BY <3>3, <3>4, <3>5, HandlesInOrder
      <3> QED BY <1>1, <2>1, <3>6 DEF VoiceInv
    <2>3. CASE ~(m.utt \in Narrations /\ waiters[m.utt].at = "waiting")
      <3>1. waiters' = waiters
        BY <1>6, <2>3 DEF Receive
      <3> QED BY <1>1, <1>2, <2>1, <3>1 DEF VoiceInv
    <2> QED BY <2>2, <2>3
  <1>7. CASE m.kind \notin {"chunk", "end"}
    <2>1. waiters' = waiters \/ waiters' = Interrupted(waiters)
      BY <1>7 DEF Receive
    <2>2. Patient(waiters, waiters', client')
      BY <1>4, <2>1, SamePatient, InterruptedPatient
    <2>3. Acked(session, acked)
      BY AckCancelAcked DEF Acked
    <2>4. Handles(client, client')
      <3>1. CASE m.kind = "cancel"
        <4>1. client' = Committed(client)
          BY <3>1 DEF Receive
        <4> QED BY <1>4, <4>1, CommittedHandles
      <3>2. CASE m.kind = "final"
        <4>1. client' = Rolled(Committed(client))
          BY <3>2 DEF Receive
        <4> QED BY <1>4, <4>1, CommittedHandles, RolledSame, HandlesSame
      <3>3. CASE m.kind = "no_speech"
        <4>1. client' = Rolled(Rejected(client))
          BY <3>3 DEF Receive
        <4>2. SameAudio(client, Rejected(client)) /\ ClientShaped(Rejected(client))
          BY <1>4, RejectedSame DEF SameAudio, ClientShaped
        <4>3. SameAudio(Rejected(client), client')
          BY <4>1, <4>2, RolledSame
        <4> QED BY <4>2, <4>3, HandlesSame DEF Handles
      <3>4. CASE m.kind = "listen"
        <4>1. client' = Fresh(client) \/ client' = client
          BY <3>4 DEF Receive
        <4> QED BY <1>4, <4>1, FreshSame, HandlesItself DEF Handles
      <3>5. CASE m.kind = "error"
        <4> DEFINE r == Rejected(client)
        <4>1. client' = [r EXCEPT !.listening = FALSE, !.restart = (client.mic = "on")]
          BY <3>5 DEF Receive
        <4>2. SameAudio(client, r)
          BY <1>4, RejectedSame
        <4> HIDE DEF r
        <4>3. SameAudio(client, client')
          BY <4>1, <4>2 DEF SameAudio, ClientFields
        <4> QED BY <4>3 DEF Handles
      <3> QED BY <1>3, <1>7, <3>1, <3>2, <3>3, <3>4, <3>5 DEF DownKinds
    <2>5. InOrder(waiters', client', heard, downlink', engine, acked)
      BY <1>2, <2>2, <2>3, <2>4, HandlesInOrder
    <2>6. Acked(acked, session')
      <3> DEFINE t == [kind |-> "turn", utt |-> "none", seq |-> 0]
      <3>1. session' = acked \/ session' = [acked EXCEPT !.queue = Append(acked.queue, t)]
        BY DEF Receive
      <3>2. t \in Ups /\ t.kind # "say"
        BY DEF Ups, UpKinds
      <3> HIDE DEF acked, t
      <3> QED BY <3>1, <3>2 DEF Acked
    <2> HIDE DEF acked
    <2>7. ClientShaped(client') /\ waiters' \in [Narrations -> Waiter]
      BY <2>5 DEF InOrder, Listens, ClientShaped
    <2>8. Handles(client', client') /\ Patient(waiters', waiters', client')
      BY <2>7, HandlesItself, SamePatient
    <2>9. InOrder(waiters', client', heard, downlink', engine, session')
      BY <2>5, <2>6, <2>8, HandlesInOrder
    <2> QED BY <1>1, <2>9 DEF VoiceInv
  <1> QED BY <1>5, <1>6, <1>7

-----------------------------------------------------------------------------
(* What the server does *)

EngineShaped(e) == e = [f \in EngineFields |-> e[f]]
SessionShaped(x) == x = [f \in SessionFields |-> x[f]]
ServerMoves == UNCHANGED <<client, waiters, heard>>

\* The lines stay; the generation may be over.
LEMMA ComingCut ==
  ASSUME NEW e, NEW d, NEW c, NEW h, Coming(e, d, c, h), NEW f, EngineShaped(f), f.gen \in Nat, f.gen >= e.gen,
         f.seq = e.seq, f.tasks = e.tasks
  PROVE  Coming(f, d, c, h)
  <1>1. e.gen \in Nat /\ \A i \in DOMAIN e.tasks : e.tasks[i].gen \in Nat /\ e.tasks[i].gen <= e.gen
    <2>1. e.gen \in Nat /\ e.tasks \in Seq(Tasks)
      BY DEF Coming
    <2>2. \A i \in DOMAIN e.tasks : e.tasks[i] \in Tasks
      BY <2>1
    <2> QED BY <2>1, <2>2 DEF Coming, Tasks
  <1>2. \A i \in DOMAIN f.tasks : f.tasks[i].gen <= f.gen /\ (f.tasks[i].gen = f.gen => f.gen = e.gen)
    BY <1>1
  <1> HIDE DEF After
  <1> QED BY <1>1, <1>2 DEF Coming, EngineShaped
\* So everything stays in order.
LEMMA EngineMoves ==
  ASSUME NEW ws, NEW c, NEW h, NEW d, NEW e, NEW x, InOrder(ws, c, h, d, e, x), NEW f, EngineShaped(f), f.gen \in Nat, f.gen >= e.gen,
         f.seq = e.seq, f.tasks = e.tasks
  PROVE  InOrder(ws, c, h, d, f, x)
  <1>1. Coming(f, d, c, h)
    BY ComingCut DEF InOrder
  <1> QED BY <1>1 DEF InOrder
\* What every step of the server needs of the invariant.
LEMMA EngineNow ==
  ASSUME VoiceInv
  PROVE  EngineShaped(engine) /\ engine.gen \in Nat /\ engine.seq \in Nat /\ engine.tasks \in Seq(Tasks) /\ SessionShaped(session)
         /\ session.queue \in Seq(Ups) /\ Arriving(downlink, client, heard) /\ Coming(engine, downlink, client, heard) /\ Spoken(session)
         /\ waiters \in [Narrations -> Waiter]
  BY DEF VoiceInv, InOrder, Coming, EngineShaped, Spoken, SessionShaped
NotesIn(d) == {d, Append(d, Msg("cancel")), Append(d, Msg("listen")), Append(d, Msg("error")), Append(d, Msg("final")), Append(d, Msg("no_speech"))}
\* Speech events, errors and the offer to listen.
LEMMA NotesSent ==
  ASSUME NEW ws, NEW c, NEW h, NEW d, NEW e, NEW x, InOrder(ws, c, h, d, e, x), NEW b \in NotesIn(d)
  PROVE  InOrder(ws, c, h, b, e, x)
  <1>1. ASSUME NEW kind \in {"cancel", "listen", "error", "final", "no_speech"}
        PROVE  Msg(kind) \in Downs /\ Msg(kind).kind \notin {"chunk", "end"}
    BY DEF Msg, Downs, DownKinds
  <1>2. ASSUME NEW kind \in {"cancel", "listen", "error", "final", "no_speech"}
        PROVE  InOrder(ws, c, h, Append(d, Msg(kind)), e, x)
    BY <1>1, NoteSent
  <1>3. CASE b = d
    BY <1>3
  <1>4. CASE b # d
    <2>1. PICK kind \in {"cancel", "listen", "error", "final", "no_speech"} : b = Append(d, Msg(kind))
      BY <1>4 DEF NotesIn
    <2> QED BY <1>2, <2>1
  <1> QED BY <1>3, <1>4
\* Yielding to a voice only ends a generation.
LEMMA YieldedCuts ==
  ASSUME NEW t, EngineShaped(t), t.gen \in Nat
  PROVE  EngineShaped(Yielded(t)) /\ Yielded(t).gen \in Nat /\ Yielded(t).gen >= t.gen /\ Yielded(t).seq = t.seq /\ Yielded(t).tasks = t.tasks
  <1>1. CASE IsSpeaking
    <2>1. Yielded(t) = [[t EXCEPT !.gen = t.gen + 1] EXCEPT !.out = {}, !.turn = "listening"]
      BY <1>1 DEF Yielded, Silence
    <2> DEFINE n == t.gen + 1
               s == [t EXCEPT !.gen = n]
    <2>2. n \in Nat /\ n >= t.gen
      OBVIOUS
    <2> HIDE DEF n
    <2>3. EngineShaped(s) /\ s.gen = n /\ s.seq = t.seq /\ s.tasks = t.tasks
      BY DEF EngineShaped, EngineFields
    <2>4. Yielded(t) = [s EXCEPT !.out = {}, !.turn = "listening"]
      BY <2>1 DEF n
    <2> HIDE DEF s
    <2> QED BY <2>2, <2>3, <2>4 DEF EngineShaped, EngineFields
  <1>2. CASE ~IsSpeaking
    BY <1>2 DEF Yielded, EngineShaped, EngineFields
  <1> QED BY <1>1, <1>2
\* So does an interrupt.
LEMMA SilenceCuts ==
  ASSUME NEW t, EngineShaped(t), t.gen \in Nat
  PROVE  EngineShaped(Silence(t)) /\ Silence(t).gen \in Nat /\ Silence(t).gen >= t.gen /\ Silence(t).seq = t.seq /\ Silence(t).tasks = t.tasks
  <1>1. Silence(t) = [t EXCEPT !.gen = t.gen + 1]
    BY DEF Silence
  <1> QED BY <1>1 DEF EngineShaped, EngineFields
\* Voice and transcripts.
LEMMA VoiceKeeps ==
  ASSUME VoiceInv, HearVoice \/ Stt
  PROVE  VoiceInv'
  <1>1. EngineShaped(engine) /\ engine.gen \in Nat
    BY EngineNow
  <1>2. UNCHANGED <<client, waiters, heard, session>>
    BY DEF HearVoice, Stt
  <1>3. downlink' \in NotesIn(downlink)
    <2>1. CASE HearVoice
      BY <2>1 DEF HearVoice, Yield, NotesIn
    <2>2. CASE Stt
      BY <2>2 DEF Stt, Yield, NotesIn
    <2> QED BY <2>1, <2>2
  <1>4. EngineShaped(engine') /\ engine'.gen \in Nat /\ engine'.gen >= engine.gen /\ engine'.seq = engine.seq /\ engine'.tasks = engine.tasks
    <2>1. \/ engine' = [engine EXCEPT !.stt = TRUE] \/ engine' = [engine EXCEPT !.stt = FALSE] \/ engine' = engine
          \/ engine' = Silence(Yielded(engine)) \/ engine' = Yielded(engine)
      BY DEF HearVoice, Stt
    <2>2. CASE \/ engine' = [engine EXCEPT !.stt = TRUE] \/ engine' = [engine EXCEPT !.stt = FALSE] \/ engine' = engine
      BY <1>1, <2>2 DEF EngineShaped, EngineFields
    <2>3. CASE engine' = Silence(Yielded(engine))
      <3> DEFINE t == Yielded(engine)
      <3>1. EngineShaped(t) /\ t.gen \in Nat /\ t.gen >= engine.gen /\ t.seq = engine.seq /\ t.tasks = engine.tasks
        BY <1>1, YieldedCuts
      <3> HIDE DEF t
      <3>2. EngineShaped(Silence(t)) /\ Silence(t).gen \in Nat /\ Silence(t).gen >= t.gen /\ Silence(t).seq = t.seq /\ Silence(t).tasks = t.tasks
        BY <3>1, SilenceCuts
      <3>3. engine' = Silence(t)
        BY <2>3 DEF t
      <3> QED BY <1>1, <3>1, <3>2, <3>3
    <2>4. CASE engine' = Yielded(engine)
      BY <1>1, <2>4, YieldedCuts
    <2> QED BY <2>1, <2>2, <2>3, <2>4
  <1>5. InOrder(waiters, client, heard, downlink', engine, session)
    BY <1>3, NotesSent DEF VoiceInv
  <1>6. InOrder(waiters, client, heard, downlink', engine', session)
    BY <1>4, <1>5, EngineMoves
  <1> QED BY <1>2, <1>6 DEF VoiceInv

\* Something is taken from the control socket.
PartOf(p, q) ==
  \E f \in [DOMAIN p -> DOMAIN q] : (\A k \in DOMAIN p : p[k] = q[f[k]]) /\ \A j, k \in DOMAIN p : f[j] = f[k] => j = k
\* A shorter queue asks for less.
LEMMA QueueLess ==
  ASSUME NEW ws, NEW c, NEW h, NEW d, NEW e, NEW x, InOrder(ws, c, h, d, e, x), NEW y, SessionShaped(y), y.saying = x.saying, y.last = x.last,
         y.queue \in Seq(Ups), PartOf(y.queue, x.queue)
  PROVE  InOrder(ws, c, h, d, e, y)
  <1>1. Spoken(x) /\ ws \in [Narrations -> Waiter]
    BY DEF InOrder
  <1>2. PICK f \in [DOMAIN y.queue -> DOMAIN x.queue] :
          (\A k \in DOMAIN y.queue : f[k] \in DOMAIN x.queue /\ y.queue[k] = x.queue[f[k]]) /\ \A j, k \in DOMAIN y.queue : f[j] = f[k] => j = k
    BY DEF PartOf
  <1>3. Spoken(y)
    <2>1. ASSUME NEW k \in DOMAIN y.queue, y.queue[k].kind = "say" PROVE y.queue[k].utt \in Narrations
      <3> DEFINE n == f[k]
      <3>1. n \in DOMAIN x.queue /\ y.queue[k] = x.queue[n]
        BY <1>2
      <3> HIDE DEF n
      <3>2. \A l \in DOMAIN x.queue : x.queue[l].kind = "say" => x.queue[l].utt \in Narrations
        BY <1>1 DEF Spoken
      <3> QED BY <2>1, <3>1, <3>2
    <2> QED BY <1>1, <2>1 DEF Spoken, SessionShaped
  <1>4. ASSUME NEW u \in Narrations PROVE Course(u, ws[u], y.queue, y.saying, y.last, e.tasks, d, c)
    <2>1. Course(u, ws[u], x.queue, x.saying, x.last, e.tasks, d, c)
      BY DEF InOrder
    <2>2. Once(x.queue, u)
      BY <2>1 DEF Course
    <2>3. Once(y.queue, u) /\ (Owed(y.queue, u) => Owed(x.queue, u))
      BY <1>2, <2>2 DEF Once, Owed, Asks
    <2>4. Waits(u, ws[u], ws[u], c)
      BY DEF Waits
    <2> QED BY <2>1, <2>3, <2>4, CourseMoves
  <1> QED BY <1>3, <1>4 DEF InOrder
\* The queue without its head.
LEMMA TailLess ==
  ASSUME NEW ws, NEW c, NEW h, NEW d, NEW e, NEW x, InOrder(ws, c, h, d, e, x), x.queue # <<>>,
         NEW y, SessionShaped(y), y.saying = x.saying, y.last = x.last, y.queue = Tail(x.queue)
  PROVE  InOrder(ws, c, h, d, e, y)
  <1> DEFINE f == [k \in DOMAIN y.queue |-> k + 1]
  <1>1. x.queue \in Seq(Ups)
    BY DEF InOrder, Spoken
  <1>2. /\ y.queue \in Seq(Ups)
        /\ \A k \in DOMAIN y.queue : k + 1 \in DOMAIN x.queue /\ k \in Nat /\ y.queue[k] = x.queue[k + 1]
    BY <1>1, TailIs
  <1>3. PartOf(y.queue, x.queue)
    <2>1. /\ f \in [DOMAIN y.queue -> DOMAIN x.queue] /\ (\A k \in DOMAIN y.queue : y.queue[k] = x.queue[f[k]])
          /\ \A j, k \in DOMAIN y.queue : f[j] = f[k] => j = k
      BY <1>2
    <2> HIDE DEF f
    <2> QED BY <2>1 DEF PartOf
  <1> QED BY <1>2, <1>3, QueueLess
\* An acknowledgement is handled.
LEMMA AcknowledgeKeeps == VoiceInv /\ Acknowledge => VoiceInv'
  <1> SUFFICES ASSUME VoiceInv, Acknowledge PROVE VoiceInv'
    OBVIOUS
  <1>1. PICK i \in DOMAIN session.queue :
          /\ \E out : engine' = [engine EXCEPT !.out = out, !.turn = IF out = {} /\ engine.turn = "speaking" THEN "listening" ELSE engine.turn]
          /\ session' = [session EXCEPT !.queue = Without(session.queue, i)]
    BY DEF Acknowledge
  <1>2. UNCHANGED <<client, waiters, downlink, heard>>
    BY DEF Acknowledge
  <1>3. EngineShaped(engine') /\ engine'.gen \in Nat /\ engine'.gen >= engine.gen /\ engine'.seq = engine.seq /\ engine'.tasks = engine.tasks
    <2>1. PICK out, turn : engine' = [engine EXCEPT !.out = out, !.turn = turn]
      BY <1>1
    <2>2. EngineShaped(engine) /\ engine.gen \in Nat
      BY EngineNow
    <2>3. EngineShaped(engine') /\ engine'.gen = engine.gen /\ engine'.seq = engine.seq /\ engine'.tasks = engine.tasks
      BY <2>1, <2>2 DEF EngineShaped, EngineFields
    <2> QED BY <2>2, <2>3
  <1>4. SessionShaped(session') /\ session'.saying = session.saying /\ session'.last = session.last
        /\ session'.queue = Without(session.queue, i)
    BY <1>1, EngineNow DEF SessionShaped, SessionFields
  <1>5. /\ session'.queue \in Seq(Ups)
        /\ \A k \in DOMAIN session'.queue : k \in Nat /\ Step(i, k) \in DOMAIN session.queue /\ session'.queue[k] = session.queue[Step(i, k)]
    BY <1>4, EngineNow, WithoutIs
  <1>6. i \in Nat
    BY EngineNow
  <1>7. PartOf(session'.queue, session.queue)
    <2> DEFINE f == [k \in DOMAIN session'.queue |-> Step(i, k)]
    <2>1. /\ f \in [DOMAIN session'.queue -> DOMAIN session.queue] /\ (\A k \in DOMAIN session'.queue : session'.queue[k] = session.queue[f[k]])
          /\ \A j, k \in DOMAIN session'.queue : f[j] = f[k] => j = k
      BY <1>5, <1>6 DEF Step
    <2> HIDE DEF f
    <2> QED BY <2>1 DEF PartOf
  <1>8. InOrder(waiters, client, heard, downlink, engine, session')
    BY <1>4, <1>5, <1>7, QueueLess DEF VoiceInv
  <1>9. InOrder(waiters, client, heard, downlink, engine', session')
    BY <1>3, <1>8, EngineMoves
  <1> QED BY <1>2, <1>9 DEF VoiceInv

\* Later numbers come after the same audio.
LEMMA AfterMore ==
  ASSUME NEW c, NEW h, NEW d, Listens(c, h), Arriving(d, c, h), NEW n \in Nat, NEW m \in Nat, n <= m, After(n, c, h, d)
  PROVE  After(m, c, h, d)
  <1>1. h \in Nat /\ c.played \in Nat /\ \A i \in Held(c) : i.seq \in Nat
    BY DEF Listens, Held, Pieces
  <1>2. \A k \in DOMAIN d : d[k].seq \in Nat
    <2>1. d \in Seq(Downs)
      BY DEF Arriving
    <2>2. \A k \in DOMAIN d : d[k] \in Downs
      BY <2>1
    <2> QED BY <2>2 DEF Downs
  <1>3. Later(m, c, h)
    BY <1>1 DEF After, Later
  <1>4. \A k \in DOMAIN d : Chunk(d[k]) => d[k].seq < m
    BY <1>2 DEF After
  <1> QED BY <1>3, <1>4 DEF After

\* A line joins the lines to come.
LEMMA ComingLine ==
  ASSUME NEW e, NEW d, NEW c, NEW h, Listens(c, h), Arriving(d, c, h), Coming(e, d, c, h),
         NEW u \in Utterances, NEW l \in Seq(Nat \ {0}), l # <<>>, NEW t, t = [utt |-> u, gen |-> e.gen, left |-> l],
         NEW f, EngineShaped(f), f.gen = e.gen, f.seq \in Nat, f.seq >= e.seq, f.tasks = Append(e.tasks, t),
         \A p \in DOMAIN l : e.seq < l[p] /\ l[p] <= f.seq, \A p, q \in DOMAIN l : p < q => l[p] < l[q]
  PROVE  Coming(f, d, c, h)
  <1>1. e.gen \in Nat /\ e.seq \in Nat /\ e.tasks \in Seq(Tasks) /\ After(e.seq + 1, c, h, d)
    BY DEF Coming
  <1>2. t \in Tasks /\ t.gen = e.gen /\ t.left = l
    BY <1>1 DEF Tasks
  <1> DEFINE n == Len(e.tasks) + 1
             ts == f.tasks
  <1>3. /\ ts \in Seq(Tasks) /\ n \in Nat /\ ts[n] = t /\ n \in DOMAIN ts
        /\ \A k \in DOMAIN e.tasks : k \in DOMAIN ts /\ ts[k] = e.tasks[k] /\ k < n /\ k \in Nat
        /\ \A k \in DOMAIN ts : k = n \/ k \in DOMAIN e.tasks
    BY <1>1, <1>2, AppendIs
  <1> HIDE DEF n
  <1>4. \A p \in DOMAIN l : l[p] \in Nat
    OBVIOUS
  <1>5. ASSUME NEW m \in Nat, e.seq < m PROVE After(m, c, h, d)
    <2>1. e.seq + 1 \in Nat /\ e.seq + 1 <= m
      BY <1>1, <1>5
    <2> QED BY <1>1, <2>1, AfterMore
  <1>6. After(f.seq + 1, c, h, d)
    <2>1. f.seq + 1 \in Nat /\ e.seq < f.seq + 1
      BY <1>1
    <2> QED BY <1>5, <2>1
  <1>7. \A p \in DOMAIN l : After(l[p], c, h, d)
    BY <1>4, <1>5
  <1>8. ASSUME NEW i \in DOMAIN e.tasks, e.tasks[i].gen = e.gen, NEW p \in DOMAIN e.tasks[i].left
        PROVE  /\ e.tasks[i].left[p] <= f.seq /\ e.tasks[i].left[p] <= e.seq /\ e.tasks[i].left[p] \in Nat
               /\ After(e.tasks[i].left[p], c, h, d)
    <2>1. e.tasks[i].left[p] <= e.seq /\ After(e.tasks[i].left[p], c, h, d)
      BY <1>8 DEF Coming
    <2>2. e.tasks[i] \in Tasks
      BY <1>1
    <2>3. e.tasks[i].left \in Seq(Nat \ {0})
      BY <2>2 DEF Tasks
    <2>4. e.tasks[i].left[p] \in Nat
      BY <2>3
    <2> QED BY <1>1, <2>1, <2>4
  <1> HIDE DEF After
  <1>9. ASSUME NEW i \in DOMAIN ts
        PROVE  /\ ts[i].left # <<>> /\ ts[i].gen <= f.gen
               /\ ts[i].gen = f.gen =>
                    \A p \in DOMAIN ts[i].left :
                      /\ ts[i].left[p] <= f.seq /\ After(ts[i].left[p], c, h, d)
                      /\ \A q \in DOMAIN ts[i].left : p < q => ts[i].left[p] < ts[i].left[q]
                      /\ \A j \in DOMAIN ts : i < j /\ ts[j].gen = f.gen =>
                           \A q \in DOMAIN ts[j].left : ts[i].left[p] < ts[j].left[q]
    <2>1. CASE i = n
      <3>1. \A j \in DOMAIN ts : ~(i < j)
        BY <1>3, <2>1
      <3> QED BY <1>1, <1>2, <1>3, <1>7, <2>1, <3>1
    <2>2. CASE i \in DOMAIN e.tasks
      <3>1. ts[i] = e.tasks[i] /\ i < n /\ i \in Nat
        BY <1>3, <2>2
      <3>2. /\ e.tasks[i].left # <<>> /\ e.tasks[i].gen <= e.gen
            /\ e.tasks[i].gen = e.gen =>
                 \A p \in DOMAIN e.tasks[i].left :
                   /\ \A q \in DOMAIN e.tasks[i].left : p < q => e.tasks[i].left[p] < e.tasks[i].left[q]
                   /\ \A j \in DOMAIN e.tasks : i < j /\ e.tasks[j].gen = e.gen =>
                        \A q \in DOMAIN e.tasks[j].left : e.tasks[i].left[p] < e.tasks[j].left[q]
        BY <2>2 DEF Coming
      <3>3. ASSUME e.tasks[i].gen = e.gen, NEW p \in DOMAIN e.tasks[i].left, NEW j \in DOMAIN ts, i < j, ts[j].gen = e.gen,
                   NEW q \in DOMAIN ts[j].left
            PROVE  e.tasks[i].left[p] < ts[j].left[q]
        <4>1. CASE j = n
          <5>1. q \in DOMAIN l /\ ts[j].left[q] = l[q] /\ e.seq < l[q] /\ l[q] \in Nat
            BY <1>2, <1>3, <1>4, <3>3, <4>1
          <5>2. e.tasks[i].left[p] <= e.seq /\ e.tasks[i].left[p] \in Nat
            BY <1>8, <2>2, <3>3
          <5> HIDE DEF ts
          <5> QED BY <1>1, <5>1, <5>2
        <4>2. CASE j \in DOMAIN e.tasks
          BY <1>3, <3>2, <3>3, <4>2
        <4> QED BY <1>3, <4>1, <4>2
      <3> QED BY <1>8, <2>2, <3>1, <3>2, <3>3
    <2> QED BY <1>3, <2>1, <2>2
  <1>10. f.gen \in Nat /\ ts \in Seq(Tasks)
    BY <1>1, <1>3
  <1> QED BY <1>6, <1>9, <1>10 DEF Coming, EngineShaped

\* A narration that nobody speaks of now, and the one that is taken up.
LEMMA CourseOthers ==
  ASSUME NEW u \in Narrations, NEW w, NEW q, NEW last, NEW ts, NEW d, NEW c, Course(u, w, q, "none", last, ts, d, c),
         NEW p, Once(p, u), Owed(p, u) => Owed(q, u), NEW saying, saying # u, NEW kept, NEW rs, ~Worked(rs, u)
  PROVE  Course(u, w, p, saying, kept, rs, d, c)
  <1>1. OneTask(rs, u)
    BY DEF OneTask, Worked
  <1> HIDE DEF Within, UnderWithin, OneEnd, Once, OneTask, Under, Closing, Worked, Owed, Brings, Ends
  <1> QED BY <1>1 DEF Course
\* The one that is taken up.
LEMMA CourseTaken ==
  ASSUME NEW u \in Narrations, NEW w, NEW q, NEW last, NEW ts, NEW d, NEW c, Course(u, w, q, "none", last, ts, d, c), Owed(q, u),
         NEW p, Once(p, u), ~Owed(p, u), NEW rs, OneTask(rs, u)
  PROVE  Course(u, w, p, u, Nothing, rs, d, c)
  <1>1. \A k \in DOMAIN d : Ends(d[k], u) => Closing(d, u)
    BY DEF Closing
  <1> HIDE DEF Within, UnderWithin, OneEnd, Once, OneTask, Under, Closing, Worked, Owed, Brings, Ends
  <1> QED BY <1>1 DEF Course
\* While nothing is said no line is worked on for a narration.
LEMMA Untouched ==
  ASSUME NEW u \in Narrations, NEW w, NEW q, NEW last, NEW ts, NEW d, NEW c, Course(u, w, q, "none", last, ts, d, c)
  PROVE  ~Worked(ts, u)
  <1>1. "none" # u
    BY UtterancesDiffer DEF Utterances
  <1> HIDE DEF Worked
  <1> QED BY <1>1 DEF Course
\* A narration was asked for once, so not again in the rest of the queue.
LEMMA RestOwes ==
  ASSUME NEW q \in Seq(Ups), q # <<>>, NEW u, Once(q, u)
  PROVE  Once(Tail(q), u) /\ (Owed(Tail(q), u) => Owed(q, u)) /\ (Asks(Head(q), u) => Owed(q, u) /\ ~Owed(Tail(q), u))
  <1> DEFINE p == Tail(q)
  <1>1. /\ Head(q) = q[1] /\ 1 \in DOMAIN q
        /\ \A k \in DOMAIN p : k + 1 \in DOMAIN q /\ k \in Nat /\ k >= 1 /\ p[k] = q[k + 1]
    BY TailIs
  <1> HIDE DEF p
  <1>2. ASSUME NEW j \in DOMAIN p, NEW k \in DOMAIN p, Asks(p[j], u), Asks(p[k], u) PROVE j = k
    <2>1. j + 1 = k + 1 /\ j \in Nat /\ k \in Nat
      BY <1>1, <1>2 DEF Once
    <2> QED BY <2>1
  <1>3. Once(p, u)
    BY <1>2 DEF Once
  <1>4. Owed(p, u) => Owed(q, u)
    BY <1>1 DEF Owed
  <1>5. ASSUME Asks(Head(q), u) PROVE Owed(q, u) /\ ~Owed(p, u)
    <2>1. Owed(q, u)
      BY <1>1, <1>5 DEF Owed
    <2>2. ASSUME NEW k \in DOMAIN p, Asks(p[k], u) PROVE FALSE
      <3>1. k + 1 = 1 /\ k \in Nat /\ k >= 1
        BY <1>1, <1>5, <2>2 DEF Once
      <3> QED BY <3>1
    <2> QED BY <2>1, <2>2 DEF Owed
  <1> QED BY <1>3, <1>4, <1>5 DEF p
\* One line more.
LEMMA AddOne ==
  ASSUME NEW S, NEW q \in Seq(S), NEW s \in S
  PROVE  q \o <<s>> = Append(q, s)
  OBVIOUS
\* Two lines more.
LEMMA AddTwo ==
  ASSUME NEW S, NEW q \in Seq(S), NEW s \in S, NEW t \in S
  PROVE  q \o <<s, t>> = Append(Append(q, s), t)
  OBVIOUS

\* The numbers of a line.
LEMMA OneNumber ==
  ASSUME NEW n \in Nat, NEW l, l = <<n + 1>>
  PROVE  /\ l \in Seq(Nat \ {0}) /\ l # <<>> /\ (\A p \in DOMAIN l : n < l[p] /\ l[p] <= n + 1)
         /\ \A p, q \in DOMAIN l : p < q => l[p] < l[q]
  OBVIOUS
\* The numbers of a line of two sentences.
LEMMA TwoNumbers ==
  ASSUME NEW n \in Nat, NEW l, l = <<n + 1, n + 2>>
  PROVE  /\ l \in Seq(Nat \ {0}) /\ l # <<>> /\ (\A p \in DOMAIN l : n < l[p] /\ l[p] <= n + 2)
         /\ \A p, q \in DOMAIN l : p < q => l[p] < l[q]
  OBVIOUS
\* A line more is for one utterance.
LEMMA AppendWorks ==
  ASSUME NEW ts \in Seq(Tasks), NEW t \in Tasks
  PROVE  /\ \A u : t.utt # u => (Worked(Append(ts, t), u) = Worked(ts, u))
         /\ \A u : ~Worked(ts, u) => OneTask(Append(ts, t), u)
  <1> DEFINE rs == Append(ts, t)
             n == Len(ts) + 1
  <1>1. /\ rs[n] = t
        /\ \A k \in DOMAIN ts : k \in DOMAIN rs /\ rs[k] = ts[k]
        /\ \A k \in DOMAIN rs : k = n \/ k \in DOMAIN ts
    BY AppendIs
  <1> HIDE DEF rs, n
  <1>2. \A u : t.utt # u => (Worked(rs, u) = Worked(ts, u))
    BY <1>1 DEF Worked
  <1>3. \A u : ~Worked(ts, u) => OneTask(rs, u)
    BY <1>1 DEF Worked, OneTask
  <1> QED BY <1>2, <1>3 DEF rs

\* A narration is taken up.
LEMMA SayKeeps ==
  ASSUME VoiceInv, Hear, Head(session.queue).kind = "say"
  PROVE  VoiceInv'
  <1> DEFINE m == Head(session.queue)
             u == m.utt
             rest == Tail(session.queue)
             l == <<engine.seq + 1, engine.seq + 2>>
             t == Say(u, l)
             turn == IF m.kind = "turn" THEN "thinking" ELSE engine.turn
             said == session.said \cup {u}
  <1>1. session.queue # <<>> /\ session.saying = "none" /\ UNCHANGED <<client, waiters, heard>>
    BY DEF Hear
  <1>2. /\ engine' = [engine EXCEPT !.seq = engine.seq + 2, !.tasks = engine.tasks \o <<t>>, !.turn = turn]
        /\ session' = [queue |-> rest, saying |-> u, last |-> Nothing, said |-> said]
        /\ downlink' = Append(downlink, Msg("listen"))
    BY DEF Hear
  <1>3. EngineShaped(engine) /\ engine.gen \in Nat /\ engine.seq \in Nat /\ engine.tasks \in Seq(Tasks) /\ session.queue \in Seq(Ups)
        /\ Arriving(downlink, client, heard) /\ Coming(engine, downlink, client, heard) /\ Spoken(session) /\ Listens(client, heard)
    BY EngineNow, Shapes
  <1>4. m = session.queue[1] /\ 1 \in DOMAIN session.queue /\ rest \in Seq(Ups)
    BY <1>1, <1>3, TailIs
  <1>5. u \in Narrations /\ u \in Utterances
    BY <1>3, <1>4 DEF Spoken, Utterances
  <1>6. t = [utt |-> u, gen |-> engine.gen, left |-> l]
    BY DEF Say
  <1>7. /\ l \in Seq(Nat \ {0}) /\ l # <<>> /\ (\A p \in DOMAIN l : engine.seq < l[p] /\ l[p] <= engine.seq + 2)
        /\ \A p, q \in DOMAIN l : p < q => l[p] < l[q]
    BY <1>3, TwoNumbers
  <1>8. Asks(m, u)
    BY DEF Asks
  <1> HIDE DEF l, turn, said, rest
  <1>9. t \in Tasks /\ t.utt = u
    BY <1>3, <1>5, <1>6, <1>7 DEF Tasks
  <1> HIDE DEF t, u
  <1>10. engine.tasks \o <<t>> = Append(engine.tasks, t)
    BY <1>3, <1>9, AddOne
  <1> DEFINE n == engine.seq + 2
             ts == Append(engine.tasks, t)
  <1>11. engine' = [engine EXCEPT !.seq = n, !.tasks = ts, !.turn = turn]
    BY <1>2, <1>10
  <1>12. n \in Nat /\ n >= engine.seq
    BY <1>3
  <1> HIDE DEF n, ts
  <1>13. EngineShaped(engine') /\ engine'.gen = engine.gen /\ engine'.seq = n /\ engine'.tasks = ts
    BY <1>3, <1>11 DEF EngineShaped, EngineFields
  <1>14. Coming(engine', downlink, client, heard)
    BY <1>3, <1>5, <1>6, <1>7, <1>12, <1>13, ComingLine DEF n, ts
  <1>15. SessionShaped(session') /\ session'.queue = rest /\ session'.saying = u /\ session'.last = Nothing
    BY <1>2 DEF SessionShaped, SessionFields
  <1>16. Spoken(session')
    <2>1. \A k \in DOMAIN rest : rest[k].kind = "say" => rest[k].utt \in Narrations
      <3>1. \A k \in DOMAIN rest : k + 1 \in DOMAIN session.queue /\ rest[k] = session.queue[k + 1]
        BY <1>1, <1>3, TailIs DEF rest
      <3> QED BY <1>3, <3>1 DEF Spoken
    <2> QED BY <1>4, <1>5, <1>15, <2>1 DEF Spoken, SessionShaped, Nothing
  <1>17. ASSUME NEW v \in Narrations
         PROVE  Course(v, waiters[v], session'.queue, session'.saying, session'.last, engine'.tasks, downlink, client)
    <2>1. Course(v, waiters[v], session.queue, "none", session.last, engine.tasks, downlink, client)
      BY <1>1 DEF VoiceInv, InOrder
    <2>2. Once(session.queue, v)
      BY <2>1 DEF Course
    <2>3. Once(rest, v) /\ (Owed(rest, v) => Owed(session.queue, v)) /\ (Asks(m, v) => Owed(session.queue, v) /\ ~Owed(rest, v))
      BY <1>1, <1>3, <2>2, RestOwes DEF rest
    <2>4. ~Worked(engine.tasks, v)
      BY <2>1, Untouched
    <2>5. CASE v = u
      <3>1. OneTask(ts, v)
        BY <1>3, <1>9, <2>4, AppendWorks DEF ts
      <3>2. Owed(session.queue, v) /\ ~Owed(rest, v)
        BY <1>8, <2>3, <2>5
      <3>3. Course(v, waiters[v], rest, v, Nothing, ts, downlink, client)
        BY <2>1, <2>3, <3>1, <3>2, CourseTaken
      <3> QED BY <1>13, <1>15, <2>5, <3>3
    <2>6. CASE v # u
      <3>1. ~Worked(ts, v)
        BY <1>3, <1>9, <2>4, <2>6, AppendWorks DEF ts
      <3>2. Course(v, waiters[v], rest, u, Nothing, ts, downlink, client)
        BY <2>1, <2>3, <2>6, <3>1, CourseOthers
      <3> QED BY <1>13, <1>15, <3>2
    <2> QED BY <2>5, <2>6
  <1>18. InOrder(waiters, client, heard, downlink, engine', session')
    BY <1>14, <1>16, <1>17 DEF VoiceInv, InOrder
  <1>19. InOrder(waiters, client, heard, downlink', engine', session')
    BY <1>2, <1>18, NotesSent DEF NotesIn
  <1> QED BY <1>1, <1>19 DEF VoiceInv

\* A turn is answered, or there is nothing to say.
LEMMA AnswerKeeps ==
  ASSUME VoiceInv, Hear, Head(session.queue).kind = "turn"
  PROVE  VoiceInv'
  <1> DEFINE m == Head(session.queue)
             rest == Tail(session.queue)
  <1>1. session.queue # <<>> /\ session.saying = "none" /\ UNCHANGED <<client, waiters, heard>>
    BY DEF Hear
  <1>2. UNCHANGED downlink
    BY DEF Hear
  <1>3. EngineShaped(engine) /\ engine.gen \in Nat /\ engine.seq \in Nat /\ engine.tasks \in Seq(Tasks) /\ session.queue \in Seq(Ups)
        /\ Arriving(downlink, client, heard) /\ Coming(engine, downlink, client, heard) /\ Spoken(session) /\ Listens(client, heard)
        /\ SessionShaped(session)
    BY EngineNow, Shapes
  <1>4. CASE session' = [session EXCEPT !.queue = rest] /\ UNCHANGED engine
    <2> HIDE DEF rest
    <2>1. SessionShaped(session') /\ session'.saying = session.saying /\ session'.last = session.last /\ session'.queue = rest
      BY <1>3, <1>4 DEF SessionShaped, SessionFields
    <2>2. InOrder(waiters, client, heard, downlink, engine, session')
      BY <1>1, <2>1, TailLess DEF VoiceInv, rest
    <2> QED BY <1>1, <1>2, <1>4, <2>2 DEF VoiceInv
  <1>5. ASSUME NEW a \in Answers,
               engine' = [engine EXCEPT !.seq = engine.seq + 2,
                            !.tasks = engine.tasks \o <<Say(a, <<engine.seq + 1>>), Say(a, <<engine.seq + 2>>)>>, !.turn = "thinking"],
               session' = [queue |-> rest, saying |-> a, last |-> Nothing, said |-> session.said \cup {a}]
        PROVE  VoiceInv'
    <2> DEFINE l1 == <<engine.seq + 1>>
               l2 == <<engine.seq + 2>>
               s == Say(a, l1)
               t == Say(a, l2)
               n == engine.seq + 1
               k == engine.seq + 2
               said == session.said \cup {a}
    <2>1. n \in Nat /\ k \in Nat /\ engine.seq <= n /\ n <= k /\ l2 = <<n + 1>> /\ k = n + 1
      BY <1>3
    <2>2. /\ l1 \in Seq(Nat \ {0}) /\ l1 # <<>> /\ (\A p \in DOMAIN l1 : engine.seq < l1[p] /\ l1[p] <= n)
          /\ \A p, q \in DOMAIN l1 : p < q => l1[p] < l1[q]
      BY <1>3, OneNumber
    <2> HIDE DEF n, l2
    <2>3. /\ l2 \in Seq(Nat \ {0}) /\ l2 # <<>> /\ (\A p \in DOMAIN l2 : n < l2[p] /\ l2[p] <= n + 1)
          /\ \A p, q \in DOMAIN l2 : p < q => l2[p] < l2[q]
      BY <2>1, OneNumber
    <2>4. s = [utt |-> a, gen |-> engine.gen, left |-> l1] /\ t = [utt |-> a, gen |-> engine.gen, left |-> l2]
      BY DEF Say, l2
    <2> HIDE DEF l1, said, rest
    <2>5. a \in Utterances /\ a \notin Narrations
      BY UtterancesDiffer DEF Utterances
    <2>6. s \in Tasks /\ t \in Tasks /\ s.utt = a /\ t.utt = a
      BY <1>3, <2>2, <2>3, <2>4, <2>5 DEF Tasks
    <2>7. engine' = [engine EXCEPT !.seq = k, !.tasks = engine.tasks \o <<s, t>>, !.turn = "thinking"]
      BY <1>5 DEF l1, l2
    <2> HIDE DEF s, t, k
    <2> DEFINE ss == Append(engine.tasks, s)
               ts == Append(ss, t)
    <2>8. engine.tasks \o <<s, t>> = ts
      BY <1>3, <2>6, AddTwo
    <2>9. ss \in Seq(Tasks)
      BY <1>3, <2>6, AppendIs
    <2>10. engine' = [engine EXCEPT !.seq = k, !.tasks = ts, !.turn = "thinking"]
      BY <2>7, <2>8
    <2> HIDE DEF ss, ts
    <2>11. EngineShaped(engine') /\ engine'.gen = engine.gen /\ engine'.seq = k /\ engine'.tasks = ts
      BY <1>3, <2>10 DEF EngineShaped, EngineFields
    <2> DEFINE e == [engine EXCEPT !.seq = n, !.tasks = ss]
    <2>12. EngineShaped(e) /\ e.gen = engine.gen /\ e.seq = n /\ e.tasks = ss
      BY <1>3 DEF EngineShaped, EngineFields
    <2> HIDE DEF e
    <2>13. Coming(e, downlink, client, heard)
      BY <1>3, <2>1, <2>2, <2>4, <2>5, <2>12, ComingLine DEF ss
    <2>14. Coming(engine', downlink, client, heard)
      <3>1. t = [utt |-> a, gen |-> e.gen, left |-> l2] /\ engine'.gen = e.gen /\ engine'.seq \in Nat /\ engine'.seq >= e.seq
            /\ engine'.tasks = Append(e.tasks, t) /\ \A p \in DOMAIN l2 : e.seq < l2[p] /\ l2[p] <= engine'.seq
        BY <2>1, <2>3, <2>4, <2>11, <2>12 DEF ts
      <3> QED BY <1>3, <2>3, <2>5, <2>11, <2>13, <3>1, ComingLine
    <2>15. session' = [queue |-> rest, saying |-> a, last |-> Nothing, said |-> said]
      BY <1>5 DEF said
    <2>16. SessionShaped(session') /\ session'.queue = rest /\ session'.saying = a /\ session'.last = Nothing
      BY <2>15 DEF SessionShaped, SessionFields
    <2>17. /\ rest \in Seq(Ups)
           /\ \A i \in DOMAIN rest : i + 1 \in DOMAIN session.queue /\ rest[i] = session.queue[i + 1]
      BY <1>1, <1>3, TailIs DEF rest
    <2>18. Spoken(session')
      <3>1. \A i \in DOMAIN rest : rest[i].kind = "say" => rest[i].utt \in Narrations
        BY <1>3, <2>17 DEF Spoken
      <3> QED BY <2>5, <2>16, <2>17, <3>1 DEF Spoken, SessionShaped, Nothing
    <2>19. ASSUME NEW v \in Narrations
           PROVE  Course(v, waiters[v], session'.queue, session'.saying, session'.last, engine'.tasks, downlink, client)
      <3>1. Course(v, waiters[v], session.queue, "none", session.last, engine.tasks, downlink, client)
        BY <1>1 DEF VoiceInv, InOrder
      <3>2. Once(session.queue, v)
        BY <3>1 DEF Course
      <3>3. Once(rest, v) /\ (Owed(rest, v) => Owed(session.queue, v))
        BY <1>1, <1>3, <3>2, RestOwes DEF rest
      <3>4. ~Worked(engine.tasks, v) /\ v # a
        BY <2>5, <3>1, Untouched
      <3>5. ~Worked(ss, v)
        BY <1>3, <2>6, <3>4, AppendWorks DEF ss
      <3>6. ~Worked(ts, v)
        BY <2>6, <2>9, <3>4, <3>5, AppendWorks DEF ts
      <3>7. Course(v, waiters[v], rest, a, Nothing, ts, downlink, client)
        BY <3>1, <3>3, <3>4, <3>6, CourseOthers
      <3> QED BY <2>11, <2>16, <3>7
    <2>20. InOrder(waiters, client, heard, downlink, engine', session')
      BY <2>14, <2>18, <2>19 DEF VoiceInv, InOrder
    <2> QED BY <1>1, <1>2, <2>20 DEF VoiceInv
  <1>6. \/ session' = [session EXCEPT !.queue = rest] /\ UNCHANGED engine
        \/ \E a \in Answers :
             /\ engine' = [engine EXCEPT !.seq = engine.seq + 2,
                              !.tasks = engine.tasks \o <<Say(a, <<engine.seq + 1>>), Say(a, <<engine.seq + 2>>)>>, !.turn = "thinking"]
             /\ session' = [queue |-> rest, saying |-> a, last |-> Nothing, said |-> session.said \cup {a}]
    BY DEF Hear
  <1> QED BY <1>4, <1>5, <1>6
\* The actor takes up its next command.
LEMMA HearKeeps == VoiceInv /\ Hear => VoiceInv'
  <1>1. Hear => Head(session.queue).kind \in {"say", "turn"}
    BY DEF Hear
  <1> QED BY <1>1, SayKeeps, AnswerKeeps

\* The line of an utterance is over.
LEMMA EndUtteranceKeeps == VoiceInv /\ EndUtterance => VoiceInv'
  <1> SUFFICES ASSUME VoiceInv, EndUtterance PROVE VoiceInv'
    OBVIOUS
  <1> DEFINE u == session.saying
             m == [kind |-> "end", utt |-> u, seq |-> session.last]
             b == Append(downlink, m)
             n == Len(downlink) + 1
  <1>1. u # "none" /\ (\A i \in DOMAIN engine.tasks : engine.tasks[i].utt # u) /\ downlink' = b
        /\ session' = [session EXCEPT !.saying = "none"] /\ UNCHANGED <<client, waiters, engine, heard>>
    BY DEF EndUtterance
  <1>2. Spoken(session) /\ SessionShaped(session) /\ Arriving(downlink, client, heard) /\ Coming(engine, downlink, client, heard)
    BY EngineNow
  <1>3. m \in Downs /\ ~Chunk(m)
    BY <1>2 DEF Downs, DownKinds, Spoken, Chunk
  <1>4. /\ Arriving(b, client, heard) /\ \A k : After(k, client, heard, downlink) => After(k, client, heard, b)
        /\ b[n] = m /\ n \in DOMAIN b
        /\ \A k \in DOMAIN downlink : k \in DOMAIN b /\ b[k] = downlink[k] /\ k < n /\ k \in Nat
        /\ \A k \in DOMAIN b : k = n \/ k \in DOMAIN downlink
    BY <1>2, <1>3, ArrivingNote
  <1> HIDE DEF b, n
  <1>5. Coming(engine, b, client, heard)
    BY <1>2, <1>4, ComingAfter
  <1>6. SessionShaped(session') /\ session'.queue = session.queue /\ session'.saying = "none" /\ session'.last = session.last
    BY <1>1, <1>2 DEF SessionShaped, SessionFields
  <1>7. Spoken(session')
    BY <1>2, <1>6 DEF Spoken, SessionShaped
  <1>8. ASSUME NEW v \in Narrations PROVE Course(v, waiters[v], session.queue, "none", session.last, engine.tasks, b, client)
    <2>1. Course(v, waiters[v], session.queue, u, session.last, engine.tasks, downlink, client)
      BY DEF VoiceInv, InOrder
    <2>2. v # "none"
      BY UtterancesDiffer
    <2>3. ~Worked(engine.tasks, v)
      <3>1. CASE v = u
        BY <1>1, <3>1 DEF Worked
      <3>2. CASE v # u
        BY <2>1, <3>2 DEF Course
      <3> QED BY <3>1, <3>2
    <2>4. Course(v, waiters[v], session.queue, "none", session.last, engine.tasks, downlink, client)
      <3> HIDE DEF Within, UnderWithin, OneEnd, Once, OneTask, Under, Closing, Worked, Owed, Brings, Ends, u
      <3> QED BY <2>1, <2>2, <2>3 DEF Course
    <2>5. CASE v # u
      <3>1. \A k \in DOMAIN b : Brings(b[k], v) \/ Ends(b[k], v) => k \in DOMAIN downlink
        BY <1>3, <1>4, <2>5 DEF Brings, Ends, Chunk
      <3> QED BY <1>4, <2>4, <3>1, CourseNote
    <2>6. CASE v = u
      <3>1. ~Closing(downlink, v) /\ ~waiters[v].ended /\ waiters[v].at # "idle" /\ ~Owed(session.queue, v)
            /\ (session.last # Nothing => Within(client, v, session.last) /\ UnderWithin(downlink, v, session.last))
        <4> HIDE DEF Within, UnderWithin, OneEnd, Once, OneTask, Under, Closing, Worked, Owed, Brings, Ends, u
        <4> QED BY <2>1, <2>6 DEF Course
      <3>2. \A k \in DOMAIN b : Ends(b[k], v) => k = n
        BY <1>4, <3>1 DEF Closing
      <3>3. \A k \in DOMAIN b : Brings(b[k], v) => k \in DOMAIN downlink /\ b[k] = downlink[k] /\ k < n
        BY <1>3, <1>4 DEF Brings
      <3>4. OneEnd(b, v)
        BY <3>2 DEF OneEnd
      <3>5. session.last # Nothing => UnderWithin(b, v, session.last)
        BY <3>1, <3>3 DEF UnderWithin
      <3>6. b[n].seq = session.last
        BY <1>4
      <3>7. Once(session.queue, v) /\ OneTask(engine.tasks, v) /\ (waiters[v].at = "completed" => waiters[v].ended)
        BY <2>1 DEF Course
      <3> HIDE DEF Within, UnderWithin, OneEnd, Once, OneTask, Under, Closing, Worked, Owed, Brings, Ends, m, u
      <3> QED BY <2>2, <2>3, <3>1, <3>2, <3>3, <3>4, <3>5, <3>6, <3>7 DEF Course
    <2> QED BY <2>5, <2>6
  <1>9. InOrder(waiters, client, heard, b, engine, session')
    BY <1>4, <1>5, <1>6, <1>7, <1>8 DEF VoiceInv, InOrder
  <1> QED BY <1>1, <1>9 DEF VoiceInv

\* A step asks for its narration.
LEMMA AskKeeps ==
  ASSUME VoiceInv, NEW u \in Narrations, AskNarration(u)
  PROVE  VoiceInv'
  <1> DEFINE m == [kind |-> "say", utt |-> u, seq |-> 0]
             q == session.queue
             b == Append(q, m)
             n == Len(q) + 1
  <1>1. /\ waiters[u].at = "idle" /\ waiters' = [waiters EXCEPT ![u].at = "waiting"]
        /\ session' = [session EXCEPT !.queue = b] /\ UNCHANGED <<client, engine, downlink, heard>>
    BY DEF AskNarration
  <1>2. Spoken(session) /\ SessionShaped(session) /\ q \in Seq(Ups) /\ waiters \in [Narrations -> Waiter]
    BY EngineNow
  <1>3. m \in Ups /\ Asks(m, u) /\ \A v : v # u => ~Asks(m, v)
    BY DEF Ups, UpKinds, Utterances, Asks
  <1>4. /\ b \in Seq(Ups) /\ b[n] = m /\ n \in DOMAIN b
        /\ \A k \in DOMAIN q : k \in DOMAIN b /\ b[k] = q[k]
        /\ \A k \in DOMAIN b : k = n \/ k \in DOMAIN q
    BY <1>2, <1>3, AppendIs
  <1>5. m.utt \in Narrations
    OBVIOUS
  <1> HIDE DEF b, n, m
  <1>6. SessionShaped(session') /\ session'.queue = b /\ session'.saying = session.saying /\ session'.last = session.last
    BY <1>1, <1>2 DEF SessionShaped, SessionFields
  <1>7. Spoken(session')
    <2>1. \A k \in DOMAIN b : b[k].kind = "say" => b[k].utt \in Narrations
      BY <1>2, <1>4, <1>5 DEF Spoken
    <2> QED BY <1>2, <1>4, <1>6, <2>1 DEF Spoken, SessionShaped
  <1>8. /\ waiters' \in [Narrations -> Waiter] /\ waiters'[u].at = "waiting" /\ waiters'[u].ended = waiters[u].ended
        /\ \A v \in Narrations : v # u => waiters'[v] = waiters[v]
    <2>1. waiters[u] \in Waiter
      BY <1>2
    <2>2. waiters'[u] = [waiters[u] EXCEPT !.at = "waiting"] /\ \A v \in Narrations : v # u => waiters'[v] = waiters[v]
      BY <1>1, <1>2
    <2>3. waiters' \in [Narrations -> Waiter]
      BY <1>1, <1>2, <2>1 DEF Waiter
    <2> QED BY <2>1, <2>2, <2>3 DEF Waiter
  <1>9. ASSUME NEW v \in Narrations PROVE Course(v, waiters'[v], b, session.saying, session.last, engine.tasks, downlink, client)
    <2>1. Course(v, waiters[v], q, session.saying, session.last, engine.tasks, downlink, client)
      BY DEF VoiceInv, InOrder
    <2>2. CASE v # u
      <3>1. Once(b, v) /\ (Owed(b, v) => Owed(q, v))
        BY <1>3, <1>4, <2>1, <2>2 DEF Course, Once, Owed
      <3>2. Waits(v, waiters[v], waiters'[v], client)
        BY <1>8, <2>2 DEF Waits
      <3> QED BY <2>1, <3>1, <3>2, CourseMoves
    <2>3. CASE v = u
      <3>1. ~Owed(q, v) /\ session.saying # v /\ ~Worked(engine.tasks, v) /\ ~waiters[v].ended /\ ~Under(downlink, v)
            /\ (\A k \in DOMAIN downlink : ~Ends(downlink[k], v))
        <4> HIDE DEF Within, UnderWithin, OneEnd, Once, OneTask, Under, Closing, Worked, Owed, Brings, Ends
        <4> QED BY <1>1, <2>1, <2>3 DEF Course
      <3>2. ~Closing(downlink, v)
        BY <3>1 DEF Closing
      <3>3. Once(b, v)
        BY <1>4, <3>1 DEF Once, Owed
      <3>4. OneTask(engine.tasks, v) /\ OneEnd(downlink, v)
        BY <2>1 DEF Course
      <3> HIDE DEF Within, UnderWithin, OneEnd, Once, OneTask, Under, Closing, Worked, Owed, Brings, Ends
      <3> QED BY <1>8, <2>3, <3>1, <3>2, <3>3, <3>4 DEF Course
    <2> QED BY <2>2, <2>3
  <1>10. InOrder(waiters', client, heard, downlink, engine, session')
    BY <1>6, <1>7, <1>8, <1>9 DEF VoiceInv, InOrder
  <1> QED BY <1>1, <1>10 DEF VoiceInv

\* One line less.
LEMMA ComingWithout ==
  ASSUME NEW e, NEW d, NEW c, NEW h, Coming(e, d, c, h), NEW i \in DOMAIN e.tasks,
         NEW f, EngineShaped(f), f.gen = e.gen, f.seq = e.seq, f.tasks = Without(e.tasks, i)
  PROVE  Coming(f, d, c, h)
  <1> DEFINE ts == f.tasks
             st(k) == Step(i, k)
  <1>1. e.tasks \in Seq(Tasks) /\ e.gen \in Nat /\ e.seq \in Nat /\ After(e.seq + 1, c, h, d)
    BY DEF Coming
  <1>2. /\ ts \in Seq(Tasks)
        /\ \A k \in DOMAIN ts : k \in Nat /\ st(k) \in DOMAIN e.tasks \ {i} /\ ts[k] = e.tasks[st(k)]
    BY <1>1, WithoutIs
  <1>3. i \in Nat
    BY <1>1
  <1>4. \A j, k \in DOMAIN ts : j < k => st(j) < st(k)
    BY <1>2, <1>3 DEF Step
  <1> HIDE DEF st, ts, After
  <1>5. ASSUME NEW k \in DOMAIN ts
        PROVE  /\ ts[k].left # <<>> /\ ts[k].gen <= f.gen
               /\ ts[k].gen = f.gen =>
                    \A p \in DOMAIN ts[k].left :
                      /\ ts[k].left[p] <= f.seq /\ After(ts[k].left[p], c, h, d)
                      /\ \A q \in DOMAIN ts[k].left : p < q => ts[k].left[p] < ts[k].left[q]
                      /\ \A j \in DOMAIN ts : k < j /\ ts[j].gen = f.gen =>
                           \A q \in DOMAIN ts[j].left : ts[k].left[p] < ts[j].left[q]
    <2>1. /\ e.tasks[st(k)].left # <<>> /\ e.tasks[st(k)].gen <= e.gen
          /\ e.tasks[st(k)].gen = e.gen =>
               \A p \in DOMAIN e.tasks[st(k)].left :
                 /\ e.tasks[st(k)].left[p] <= e.seq /\ After(e.tasks[st(k)].left[p], c, h, d)
                 /\ \A q \in DOMAIN e.tasks[st(k)].left : p < q => e.tasks[st(k)].left[p] < e.tasks[st(k)].left[q]
                 /\ \A j \in DOMAIN e.tasks : st(k) < j /\ e.tasks[j].gen = e.gen =>
                      \A q \in DOMAIN e.tasks[j].left : e.tasks[st(k)].left[p] < e.tasks[j].left[q]
      BY <1>2 DEF Coming
    <2> QED BY <1>2, <1>4, <2>1
  <1> QED BY <1>1, <1>2, <1>5 DEF Coming, EngineShaped, ts
\* The utterance of the only line that is taken away has none.
LEMMA WithoutWorks ==
  ASSUME NEW ts \in Seq(Tasks), NEW i \in DOMAIN ts, NEW u, OneTask(ts, u)
  PROVE  /\ OneTask(Without(ts, i), u) /\ (Worked(Without(ts, i), u) => Worked(ts, u))
         /\ ts[i].utt = u => ~Worked(Without(ts, i), u)
  <1> DEFINE rs == Without(ts, i)
  <1>1. \A k \in DOMAIN rs : k \in Nat /\ Step(i, k) \in DOMAIN ts \ {i} /\ rs[k] = ts[Step(i, k)]
    BY WithoutIs
  <1>2. i \in Nat
    OBVIOUS
  <1> HIDE DEF rs
  <1>3. \A j, k \in DOMAIN rs : Step(i, j) = Step(i, k) => j = k
    BY <1>1, <1>2 DEF Step
  <1>4. OneTask(rs, u)
    BY <1>1, <1>3 DEF OneTask
  <1>5. Worked(rs, u) => Worked(ts, u)
    BY <1>1 DEF Worked
  <1>6. ASSUME ts[i].utt = u, NEW k \in DOMAIN rs, rs[k].utt = u PROVE FALSE
    <2>1. Step(i, k) \in DOMAIN ts \ {i} /\ ts[Step(i, k)].utt = u
      BY <1>1, <1>6
    <2> QED BY <1>6, <2>1 DEF OneTask
  <1> QED BY <1>4, <1>5, <1>6 DEF rs, Worked

\* An abandoned line is taken away, or its synthesis fails.
LEMMA LineLost ==
  ASSUME VoiceInv, NEW i \in DOMAIN engine.tasks, engine' = [engine EXCEPT !.tasks = Without(engine.tasks, i)],
         \/ UNCHANGED <<downlink, session>>
         \/ /\ downlink' = Append(downlink, Msg("error"))
            /\ session' = IF session.saying = engine.tasks[i].utt THEN [session EXCEPT !.saying = "none"] ELSE session,
         UNCHANGED <<client, waiters, heard>>
  PROVE  VoiceInv'
  <1> DEFINE ts == engine.tasks
             rs == Without(ts, i)
  <1>1. Spoken(session) /\ SessionShaped(session) /\ EngineShaped(engine) /\ ts \in Seq(Tasks) /\ Coming(engine, downlink, client, heard)
    BY EngineNow
  <1> HIDE DEF rs
  <1>2. EngineShaped(engine') /\ engine'.gen = engine.gen /\ engine'.seq = engine.seq /\ engine'.tasks = rs
    <2>1. engine' = [engine EXCEPT !.tasks = rs]
      BY DEF rs
    <2> QED BY <1>1, <2>1 DEF EngineShaped, EngineFields
  <1>3. Coming(engine', downlink, client, heard)
    BY <1>1, <1>2, ComingWithout DEF rs
  <1>4. SessionShaped(session') /\ session'.queue = session.queue /\ session'.last = session.last
        /\ (session'.saying = session.saying \/ (session.saying = ts[i].utt /\ session'.saying = "none"))
    BY <1>1 DEF SessionShaped, SessionFields
  <1>5. Spoken(session')
    BY <1>1, <1>4 DEF Spoken, SessionShaped
  <1>6. ASSUME NEW v \in Narrations
        PROVE  Course(v, waiters[v], session'.queue, session'.saying, session'.last, rs, downlink, client)
    <2>1. Course(v, waiters[v], session.queue, session.saying, session.last, ts, downlink, client) /\ v # "none"
      BY UtterancesDiffer DEF VoiceInv, InOrder
    <2>2. OneTask(ts, v)
      BY <2>1 DEF Course
    <2>3. OneTask(rs, v) /\ (Worked(rs, v) => Worked(ts, v)) /\ (ts[i].utt = v => ~Worked(rs, v))
      BY <1>1, <2>2, WithoutWorks DEF rs
    <2> HIDE DEF Within, UnderWithin, OneEnd, Once, OneTask, Under, Closing, Worked, Owed, Brings, Ends, ts
    <2> QED BY <1>4, <2>1, <2>3 DEF Course
  <1>7. InOrder(waiters, client, heard, downlink, engine', session')
    BY <1>2, <1>3, <1>5, <1>6 DEF VoiceInv, InOrder
  <1>8. InOrder(waiters, client, heard, downlink', engine', session')
    <2>1. downlink' \in NotesIn(downlink)
      BY DEF NotesIn
    <2> QED BY <1>7, <2>1, NotesSent
  <1> QED BY <1>8 DEF VoiceInv

\* The line whose turn it is has the lowest number to come.
LEMMA FirstNumber ==
  ASSUME NEW e, NEW d, NEW c, NEW h, Coming(e, d, c, h), NEW i \in DOMAIN e.tasks, e.tasks[i].gen = e.gen,
         \A j \in 1 .. i - 1 : e.tasks[j].gen # e.tasks[i].gen, NEW n, n = Head(e.tasks[i].left)
  PROVE  /\ e.tasks[i] \in Tasks /\ e.tasks[i].left \in Seq(Nat \ {0}) /\ e.tasks[i].left # <<>>
         /\ n \in Nat \ {0} /\ n <= e.seq /\ After(n, c, h, d)
         /\ \A q \in DOMAIN e.tasks[i].left : q # 1 => n < e.tasks[i].left[q]
         /\ \A j \in DOMAIN e.tasks : j # i /\ e.tasks[j].gen = e.gen => \A q \in DOMAIN e.tasks[j].left : n < e.tasks[j].left[q]
  <1> DEFINE l == e.tasks[i].left
  <1>1. e.tasks \in Seq(Tasks) /\ i \in Nat /\ e.seq \in Nat
    BY DEF Coming
  <1>2. e.tasks[i] \in Tasks
    BY <1>1
  <1>3. l \in Seq(Nat \ {0}) /\ l # <<>>
    BY <1>2 DEF Tasks, Coming
  <1>4. n = l[1] /\ 1 \in DOMAIN l /\ n \in Nat \ {0}
    BY <1>3, TailIs
  <1>5. /\ l[1] <= e.seq /\ After(l[1], c, h, d)
        /\ \A q \in DOMAIN l : 1 < q => l[1] < l[q]
        /\ \A j \in DOMAIN e.tasks : i < j /\ e.tasks[j].gen = e.gen => \A q \in DOMAIN e.tasks[j].left : l[1] < e.tasks[j].left[q]
    BY <1>4 DEF Coming
  <1>6. \A q \in DOMAIN l : q # 1 => 1 < q
    BY <1>3
  <1>7. \A j \in DOMAIN e.tasks : j # i /\ e.tasks[j].gen = e.gen => i < j
    <2>1. \A j \in DOMAIN e.tasks : j \in 1 .. i - 1 \/ i <= j
      BY <1>1
    <2> QED BY <1>1, <2>1
  <1> HIDE DEF After
  <1> QED BY <1>2, <1>3, <1>4, <1>5, <1>6, <1>7
\* Its first number is taken.
LEMMA ComingHeadTaken ==
  ASSUME NEW e, NEW d, NEW c, NEW h, Coming(e, d, c, h), NEW i \in DOMAIN e.tasks, Len(e.tasks[i].left) # 1,
         NEW f, EngineShaped(f), f.gen = e.gen, f.seq = e.seq, f.tasks = [e.tasks EXCEPT ![i].left = Tail(e.tasks[i].left)]
  PROVE  Coming(f, d, c, h)
  <1> DEFINE ts == f.tasks
             l == Tail(e.tasks[i].left)
  <1>1. e.tasks \in Seq(Tasks) /\ e.gen \in Nat /\ e.seq \in Nat /\ After(e.seq + 1, c, h, d) /\ i \in Nat
    BY DEF Coming
  <1>2. e.tasks[i] \in Tasks
    BY <1>1
  <1>3. e.tasks[i].left \in Seq(Nat \ {0}) /\ e.tasks[i].left # <<>>
    BY <1>2 DEF Tasks, Coming
  <1>4. l \in Seq(Nat \ {0}) /\ \A k \in DOMAIN l : k + 1 \in DOMAIN e.tasks[i].left /\ k \in Nat /\ k >= 1 /\ l[k] = e.tasks[i].left[k + 1]
    BY <1>3, TailIs
  <1>5. l # <<>>
    <2> DEFINE m == e.tasks[i].left
    <2>1. Len(l) = Len(m) - 1 /\ Len(m) \in Nat
      BY <1>3, HeadTailProperties, LenProperties
    <2>2. Len(m) # 0
      BY <1>3, EmptySeq
    <2>3. Len(l) # 0
      BY <2>1, <2>2
    <2>4. Len(<<>>) = 0
      OBVIOUS
    <2> HIDE DEF l
    <2> QED BY <2>3, <2>4
  <1> HIDE DEF l
  <1>6. f.tasks = [e.tasks EXCEPT ![i].left = l]
    BY DEF l
  <1> HIDE DEF ts
  <1>7. /\ ts \in Seq(Tasks) /\ DOMAIN ts = DOMAIN e.tasks /\ ts[i].left = l /\ ts[i].gen = e.tasks[i].gen
        /\ \A k \in DOMAIN ts : k # i => ts[k] = e.tasks[k]
    <2>1. DOMAIN ts = DOMAIN e.tasks /\ ts[i] = [e.tasks[i] EXCEPT !.left = l] /\ \A k \in DOMAIN ts : k # i => ts[k] = e.tasks[k]
      BY <1>1, <1>6 DEF ts
    <2>2. ts[i] \in Tasks /\ ts[i].left = l /\ ts[i].gen = e.tasks[i].gen
      BY <1>2, <1>4, <2>1 DEF Tasks
    <2>3. ts = [e.tasks EXCEPT ![i] = ts[i]]
      BY <1>1, <1>6, <2>1 DEF ts
    <2>4. ts \in Seq(Tasks)
      BY <1>1, <2>2, <2>3
    <2> QED BY <2>1, <2>2, <2>4
  <1>8. \A k \in DOMAIN ts : ts[k].gen = e.tasks[k].gen
    BY <1>7
  \* where a number was
  <1> DEFINE at(k, p) == IF k = i THEN p + 1 ELSE p
  <1>9. \A k \in DOMAIN ts : \A p \in DOMAIN ts[k].left : at(k, p) \in DOMAIN e.tasks[k].left /\ ts[k].left[p] = e.tasks[k].left[at(k, p)]
    BY <1>4, <1>7
  <1>10. \A k \in DOMAIN ts : \A p, q \in DOMAIN ts[k].left : p < q => at(k, p) < at(k, q)
    BY <1>4, <1>7
  <1> HIDE DEF at, After
  <1>11. ASSUME NEW k \in DOMAIN ts
         PROVE  /\ ts[k].left # <<>> /\ ts[k].gen <= f.gen
                /\ ts[k].gen = f.gen =>
                     \A p \in DOMAIN ts[k].left :
                       /\ ts[k].left[p] <= f.seq /\ After(ts[k].left[p], c, h, d)
                       /\ \A q \in DOMAIN ts[k].left : p < q => ts[k].left[p] < ts[k].left[q]
                       /\ \A j \in DOMAIN ts : k < j /\ ts[j].gen = f.gen =>
                            \A q \in DOMAIN ts[j].left : ts[k].left[p] < ts[j].left[q]
    <2>1. /\ e.tasks[k].left # <<>> /\ e.tasks[k].gen <= e.gen
          /\ e.tasks[k].gen = e.gen =>
               \A p \in DOMAIN e.tasks[k].left :
                 /\ e.tasks[k].left[p] <= e.seq /\ After(e.tasks[k].left[p], c, h, d)
                 /\ \A q \in DOMAIN e.tasks[k].left : p < q => e.tasks[k].left[p] < e.tasks[k].left[q]
                 /\ \A j \in DOMAIN e.tasks : k < j /\ e.tasks[j].gen = e.gen =>
                      \A q \in DOMAIN e.tasks[j].left : e.tasks[k].left[p] < e.tasks[j].left[q]
      BY <1>7 DEF Coming
    <2>2. ts[k].left # <<>>
      BY <1>5, <1>7, <2>1
    <2>3. ASSUME ts[k].gen = f.gen, NEW p \in DOMAIN ts[k].left
          PROVE  /\ ts[k].left[p] <= f.seq /\ After(ts[k].left[p], c, h, d)
                 /\ \A q \in DOMAIN ts[k].left : p < q => ts[k].left[p] < ts[k].left[q]
                 /\ \A j \in DOMAIN ts : k < j /\ ts[j].gen = f.gen =>
                      \A q \in DOMAIN ts[j].left : ts[k].left[p] < ts[j].left[q]
      <3>1. e.tasks[k].gen = e.gen /\ at(k, p) \in DOMAIN e.tasks[k].left /\ ts[k].left[p] = e.tasks[k].left[at(k, p)]
        BY <1>8, <1>9, <2>3
      <3>2. ts[k].left[p] <= f.seq /\ After(ts[k].left[p], c, h, d)
        BY <2>1, <3>1
      <3>3. ASSUME NEW q \in DOMAIN ts[k].left, p < q PROVE ts[k].left[p] < ts[k].left[q]
        BY <1>9, <1>10, <2>1, <3>1, <3>3
      <3>4. ASSUME NEW j \in DOMAIN ts, k < j, ts[j].gen = f.gen, NEW q \in DOMAIN ts[j].left PROVE ts[k].left[p] < ts[j].left[q]
        <4>1. j \in DOMAIN e.tasks /\ e.tasks[j].gen = e.gen /\ at(j, q) \in DOMAIN e.tasks[j].left /\ ts[j].left[q] = e.tasks[j].left[at(j, q)]
          BY <1>7, <1>8, <1>9, <3>4
        <4> QED BY <2>1, <3>1, <3>4, <4>1
      <3> QED BY <3>2, <3>3, <3>4
    <2> QED BY <1>8, <2>1, <2>2, <2>3
  <1> QED BY <1>1, <1>7, <1>11 DEF Coming, EngineShaped, ts
\* A chunk below every number to come is sent.
LEMMA ComingChunk ==
  ASSUME NEW e, NEW d, NEW c, NEW h, Coming(e, d, c, h), NEW b,
         NEW n \in Nat, n <= e.seq,
         \A k \in DOMAIN b : Chunk(b[k]) => b[k].seq = n \/ (k \in DOMAIN d /\ b[k] = d[k]),
         \A i \in DOMAIN e.tasks : e.tasks[i].gen = e.gen => \A p \in DOMAIN e.tasks[i].left : n < e.tasks[i].left[p]
  PROVE  Coming(e, b, c, h)
  <1>1. ASSUME NEW m, n < m, After(m, c, h, d) PROVE After(m, c, h, b)
    BY <1>1 DEF After
  <1>2. e.seq \in Nat /\ n < e.seq + 1
    BY DEF Coming
  <1> HIDE DEF After
  <1> QED BY <1>1, <1>2 DEF Coming
\* It arrives after what is on its way.
LEMMA ArrivingChunk ==
  ASSUME NEW d, NEW c, NEW h, Arriving(d, c, h), NEW m \in Downs, Chunk(m), m.utt \in Utterances, After(m.seq, c, h, d)
  PROVE  /\ Arriving(Append(d, m), c, h)
         /\ Append(d, m)[Len(d) + 1] = m /\ Len(d) + 1 \in DOMAIN Append(d, m)
         /\ \A k \in DOMAIN d : k \in DOMAIN Append(d, m) /\ Append(d, m)[k] = d[k] /\ k < Len(d) + 1
         /\ \A k \in DOMAIN Append(d, m) : k = Len(d) + 1 \/ k \in DOMAIN d
  <1> DEFINE b == Append(d, m)
             n == Len(d) + 1
  <1>1. d \in Seq(Downs)
    BY DEF Arriving
  <1>2. /\ b \in Seq(Downs) /\ b[n] = m /\ n \in DOMAIN b
        /\ \A k \in DOMAIN d : k \in DOMAIN b /\ b[k] = d[k] /\ k < n
        /\ \A k \in DOMAIN b : k = n \/ k \in DOMAIN d
    BY <1>1, AppendIs
  <1>3. n \in Nat /\ \A k \in DOMAIN b : k \in Nat
    BY <1>1
  <1> HIDE DEF b, n
  <1>4. ASSUME NEW k \in DOMAIN b, Chunk(b[k]) PROVE b[k].utt \in Utterances /\ Later(b[k].seq, c, h)
    BY <1>2, <1>4 DEF Arriving, After
  <1>5. ASSUME NEW j \in DOMAIN b, NEW k \in DOMAIN b, j < k, Chunk(b[j]), Chunk(b[k]) PROVE b[j].seq < b[k].seq
    <2>1. j \in DOMAIN d
      BY <1>2, <1>3, <1>5
    <2>2. CASE k = n
      BY <1>2, <1>5, <2>1, <2>2 DEF After
    <2>3. CASE k \in DOMAIN d
      BY <1>2, <1>5, <2>1, <2>3 DEF Arriving
    <2> QED BY <1>2, <2>2, <2>3
  <1> HIDE DEF Later
  <1> QED BY <1>2, <1>4, <1>5 DEF Arriving, b, n

\* The lines left, once this one has given a number.
Shortened(ts, i) == IF Len(ts[i].left) = 1 THEN Without(ts, i) ELSE [ts EXCEPT ![i].left = Tail(ts[i].left)]
\* What is left to come is later than that number.
LEMMA ShortenedRuns ==
  ASSUME NEW e, NEW d, NEW c, NEW h, Coming(e, d, c, h), NEW i \in DOMAIN e.tasks, e.tasks[i].gen = e.gen,
         \A j \in 1 .. i - 1 : e.tasks[j].gen # e.tasks[i].gen,
         NEW f, EngineShaped(f), f.gen = e.gen, f.seq = e.seq, f.tasks = Shortened(e.tasks, i)
  PROVE  /\ Coming(f, d, c, h)
         /\ \A k \in DOMAIN f.tasks : f.tasks[k].gen = e.gen => \A p \in DOMAIN f.tasks[k].left : Head(e.tasks[i].left) < f.tasks[k].left[p]
  <1> DEFINE ts == e.tasks
             rs == f.tasks
             l == ts[i].left
             n == Head(l)
  <1>1. ts \in Seq(Tasks)
    BY DEF Coming
  <1>2. /\ ts[i] \in Tasks /\ l \in Seq(Nat \ {0}) /\ l # <<>>
        /\ \A q \in DOMAIN l : q # 1 => n < l[q]
        /\ \A j \in DOMAIN ts : j # i /\ ts[j].gen = e.gen => \A q \in DOMAIN ts[j].left : n < ts[j].left[q]
    BY FirstNumber
  <1>3. CASE Len(l) = 1
    <2>1. rs = Without(ts, i)
      BY <1>3 DEF Shortened
    <2>2. Coming(f, d, c, h)
      BY <2>1, ComingWithout
    <2>3. \A k \in DOMAIN rs : Step(i, k) \in DOMAIN ts \ {i} /\ rs[k] = ts[Step(i, k)]
      BY <1>1, <2>1, WithoutIs
    <2> HIDE DEF ts, rs, n
    <2>4. \A k \in DOMAIN rs : rs[k].gen = e.gen => \A p \in DOMAIN rs[k].left : n < rs[k].left[p]
      BY <1>2, <2>3
    <2> QED BY <2>2, <2>4 DEF ts, rs, n
  <1>4. CASE Len(l) # 1
    <2>1. rs = [ts EXCEPT ![i].left = Tail(l)]
      BY <1>4 DEF Shortened
    <2>2. Coming(f, d, c, h)
      BY <1>4, <2>1, ComingHeadTaken
    <2> DEFINE r == Tail(l)
    <2>3. \A p \in DOMAIN r : p + 1 \in DOMAIN l /\ p \in Nat /\ p >= 1 /\ r[p] = l[p + 1]
      BY <1>2, TailIs
    <2> HIDE DEF r, n
    <2>4. \A p \in DOMAIN r : n < r[p]
      <3>1. \A p \in DOMAIN r : p + 1 # 1
        BY <2>3
      <3> QED BY <1>2, <2>3, <3>1
    <2>5. rs[i].left = r /\ DOMAIN rs = DOMAIN ts /\ \A k \in DOMAIN rs : k # i => rs[k] = ts[k]
      <3>1. rs[i] = [ts[i] EXCEPT !.left = r] /\ DOMAIN rs = DOMAIN ts /\ \A k \in DOMAIN rs : k # i => rs[k] = ts[k]
        BY <2>1 DEF r
      <3>2. rs[i].left = r
        BY <1>2, <3>1 DEF Tasks
      <3> QED BY <3>1, <3>2
    <2> HIDE DEF ts, rs
    <2>6. \A k \in DOMAIN rs : rs[k].gen = e.gen => \A p \in DOMAIN rs[k].left : n < rs[k].left[p]
      BY <1>2, <2>4, <2>5
    <2> QED BY <2>2, <2>6 DEF ts, rs, n
  <1> QED BY <1>3, <1>4
\* An utterance has one line at most, and none after the last number.
LEMMA ShortenedWorks ==
  ASSUME NEW ts \in Seq(Tasks), NEW i \in DOMAIN ts, NEW u, OneTask(ts, u)
  PROVE  LET rs == Shortened(ts, i)
         IN OneTask(rs, u) /\ (Worked(rs, u) => Worked(ts, u)) /\ (Len(ts[i].left) = 1 /\ ts[i].utt = u => ~Worked(rs, u))
  <1> DEFINE rs == Shortened(ts, i)
  <1>1. CASE Len(ts[i].left) = 1
    BY <1>1, WithoutWorks DEF Shortened
  <1>2. CASE Len(ts[i].left) # 1
    <2>1. DOMAIN rs = DOMAIN ts /\ rs[i] = [ts[i] EXCEPT !.left = Tail(ts[i].left)] /\ \A k \in DOMAIN rs : k # i => rs[k] = ts[k]
      BY <1>2 DEF Shortened
    <2>2. rs[i].utt = ts[i].utt
      <3>1. ts[i] \in Tasks
        OBVIOUS
      <3> QED BY <2>1, <3>1 DEF Tasks
    <2>3. \A k \in DOMAIN rs : rs[k].utt = ts[k].utt
      BY <2>1, <2>2
    <2> HIDE DEF rs
    <2>4. OneTask(rs, u) /\ (Worked(rs, u) => Worked(ts, u))
      BY <2>1, <2>3 DEF OneTask, Worked
    <2> QED BY <1>2, <2>4 DEF rs
  <1> QED BY <1>1, <1>2

\* A line gives its next number to the browser.
Speaks(i, t, n, rs) ==
  /\ t = engine.tasks[i] /\ n = Head(t.left) /\ rs = Shortened(engine.tasks, i)
  /\ \E out : engine' = [engine EXCEPT !.out = out, !.turn = "speaking", !.tasks = rs]
  /\ downlink' = Append(downlink, [kind |-> "chunk", utt |-> t.utt, seq |-> n])
  /\ session' = IF Len(t.left) = 1 /\ session.saying = t.utt THEN [session EXCEPT !.last = n] ELSE session
\* So the chunk is in order, and the last one of a narration bounds it.
LEMMA LineSpeaks ==
  ASSUME VoiceInv, NEW i \in DOMAIN engine.tasks, engine.tasks[i].gen = engine.gen, MayRun(i),
         NEW t, NEW n, NEW rs, Speaks(i, t, n, rs), UNCHANGED <<client, waiters, heard>>
  PROVE  VoiceInv'
  <1> DEFINE ts == engine.tasks
             m == [kind |-> "chunk", utt |-> t.utt, seq |-> n]
             b == Append(downlink, m)
             e == Len(downlink) + 1
  <1>1. Spoken(session) /\ SessionShaped(session) /\ EngineShaped(engine) /\ ts \in Seq(Tasks) /\ Coming(engine, downlink, client, heard)
        /\ Arriving(downlink, client, heard)
    BY EngineNow
  <1>2. /\ t \in Tasks /\ t.left \in Seq(Nat \ {0}) /\ t.left # <<>>
        /\ n \in Nat \ {0} /\ n <= engine.seq /\ After(n, client, heard, downlink)
        /\ \A q \in DOMAIN t.left : q # 1 => n < t.left[q]
        /\ \A j \in DOMAIN ts : j # i /\ ts[j].gen = engine.gen => \A q \in DOMAIN ts[j].left : n < ts[j].left[q]
    BY <1>1, FirstNumber DEF MayRun, Speaks
  <1>3. m \in Downs /\ Chunk(m) /\ m.utt = t.utt /\ m.seq = n /\ t.utt \in Utterances
    BY <1>2 DEF Downs, DownKinds, Chunk, Tasks
  <1>4. /\ Arriving(b, client, heard) /\ b[e] = m /\ e \in DOMAIN b
        /\ \A k \in DOMAIN downlink : k \in DOMAIN b /\ b[k] = downlink[k] /\ k < e
        /\ \A k \in DOMAIN b : k = e \/ k \in DOMAIN downlink
    BY <1>1, <1>2, <1>3, ArrivingChunk
  <1> HIDE DEF b, e, m
  <1>5. EngineShaped(engine') /\ engine'.gen = engine.gen /\ engine'.seq = engine.seq /\ engine'.tasks = rs
    <2>1. PICK out : engine' = [engine EXCEPT !.out = out, !.turn = "speaking", !.tasks = rs]
      BY DEF Speaks
    <2> QED BY <1>1, <2>1 DEF EngineShaped, EngineFields
  <1>6. /\ Coming(engine', downlink, client, heard)
        /\ \A k \in DOMAIN rs : rs[k].gen = engine.gen => \A p \in DOMAIN rs[k].left : n < rs[k].left[p]
    <2>1. /\ engine'.tasks = Shortened(engine.tasks, i) /\ n = Head(engine.tasks[i].left)
          /\ \A j \in 1 .. i - 1 : engine.tasks[j].gen # engine.tasks[i].gen
      BY <1>5 DEF MayRun, Speaks
    <2>2. /\ Coming(engine', downlink, client, heard)
          /\ \A k \in DOMAIN engine'.tasks : engine'.tasks[k].gen = engine.gen =>
               \A p \in DOMAIN engine'.tasks[k].left : Head(engine.tasks[i].left) < engine'.tasks[k].left[p]
      BY <1>1, <1>5, <2>1, ShortenedRuns
    <2> QED BY <1>5, <2>1, <2>2
  <1>7. Coming(engine', b, client, heard)
    <2>1. n \in Nat /\ n <= engine'.seq
      BY <1>2, <1>5
    <2>2. \A k \in DOMAIN b : Chunk(b[k]) => b[k].seq = n \/ (k \in DOMAIN downlink /\ b[k] = downlink[k])
      BY <1>3, <1>4
    <2>3. \A k \in DOMAIN engine'.tasks : engine'.tasks[k].gen = engine'.gen => \A p \in DOMAIN engine'.tasks[k].left : n < engine'.tasks[k].left[p]
      BY <1>5, <1>6
    <2> QED BY <1>6, <2>1, <2>2, <2>3, ComingChunk
  <1>8. SessionShaped(session') /\ session'.queue = session.queue /\ session'.saying = session.saying
        /\ session'.last = IF Len(t.left) = 1 /\ session.saying = t.utt THEN n ELSE session.last
    BY <1>1 DEF SessionShaped, SessionFields, Speaks
  <1>9. Spoken(session')
    BY <1>1, <1>2, <1>8 DEF Spoken, SessionShaped
  <1>10. \A u : OneTask(ts, u) => OneTask(rs, u) /\ (Worked(rs, u) => Worked(ts, u)) /\ (Len(t.left) = 1 /\ t.utt = u => ~Worked(rs, u))
    BY <1>1, ShortenedWorks DEF Speaks
  <1>11. ASSUME NEW v \in Narrations
         PROVE  Course(v, waiters[v], session'.queue, session'.saying, session'.last, rs, b, client)
    <2>1. Course(v, waiters[v], session.queue, session.saying, session.last, ts, downlink, client)
      BY DEF VoiceInv, InOrder
    <2>2. OneTask(ts, v)
      BY <2>1 DEF Course
    <2>3. OneTask(rs, v) /\ (Worked(rs, v) => Worked(ts, v)) /\ (Len(t.left) = 1 /\ t.utt = v => ~Worked(rs, v))
      BY <1>10, <2>2
    <2>4. CASE t.utt # v
      <3>1. ~Brings(m, v) /\ ~Ends(m, v)
        BY <1>3, <2>4 DEF Brings, Ends, Chunk
      <3>2. \A k \in DOMAIN b : Brings(b[k], v) \/ Ends(b[k], v) => k \in DOMAIN downlink
        BY <1>4, <3>1
      <3>3. session.saying = v => session'.last = session.last
        BY <1>8, <2>4
      <3>4. Course(v, waiters[v], session'.queue, session'.saying, session'.last, rs, downlink, client)
        <4> HIDE DEF Within, UnderWithin, OneEnd, Once, OneTask, Under, Closing, Worked, Owed, Brings, Ends, ts
        <4> QED BY <1>8, <2>1, <2>3, <3>3 DEF Course
      <3> QED BY <1>4, <3>2, <3>4, CourseNote
    <2>5. CASE t.utt = v
      <3>1. Worked(ts, v)
        BY <2>5 DEF Worked, Speaks
      <3>2. /\ session.saying = v /\ ~Owed(session.queue, v) /\ ~Closing(downlink, v) /\ ~waiters[v].ended /\ waiters[v].at # "idle"
            /\ session.last = Nothing /\ Once(session.queue, v) /\ waiters[v].at # "completed"
        <4> HIDE DEF Within, UnderWithin, OneEnd, Once, OneTask, Under, Closing, Worked, Owed, Brings, Ends, ts
        <4> QED BY <2>1, <3>1 DEF Course
      <3>3. \A k \in DOMAIN b : ~Ends(b[k], v)
        BY <1>3, <1>4, <3>2 DEF Closing, Ends, Chunk
      <3>4. OneEnd(b, v) /\ ~Closing(b, v)
        BY <3>3 DEF OneEnd, Closing
      <3>5. Within(client, v, n)
        <4>1. \A j \in Held(client) : j.seq < n /\ j.seq \in Nat
          BY <1>2, Shapes, HeldIsLater DEF After, Later
        <4> QED BY <1>2, <4>1 DEF Within
      <3>6. UnderWithin(b, v, n)
        <4>1. \A k \in DOMAIN downlink : Chunk(downlink[k]) => downlink[k].seq < n
          BY <1>2 DEF After
        <4>2. \A k \in DOMAIN b : b[k] \in Downs
          <5>1. b \in Seq(Downs)
            BY <1>4 DEF Arriving
          <5> QED BY <5>1
        <4>3. ASSUME NEW k \in DOMAIN b, Brings(b[k], v) PROVE b[k].seq <= n
          <5>1. b[k].seq \in Nat
            BY <4>2 DEF Downs
          <5>2. b[k].seq = n \/ b[k].seq < n
            BY <1>3, <1>4, <4>1, <4>3 DEF Brings
          <5> QED BY <1>2, <5>1, <5>2
        <4> QED BY <4>3 DEF UnderWithin
      <3>7. session'.last # Nothing => session'.last = n /\ ~Worked(rs, v)
        BY <1>8, <2>3, <2>5, <3>2
      <3> HIDE DEF Within, UnderWithin, OneEnd, Once, OneTask, Under, Closing, Worked, Owed, Brings, Ends, ts
      <3> QED BY <1>8, <2>3, <3>2, <3>3, <3>4, <3>5, <3>6, <3>7 DEF Course
    <2> QED BY <2>4, <2>5
  <1>12. downlink' = b
    BY DEF b, m, Speaks
  <1>13. InOrder(waiters, client, heard, b, engine', session')
    BY <1>4, <1>5, <1>7, <1>9, <1>11 DEF VoiceInv, InOrder
  <1> QED BY <1>12, <1>13 DEF VoiceInv
\* The synthesis of a line.
LEMMA SynthesizeKeeps ==
  ASSUME VoiceInv, NEW i \in DOMAIN engine.tasks, Synthesize(i)
  PROVE  VoiceInv'
  <1> DEFINE t == engine.tasks[i]
             n == Head(t.left)
             rs == Shortened(engine.tasks, i)
  <1>1. MayRun(i) /\ UNCHANGED <<client, waiters, heard>>
    BY DEF Synthesize
  <1>2. \/ t.gen = engine.gen /\ Speaks(i, t, n, rs)
        \/ /\ engine' = [engine EXCEPT !.tasks = Without(engine.tasks, i)]
           /\ \/ UNCHANGED <<downlink, session>>
              \/ /\ downlink' = Append(downlink, Msg("error"))
                 /\ session' = IF session.saying = t.utt THEN [session EXCEPT !.saying = "none"] ELSE session
    BY DEF Synthesize, Speaks, Shortened
  <1>3. CASE t.gen = engine.gen /\ Speaks(i, t, n, rs)
    <2> HIDE DEF n, rs
    <2> QED BY <1>1, <1>3, LineSpeaks
  <1>4. CASE /\ engine' = [engine EXCEPT !.tasks = Without(engine.tasks, i)]
             /\ \/ UNCHANGED <<downlink, session>>
                \/ /\ downlink' = Append(downlink, Msg("error"))
                   /\ session' = IF session.saying = t.utt THEN [session EXCEPT !.saying = "none"] ELSE session
    BY <1>1, <1>4, LineLost
  <1> QED BY <1>2, <1>3, <1>4

\* At the start nothing is said.
LEMMA VoiceStarts == VoiceInit => VoiceInv
  <1> SUFFICES ASSUME VoiceInit PROVE VoiceInv
    OBVIOUS
  <1>1. waiters \in [Narrations -> Waiter] /\ \A u \in Narrations : waiters[u].at = "idle" /\ ~waiters[u].ended
    BY DEF VoiceInit, Waiter, Nothing
  <1>2. Listens(client, heard) /\ Held(client) = {} /\ client.played = 0 /\ heard = 0
    BY DEF VoiceInit, Listens, InLine, Held, ClientFields
  <1>3. downlink = <<>> /\ Arriving(downlink, client, heard)
    BY DEF VoiceInit, Arriving
  <1>4. engine.tasks = <<>> /\ Coming(engine, downlink, client, heard)
    <2>1. /\ engine = [f \in EngineFields |-> engine[f]] /\ engine.gen = 0 /\ engine.seq = 0 /\ engine.tasks = <<>>
      BY DEF VoiceInit, EngineFields
    <2>2. After(1, client, heard, downlink)
      BY <1>2, <1>3 DEF After, Later
    <2>3. After(engine.seq + 1, client, heard, downlink)
      BY <2>1, <2>2
    <2>4. <<>> \in Seq(Tasks) /\ DOMAIN <<>> = {}
      OBVIOUS
    <2>5. engine.tasks \in Seq(Tasks) /\ DOMAIN engine.tasks = {}
      BY <2>1, <2>4
    <2> HIDE DEF After
    <2> QED BY <2>1, <2>3, <2>5 DEF Coming
  <1>5. session.queue = <<>> /\ session.saying = "none" /\ session.last = Nothing /\ Spoken(session)
    BY DEF VoiceInit, Spoken, SessionFields, Nothing
  <1>6. ASSUME NEW u \in Narrations
        PROVE  Course(u, waiters[u], session.queue, session.saying, session.last, engine.tasks, downlink, client)
    <2>1. "none" # u
      BY UtterancesDiffer
    <2>2. /\ ~Owed(session.queue, u) /\ Once(session.queue, u) /\ ~Worked(engine.tasks, u) /\ OneTask(engine.tasks, u)
          /\ ~Under(downlink, u) /\ ~Closing(downlink, u) /\ OneEnd(downlink, u)
      BY <1>3, <1>4, <1>5 DEF Owed, Once, Worked, OneTask, Under, Closing, OneEnd
    <2>3. \A k \in DOMAIN downlink : ~Ends(downlink[k], u)
      BY <1>3
    <2> HIDE DEF Within, UnderWithin, OneEnd, Once, OneTask, Under, Closing, Worked, Owed, Brings, Ends
    <2> QED BY <1>1, <1>5, <2>1, <2>2, <2>3 DEF Course
  <1> QED BY <1>1, <1>2, <1>3, <1>4, <1>5, <1>6 DEF VoiceInv, InOrder

\* Every step keeps the order, and what is newly heard is later than all that was heard.
LEMMA VoiceStep == VoiceInv /\ VoiceNext => VoiceInv' /\ (heard' # heard => heard' > heard)
  <1> SUFFICES ASSUME VoiceInv, VoiceNext PROVE VoiceInv' /\ (heard' # heard => heard' > heard)
    OBVIOUS
  <1>1. CASE Starts
    BY <1>1, StartsKeeps
  <1>2. CASE Person
    <2>1. VoiceInv'
      BY <1>2, OpenMicKeeps, MicKeeps, VoiceKeeps, AskKeeps DEF Person
    <2>2. heard' = heard
      BY <1>2 DEF Person, OpenMic, StopMic, LoudSound, StillLoud, TypeTurn, Stt, AskNarration
    <2> QED BY <2>1, <2>2
  <1>3. CASE Browser /\ ~Starts
    <2>1. VoiceInv'
      BY <1>3, MicKeeps, ProbeExpiresKeeps, EndedKeeps, PlaybackFailsKeeps, PlaybackBlockedKeeps, PumpKeeps, ReceiveKeeps,
         InactivityKeeps DEF Browser
    <2>2. heard' = heard
      BY <1>3 DEF Browser, MicReady, ProbeExpires, Ended, PlaybackFails, PlaybackBlocked, PumpAgain, SkipMissing, Restart, Receive, Inactivity
    <2> QED BY <2>1, <2>2
  <1>4. CASE Server
    <2>1. VoiceInv'
      BY <1>4, HearKeeps, AcknowledgeKeeps, EndUtteranceKeeps, VoiceKeeps, SynthesizeKeeps DEF Server
    <2>2. heard' = heard
      BY <1>4 DEF Server, Hear, Acknowledge, EndUtterance, HearVoice, Synthesize
    <2> QED BY <2>1, <2>2
  <1> QED BY <1>1, <1>2, <1>3, <1>4 DEF VoiceNext
\* A step of somebody else.
LEMMA VoiceSame == VoiceInv /\ UNCHANGED voiceVars => VoiceInv'
  BY DEF voiceVars, VoiceInv
\* The browser has nothing of a completed narration.
LEMMA CompletedIsOver ==
  ASSUME VoiceInv, NEW u \in Narrations, waiters[u].at = "completed", waiters[u].last # Nothing
  PROVE  IsOver(u)
  <1>1. Silent(client, u)
    BY DEF VoiceInv, InOrder, Course
  <1>2. u # "none"
    BY UtterancesDiffer
  <1>3. client.player = NoItem \/ client.player \in Held(client)
    BY DEF Held
  <1>4. client.player.utt # u
    BY <1>1, <1>2, <1>3 DEF Silent, NoItem
  <1> QED BY <1>1, <1>4 DEF IsOver, Silent, Held
OverNow == \A u \in Narrations : waiters[u].at = "completed" /\ waiters[u].last # Nothing => IsOver(u)
\* The same, of all of them.
LEMMA OverAlways == VoiceInv => OverNow
  BY CompletedIsOver DEF OverNow

(***************************************************************************)
(* From the lines of the server to the player every number is later than   *)
(* those before it, and every narration is asked for, spoken, closed and   *)
(* over in this order, whatever the microphone and the provider do.        *)
(***************************************************************************)
THEOREM VoiceInvariance == VoiceSpec => []VoiceInv
  <1>1. VoiceInit => VoiceInv
    BY VoiceStarts
  <1>2. VoiceInv /\ [VoiceNext]_voiceVars => VoiceInv'
    BY VoiceStep, VoiceSame
  <1> QED BY <1>1, <1>2, PTL DEF VoiceSpec

(***************************************************************************)
(* Whatever was cancelled, blocked, failed or interrupted, the chunks are  *)
(* heard in the order of their numbers, and of a narration reported        *)
(* complete the browser has nothing left to play.                          *)
(***************************************************************************)
THEOREM NarrationsHeardInOrder == VoiceSpec => HeardInOrder
  <1>1. VoiceInv /\ VoiceInv' /\ [VoiceNext]_voiceVars =>
          [(heard' # heard => heard' > heard) /\ (\A u \in Narrations : waiters'[u].at = "completed" /\ waiters'[u].last # Nothing => IsOver(u)')]_<<client, waiters, heard>>
    <2>1. VoiceInv' => OverNow'
      BY OverAlways, PTL
    <2>2. OverNow' => \A u \in Narrations : waiters'[u].at = "completed" /\ waiters'[u].last # Nothing => IsOver(u)'
      BY DEF OverNow
    <2>3. UNCHANGED voiceVars => UNCHANGED <<client, waiters, heard>>
      BY DEF voiceVars
    <2> QED BY <2>1, <2>2, <2>3, VoiceStep
  <1> QED BY <1>1, VoiceInvariance, PTL DEF VoiceSpec, HeardInOrder
=============================================================================
