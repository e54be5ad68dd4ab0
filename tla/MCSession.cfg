\* The director under every legal order of calls, on a three-module profile; the voice with one narration and one answer.
CONSTANTS
  m1 = m1  m2 = m2  m3 = m3
  j1 = j1  j2 = j2
  s1 = s1  s2 = s2
  buyer = buyer  guest = guest  loop = loop
  q1 = q1  q2 = q2  q3 = q3
  Modules = {m1, m2, m3}
  Journeys = {j1, j2}
  Steps = {s1, s2}
  Personas = {buyer, guest, loop}
  Questions = {q1, q2, q3}
  FirstQuestion = q1
  SecondQuestion = q2
  JourneyOf <- MCJourneyOf
  PersonaQuestion <- MCPersonaQuestion
  PersonaPlaylist <- MCPersonaPlaylist
  DefaultPlaylist <- MCDefaultPlaylist
  NoModule = NoModule
  NoPersona = NoPersona
  NoQuestion = NoQuestion
  NoCheckpoint = NoCheckpoint
  Narrations = {"n"}
  Answers = {"a"}
  MaxSpeech = 1
  MaxStarts = 1
SPECIFICATION AnySpec
CHECK_DEADLOCK FALSE
INVARIANTS
  StateSurvivesRestore
  NothingRepeatsAhead
  NeverStranded
  ShownButtonsWork
  ResumeMatchesModule
PROPERTIES
  ImplementsPlaythrough
  HeardInOrder
  NarrationEnds
