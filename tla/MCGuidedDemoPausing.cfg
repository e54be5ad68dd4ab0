\* Checks PausingEnds.
CONSTANTS
  m1 = m1  m2 = m2  m3 = m3
  j1 = j1  j2 = j2
  buyer = buyer
  q1 = q1  q2 = q2
  Modules = {m1, m2, m3}
  Playable = {m1, m2}
  Journeys = {j1, j2}
  LastStep = 2
  Steps <- MCSteps
  Personas = {buyer}
  Questions = {q1, q2}
  FirstQuestion = q1
  SecondQuestion = q2
  JourneyOf <- MCJourneyOf
  PersonaQuestion <- MCPersonaQuestion
  PersonaPlaylist <- MCPersonaPlaylist
  DefaultPlaylist <- MCDefaultPlaylist
  NoModule = NoModule
  NoPersona = NoPersona
  NoQuestion = NoQuestion
  NoCheckpoint = NoCheckpoint
  Faults = {}
  InputBudget = 3
  QueueBound = 3
SPECIFICATION Spec
CHECK_DEADLOCK FALSE
INVARIANT PausingEnds
