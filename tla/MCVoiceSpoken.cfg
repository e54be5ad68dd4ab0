SPECIFICATION VoiceSpec
CONSTANTS
  Narrations = {}
  Answers = {"a"}
  MaxSpeech = 1
  MaxStarts = 1
CHECK_DEADLOCK FALSE
PROPERTY SpokenTurnIsHeard
