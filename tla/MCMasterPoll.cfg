SPECIFICATION LiveSpec
CONSTANTS
  N = 3
  Unmapped <- OneUnmapped
  DelayExceedsTimeout = FALSE
  TidMod = 5
  MaxAge = 3
  NoAnswer = NoAnswer
INVARIANTS TypeOK AnswersAreCurrent KeepsPolling
PROPERTIES NoEntrySkipped ScheduleGoesRound
