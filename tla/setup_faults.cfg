SPECIFICATION FairAskSpec
CONSTANTS
  m1 = m1
  m2 = m2
  Matches = {m1, m2}
  MaxFaults <- EachFaultOnce
  Bank <- RichAndPoor
  Limit = 1
  MaxSlips = 1
CHECK_DEADLOCK FALSE
INVARIANTS
  QuestionsKept
  GameFirstIsComplete
  ShortOnlyByFault
  CreatedIsInHand
  MatchIsInHand
PROPERTIES
  CreatedIsAnnounced
  EveryMatchIsAnswered
