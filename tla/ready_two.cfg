SPECIFICATION FairSpec
CONSTANTS
  p1 = p1
  p2 = p2
  p3 = p3
  p4 = p4
  s1 = s1
  l1 = l1
  l2 = l2
  Players <- TwoPlayers
  Outsiders <- Outsider
  Loops <- TwoLoops
  Owner <- OwnerAndOutsider
  MaxFaults <- OneOfEach
  MaxKinds = 1
CHECK_DEADLOCK FALSE
INVARIANTS
  TypeOK
  TwoReadyBeforeStart
  DeadlinesBeforeQuestions
  StartedIsInHand
PROPERTIES
  StartedIsScheduled
  AnnouncedToAll
