SPECIFICATION Spec
CONSTANTS
  p1 = p1
  p2 = p2
  p3 = p3
  p4 = p4
  s1 = s1
  l1 = l1
  l2 = l2
  Players <- FourPlayers
  Outsiders = {}
  Loops <- TwoLoops
  Owner <- OwnerOfTwo
  MaxFaults <- NoFaults
  MaxKinds = 0
CHECK_DEADLOCK FALSE
INVARIANT EveryoneReadyBeforeStart
