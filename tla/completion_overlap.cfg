SPECIFICATION Spec
CONSTANTS
  u1 = u1
  u2 = u2
  Players = {u1, u2}
  Conns = {k1, k2}
  NoConn = NoConn
  Nobody = Nobody
  Tasks = {t1, t2}
  Points <- Ranked
  MaxRetry = 1
  MaxFaults <- OneOfEach
SYMMETRY Symmetry
INVARIANTS
  MapIsCurrent
PROPERTIES
  ImplementsFarewell
CHECK_DEADLOCK FALSE
