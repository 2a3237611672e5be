SPECIFICATION Spec
CONSTANTS
  Users = {u1, u2, u3}
  GetCategories <- OneCategory
  Runs = {r1, r2}
  Window = 1
  MaxTime = 2
  MaxFaults <- PublishRemoveCrash
SYMMETRY Symmetry
INVARIANTS
  MatchesPerStayBounded
  NoOvertaking
PROPERTIES
  NoSilentRemoval
  ImplementsMatchPool
