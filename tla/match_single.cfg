SPECIFICATION FairSpec
CONSTANTS
  Users = {u1, u2, u3}
  GetCategories <- OneCategory
  Runs = {r1}
  Window = 5
  MaxTime = 2
  MaxFaults <- ReadRemoveCrash
PROPERTIES
  ImplementsMatchPool
  PairIsServed
