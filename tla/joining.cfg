SPECIFICATION Spec
CONSTANTS
  p1 = p1
  p2 = p2
  Users = {p1, p2}
  Categories = {sport}
  UnknownNames = {chess}
  Runs = {r1, r2}
  AllowedGroups <- EvenGroups
  MaxAsks <- TwoAsks
  MaxFaults = 1
SYMMETRY Symmetry
INVARIANTS
  ToldIsKept
  MatchedAsAsked
  MatchedIsInHand
