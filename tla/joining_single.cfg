SPECIFICATION FairSpec
CONSTANTS
  p1 = p1
  p2 = p2
  Users = {p1, p2}
  Categories = {sport}
  UnknownNames = {chess}
  Runs = {r1}
  AllowedGroups <- EvenGroups
  MaxAsks <- FewAsks
  MaxFaults = 1
PROPERTIES
  ToldIsListed
  MatchedIsPending
