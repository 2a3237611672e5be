SPECIFICATION Spec
CONSTANTS
  p1 = p1
  l1 = l1
  l2 = l2
  s1 = s1
  s2 = s2
  Players = {p1}
  Loops = {l1}
  Owner <- OneLoop
  Starters = {s1, s2}
  NumQuestions = 2
  QuestionIds = {1, 2}
  ValidAnswerTimeOut = 1
  BaseScore = 1
  MaxBonus = 2
  BonusDeadline = 1
  MaxTime = 4
  MaxStarts = 2
  MaxFaults <- Completing
  MaxKinds = 1
SYMMETRY Symmetry
INVARIANTS
  PointsInWindow
  InTimeIsPaid
  StandingsAreFinal
PROPERTY ImplementsQuiz
