SPECIFICATION Spec
CONSTANTS
  p1 = p1
  l1 = l1
  l2 = l2
  s1 = s1
  s2 = s2
  Players = {p1}
  Loops = {l1, l2}
  Owner <- Reconnected
  Starters = {s1}
  NumQuestions = 2
  QuestionIds = {0, 1}
  ValidAnswerTimeOut = 2
  BaseScore = 1
  MaxBonus = 2
  BonusDeadline = 2
  MaxTime = 3
  MaxStarts = 1
  MaxFaults <- Answering
  MaxKinds = 1
SYMMETRY Symmetry
INVARIANTS
  AnswersBounded
  EarlierIsNoWorse
PROPERTY ImplementsQuiz
