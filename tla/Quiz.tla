--------------------------------- MODULE Quiz ---------------------------------
(***************************************************************************)
(* What answering a game promises, without read loops, look-ups, deadlines *)
(* in a cache or tasks: a sheet on which each player writes answers to each*)
(* question, in ink, no more than allowed (one, for most), with points only*)
(* for what was answered while the question was open; and a ranking, made  *)
(* once, of the sheet as it is at that moment.                             *)
(***************************************************************************)
EXTENDS Integers, Sequences

CONSTANTS
  Players,
  QuestionIds,
  Allowance,    \* Allowance[p]: how many answers to a question p may write
  Window        \* how long each question is open, one after the other

VARIABLES
  starts,   \* the moments at which the quiz was started
  sheet,    \* sheet[p][q]: the answers of p to q, in order
  over,     \* whether the ranking is made
  ranking   \* the sheet the ranking was made of; nothing if it failed

quizVars == <<starts, sheet, over, ranking>>

Blank == [p \in Players |-> [q \in QuestionIds |-> <<>>]]

QuizInit ==
  /\ starts = {}
  /\ sheet = Blank
  /\ over = FALSE
  /\ ranking = Blank

StartQuiz(time) ==
  /\ starts' = starts \cup {time}
  /\ UNCHANGED <<sheet, over, ranking>>

Open(q, time) ==
  \E start \in starts :
    LET end == start + Window * q IN end - Window <= time /\ time <= end

Write(p, q) ==
  /\ Len(sheet[p][q]) < Allowance[p]
  /\ \E i \in DOMAIN sheet'[p][q] :
       LET answer == sheet'[p][q][i] IN
       /\ sheet' = [sheet EXCEPT ![p][q] = Append(@, answer)]
       /\ answer.point > 0 => Open(q, answer.time)
  /\ UNCHANGED <<starts, over, ranking>>

Rank ==
  /\ ~over
  /\ over' = TRUE
  /\ ranking' \in {Blank, sheet}
  /\ UNCHANGED <<starts, sheet>>

QuizNext ==
  \/ \E time \in starts' \ starts : StartQuiz(time)
  \/ \E p \in Players, q \in QuestionIds : Write(p, q)
  \/ Rank

QuizSpec == QuizInit /\ [][QuizNext]_quizVars
=============================================================================
