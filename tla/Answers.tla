------------------------------- MODULE Answers -------------------------------
(***************************************************************************)
(* Answering the questions of one game in the Game Service.                *)
(*                                                                         *)
(* When a game starts, the handler of a READY GETs the questions from Redis*)
(* and gives question i of its copy the deadline "now + i * time-out"; it  *)
(* SETs the copy (again on every further start) and enqueues a completion  *)
(* task.  An ANSWER is handled by the read loop of a connection: it takes  *)
(* the time, GETs the questions, grades the answer, looks in MongoDB       *)
(* whether the player has answered this question, and inserts the answer.  *)
(* Nothing keeps two starts, two loops, or an answer and a start, apart    *)
(* between these steps.  The completion task makes the leader board of the *)
(* answers it finds, whatever is still in hand; if it cannot, it reads the *)
(* game instead, and a goroutine puts the questions of the game's document,*)
(* which have no deadlines, back into Redis.                               *)
(*                                                                         *)
(* Abstracted: the choices (an answer is correct or not), the replies with *)
(* their own leader boards, the ten questions, the seconds (a clock unit is*)
(* any length of time), the sums of the points.                            *)
(***************************************************************************)
EXTENDS Integers, Sequences, FiniteSets

CONSTANTS
  Players,             \* the players of the game
  Loops,               \* connection read loops
  Owner,               \* Owner[l]: the player on the other end of l
  Starters,            \* the handlers of READY that start the game
  NumQuestions,        \* the questions are 1..NumQuestions
  QuestionIds,         \* what an ANSWER may name
  ValidAnswerTimeOut,  \* config: repository.valid_answer_timeout
  BaseScore,           \* config: repository.score
  MaxBonus,
  BonusDeadline,
  MaxTime,             \* bound: the clock stops here
  MaxStarts,           \* bound: how often the game may be started
  MaxFaults,           \* bound: how often each kind of fault may strike
  MaxKinds             \* bound: how many kinds of fault may strike

Questions == 1..NumQuestions

(***************************************************************************)
(* "get": the questions cannot be read;  "find": the look-up fails;        *)
(* "insert": the insertion fails;  "board": the leader board cannot be     *)
(* made;  "crash": the process is restarted;  "stamp": the deadlines cannot*)
(* be set.                                                                 *)
(***************************************************************************)
FaultKinds == {"get", "find", "insert", "board", "crash", "stamp"}

ASSUME AnswersAssumption ==
  /\ Owner \in [Loops -> Players]
  /\ IsFiniteSet(Loops)
  /\ NumQuestions \in Nat \ {0}
  /\ QuestionIds \subseteq Nat
  /\ ValidAnswerTimeOut \in Nat \ {0}
  /\ BaseScore \in Nat
  /\ MaxBonus \in Nat
  /\ BonusDeadline \in Nat \ {0}
  /\ MaxTime \in Nat
  /\ MaxStarts \in Nat
  /\ MaxFaults \in [FaultKinds -> Nat]
  /\ MaxKinds \in Nat

VARIABLES
  now,        \* wall clock
  stamp,      \* stamp[s]: the time s has put into its copy of the questions, or NotStarting
  deadline,   \* Redis: deadline[q], NoDeadline until the game starts
  loop,       \* local state of each read loop
  stored,     \* MongoDB: stored[p][q], the answers of p to q as inserted
  due,        \* when the completion tasks not yet run are due
  recaching,  \* how many goroutines are about to put the questions back
  standings,  \* history: the answers in the first completion's leader board
  late,       \* history: who had an answer in hand at the first completion
  completed,  \* history: when the game was first completed, 0 before
  starts,     \* history: the starts whose deadlines were SET, in that order
  faults      \* history: faults so far, by kind

completion == <<due, recaching, standings, late, completed>>
vars == <<now, stamp, deadline, loop, stored, completion, starts, faults>>

(* Go's zero time, long before the clock starts. *)
NoDeadline == 0

NotStarting == 0

Start == [at : Nat \ {0}, saved : Nat \ {0}]

Answer == [time : Nat, deadline : Nat, point : Nat]

LoopState ==
  [pc       : {"idle", "grade", "find", "insert"},
   question : QuestionIds \cup {0},
   correct  : BOOLEAN,
   answer   : Answer]

TypeOK ==
  /\ now \in Nat \ {0}
  /\ stamp \in [Starters -> Nat]
  /\ deadline \in [Questions -> Nat]
  /\ loop \in [Loops -> LoopState]
  /\ stored \in [Players -> [QuestionIds -> Seq(Answer)]]
  /\ due \subseteq Nat
  /\ recaching \in Nat
  /\ standings \in [Players -> [QuestionIds -> Seq(Answer)]]
  /\ late \subseteq Players
  /\ completed \in Nat
  /\ starts \in Seq(Start)
  /\ faults \in [FaultKinds -> Nat]

IdleLoop ==
  [pc |-> "idle", question |-> 0, correct |-> FALSE,
   answer |-> [time |-> 0, deadline |-> NoDeadline, point |-> 0]]

NoAnswers == [p \in Players |-> [q \in QuestionIds |-> <<>>]]

Init ==
  /\ now = 1
  /\ stamp = [s \in Starters |-> NotStarting]
  /\ deadline = [q \in Questions |-> NoDeadline]
  /\ loop = [l \in Loops |-> IdleLoop]
  /\ stored = NoAnswers
  /\ due = {}
  /\ recaching = 0
  /\ standings = NoAnswers
  /\ late = {}
  /\ completed = 0
  /\ starts = <<>>
  /\ faults = [k \in FaultKinds |-> 0]

Strike(kind) ==
  /\ faults[kind] < MaxFaults[kind]
  /\ Cardinality({k \in FaultKinds : faults[k] > 0} \cup {kind}) <= MaxKinds
  /\ faults' = [faults EXCEPT ![kind] = @ + 1]

-----------------------------------------------------------------------------
(* Scores *)

(***************************************************************************)
(* CalculateScore.  The bonus is proportional to the time left, rounded    *)
(* down, and full from BonusDeadline on; at the deadline itself a correct  *)
(* answer still gets the base score.                                       *)
(***************************************************************************)
Bonus_Growing(left) ==
  IF left >= BonusDeadline THEN 0 ELSE (MaxBonus * left) \div BonusDeadline
Bonus(left) ==
  IF left >= BonusDeadline THEN MaxBonus ELSE (MaxBonus * left) \div BonusDeadline

CalculateScore_Strict(correct, time, valid) ==
  IF ~correct \/ time >= valid THEN 0 ELSE BaseScore + Bonus(valid - time)
CalculateScore(correct, time, valid) ==
  IF ~correct \/ time > valid THEN 0 ELSE BaseScore + Bonus(valid - time)

(* An answer too far ahead of its deadline is taken for cheating. *)
TooQuick_Never(time, valid) == FALSE
TooQuick(time, valid) == valid - time > ValidAnswerTimeOut

-----------------------------------------------------------------------------
(* Starting and completing the game *)

(***************************************************************************)
(* READY on a full roster: SetValidAnswerTimeForQuestions reads the        *)
(* questions and stamps its copy, ...                                      *)
(***************************************************************************)
InHand == {s \in Starters : stamp[s] # NotStarting}

StampDeadlines(s) ==
  /\ s \notin InHand
  /\ Len(starts) + Cardinality(InHand) < MaxStarts
  /\ stamp' = [stamp EXCEPT ![s] = now]
  /\ UNCHANGED <<now, deadline, loop, stored, completion, starts, faults>>

(***************************************************************************)
(* ... and writes the copy back, whatever has been written since.  Then the*)
(* completion task is enqueued (one that could not be, or is later, is like*)
(* one that never runs, or later).  It is delayed by the sum of the        *)
(* time-outs added, not by the last deadline.                              *)
(***************************************************************************)
FinalTTL_One == ValidAnswerTimeOut
FinalTTL == ValidAnswerTimeOut * ((NumQuestions * (NumQuestions + 1)) \div 2)

Stamped(time) == [q \in Questions |-> time + ValidAnswerTimeOut * q]

SaveDeadlines(s) ==
  /\ s \in InHand
  /\ deadline' = Stamped(stamp[s])
  /\ due' = due \cup {now + FinalTTL}
  /\ starts' = Append(starts, [at |-> stamp[s], saved |-> now])
  /\ stamp' = [stamp EXCEPT ![s] = NotStarting]
  /\ UNCHANGED <<now, loop, stored, recaching, standings, late, completed, faults>>

(***************************************************************************)
(* If the questions cannot be read, or not be written, the handler tells   *)
(* the player of an error and goes on with a delay of 0.                   *)
(***************************************************************************)
StartUnstamped(s) ==
  /\ Strike("stamp")
  /\ due' = due \cup {now}
  /\ stamp' = [stamp EXCEPT ![s] = NotStarting]
  /\ UNCHANGED <<now, deadline, loop, stored, recaching, standings, late,
                 completed, starts>>

Busy == {l \in Loops : loop[l].pc # "idle"}

(* What the players are told first is what counts. *)
FirstCompletion ==
  IF completed = 0
  THEN completed' = now /\ late' = {Owner[l] : l \in Busy}
  ELSE UNCHANGED <<completed, late>>

GetLeaderBoard ==
  /\ standings' = IF completed = 0 THEN stored ELSE standings
  /\ FirstCompletion
  /\ UNCHANGED <<recaching, faults>>

(* Without a leader board the players are told of an error. *)
GetGame ==
  /\ Strike("board")
  /\ recaching' = recaching + 1
  /\ FirstCompletion
  /\ UNCHANGED standings

GetNeither ==
  /\ Strike("board")
  /\ UNCHANGED <<recaching, standings, completed, late>>

(***************************************************************************)
(* The worker runs a task once it is due, no matter how much later, and    *)
(* runs it again if it gets nothing to tell or cannot tell everybody.      *)
(***************************************************************************)
CompleteGame ==
  /\ \E time \in due : time <= now /\ due' \in {due, due \ {time}}
  /\ \/ GetLeaderBoard
     \/ GetGame
     \/ GetNeither /\ UNCHANGED due
  /\ UNCHANGED <<now, stamp, deadline, loop, stored, starts>>

(* The goroutine of GetGame writes over whatever deadlines there are, or fails to. *)
Recache ==
  /\ recaching > 0
  /\ recaching' = recaching - 1
  /\ deadline' \in {deadline, [q \in Questions |-> NoDeadline]}
  /\ UNCHANGED <<now, stamp, loop, stored, due, standings, late, completed, starts, faults>>

-----------------------------------------------------------------------------
(* ANSWER *)

Submit(l, q, correct) ==
  /\ loop[l].pc = "idle"
  /\ loop' = [loop EXCEPT ![l] = [IdleLoop EXCEPT !.pc = "grade",
                                                 !.question = q,
                                                 !.correct = correct,
                                                 !.answer.time = now]]
  /\ UNCHANGED <<now, stamp, deadline, stored, completion, starts, faults>>

(***************************************************************************)
(* GET the questions, which starts may have changed since the answer was   *)
(* given, and grade it.  An unknown question is not graded and goes on with*)
(* no deadline and no points.                                              *)
(***************************************************************************)
Grade(l) ==
  LET q     == loop[l].question
      time  == loop[l].answer.time
      point == CalculateScore(loop[l].correct, time, deadline[q])
  IN
  /\ loop[l].pc = "grade"
  /\ \/ /\ q \notin Questions
        /\ loop' = [loop EXCEPT ![l].pc = "find"]
        /\ UNCHANGED faults
     \/ /\ q \in Questions
        /\ loop' = IF TooQuick(time, deadline[q])
                   THEN [loop EXCEPT ![l] = IdleLoop]
                   ELSE [loop EXCEPT ![l].pc = "find",
                                     ![l].answer.deadline = deadline[q],
                                     ![l].answer.point = point]
        /\ UNCHANGED faults
     \/ /\ Strike("get")
        /\ loop' = [loop EXCEPT ![l] = IdleLoop]
  /\ UNCHANGED <<now, stamp, deadline, stored, completion, starts>>

(* An answer is refused if one is found; a failed look-up finds none. *)
AlreadyAnswered_Never(p, q) == FALSE
AlreadyAnswered(p, q) == stored[p][q] # <<>>

FindStored(l) ==
  /\ loop[l].pc = "find"
  /\ \/ /\ loop' = IF AlreadyAnswered(Owner[l], loop[l].question)
                   THEN [loop EXCEPT ![l] = IdleLoop]
                   ELSE [loop EXCEPT ![l].pc = "insert"]
        /\ UNCHANGED faults
     \/ /\ Strike("find")
        /\ loop' = [loop EXCEPT ![l].pc = "insert"]
  /\ UNCHANGED <<now, stamp, deadline, stored, completion, starts>>

InsertAnswer(l) ==
  LET p == Owner[l]
      q == loop[l].question
  IN
  /\ loop[l].pc = "insert"
  /\ \/ /\ stored' = [stored EXCEPT ![p][q] = Append(@, loop[l].answer)]
        /\ UNCHANGED faults
     \/ /\ Strike("insert")
        /\ UNCHANGED stored
  /\ loop' = [loop EXCEPT ![l] = IdleLoop]
  /\ UNCHANGED <<now, stamp, deadline, completion, starts>>

-----------------------------------------------------------------------------
(* Environment *)

Crash ==
  /\ Strike("crash")
  /\ loop' = [l \in Loops |-> IdleLoop]
  /\ recaching' = 0
  /\ stamp' = [s \in Starters |-> NotStarting]
  /\ UNCHANGED <<now, deadline, stored, due, standings, late, completed, starts>>

Tick ==
  /\ now < MaxTime
  /\ now' = now + 1
  /\ UNCHANGED <<stamp, deadline, loop, stored, completion, starts, faults>>

HandleAnswer(l) == Grade(l) \/ FindStored(l) \/ InsertAnswer(l)

Next ==
  \/ \E s \in Starters : StampDeadlines(s) \/ SaveDeadlines(s) \/ StartUnstamped(s)
  \/ CompleteGame
  \/ Recache
  \/ \E l \in Loops, q \in QuestionIds, correct \in BOOLEAN : Submit(l, q, correct)
  \/ \E l \in Loops : HandleAnswer(l)
  \/ Crash
  \/ Tick

Spec == Init /\ [][Next]_vars

-----------------------------------------------------------------------------
(* Properties *)

Answered(p, q) == {stored[p][q][i] : i \in DOMAIN stored[p][q]}

LoopsOf(p) == {l \in Loops : Owner[l] = p}

(***************************************************************************)
(* A question is answered at most once per connection of the player, and   *)
(* once more for each look-up that fails, whatever else fails and however  *)
(* often the game is started.  With one connection and look-ups that work, *)
(* that is "A player can only answer a question once per game"             *)
(* (docs/context/03-business-domain.md:225); with two, both look before    *)
(* either inserts.                                                         *)
(***************************************************************************)
AnswersBounded ==
  \A p \in Players, q \in QuestionIds :
    Len(stored[p][q]) <= Cardinality(LoopsOf(p)) + faults["find"]

InWindow(a, q, start) ==
  /\ a.deadline = start + ValidAnswerTimeOut * q
  /\ a.deadline - ValidAnswerTimeOut <= a.time
  /\ a.time <= a.deadline

(***************************************************************************)
(* Points are only given for an answer inside the answer window of its     *)
(* question, in one of the game's starts, although the answer's time is    *)
(* taken before the deadlines are read and starts may overlap in between.   *)
(***************************************************************************)
PointsInWindow ==
  \A p \in Players, q \in QuestionIds : \A a \in Answered(p, q) :
    a.point > 0 => \E i \in DOMAIN starts : InWindow(a, q, starts[i].at)

(***************************************************************************)
(* Of two answers with points to the same question and against the same    *)
(* deadline, the earlier one never gets fewer points, and none gets more   *)
(* than the base score and the full bonus.                                 *)
(***************************************************************************)
EarlierIsNoWorse ==
  \A p, r \in Players, q \in QuestionIds :
    \A a \in Answered(p, q), b \in Answered(r, q) :
      /\ a.point <= BaseScore + MaxBonus
      /\ a.point > 0 /\ b.point > 0 /\ a.deadline = b.deadline /\ a.time <= b.time
           => a.point >= b.point

(* A start that could not set the deadlines counts: its task is due at once. *)
StartedOnce == Len(starts) = 1 /\ faults["stamp"] = 0

(***************************************************************************)
(* While the game has been started once, nobody is given points for an     *)
(* answer sent after the game was completed, however long the answer was   *)
(* in hand.  A second start sets the deadlines anew, past the completion.  *)
(***************************************************************************)
NoPointsAfterCompletion ==
  completed # 0 /\ StartedOnce =>
    \A p \in Players, q \in QuestionIds : \A a \in Answered(p, q) :
      a.point > 0 => a.time <= completed

(***************************************************************************)
(* The starts whose deadlines were in Redis since that time, and those of  *)
(* which nobody knows whether they were (the clock is no finer).           *)
(***************************************************************************)
InForce(time) ==
  {i \in DOMAIN starts : \A j \in DOMAIN starts : j > i => starts[j].saved >= time}

InTime(l) ==
  LET q    == loop[l].question
      time == loop[l].answer.time
      end(i) == starts[i].at + ValidAnswerTimeOut * q
  IN  /\ loop[l].pc \in {"find", "insert"}
      /\ loop[l].correct
      /\ q \in Questions
      /\ \E i \in InForce(time) : starts[i].saved < time
      /\ \A i \in InForce(time) : end(i) - ValidAnswerTimeOut < time /\ time <= end(i)

(***************************************************************************)
(* Whoever knows the answer and sends it inside the window of the start    *)
(* whose deadlines are in Redis, and of those that replace them while the  *)
(* answer is in hand, gets at least the base score, whatever starts,       *)
(* completions and restarts come in between.  (When starts overlap, these  *)
(* deadlines may be older ones, and the window of the latest start is not  *)
(* enough.)  Only the questions that GetGame puts back (game.go:94) can    *)
(* take it away: from answers in hand at the completion, and in a game that*)
(* is started again or was first started without deadlines.                *)
(***************************************************************************)
InTimeIsPaid ==
  \A l \in Loops :
    InTime(l) => \/ loop[l].answer.point >= BaseScore
                 \/ /\ faults["board"] > 0
                    /\ ~StartedOnce \/ Owner[l] \in late

(***************************************************************************)
(* The leader board of a game of several questions that was started once,  *)
(* with its deadlines, is final: it has every answer that ever gets points,*)
(* except for players who had one in hand when it was made ("After all     *)
(* question deadlines expire", docs/business/05-use-cases.md:74).          *)
(***************************************************************************)
StandingsAreFinal ==
  completed # 0 /\ StartedOnce /\ faults["board"] = 0 /\ NumQuestions > 1 =>
    \A p \in Players \ late, q \in QuestionIds : \A i \in DOMAIN stored[p][q] :
      stored[p][q][i].point > 0 => i \in DOMAIN standings[p][q]

Game == INSTANCE Quiz WITH
  Window    <- ValidAnswerTimeOut,
  Allowance <- [p \in Players |-> Cardinality(LoopsOf(p)) + MaxFaults["find"]],
  starts    <- {starts[i].at : i \in DOMAIN starts},
  sheet     <- stored,
  over      <- completed # 0,
  ranking   <- standings

(***************************************************************************)
(* Four steps for an answer, starts that overlap it and each other, retried*)
(* completions and crashes behave like a quiz in which writing an answer is*)
(* a single step: nothing that is recorded changes, and a question is      *)
(* answered at most once per connection of the player and look-up that     *)
(* fails.  With one connection and look-ups that work that is once.        *)
(***************************************************************************)
ImplementsQuiz == Game!QuizSpec
=============================================================================
