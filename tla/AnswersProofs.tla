---------------------------- MODULE AnswersProofs ----------------------------
(***************************************************************************)
(* Theorems about Answers, for any number of players, connections,         *)
(* questions and starts, any scoring configuration and any faults.         *)
(***************************************************************************)
EXTENDS Answers, FiniteSetTheorems, TLAPS

LEMMA ProductType ==
  ASSUME NEW a \in Nat, NEW b \in Nat
  PROVE  a * b \in Nat
OBVIOUS

LEMMA QuotientType ==
  ASSUME NEW a \in Nat, NEW b \in Nat \ {0}
  PROVE  a \div b \in Nat
OBVIOUS

LEMMA FinalTTLType == FinalTTL \in Nat
<1>1. NumQuestions * (NumQuestions + 1) \in Nat
  BY AnswersAssumption, ProductType
<1>2. (NumQuestions * (NumQuestions + 1)) \div 2 \in Nat
  BY <1>1, QuotientType
<1> QED BY <1>2, AnswersAssumption, ProductType DEF FinalTTL

(* Points are a natural number, for answers at any time. *)
LEMMA CalculateScoreType ==
  ASSUME NEW correct \in BOOLEAN, NEW time \in Nat, NEW valid \in Nat
  PROVE  CalculateScore(correct, time, valid) \in Nat
<1>1. ASSUME time <= valid PROVE Bonus(valid - time) \in Nat
  <2>1. valid - time \in Nat
    BY <1>1
  <2>2. (MaxBonus * (valid - time)) \div BonusDeadline \in Nat
    BY <2>1, AnswersAssumption, ProductType, QuotientType
  <2> QED BY <2>2, AnswersAssumption DEF Bonus
<1> QED BY <1>1, AnswersAssumption DEF CalculateScore

LEMMA DeadlineType ==
  ASSUME NEW time \in Nat, NEW q \in Questions
  PROVE  time + ValidAnswerTimeOut * q \in Nat
<1>1. q \in Nat
  BY AnswersAssumption DEF Questions
<1> QED BY <1>1, AnswersAssumption, ProductType

LEMMA StrikeType ==
  ASSUME faults \in [FaultKinds -> Nat], NEW k \in FaultKinds, Strike(k)
  PROVE  faults' \in [FaultKinds -> Nat]
BY DEF Strike

LEMMA IdleLoopType == IdleLoop \in LoopState
BY DEF IdleLoop, LoopState, Answer, NoDeadline

(* A step without a fault leaves them as they are. *)
LEMMA StepStrikes ==
  ASSUME [Next]_vars
  PROVE  UNCHANGED faults \/ \E k \in FaultKinds : Strike(k)
<1>1. CASE Recache \/ Tick \/ UNCHANGED vars
  BY <1>1 DEF Recache, Tick, vars
<1>2. CASE CompleteGame
  BY <1>2 DEF CompleteGame, GetLeaderBoard, GetGame, GetNeither, FaultKinds
<1>3. CASE Crash
  BY <1>3 DEF Crash, FaultKinds
<1>6. ASSUME NEW s \in Starters, StampDeadlines(s) \/ SaveDeadlines(s) \/ StartUnstamped(s)
      PROVE  UNCHANGED faults \/ \E k \in FaultKinds : Strike(k)
  BY <1>6 DEF StampDeadlines, SaveDeadlines, StartUnstamped, FaultKinds
<1>4. ASSUME NEW l \in Loops, HandleAnswer(l)
      PROVE  UNCHANGED faults \/ \E k \in FaultKinds : Strike(k)
  BY <1>4 DEF HandleAnswer, Grade, FindStored, InsertAnswer, FaultKinds
<1>5. ASSUME NEW l \in Loops, NEW q \in QuestionIds, NEW correct \in BOOLEAN,
             Submit(l, q, correct)
      PROVE  UNCHANGED faults
  BY <1>5 DEF Submit
<1> QED BY <1>1, <1>2, <1>3, <1>4, <1>5, <1>6 DEF Next

(* A fault adds to its own kind and takes from none. *)
LEMMA StrikeGrows ==
  ASSUME TypeOK, NEW k \in FaultKinds, Strike(k), NEW b \in FaultKinds
  PROVE  /\ faults'[b] \in Nat /\ faults'[b] >= faults[b]
         /\ k = b => faults'[b] > 0
         /\ k # b => faults'[b] = faults[b]
BY DEF Strike, TypeOK

LEMMA FaultsStay ==
  ASSUME TypeOK, [Next]_vars, NEW b \in FaultKinds, faults[b] > 0
  PROVE  faults'[b] > 0
BY StepStrikes, StrikeGrows DEF TypeOK

-----------------------------------------------------------------------------
(***************************************************************************)
(* Type correctness.                                                       *)
(***************************************************************************)
LEMMA TypeInit == Init => TypeOK
BY IdleLoopType DEF Init, TypeOK, NoDeadline, NotStarting, NoAnswers

LEMMA TypeNext == TypeOK /\ [Next]_vars => TypeOK'
<1> SUFFICES ASSUME TypeOK, [Next]_vars PROVE TypeOK'
  OBVIOUS
<1>t. /\ now \in Nat \ {0}
      /\ stamp \in [Starters -> Nat]
      /\ deadline \in [Questions -> Nat]
      /\ loop \in [Loops -> LoopState]
      /\ stored \in [Players -> [QuestionIds -> Seq(Answer)]]
      /\ starts \in Seq(Start)
      /\ faults \in [FaultKinds -> Nat]
  BY DEF TypeOK
<1>1. ASSUME NEW s \in Starters, StampDeadlines(s) PROVE TypeOK'
  BY <1>1, <1>t DEF StampDeadlines, TypeOK, completion
<1>12. ASSUME NEW s \in Starters, SaveDeadlines(s) PROVE TypeOK'
  <2>1. stamp[s] \in Nat \ {0} /\ stamp' \in [Starters -> Nat]
    BY <1>12, <1>t DEF SaveDeadlines, InHand, NotStarting
  <2>2. deadline' \in [Questions -> Nat]
    BY <1>12, <2>1, DeadlineType DEF SaveDeadlines, Stamped
  <2>3. due' \subseteq Nat
    BY <1>12, <1>t, FinalTTLType DEF SaveDeadlines, TypeOK
  <2>4. [at |-> stamp[s], saved |-> now] \in Start
    BY <1>t, <2>1 DEF Start
  <2>5. starts' \in Seq(Start)
    BY <1>12, <1>t, <2>4 DEF SaveDeadlines
  <2> QED BY <1>12, <2>1, <2>2, <2>3, <2>5 DEF SaveDeadlines, TypeOK
<1>2. CASE CompleteGame
  <2>1. standings' \in [Players -> [QuestionIds -> Seq(Answer)]] /\ recaching' \in Nat
    BY <1>2, <1>t DEF CompleteGame, GetLeaderBoard, GetGame, GetNeither, TypeOK
  <2>2. completed' \in Nat /\ late' \subseteq Players
    BY <1>2, <1>t, AnswersAssumption
    DEF CompleteGame, GetLeaderBoard, GetGame, GetNeither, FirstCompletion, Busy, TypeOK
  <2>3. faults' \in [FaultKinds -> Nat]
    BY <1>2, <1>t, StrikeType
    DEF CompleteGame, GetLeaderBoard, GetGame, GetNeither, FaultKinds
  <2> QED BY <1>2, <1>t, <2>1, <2>2, <2>3 DEF CompleteGame, TypeOK
<1>11. ASSUME NEW s \in Starters, StartUnstamped(s) PROVE TypeOK'
  <2>1. faults' \in [FaultKinds -> Nat]
    BY <1>11, <1>t, StrikeType DEF StartUnstamped, FaultKinds
  <2>2. stamp' \in [Starters -> Nat]
    BY <1>11, <1>t DEF StartUnstamped, NotStarting
  <2> QED BY <1>11, <1>t, <2>1, <2>2 DEF StartUnstamped, TypeOK
<1>10. CASE Recache
  <2>1. deadline' \in [Questions -> Nat] /\ recaching' \in Nat
    BY <1>10, <1>t DEF Recache, NoDeadline, TypeOK
  <2> QED BY <1>10, <2>1 DEF Recache, TypeOK
<1>3. ASSUME NEW l \in Loops, NEW q \in QuestionIds, NEW correct \in BOOLEAN,
             Submit(l, q, correct)
      PROVE  TypeOK'
  <2>1. [IdleLoop EXCEPT !.pc = "grade", !.question = q, !.correct = correct,
                         !.answer.time = now] \in LoopState
    BY <1>t, IdleLoopType DEF LoopState, Answer
  <2>2. loop' \in [Loops -> LoopState]
    BY <1>3, <1>t, <2>1 DEF Submit
  <2> QED BY <1>3, <2>2 DEF Submit, TypeOK, completion
<1>4. ASSUME NEW l \in Loops, Grade(l) PROVE TypeOK'
  <2> DEFINE q     == loop[l].question
             point == CalculateScore(loop[l].correct, loop[l].answer.time, deadline[q])
  <2>1. loop' \in [Loops -> LoopState]
    <3>1. CASE loop' = [loop EXCEPT ![l].pc = "find"]
      BY <1>t, <3>1 DEF LoopState
    <3>2. CASE loop' = [loop EXCEPT ![l] = IdleLoop]
      BY <1>t, <3>2, IdleLoopType
    <3>3. CASE /\ q \in Questions
               /\ loop' = [loop EXCEPT ![l].pc = "find",
                                       ![l].answer.deadline = deadline[q],
                                       ![l].answer.point = point]
      <4>1. /\ loop[l] \in LoopState /\ deadline[q] \in Nat
            /\ loop[l].correct \in BOOLEAN /\ loop[l].answer.time \in Nat
        BY <1>t, <3>3 DEF LoopState, Answer
      <4>2. point \in Nat
        BY <4>1, CalculateScoreType
      <4> HIDE DEF point
      <4> QED BY <1>t, <3>3, <4>1, <4>2 DEF LoopState, Answer
    <3> QED BY <1>4, <3>1, <3>2, <3>3 DEF Grade
  <2>2. faults' \in [FaultKinds -> Nat]
    BY <1>4, <1>t, StrikeType DEF Grade, FaultKinds
  <2> QED BY <1>4, <2>1, <2>2 DEF Grade, TypeOK, completion
<1>5. ASSUME NEW l \in Loops, FindStored(l) PROVE TypeOK'
  <2>1. loop' \in [Loops -> LoopState]
    <3>1. loop' = [loop EXCEPT ![l] = IdleLoop] \/ loop' = [loop EXCEPT ![l].pc = "insert"]
      BY <1>5 DEF FindStored
    <3>2. CASE loop' = [loop EXCEPT ![l] = IdleLoop]
      BY <1>t, <3>2, IdleLoopType
    <3>3. CASE loop' = [loop EXCEPT ![l].pc = "insert"]
      BY <1>t, <3>3 DEF LoopState
    <3> QED BY <3>1, <3>2, <3>3
  <2>2. faults' \in [FaultKinds -> Nat]
    BY <1>5, <1>t, StrikeType DEF FindStored, FaultKinds
  <2> QED BY <1>5, <2>1, <2>2 DEF FindStored, TypeOK, completion
<1>6. ASSUME NEW l \in Loops, InsertAnswer(l) PROVE TypeOK'
  <2>1. loop[l].answer \in Answer
    BY <1>t DEF LoopState
  <2>2. stored' \in [Players -> [QuestionIds -> Seq(Answer)]]
    <3> DEFINE p == Owner[l]
               q == loop[l].question
               new == [stored[p] EXCEPT ![q] = Append(@, loop[l].answer)]
    <3>1. p \in Players
      BY AnswersAssumption
    <3>2. new \in [QuestionIds -> Seq(Answer)]
      <4>1. stored[p] \in [QuestionIds -> Seq(Answer)]
        BY <1>t, <3>1
      <4>2. q \in QuestionIds => Append(stored[p][q], loop[l].answer) \in Seq(Answer)
        BY <2>1, <4>1
      <4> QED BY <4>1, <4>2
    <3>3. stored' = [stored EXCEPT ![p] = new] \/ stored' = stored
      BY <1>6 DEF InsertAnswer
    <3> HIDE DEF new
    <3> QED BY <1>t, <3>1, <3>2, <3>3
  <2>3. faults' \in [FaultKinds -> Nat]
    BY <1>6, <1>t, StrikeType DEF InsertAnswer, FaultKinds
  <2> QED BY <1>6, <1>t, <2>2, <2>3, IdleLoopType DEF InsertAnswer, TypeOK, completion
<1>7. CASE Crash
  BY <1>7, <1>t, StrikeType, IdleLoopType DEF Crash, TypeOK, FaultKinds, NotStarting
<1>8. CASE Tick
  BY <1>8 DEF Tick, TypeOK, completion
<1>9. CASE UNCHANGED vars
  BY <1>9 DEF vars, TypeOK, completion
<1> QED
  BY <1>1, <1>2, <1>3, <1>4, <1>5, <1>6, <1>7, <1>8, <1>9, <1>10, <1>11, <1>12
  DEF Next, HandleAnswer

(* Every reachable state of the answers is of the declared types. *)
THEOREM TypeCorrect == Spec => []TypeOK
BY TypeInit, TypeNext, PTL DEF Spec

-----------------------------------------------------------------------------
(***************************************************************************)
(* A bound on the answers.  A loop that is about to insert counts as if it *)
(* had inserted.  A look-up that works lets a loop go on only while nothing*)
(* is stored, when the loops about to insert are at most those of the      *)
(* player; one that fails adds a loop, and a fault.                        *)
(***************************************************************************)
Inserting(p, q) == {l \in LoopsOf(p) : loop[l].pc = "insert" /\ loop[l].question = q}

Bounded(p, q) ==
  Len(stored[p][q]) + Cardinality(Inserting(p, q))
    <= Cardinality(LoopsOf(p)) + faults["find"]

BoundInv ==
  /\ TypeOK
  /\ \A p \in Players, q \in QuestionIds : Bounded(p, q)

LEMMA AtMostOneMore ==
  ASSUME NEW S, NEW x, IsFiniteSet(S), Cardinality(S) \in Nat
  PROVE  IsFiniteSet(S \cup {x}) /\ Cardinality(S \cup {x}) <= Cardinality(S) + 1
<1>1. CASE x \in S
  BY <1>1, FS_AddElement
<1>2. CASE x \notin S
  BY <1>2, FS_AddElement
<1> QED BY <1>1, <1>2

LEMMA InsertingFinite ==
  ASSUME NEW p, NEW q
  PROVE  /\ IsFiniteSet(Inserting(p, q)) /\ Cardinality(Inserting(p, q)) \in Nat
         /\ IsFiniteSet(LoopsOf(p)) /\ Cardinality(LoopsOf(p)) \in Nat
         /\ Cardinality(Inserting(p, q)) <= Cardinality(LoopsOf(p))
<1>1. IsFiniteSet(LoopsOf(p))
  BY AnswersAssumption, FS_Subset DEF LoopsOf
<1>2. Inserting(p, q) \subseteq LoopsOf(p)
  BY DEF Inserting
<1> QED BY <1>1, <1>2, FS_Subset, FS_CardinalityType

LEMMA BoundInvInit == Init => BoundInv
<1> SUFFICES ASSUME Init, NEW p \in Players, NEW q \in QuestionIds PROVE Bounded(p, q)
  BY TypeInit DEF BoundInv
<1>1. Inserting(p, q) = {}
  BY DEF Init, IdleLoop, Inserting, LoopsOf
<1>2. Cardinality(Inserting(p, q)) = 0
  BY <1>1, FS_EmptySet
<1>3. Len(stored[p][q]) = 0 /\ faults["find"] = 0
  BY DEF Init, FaultKinds, NoAnswers
<1> QED BY <1>2, <1>3, InsertingFinite DEF Bounded

(* No loop comes to insert, and nothing is inserted. *)
LEMMA BoundStays ==
  ASSUME TypeOK, TypeOK', NEW p \in Players, NEW q \in QuestionIds, Bounded(p, q),
         stored'[p][q] = stored[p][q],
         faults'["find"] >= faults["find"],
         \A l \in LoopsOf(p) :
            loop'[l].pc = "insert" /\ loop'[l].question = q => l \in Inserting(p, q)
  PROVE  Bounded(p, q)'
<1>1. /\ faults["find"] \in Nat /\ faults'["find"] \in Nat
      /\ Len(stored[p][q]) \in Nat
  <2>1. "find" \in FaultKinds
    BY DEF FaultKinds
  <2>2. faults["find"] \in Nat
    BY <2>1 DEF TypeOK
  <2>3. faults'["find"] \in Nat
    BY <2>1 DEF TypeOK
  <2>4. stored[p][q] \in Seq(Answer)
    BY DEF TypeOK
  <2> QED BY <2>2, <2>3, <2>4
<1>2. Inserting(p, q)' \subseteq Inserting(p, q)
  BY DEF Inserting, LoopsOf
<1>3. /\ Cardinality(Inserting(p, q)') <= Cardinality(Inserting(p, q))
      /\ Cardinality(Inserting(p, q)') \in Nat
  BY <1>2, InsertingFinite, FS_Subset, FS_CardinalityType
<1>4. /\ Cardinality(Inserting(p, q)) \in Nat
      /\ Cardinality(LoopsOf(p)) \in Nat
      /\ LoopsOf(p)' = LoopsOf(p)
  <2>1. IsFiniteSet(Inserting(p, q)) /\ Cardinality(LoopsOf(p)) \in Nat
    BY InsertingFinite
  <2> QED BY <2>1, FS_CardinalityType DEF LoopsOf
<1> DEFINE all == Cardinality(LoopsOf(p))
           old == Cardinality(Inserting(p, q))
           new == Cardinality(Inserting(p, q)')
<1>5. Len(stored[p][q]) + old <= all + faults["find"]
  BY DEF Bounded
<1>6. Len(stored[p][q]) + new <= all + faults'["find"]
  <2> HIDE DEF all, old, new
  <2>1. all \in Nat /\ old \in Nat /\ new \in Nat /\ new <= old
    BY <1>3, <1>4 DEF all, old, new
  <2> QED BY <1>1, <1>5, <2>1
<1> QED BY <1>4, <1>6 DEF Bounded

LEMMA BoundInvNext == BoundInv /\ [Next]_vars => BoundInv'
<1> SUFFICES ASSUME BoundInv, [Next]_vars, NEW p \in Players, NEW q \in QuestionIds
             PROVE  Bounded(p, q)'
  BY TypeNext DEF BoundInv
<1>t. TypeOK /\ TypeOK' /\ Bounded(p, q)
  BY TypeNext DEF BoundInv
<1>l. /\ loop \in [Loops -> LoopState] /\ \A l \in Loops : loop[l] \in LoopState
      /\ stored \in [Players -> [QuestionIds -> Seq(Answer)]]
      /\ faults \in [FaultKinds -> Nat] /\ faults["find"] \in Nat
      /\ Len(stored[p][q]) \in Nat
  <2>1. /\ loop \in [Loops -> LoopState]
        /\ stored \in [Players -> [QuestionIds -> Seq(Answer)]]
        /\ faults \in [FaultKinds -> Nat]
    BY <1>t DEF TypeOK
  <2>2. stored[p][q] \in Seq(Answer)
    BY <2>1
  <2>3. Len(stored[p][q]) \in Nat
    BY <2>2
  <2>4. faults["find"] \in Nat
    BY <2>1 DEF FaultKinds
  <2>5. \A l \in Loops : loop[l] \in LoopState
    BY <2>1
  <2> QED BY <2>1, <2>3, <2>4, <2>5
<1>f. ASSUME NEW k \in FaultKinds, Strike(k)
      PROVE  faults'["find"] >= faults["find"]
  BY <1>f, <1>l DEF Strike
<1>q. ASSUME UNCHANGED stored, UNCHANGED faults \/ \E k \in FaultKinds : Strike(k),
             \A l \in Loops : loop'[l] = loop[l] \/ loop'[l].pc # "insert"
      PROVE  Bounded(p, q)'
  <2>1. faults'["find"] >= faults["find"]
    BY <1>q, <1>l, <1>f
  <2>2. \A l \in LoopsOf(p) :
          loop'[l].pc = "insert" /\ loop'[l].question = q => l \in Inserting(p, q)
    BY <1>q DEF Inserting, LoopsOf
  <2> QED BY <1>q, <1>t, <2>1, <2>2, BoundStays
<1>1. CASE \/ \E s \in Starters : StampDeadlines(s) \/ SaveDeadlines(s) \/ StartUnstamped(s)
           \/ CompleteGame \/ Recache \/ Tick \/ UNCHANGED vars
  <2>1. UNCHANGED <<stored, loop>>
    BY <1>1 DEF StampDeadlines, SaveDeadlines, StartUnstamped, CompleteGame, Recache, Tick, vars
  <2>2. UNCHANGED faults \/ \E k \in FaultKinds : Strike(k)
    BY StepStrikes
  <2> QED BY <1>q, <2>1, <2>2
<1>2. ASSUME NEW l \in Loops, NEW n \in QuestionIds, NEW correct \in BOOLEAN,
             Submit(l, n, correct)
      PROVE  Bounded(p, q)'
  <2>1. loop'[l].pc = "grade"
    BY <1>2, <1>l, IdleLoopType DEF Submit, LoopState
  <2>2. \A k \in Loops \ {l} : loop'[k] = loop[k]
    BY <1>2, <1>l DEF Submit
  <2> QED BY <1>2, <1>q, <2>1, <2>2 DEF Submit
<1>3. ASSUME NEW l \in Loops, Grade(l) PROVE Bounded(p, q)'
  <2>1. loop'[l].pc \in {"find", "idle"}
    BY <1>3, <1>l, IdleLoopType DEF Grade, IdleLoop, LoopState
  <2>2. \A k \in Loops \ {l} : loop'[k] = loop[k]
    BY <1>3, <1>l DEF Grade
  <2>3. UNCHANGED stored /\ (UNCHANGED faults \/ \E k \in FaultKinds : Strike(k))
    BY <1>3 DEF Grade, FaultKinds
  <2> QED BY <1>q, <2>1, <2>2, <2>3
<1>4. ASSUME NEW l \in Loops, FindStored(l) PROVE Bounded(p, q)'
  <2>0. CASE loop' = [loop EXCEPT ![l] = IdleLoop] /\ UNCHANGED faults
    <3>1. loop'[l].pc # "insert" /\ \A k \in Loops \ {l} : loop'[k] = loop[k]
      BY <1>l, <2>0 DEF IdleLoop
    <3> QED BY <1>4, <1>q, <2>0, <3>1 DEF FindStored
  <2>1. CASE loop' = [loop EXCEPT ![l].pc = "insert"]
    <3>1. \A k \in Loops : loop'[k].question = loop[k].question
      BY <1>l, <2>1 DEF LoopState
    <3>2. UNCHANGED stored /\ \A k \in Loops \ {l} : loop'[k] = loop[k]
      BY <1>4, <1>l, <2>1 DEF FindStored
    <3>3. faults'["find"] >= faults["find"]
      BY <1>4, <1>l, <1>f DEF FindStored, FaultKinds
    <3>4. CASE ~(Owner[l] = p /\ loop[l].question = q)
      <4>1. \A k \in LoopsOf(p) :
              loop'[k].pc = "insert" /\ loop'[k].question = q => k \in Inserting(p, q)
        BY <3>1, <3>2, <3>4 DEF Inserting, LoopsOf
      <4> QED BY <1>t, <3>2, <3>3, <4>1, BoundStays
    <3>5. CASE Owner[l] = p /\ loop[l].question = q /\ stored[p][q] = <<>>
      <4>1. Inserting(p, q)' \subseteq LoopsOf(p)
        BY DEF Inserting, LoopsOf
      <4>2. /\ Cardinality(Inserting(p, q)') <= Cardinality(LoopsOf(p))
            /\ Cardinality(Inserting(p, q)') \in Nat
        BY <4>1, InsertingFinite, FS_Subset, FS_CardinalityType
      <4>3. Len(stored'[p][q]) = 0
        BY <3>2, <3>5
      <4>4. faults'["find"] \in Nat /\ faults'["find"] >= 0
        BY <3>3, <1>t DEF TypeOK, FaultKinds
      <4>5. Cardinality(LoopsOf(p)) \in Nat /\ LoopsOf(p)' = LoopsOf(p)
        BY InsertingFinite DEF LoopsOf
      <4> DEFINE new == Cardinality(Inserting(p, q)')
                 all == Cardinality(LoopsOf(p))
      <4>6. new \in Nat /\ all \in Nat /\ new <= all
        BY <4>2, <4>5
      <4> HIDE DEF new, all
      <4>7. Len(stored'[p][q]) + new <= all + faults'["find"]
        BY <4>3, <4>4, <4>6
      <4> QED BY <4>5, <4>7 DEF Bounded, new, all
    <3>6. CASE Owner[l] = p /\ loop[l].question = q /\ Strike("find")
      <4>1. Inserting(p, q)' \subseteq Inserting(p, q) \cup {l}
        BY <3>1, <3>2 DEF Inserting, LoopsOf
      <4>2. /\ IsFiniteSet(Inserting(p, q) \cup {l})
            /\ Cardinality(Inserting(p, q) \cup {l}) <= Cardinality(Inserting(p, q)) + 1
        BY InsertingFinite, AtMostOneMore
      <4>3. /\ Cardinality(Inserting(p, q)') <= Cardinality(Inserting(p, q) \cup {l})
            /\ Cardinality(Inserting(p, q)') \in Nat
            /\ Cardinality(Inserting(p, q) \cup {l}) \in Nat
        BY <4>1, <4>2, FS_Subset, FS_CardinalityType
      <4>4. faults'["find"] = faults["find"] + 1
        BY <3>6, <1>l DEF Strike, FaultKinds
      <4>5. Cardinality(Inserting(p, q)') <= Cardinality(Inserting(p, q)) + 1
        BY <4>2, <4>3, InsertingFinite
      <4>6. stored'[p][q] = stored[p][q] /\ LoopsOf(p)' = LoopsOf(p)
        BY <3>2 DEF LoopsOf
      <4>7. Cardinality(LoopsOf(p)) \in Nat /\ Cardinality(Inserting(p, q)) \in Nat
        BY InsertingFinite
      <4> DEFINE new == Cardinality(Inserting(p, q)')
                 old == Cardinality(Inserting(p, q))
                 all == Cardinality(LoopsOf(p))
                 len == Len(stored[p][q])
      <4>8. len + old <= all + faults["find"]
        BY <1>t DEF Bounded
      <4>9. len \in Nat /\ old \in Nat /\ new \in Nat /\ all \in Nat /\ new <= old + 1
        BY <1>l, <4>3, <4>5, <4>7
      <4> HIDE DEF new, old, all, len
      <4>10. len + new <= all + faults'["find"]
        BY <1>l, <4>4, <4>8, <4>9
      <4> QED BY <4>6, <4>10 DEF Bounded, new, all, len
    <3> QED BY <1>4, <2>1, <3>4, <3>5, <3>6, <2>0 DEF FindStored, AlreadyAnswered
  <2> QED BY <1>4, <2>0, <2>1 DEF FindStored
<1>5. ASSUME NEW l \in Loops, InsertAnswer(l) PROVE Bounded(p, q)'
  <2> DEFINE r == Owner[l]
             n == loop[l].question
  <2>1. loop' = [loop EXCEPT ![l] = IdleLoop] /\ r \in Players
    BY <1>5, AnswersAssumption DEF InsertAnswer
  <2>2. loop'[l].pc = "idle" /\ \A k \in Loops \ {l} : loop'[k] = loop[k]
    BY <1>l, <2>1 DEF IdleLoop
  <2>3. faults'["find"] >= faults["find"] /\ faults'["find"] \in Nat
    BY <1>5, <1>l, <1>t, <1>f DEF InsertAnswer, FaultKinds, TypeOK
  <2>4. stored'[p][q] = stored[p][q] \/ stored'[p][q] = Append(stored[p][q], loop[l].answer)
    <3>1. stored[p] \in [QuestionIds -> Seq(Answer)]
      BY <1>l
    <3>2. \/ stored'[p] = stored[p]
          \/ stored'[p] = [stored[p] EXCEPT ![n] = Append(@, loop[l].answer)]
      BY <1>5, <1>l, <2>1 DEF InsertAnswer
    <3> QED BY <3>1, <3>2
  <2>5. \A k \in LoopsOf(p) :
          loop'[k].pc = "insert" /\ loop'[k].question = q => k \in Inserting(p, q)
    BY <2>2 DEF Inserting, LoopsOf
  <2>6. CASE stored'[p][q] = stored[p][q]
    BY <1>t, <2>3, <2>5, <2>6, BoundStays
  <2>7. CASE r = p /\ n = q /\ stored'[p][q] = Append(stored[p][q], loop[l].answer)
    <3>1. l \in Inserting(p, q)
      BY <1>5, <2>7 DEF InsertAnswer, Inserting, LoopsOf
    <3>2. Inserting(p, q)' = Inserting(p, q) \ {l}
      BY <2>2 DEF Inserting, LoopsOf
    <3>3. Cardinality(Inserting(p, q)') = Cardinality(Inserting(p, q)) - 1
      BY <3>1, <3>2, InsertingFinite, FS_RemoveElement
    <3>4. Len(stored'[p][q]) = Len(stored[p][q]) + 1
      BY <1>l, <2>7
    <3>5. LoopsOf(p)' = LoopsOf(p)
      BY DEF LoopsOf
    <3> DEFINE new == Cardinality(Inserting(p, q)')
               old == Cardinality(Inserting(p, q))
               all == Cardinality(LoopsOf(p))
               len == Len(stored[p][q])
    <3>6. len + old <= all + faults["find"]
      BY <1>t DEF Bounded
    <3>7. len \in Nat /\ old \in Nat /\ all \in Nat /\ new = old - 1
      BY <1>l, <3>3, InsertingFinite
    <3>8. Len(stored'[p][q]) = len + 1
      BY <3>4
    <3> HIDE DEF new, old, all, len
    <3>9. len + 1 + new <= all + faults'["find"]
      BY <1>l, <2>3, <3>6, <3>7
    <3> QED BY <3>5, <3>8, <3>9 DEF Bounded, new, all
  <2>8. CASE ~(r = p /\ n = q)
    <3>1. stored[r] \in [QuestionIds -> Seq(Answer)]
      BY <1>l, <2>1
    <3>2. stored'[p][q] = stored[p][q]
      <4>1. CASE stored' = stored
        BY <4>1
      <4>2. CASE stored' = [stored EXCEPT ![r][n] = Append(@, loop[l].answer)]
        BY <1>l, <2>1, <2>8, <3>1, <4>2
      <4> QED BY <1>5, <4>1, <4>2 DEF InsertAnswer
    <3> QED BY <1>t, <2>3, <2>5, <3>2, BoundStays
  <2> QED BY <2>4, <2>6, <2>7, <2>8
<1>6. CASE Crash
  BY <1>6, <1>q DEF Crash, IdleLoop, FaultKinds
<1> QED
  BY <1>1, <1>2, <1>3, <1>4, <1>5, <1>6 DEF Next, HandleAnswer

(***************************************************************************)
(* A player answers a question at most once per connection and failed      *)
(* look-up, for any number of players, connections, starts and restarts.   *)
(***************************************************************************)
THEOREM AnswersBoundedCorrect == Spec => []AnswersBounded
<1>1. BoundInv => AnswersBounded
  <2> SUFFICES ASSUME BoundInv, NEW p \in Players, NEW q \in QuestionIds
               PROVE  Len(stored[p][q]) <= Cardinality(LoopsOf(p)) + faults["find"]
    BY DEF AnswersBounded
  <2>1. Len(stored[p][q]) \in Nat /\ faults["find"] \in Nat
    BY DEF BoundInv, TypeOK, FaultKinds
  <2>2. Len(stored[p][q]) + Cardinality(Inserting(p, q))
          <= Cardinality(LoopsOf(p)) + faults["find"]
    BY DEF BoundInv, Bounded
  <2> QED BY <2>1, <2>2, InsertingFinite
<1> QED BY <1>1, BoundInvInit, BoundInvNext, PTL DEF Spec

-----------------------------------------------------------------------------
(***************************************************************************)
(* Graded answers.  The deadlines are those of one of the starts, so that  *)
(* points, once given, were earned inside the window of a start; a start   *)
(* that comes later takes no window away.                                  *)
(***************************************************************************)
Earned(a, q) ==
  a.point > 0 =>
    /\ q \in Questions
    /\ a.point = BaseScore + Bonus(a.deadline - a.time)
    /\ \E i \in DOMAIN starts : InWindow(a, q, starts[i].at)

GradedInv ==
  /\ TypeOK
  /\ \A q \in Questions : \/ deadline[q] = NoDeadline
                          \/ \E i \in DOMAIN starts :
                                deadline[q] = starts[i].at + ValidAnswerTimeOut * q
  /\ \A l \in Loops :
       /\ loop[l].pc = "grade" => loop[l].answer.time > 0 /\ loop[l].answer.point = 0
       /\ loop[l].pc \in {"find", "insert"} => Earned(loop[l].answer, loop[l].question)
  /\ \A p \in Players, q \in QuestionIds, i \in Nat :
       i \in DOMAIN stored[p][q] => Earned(stored[p][q][i], q)

LEMMA GradedInvInit == Init => GradedInv
<1> SUFFICES ASSUME Init PROVE GradedInv
  OBVIOUS
<1>1. \A l \in Loops : loop[l].pc = "idle"
  BY DEF Init, IdleLoop
<1>2. \A p \in Players, q \in QuestionIds : stored[p][q] = <<>>
  BY DEF Init, NoAnswers
<1> QED BY <1>1, <1>2, TypeInit DEF Init, GradedInv

(* What SaveDeadlines adds to the starts is one. *)
LEMMA NewStart ==
  ASSUME TypeOK, NEW s \in Starters, SaveDeadlines(s)
  PROVE  [at |-> stamp[s], saved |-> now] \in Start
BY DEF SaveDeadlines, InHand, NotStarting, Start, TypeOK

(* What was earned stays earned when a start is added. *)
LEMMA EarnedStays ==
  ASSUME starts \in Seq(Start), NEW a, NEW q, Earned(a, q),
         \/ UNCHANGED starts
         \/ \E new \in Start : starts' = Append(starts, new)
  PROVE  Earned(a, q)'
<1>1. \A i \in DOMAIN starts : i \in DOMAIN starts' /\ starts'[i] = starts[i]
  <2>1. CASE UNCHANGED starts
    BY <2>1
  <2>2. ASSUME NEW new \in Start, starts' = Append(starts, new)
        PROVE  \A i \in DOMAIN starts : i \in DOMAIN starts' /\ starts'[i] = starts[i]
    <3>1. \A i \in DOMAIN starts : /\ i \in DOMAIN Append(starts, new)
                                   /\ Append(starts, new)[i] = starts[i]
      OBVIOUS
    <3> QED BY <2>2, <3>1
  <2> QED BY <2>1, <2>2
<1> QED BY <1>1 DEF Earned, InWindow

LEMMA GradedInvNext == GradedInv /\ [Next]_vars => GradedInv'
<1> SUFFICES ASSUME GradedInv, [Next]_vars PROVE GradedInv'
  OBVIOUS
<1>t. TypeOK /\ TypeOK'
  BY TypeNext DEF GradedInv
<1>l. /\ loop \in [Loops -> LoopState] /\ \A l \in Loops : loop[l] \in LoopState
      /\ stored \in [Players -> [QuestionIds -> Seq(Answer)]]
      /\ starts \in Seq(Start)
      /\ now \in Nat \ {0}
  BY <1>t DEF TypeOK
<1>q. ASSUME UNCHANGED <<deadline, starts, stored>>,
             NEW l \in Loops, \A k \in Loops \ {l} : loop'[k] = loop[k],
             loop'[l].pc = "grade" => loop'[l].answer.time > 0 /\ loop'[l].answer.point = 0,
             loop'[l].pc \in {"find", "insert"} => Earned(loop'[l].answer, loop'[l].question)
      PROVE  GradedInv'
  BY <1>q, <1>t DEF GradedInv, Earned, InWindow
<1>1. ASSUME NEW s \in Starters, SaveDeadlines(s) PROVE GradedInv'
  <2> DEFINE new == [at |-> stamp[s], saved |-> now]
  <2>0. starts' = Append(starts, new) /\ new \in Start /\ UNCHANGED <<loop, stored>>
    BY <1>1, <1>t, NewStart DEF SaveDeadlines
  <2> HIDE DEF new
  <2>1. /\ UNCHANGED <<loop, stored>>
        /\ \E e \in Start : starts' = Append(starts, e)
    BY <2>0
  <2>2. \A q \in Questions : \E i \in DOMAIN starts' :
          deadline'[q] = starts'[i].at + ValidAnswerTimeOut * q
    <3>1. Len(starts) + 1 \in DOMAIN starts' /\ starts'[Len(starts) + 1] = new
      BY <1>l, <2>0
    <3>2. \A q \in Questions : deadline'[q] = new.at + ValidAnswerTimeOut * q
      BY <1>1 DEF SaveDeadlines, Stamped, new
    <3> QED BY <3>1, <3>2
  <2>3. \A l \in Loops : loop[l].pc \in {"find", "insert"} =>
                         Earned(loop[l].answer, loop[l].question)'
    <3>1. \A l \in Loops : loop[l].pc \in {"find", "insert"} =>
                           Earned(loop[l].answer, loop[l].question)
      BY DEF GradedInv
    <3>2. \A a, q : Earned(a, q) => Earned(a, q)'
      BY <1>l, <2>1, EarnedStays
    <3> QED BY <2>1, <3>1, <3>2 DEF Earned, InWindow
  <2>4. \A p \in Players, q \in QuestionIds, i \in Nat :
          i \in DOMAIN stored'[p][q] => Earned(stored[p][q][i], q)'
    <3>1. \A a, q : Earned(a, q) => Earned(a, q)'
      BY <1>l, <2>1, EarnedStays
    <3> QED BY <2>1, <3>1 DEF GradedInv, Earned, InWindow
  <2> QED BY <1>t, <2>1, <2>2, <2>3, <2>4 DEF GradedInv
<1>2. CASE \/ \E s \in Starters : StampDeadlines(s) \/ StartUnstamped(s)
           \/ CompleteGame \/ Recache \/ Tick \/ UNCHANGED vars
  <2>1. /\ UNCHANGED <<loop, stored, starts>>
        /\ \A q \in Questions : deadline'[q] = deadline[q] \/ deadline'[q] = NoDeadline
    BY <1>2 DEF StampDeadlines, StartUnstamped, CompleteGame, Recache, Tick, vars
  <2> QED BY <1>t, <2>1 DEF GradedInv, Earned, InWindow
<1>3. ASSUME NEW l \in Loops, NEW q \in QuestionIds, NEW correct \in BOOLEAN,
             Submit(l, q, correct)
      PROVE  GradedInv'
  <2>1. /\ loop'[l].pc = "grade" /\ loop'[l].answer.time = now
        /\ loop'[l].answer.point = 0
    BY <1>3, <1>l DEF Submit, IdleLoop
  <2>2. \A k \in Loops \ {l} : loop'[k] = loop[k]
    BY <1>3, <1>l DEF Submit
  <2> QED BY <1>3, <1>q, <1>l, <2>1, <2>2 DEF Submit
<1>4. ASSUME NEW l \in Loops, Grade(l) PROVE GradedInv'
  <2> DEFINE q     == loop[l].question
             time  == loop[l].answer.time
             point == CalculateScore(loop[l].correct, time, deadline[q])
  <2>0. /\ UNCHANGED <<deadline, starts, stored>>
        /\ \A k \in Loops \ {l} : loop'[k] = loop[k]
    BY <1>4, <1>l DEF Grade
  <2>1. time \in Nat /\ time > 0 /\ loop[l].answer.point = 0 /\ loop[l].correct \in BOOLEAN
    BY <1>4, <1>l DEF Grade, GradedInv, LoopState, Answer
  <2>2. CASE loop' = [loop EXCEPT ![l].pc = "find"]
    <3>1. loop'[l].pc = "find" /\ loop'[l].answer.point = 0
      BY <1>l, <2>1, <2>2 DEF LoopState
    <3> QED BY <1>q, <2>0, <3>1 DEF Earned
  <2>3. CASE loop' = [loop EXCEPT ![l] = IdleLoop]
    <3>1. loop'[l].pc = "idle"
      BY <1>l, <2>3 DEF IdleLoop
    <3> QED BY <1>q, <2>0, <3>1
  <2>4. CASE /\ q \in Questions
             /\ ~TooQuick(time, deadline[q])
             /\ loop' = [loop EXCEPT ![l].pc = "find",
                                     ![l].answer.deadline = deadline[q],
                                     ![l].answer.point = point]
    <3>1. /\ loop'[l].pc = "find" /\ loop'[l].question = q
          /\ loop'[l].answer.time = time /\ loop'[l].answer.deadline = deadline[q]
          /\ loop'[l].answer.point = point
      BY <1>l, <2>4 DEF LoopState, Answer
    <3>2. deadline[q] \in Nat
      BY <1>t, <2>4 DEF TypeOK
    <3>3. ASSUME point > 0
          PROVE  /\ point = BaseScore + Bonus(deadline[q] - time)
                 /\ time <= deadline[q]
                 /\ deadline[q] - ValidAnswerTimeOut <= time
      BY <2>1, <2>4, <3>2, <3>3, AnswersAssumption DEF CalculateScore, TooQuick
    <3>4. ASSUME point > 0
          PROVE  \E i \in DOMAIN starts : deadline[q] = starts[i].at + ValidAnswerTimeOut * q
      BY <2>1, <2>4, <3>2, <3>3, <3>4 DEF GradedInv, NoDeadline
    <3>5. Earned(loop'[l].answer, loop'[l].question)
      <4> HIDE DEF point
      <4> QED BY <2>4, <3>1, <3>3, <3>4 DEF Earned, InWindow
    <3> QED BY <1>q, <2>0, <3>1, <3>5
  <2> QED BY <1>4, <2>2, <2>3, <2>4 DEF Grade
<1>5. ASSUME NEW l \in Loops, FindStored(l) PROVE GradedInv'
  <2>0. /\ UNCHANGED <<deadline, starts, stored>>
        /\ \A k \in Loops \ {l} : loop'[k] = loop[k]
    BY <1>5, <1>l DEF FindStored
  <2>1. CASE loop' = [loop EXCEPT ![l] = IdleLoop]
    <3>1. loop'[l].pc = "idle"
      BY <1>l, <2>1 DEF IdleLoop
    <3> QED BY <1>q, <2>0, <3>1
  <2>2. CASE loop' = [loop EXCEPT ![l].pc = "insert"]
    <3>1. /\ loop'[l].pc = "insert" /\ loop'[l].answer = loop[l].answer
          /\ loop'[l].question = loop[l].question
      BY <1>l, <2>2 DEF LoopState
    <3>2. Earned(loop[l].answer, loop[l].question)
      BY <1>5 DEF FindStored, GradedInv
    <3> QED BY <1>q, <2>0, <3>1, <3>2
  <2> QED BY <1>5, <2>1, <2>2 DEF FindStored
<1>6. ASSUME NEW l \in Loops, InsertAnswer(l) PROVE GradedInv'
  <2> DEFINE a == loop[l].answer
  <2>0. /\ UNCHANGED <<deadline, starts>> /\ Owner[l] \in Players
        /\ loop' = [loop EXCEPT ![l] = IdleLoop]
    BY <1>6, AnswersAssumption DEF InsertAnswer
  <2>1. Earned(a, loop[l].question) /\ a \in Answer
    BY <1>6, <1>l DEF InsertAnswer, GradedInv, LoopState
  <2>2. ASSUME NEW p \in Players, NEW q \in QuestionIds, NEW i \in Nat,
               i \in DOMAIN stored'[p][q]
        PROVE  Earned(stored'[p][q][i], q)
    <3>1. stored[p][q] \in Seq(Answer)
      BY <1>l
    <3>2. \/ stored'[p][q] = stored[p][q]
          \/ q = loop[l].question /\ stored'[p][q] = Append(stored[p][q], a)
      <4>1. stored[p] \in [QuestionIds -> Seq(Answer)]
        BY <1>l
      <4>2. \/ stored'[p] = stored[p]
            \/ stored'[p] = [stored[p] EXCEPT ![loop[l].question] = Append(@, a)]
        BY <1>6, <1>l, <2>0 DEF InsertAnswer
      <4> HIDE DEF a
      <4> QED BY <4>1, <4>2
    <3>3. ASSUME NEW s \in Seq(Answer), NEW e \in Answer, i \in DOMAIN Append(s, e)
          PROVE  \/ i \in DOMAIN s /\ Append(s, e)[i] = s[i]
                 \/ Append(s, e)[i] = e
      BY <3>3
    <3>4. CASE stored'[p][q] = stored[p][q]
      BY <2>2, <3>4 DEF GradedInv
    <3>5. CASE q = loop[l].question /\ stored'[p][q] = Append(stored[p][q], a)
      <4>1. \/ i \in DOMAIN stored[p][q] /\ stored'[p][q][i] = stored[p][q][i]
            \/ stored'[p][q][i] = a
        <5> HIDE DEF a
        <5> QED BY <2>1, <2>2, <3>1, <3>3, <3>5
      <4>2. CASE i \in DOMAIN stored[p][q] /\ stored'[p][q][i] = stored[p][q][i]
        BY <4>2 DEF GradedInv
      <4>3. CASE stored'[p][q][i] = a
        BY <2>1, <3>5, <4>3
      <4> QED BY <4>1, <4>2, <4>3
    <3> QED BY <3>2, <3>4, <3>5
  <2>3. \A k \in Loops : loop'[k] = loop[k] \/ loop'[k].pc = "idle"
    BY <1>l, <2>0 DEF IdleLoop
  <2> QED BY <1>t, <2>0, <2>2, <2>3 DEF GradedInv, Earned, InWindow
<1>7. CASE Crash
  <2>1. \A l \in Loops : loop'[l].pc = "idle"
    BY <1>7 DEF Crash, IdleLoop
  <2> QED BY <1>7, <1>t, <2>1 DEF Crash, GradedInv, Earned, InWindow
<1> QED
  BY <1>1, <1>2, <1>3, <1>4, <1>5, <1>6, <1>7 DEF Next, HandleAnswer

(***************************************************************************)
(* Points are only given inside the answer window of one of the starts, for*)
(* any number of connections, questions, starts and faults.                *)
(***************************************************************************)
THEOREM PointsInWindowCorrect == Spec => []PointsInWindow
<1>1. GradedInv => PointsInWindow
  <2> SUFFICES ASSUME GradedInv, NEW p \in Players, NEW q \in QuestionIds,
                      NEW i \in DOMAIN stored[p][q], stored[p][q][i].point > 0
               PROVE  \E k \in DOMAIN starts : InWindow(stored[p][q][i], q, starts[k].at)
    BY DEF PointsInWindow, Answered
  <2>1. stored[p][q] \in Seq(Answer)
    BY DEF GradedInv, TypeOK
  <2>2. i \in Nat
    BY <2>1
  <2> QED BY <2>2 DEF GradedInv, Earned
<1> QED BY <1>1, GradedInvInit, GradedInvNext, PTL DEF Spec

-----------------------------------------------------------------------------
(***************************************************************************)
(* The bonus: never more than MaxBonus, never less for more time left.     *)
(***************************************************************************)
LEMMA ProductMono ==
  ASSUME NEW m \in Nat, NEW x \in Nat, NEW y \in Nat, x <= y
  PROVE  m * x <= m * y
OBVIOUS

LEMMA QuotientMono ==
  ASSUME NEW a \in Nat, NEW b \in Nat, NEW d \in Nat \ {0}, a <= b
  PROVE  a \div d <= b \div d
OBVIOUS

LEMMA QuotientOfProduct ==
  ASSUME NEW m \in Nat, NEW d \in Nat \ {0}
  PROVE  (m * d) \div d = m
OBVIOUS

LEMMA BonusMono ==
  ASSUME NEW x \in Nat, NEW y \in Nat, x <= y
  PROVE  Bonus(x) \in Nat /\ Bonus(x) <= Bonus(y) /\ Bonus(y) <= MaxBonus
<1> DEFINE Part(z) == (MaxBonus * z) \div BonusDeadline
<1>1. \A z \in Nat : Part(z) \in Nat
  BY AnswersAssumption, ProductType, QuotientType
<1>2. ASSUME NEW v \in Nat, NEW w \in Nat, v <= w PROVE Part(v) <= Part(w)
  BY <1>2, AnswersAssumption, ProductType, ProductMono, QuotientMono
<1>3. Part(BonusDeadline) = MaxBonus
  BY AnswersAssumption, QuotientOfProduct
<1>4. \A z \in Nat : Bonus(z) = IF z >= BonusDeadline THEN MaxBonus ELSE Part(z)
  BY DEF Bonus
<1>5. BonusDeadline \in Nat /\ MaxBonus \in Nat
  BY AnswersAssumption
<1> HIDE DEF Part
<1> QED BY <1>1, <1>2, <1>3, <1>4, <1>5

(***************************************************************************)
(* The earlier of two correct answers against one deadline gets no fewer   *)
(* points, for any scoring configuration.                                  *)
(***************************************************************************)
THEOREM EarlierIsNoWorseCorrect == Spec => []EarlierIsNoWorse
<1>1. GradedInv => EarlierIsNoWorse
  <2> SUFFICES ASSUME GradedInv PROVE EarlierIsNoWorse
    OBVIOUS
  <2>1. ASSUME NEW p \in Players, NEW q \in QuestionIds, NEW a \in Answered(p, q)
        PROVE  /\ a \in Answer
               /\ a.point > 0 => /\ a.point = BaseScore + Bonus(a.deadline - a.time)
                                 /\ a.time <= a.deadline
    <3>1. stored[p][q] \in Seq(Answer)
      BY DEF GradedInv, TypeOK
    <3>2. PICK i \in DOMAIN stored[p][q] : a = stored[p][q][i]
      BY <2>1 DEF Answered
    <3>3. i \in Nat /\ a \in Answer
      BY <3>1, <3>2
    <3>4. Earned(a, q)
      BY <3>2, <3>3 DEF GradedInv
    <3> QED BY <3>3, <3>4 DEF Earned, InWindow
  <2>2. ASSUME NEW p \in Players, NEW q \in QuestionIds, NEW a \in Answered(p, q)
        PROVE  a.point <= BaseScore + MaxBonus
    <3>1. a.point \in Nat /\ a.time \in Nat /\ a.deadline \in Nat
      BY <2>1 DEF Answer
    <3>2. CASE a.point > 0
      <4>1. a.deadline - a.time \in Nat
        BY <2>1, <3>1, <3>2
      <4>2. Bonus(a.deadline - a.time) \in Nat /\ Bonus(a.deadline - a.time) <= MaxBonus
        BY <4>1, BonusMono
      <4> QED BY <2>1, <3>2, <4>2, AnswersAssumption
    <3> QED BY <3>1, <3>2, AnswersAssumption
  <2>3. ASSUME NEW p \in Players, NEW r \in Players, NEW q \in QuestionIds,
               NEW a \in Answered(p, q), NEW b \in Answered(r, q),
               a.point > 0, b.point > 0, a.deadline = b.deadline, a.time <= b.time
        PROVE  a.point >= b.point
    <3>1. /\ a.time \in Nat /\ b.time \in Nat /\ a.deadline \in Nat
          /\ b.time <= a.deadline
      BY <2>1, <2>3 DEF Answer
    <3> DEFINE x == a.deadline - b.time
               y == a.deadline - a.time
    <3>2. x \in Nat /\ y \in Nat /\ x <= y
      BY <2>3, <3>1
    <3>3. a.point = BaseScore + Bonus(y) /\ b.point = BaseScore + Bonus(x)
      BY <2>1, <2>3
    <3> HIDE DEF x, y
    <3>4. Bonus(x) \in Nat /\ Bonus(y) \in Nat /\ Bonus(x) <= Bonus(y)
      BY <3>2, BonusMono
    <3> QED BY <3>3, <3>4, AnswersAssumption
  <2> QED BY <2>2, <2>3 DEF EarlierIsNoWorse
<1> QED BY <1>1, GradedInvInit, GradedInvNext, PTL DEF Spec

-----------------------------------------------------------------------------
(***************************************************************************)
(* Completion.  Unless a start could not set the deadlines, every task is  *)
(* due a FinalTTL after one of the starts, and the FinalTTL is no shorter  *)
(* than the time to the last deadline.                                     *)
(***************************************************************************)
DueAfterStart ==
  /\ \A time \in due : \E i \in DOMAIN starts : time >= starts[i].at + FinalTTL
  /\ completed # 0 => \E i \in DOMAIN starts : completed >= starts[i].at + FinalTTL

CompletionInv ==
  /\ GradedInv
  /\ \A s \in Starters : stamp[s] <= now
  /\ faults["stamp"] = 0 => DueAfterStart

LEMMA FinalTTLCoversDeadlines ==
  ASSUME NEW q \in Questions
  PROVE  ValidAnswerTimeOut * q <= FinalTTL
<1>1. NumQuestions \in Nat /\ NumQuestions >= 1 /\ q \in Nat /\ q <= NumQuestions
  BY AnswersAssumption DEF Questions
<1>2. NumQuestions * (NumQuestions + 1) >= NumQuestions * 2
  BY <1>1, ProductMono
<1>3. (NumQuestions * 2) \div 2 = NumQuestions
  BY <1>1, QuotientOfProduct
<1>4. /\ NumQuestions * (NumQuestions + 1) \in Nat
      /\ NumQuestions * 2 \in Nat
  BY <1>1, ProductType
<1>5. (NumQuestions * (NumQuestions + 1)) \div 2 >= NumQuestions
  BY <1>1, <1>2, <1>3, <1>4, QuotientMono
<1> DEFINE n == (NumQuestions * (NumQuestions + 1)) \div 2
<1>6. n \in Nat /\ q <= n
  BY <1>1, <1>4, <1>5, QuotientType
<1> HIDE DEF n
<1>7. ValidAnswerTimeOut * q <= ValidAnswerTimeOut * n
  BY <1>1, <1>6, AnswersAssumption, ProductMono
<1> QED BY <1>7 DEF FinalTTL, n

LEMMA StartTime ==
  ASSUME NEW s \in Seq(Start), NEW i \in DOMAIN s
  PROVE  s[i].at \in Nat \ {0}
<1>1. s[i] \in Start
  OBVIOUS
<1> QED BY <1>1 DEF Start

LEMMA CompletionInvInit == Init => CompletionInv
BY GradedInvInit, AnswersAssumption DEF Init, CompletionInv, DueAfterStart, NotStarting

LEMMA StampsNext ==
  ASSUME CompletionInv, [Next]_vars
  PROVE  \A s \in Starters : stamp'[s] <= now'
<1>t. /\ stamp \in [Starters -> Nat] /\ now \in Nat
      /\ \A s \in Starters : stamp[s] \in Nat /\ stamp[s] <= now
  BY DEF CompletionInv, GradedInv, TypeOK
<1>1. ASSUME NEW s \in Starters, StampDeadlines(s) PROVE \A r \in Starters : stamp'[r] <= now'
  BY <1>1, <1>t DEF StampDeadlines
<1>2. ASSUME NEW s \in Starters, SaveDeadlines(s) \/ StartUnstamped(s)
      PROVE  \A r \in Starters : stamp'[r] <= now'
  BY <1>2, <1>t DEF SaveDeadlines, StartUnstamped, NotStarting
<1>3. CASE Crash
  BY <1>3, <1>t DEF Crash, NotStarting
<1>4. CASE Tick
  BY <1>4, <1>t DEF Tick
<1>5. CASE UNCHANGED <<now, stamp>>
  BY <1>5, <1>t
<1> QED
  BY <1>1, <1>2, <1>3, <1>4, <1>5
  DEF Next, Submit, HandleAnswer, Grade, FindStored, InsertAnswer, CompleteGame, Recache, vars

LEMMA CompletionInvNext == CompletionInv /\ [Next]_vars => CompletionInv'
<1> SUFFICES ASSUME CompletionInv, [Next]_vars, faults'["stamp"] = 0
             PROVE  DueAfterStart'
  BY GradedInvNext, StampsNext DEF CompletionInv
<1>t. /\ TypeOK
      /\ now \in Nat /\ starts \in Seq(Start) /\ due \subseteq Nat
      /\ FinalTTL \in Nat /\ MaxStarts \in Nat
      /\ \A i \in DOMAIN starts : starts[i].at \in Nat
  <2>1. TypeOK
    BY Zenon DEF CompletionInv, GradedInv
  <2>2. /\ now \in Nat /\ starts \in Seq(Start) /\ due \subseteq Nat
        /\ FinalTTL \in Nat /\ MaxStarts \in Nat
    BY <2>1, FinalTTLType, AnswersAssumption DEF TypeOK
  <2>3. \A i \in DOMAIN starts : starts[i].at \in Nat
    BY <2>2, StartTime
  <2> QED BY <2>1, <2>2, <2>3
<1>f. faults["stamp"] = 0 /\ DueAfterStart
  <2>1. faults["stamp"] \in Nat /\ "stamp" \in FaultKinds
    BY <1>t DEF TypeOK, FaultKinds
  <2>2. ~(faults["stamp"] > 0)
    BY <1>t, <2>1, FaultsStay
  <2> QED BY <2>1, <2>2 DEF CompletionInv
<1>1. ASSUME NEW s \in Starters, SaveDeadlines(s) PROVE DueAfterStart'
  <2> DEFINE new == [at |-> stamp[s], saved |-> now]
  <2>1. /\ starts' = Append(starts, new) /\ due' = due \cup {now + FinalTTL}
        /\ UNCHANGED completed
    BY <1>1 DEF SaveDeadlines
  <2>2. new \in Start /\ new.at <= now /\ new.at \in Nat
    BY <1>1, <1>t, NewStart DEF CompletionInv, Start
  <2> HIDE DEF new
  <2>3. /\ \A i \in DOMAIN starts : i \in DOMAIN starts' /\ starts'[i] = starts[i]
        /\ Len(starts) + 1 \in DOMAIN starts' /\ starts'[Len(starts) + 1] = new
    BY <1>t, <2>1, <2>2
  <2>4. now + FinalTTL >= new.at + FinalTTL
    BY <1>t, <2>2
  <2>5. \A time \in due' : \E i \in DOMAIN starts' : time >= starts'[i].at + FinalTTL
    <3>1. ASSUME NEW time \in due
          PROVE  \E i \in DOMAIN starts' : time >= starts'[i].at + FinalTTL
      BY <1>f, <2>3 DEF DueAfterStart
    <3>2. \E i \in DOMAIN starts' : now + FinalTTL >= starts'[i].at + FinalTTL
      BY <2>3, <2>4
    <3> QED BY <2>1, <3>1, <3>2
  <2>6. completed' # 0 => \E i \in DOMAIN starts' : completed' >= starts'[i].at + FinalTTL
    BY <1>f, <2>1, <2>3 DEF DueAfterStart
  <2> QED BY <2>5, <2>6 DEF DueAfterStart
<1>2. CASE CompleteGame
  <2>1. PICK time \in due : time <= now /\ due' \in {due, due \ {time}}
    BY <1>2 DEF CompleteGame
  <2>2. PICK i \in DOMAIN starts : time >= starts[i].at + FinalTTL
    BY <1>f, <2>1 DEF DueAfterStart
  <2>3. completed' = completed \/ completed' = now
    BY <1>2
    DEF CompleteGame, GetLeaderBoard, GetGame, GetNeither, FirstCompletion
  <2>4. UNCHANGED starts
    BY <1>2 DEF CompleteGame
  <2>5. now >= starts[i].at + FinalTTL
    BY <1>t, <2>1, <2>2
  <2> QED BY <1>f, <2>1, <2>3, <2>4, <2>5 DEF DueAfterStart
<1>3. ASSUME NEW s \in Starters, StartUnstamped(s) PROVE DueAfterStart'
  <2>1. faults'["stamp"] > 0
    BY <1>3, <1>t, StrikeGrows DEF StartUnstamped, FaultKinds
  <2> QED BY <2>1
<1>4. CASE UNCHANGED <<starts, due, completed>>
  BY <1>4, <1>f DEF DueAfterStart
<1> QED
  BY <1>1, <1>2, <1>3, <1>4
  DEF Next, StampDeadlines, Submit, HandleAnswer, Grade, FindStored, InsertAnswer, Recache,
      Crash, Tick, vars, completion

(***************************************************************************)
(* When a game is started once, no answer sent after its completion gets   *)
(* points, for any number of questions and any time-out.                   *)
(***************************************************************************)
THEOREM NoPointsAfterCompletionCorrect == Spec => []NoPointsAfterCompletion
<1>1. CompletionInv => NoPointsAfterCompletion
  <2> SUFFICES ASSUME CompletionInv, completed # 0, StartedOnce,
                      NEW p \in Players, NEW q \in QuestionIds,
                      NEW a \in Answered(p, q), a.point > 0
               PROVE  a.time <= completed
    BY DEF NoPointsAfterCompletion
  <2>1. /\ starts \in Seq(Start) /\ stored[p][q] \in Seq(Answer)
        /\ completed \in Nat /\ FinalTTL \in Nat
    BY FinalTTLType DEF CompletionInv, GradedInv, TypeOK
  <2>2. PICK k \in DOMAIN stored[p][q] : a = stored[p][q][k]
    BY DEF Answered
  <2>3. a \in Answer /\ Earned(a, q)
    BY <2>1, <2>2 DEF CompletionInv, GradedInv
  <2>4. PICK i \in DOMAIN starts : InWindow(a, q, starts[i].at)
    BY <2>3 DEF Earned
  <2>5. PICK j \in DOMAIN starts : completed >= starts[j].at + FinalTTL
    BY DEF CompletionInv, DueAfterStart, StartedOnce
  <2>6. i = 1 /\ j = 1 /\ starts[1].at \in Nat
    <3>1. DOMAIN starts = 1..Len(starts) /\ Len(starts) = 1
      BY <2>1 DEF StartedOnce
    <3>2. i \in 1..1 /\ j \in 1..1
      BY <2>4, <2>5, <3>1
    <3>3. 1 \in DOMAIN starts
      BY <3>1
    <3>4. starts[1].at \in Nat
      BY <2>1, <3>3, StartTime
    <3> QED BY <3>2, <3>4
  <2>7. q \in Questions /\ ValidAnswerTimeOut * q <= FinalTTL
    BY <2>3, FinalTTLCoversDeadlines DEF Earned
  <2>8. a.time <= starts[1].at + ValidAnswerTimeOut * q /\ a.time \in Nat
    BY <2>3, <2>4, <2>6 DEF InWindow, Answer
  <2>9. completed >= starts[1].at + FinalTTL /\ starts[1].at \in Nat
    BY <2>5, <2>6
  <2>10. ValidAnswerTimeOut * q \in Nat
    BY <2>7, AnswersAssumption, ProductType DEF Questions
  <2> DEFINE end == ValidAnswerTimeOut * q
  <2> HIDE DEF end
  <2> QED BY <2>1, <2>7, <2>8, <2>9, <2>10 DEF end
<1>2. CompletionInv /\ [Next]_vars => CompletionInv'
  BY CompletionInvNext
<1> QED BY <1>1, <1>2, CompletionInvInit, PTL DEF Spec

-----------------------------------------------------------------------------
(***************************************************************************)
(* Answers in hand.  Whoever had none in hand at the completion has only   *)
(* sent answers since; the deadlines are those of the latest start unless a*)
(* completion went without its leader board.                               *)
(***************************************************************************)
SentSince ==
  completed # 0 =>
    \A l \in Loops : loop[l].pc # "idle" /\ Owner[l] \notin late =>
                     loop[l].answer.time >= completed

LatestDeadlines ==
  starts # <<>> =>
    \/ \A q \in Questions : deadline[q] = starts[Len(starts)].at + ValidAnswerTimeOut * q
    \/ faults["board"] > 0 /\ completed # 0

HandInv ==
  /\ CompletionInv
  /\ completed <= now
  /\ \A l \in Loops : loop[l].answer.time <= now
  /\ SentSince
  /\ recaching > 0 => faults["board"] > 0 /\ completed # 0
  /\ LatestDeadlines

LEMMA HandInvInit == Init => HandInv
<1> SUFFICES ASSUME Init PROVE HandInv
  OBVIOUS
<1>1. \A l \in Loops : loop[l].answer.time = 0
  BY DEF Init, IdleLoop
<1> QED BY <1>1, CompletionInvInit DEF Init, HandInv, SentSince, LatestDeadlines

LEMMA HandInvNext == HandInv /\ [Next]_vars => HandInv'
<1> SUFFICES ASSUME HandInv, [Next]_vars PROVE HandInv'
  OBVIOUS
<1>c. CompletionInv /\ CompletionInv'
  BY CompletionInvNext DEF HandInv
<1>t. /\ TypeOK /\ now \in Nat \ {0} /\ completed \in Nat /\ recaching \in Nat
      /\ starts \in Seq(Start)
      /\ faults \in [FaultKinds -> Nat] /\ faults["board"] \in Nat
  BY <1>c DEF CompletionInv, GradedInv, TypeOK, FaultKinds
<1>l. /\ loop \in [Loops -> LoopState] /\ \A l \in Loops : loop[l] \in LoopState
      /\ \A l \in Loops : loop[l].answer.time \in Nat
  BY <1>t DEF TypeOK, LoopState, Answer
<1>i. IdleLoop.pc = "idle" /\ IdleLoop.answer.time = 0
  BY DEF IdleLoop
<1>g. /\ completed <= now /\ SentSince /\ LatestDeadlines
      /\ \A l \in Loops : loop[l].answer.time <= now
      /\ recaching > 0 => faults["board"] > 0 /\ completed # 0
  BY DEF HandInv
(* A step of a read loop keeps the time of its answer, or lets go of it. *)
<1>q. ASSUME UNCHANGED <<now, deadline, completion, starts>>,
             faults'["board"] = faults["board"],
             \A l \in Loops : \/ loop'[l].answer.time = loop[l].answer.time
                                 /\ loop[l].pc # "idle"
                              \/ loop'[l] = IdleLoop
                              \/ loop'[l] = loop[l]
      PROVE  HandInv'
  <2>1. SentSince'
    BY <1>q, <1>g, <1>i DEF SentSince, completion
  <2>2. LatestDeadlines'
    BY <1>q, <1>g DEF LatestDeadlines, completion
  <2>3. \A l \in Loops : loop'[l].answer.time <= now'
    BY <1>q, <1>g, <1>i, <1>t
  <2> QED BY <1>q, <1>c, <1>g, <2>1, <2>2, <2>3 DEF HandInv, completion
<1>1. ASSUME NEW s \in Starters, SaveDeadlines(s) PROVE HandInv'
  <2> DEFINE new == [at |-> stamp[s], saved |-> now]
  <2>1. /\ starts' = Append(starts, new)
        /\ deadline' = [q \in Questions |-> new.at + ValidAnswerTimeOut * q]
        /\ UNCHANGED <<now, loop, recaching, late, completed, faults>>
    BY <1>1 DEF SaveDeadlines, Stamped
  <2> HIDE DEF new
  <2>2. starts'[Len(starts')] = new
    BY <2>1, <1>t
  <2>3. LatestDeadlines'
    BY <2>1, <2>2 DEF LatestDeadlines
  <2> QED BY <1>c, <1>g, <2>1, <2>3 DEF HandInv, SentSince
<1>2. CASE CompleteGame
  <2>1. UNCHANGED <<now, deadline, loop, starts>>
    BY <1>2 DEF CompleteGame
  <2>2. \/ /\ GetLeaderBoard
        \/ GetGame
        \/ GetNeither
    BY <1>2 DEF CompleteGame
  <2>3. faults'["board"] \in Nat /\ faults'["board"] >= faults["board"]
    BY <1>t, <2>2, StrikeGrows DEF GetLeaderBoard, GetGame, GetNeither, FaultKinds
  <2>4. \/ FirstCompletion
        \/ UNCHANGED <<completed, late>>
    BY <2>2 DEF GetLeaderBoard, GetGame, GetNeither
  <2>5. completed' \in Nat /\ completed' <= now /\ (completed # 0 => completed' # 0)
    BY <1>t, <1>g, <2>4 DEF FirstCompletion
  <2>6. SentSince'
    <3>1. CASE UNCHANGED <<completed, late>>
      BY <1>g, <2>1, <3>1 DEF SentSince
    <3>2. CASE late' = {Owner[l] : l \in Busy}
      BY <2>1, <3>2 DEF SentSince, Busy
    <3> QED BY <2>4, <3>1, <3>2 DEF FirstCompletion
  <2>7. recaching' > 0 => faults'["board"] > 0 /\ completed' # 0
    <3>1. CASE recaching' = recaching
      BY <1>t, <1>g, <2>3, <2>5, <3>1
    <3>2. CASE GetGame
      <4>1. faults'["board"] > 0
        BY <1>t, <3>2, StrikeGrows DEF GetGame, FaultKinds
      <4>2. completed' # 0
        BY <1>t, <3>2 DEF GetGame, FirstCompletion
      <4> QED BY <4>1, <4>2
    <3> QED BY <2>2, <3>1, <3>2 DEF GetLeaderBoard, GetNeither
  <2>8. LatestDeadlines'
    BY <1>t, <1>g, <2>1, <2>3, <2>5 DEF LatestDeadlines
  <2> QED BY <1>c, <1>g, <2>1, <2>5, <2>6, <2>7, <2>8 DEF HandInv
<1>9. ASSUME NEW s \in Starters, StampDeadlines(s) \/ StartUnstamped(s) PROVE HandInv'
  <2>1. UNCHANGED <<now, deadline, loop, recaching, late, completed, starts>>
    BY <1>9 DEF StampDeadlines, StartUnstamped, completion
  <2>2. faults'["board"] = faults["board"]
    BY <1>9, <1>t, StrikeGrows DEF StampDeadlines, StartUnstamped, FaultKinds
  <2>3. LatestDeadlines' /\ SentSince'
    BY <1>g, <2>1, <2>2 DEF LatestDeadlines, SentSince
  <2> QED BY <1>c, <1>g, <2>1, <2>2, <2>3 DEF HandInv
<1>3. CASE Recache
  <2>1. /\ UNCHANGED <<now, loop, late, completed, starts>>
        /\ recaching > 0 /\ recaching' = recaching - 1
    BY <1>3 DEF Recache
  <2>2. faults'["board"] = faults["board"]
    BY <1>3, <1>t, StrikeGrows DEF Recache, FaultKinds
  <2>3. LatestDeadlines' /\ SentSince'
    BY <1>g, <2>1, <2>2 DEF LatestDeadlines, SentSince
  <2> QED BY <1>c, <1>g, <2>1, <2>2, <2>3 DEF HandInv
<1>4. ASSUME NEW l \in Loops, NEW q \in QuestionIds, NEW correct \in BOOLEAN,
             Submit(l, q, correct)
      PROVE  HandInv'
  <2>1. /\ UNCHANGED <<now, deadline, completion, starts, faults>>
        /\ loop'[l].answer.time = now
        /\ \A k \in Loops \ {l} : loop'[k] = loop[k]
    <3>1. UNCHANGED <<now, deadline, completion, starts, faults>>
      BY <1>4 DEF Submit
    <3>2. loop'[l].answer.time = now /\ \A k \in Loops \ {l} : loop'[k] = loop[k]
      BY <1>4, <1>l DEF Submit, IdleLoop
    <3> QED BY <3>1, <3>2
  <2>2. SentSince' /\ LatestDeadlines'
    BY <1>g, <2>1 DEF SentSince, LatestDeadlines, completion
  <2>3. \A k \in Loops : loop'[k].answer.time <= now'
    BY <1>g, <1>t, <2>1
  <2> QED BY <1>c, <1>g, <2>1, <2>2, <2>3 DEF HandInv, completion
<1>5. ASSUME NEW l \in Loops, HandleAnswer(l) PROVE HandInv'
  <2>1. UNCHANGED <<now, deadline, completion, starts>>
    BY <1>5 DEF HandleAnswer, Grade, FindStored, InsertAnswer
  <2>2. faults'["board"] = faults["board"]
    BY <1>5, <1>t, StrikeGrows DEF HandleAnswer, Grade, FindStored, InsertAnswer, FaultKinds
  <2>3. loop[l].pc # "idle" /\ \A k \in Loops \ {l} : loop'[k] = loop[k]
    BY <1>5, <1>l DEF HandleAnswer, Grade, FindStored, InsertAnswer
  <2>4. loop'[l] = IdleLoop \/ loop'[l].answer.time = loop[l].answer.time
    <3>1. CASE Grade(l)
      <4> DEFINE point == CalculateScore(loop[l].correct, loop[l].answer.time,
                                         deadline[loop[l].question])
      <4>1. \/ loop' = [loop EXCEPT ![l] = IdleLoop]
            \/ loop' = [loop EXCEPT ![l].pc = "find"]
            \/ loop' = [loop EXCEPT ![l].pc = "find",
                                    ![l].answer.deadline = deadline[loop[l].question],
                                    ![l].answer.point = point]
        BY <3>1 DEF Grade
      <4>2. CASE loop' = [loop EXCEPT ![l].pc = "find",
                                      ![l].answer.deadline = deadline[loop[l].question],
                                      ![l].answer.point = point]
        <5> HIDE DEF point
        <5> QED BY <4>2, <1>l DEF LoopState, Answer
      <4>3. CASE loop' = [loop EXCEPT ![l].pc = "find"]
        BY <4>3, <1>l DEF LoopState, Answer
      <4>4. CASE loop' = [loop EXCEPT ![l] = IdleLoop]
        BY <4>4, <1>l
      <4> QED BY <4>1, <4>2, <4>3, <4>4
    <3>2. CASE FindStored(l) \/ InsertAnswer(l)
      <4>1. \/ loop' = [loop EXCEPT ![l] = IdleLoop]
            \/ loop' = [loop EXCEPT ![l].pc = "insert"]
        BY <3>2 DEF FindStored, InsertAnswer
      <4> QED BY <4>1, <1>l DEF LoopState, Answer
    <3> QED BY <1>5, <3>1, <3>2 DEF HandleAnswer
  <2> QED BY <1>q, <2>1, <2>2, <2>3, <2>4
<1>6. CASE Crash
  <2>1. /\ UNCHANGED <<now, deadline, late, completed, starts>> /\ recaching' = 0
        /\ \A l \in Loops : loop'[l] = IdleLoop
    BY <1>6 DEF Crash
  <2>2. faults'["board"] = faults["board"]
    BY <1>6, <1>t, StrikeGrows DEF Crash, FaultKinds
  <2>3. LatestDeadlines' /\ SentSince' /\ \A l \in Loops : loop'[l].answer.time <= now'
    BY <1>g, <1>i, <1>t, <2>1, <2>2 DEF LatestDeadlines, SentSince
  <2> QED BY <1>c, <1>g, <2>1, <2>2, <2>3 DEF HandInv
<1>7. CASE Tick
  <2>1. UNCHANGED <<deadline, loop, stored, completion, starts, faults>> /\ now' = now + 1
    BY <1>7 DEF Tick
  <2>2. LatestDeadlines' /\ SentSince'
    BY <1>g, <2>1 DEF LatestDeadlines, SentSince, completion
  <2>3. completed' <= now' /\ \A l \in Loops : loop'[l].answer.time <= now'
    BY <1>g, <1>t, <1>l, <2>1 DEF completion
  <2> QED BY <1>c, <1>g, <2>1, <2>2, <2>3 DEF HandInv, completion
<1>8. CASE UNCHANGED vars
  BY <1>8, <1>q DEF vars
<1> QED BY <1>1, <1>2, <1>3, <1>4, <1>5, <1>6, <1>7, <1>8, <1>9 DEF Next

(***************************************************************************)
(* With several questions the completion comes after the last deadline, so *)
(* that nothing sent since then is in time.                                *)
(***************************************************************************)
LEMMA FinalTTLExceedsDeadlines ==
  ASSUME NumQuestions > 1, NEW q \in Questions
  PROVE  /\ ValidAnswerTimeOut * q \in Nat
         /\ ValidAnswerTimeOut * q < FinalTTL
<1> DEFINE n == NumQuestions + 1
           m == (NumQuestions * n) \div 2
<1>1. NumQuestions \in Nat /\ NumQuestions >= 2 /\ q \in Nat /\ q + 1 <= n /\ n \in Nat
  BY AnswersAssumption DEF Questions
<1>2. n * 2 <= n * NumQuestions
  BY <1>1, ProductMono
<1>3. n * NumQuestions = NumQuestions * n
  BY <1>1
<1>4. n * 2 \in Nat /\ NumQuestions * n \in Nat
  BY <1>1, ProductType
<1>5. (n * 2) \div 2 = n
  BY <1>1, QuotientOfProduct
<1>6. n <= m /\ m \in Nat
  BY <1>2, <1>3, <1>4, <1>5, QuotientMono, QuotientType
<1>7. q + 1 <= m
  <2> HIDE DEF n, m
  <2> QED BY <1>1, <1>6
<1>8. FinalTTL = ValidAnswerTimeOut * m
  BY DEF FinalTTL
<1> HIDE DEF n, m
<1>9. ValidAnswerTimeOut * (q + 1) <= ValidAnswerTimeOut * m
  BY <1>1, <1>6, <1>7, AnswersAssumption, ProductMono
<1>10. ValidAnswerTimeOut * (q + 1) = ValidAnswerTimeOut * q + ValidAnswerTimeOut
  BY <1>1, AnswersAssumption
<1>11. ValidAnswerTimeOut * q \in Nat
  BY <1>1, AnswersAssumption, ProductType
<1> QED BY <1>6, <1>8, <1>9, <1>10, <1>11, AnswersAssumption, ProductType

LEMMA CompletedAfterDeadlines ==
  ASSUME CompletionInv, completed # 0, StartedOnce, NumQuestions > 1,
         NEW q \in Questions
  PROVE  /\ starts[1].at \in Nat
         /\ ValidAnswerTimeOut * q \in Nat
         /\ starts[1].at + ValidAnswerTimeOut * q < completed
<1>1. /\ starts \in Seq(Start) /\ completed \in Nat /\ FinalTTL \in Nat
  BY FinalTTLType DEF CompletionInv, GradedInv, TypeOK
<1>2. PICK j \in DOMAIN starts : completed >= starts[j].at + FinalTTL
  BY DEF CompletionInv, DueAfterStart, StartedOnce
<1>3. j = 1 /\ starts[1].at \in Nat \ {0}
  <2>1. j \in 1..1 /\ Len(starts) = 1
    BY <1>1, <1>2 DEF StartedOnce
  <2> QED BY <1>1, <2>1, StartTime
<1> DEFINE end == ValidAnswerTimeOut * q
<1>4. end \in Nat /\ end < FinalTTL
  BY FinalTTLExceedsDeadlines
<1> HIDE DEF end
<1>5. starts[1].at + end < completed
  BY <1>1, <1>2, <1>3, <1>4
<1> QED BY <1>3, <1>4, <1>5 DEF end

-----------------------------------------------------------------------------
(***************************************************************************)
(* Final standings.                                                        *)
(***************************************************************************)
StandingsInv == HandInv /\ StandingsAreFinal

LEMMA StandingsInvNext == StandingsInv /\ [Next]_vars => StandingsInv'
<1> SUFFICES ASSUME StandingsInv, [Next]_vars PROVE StandingsAreFinal'
  BY HandInvNext DEF StandingsInv
<1>h. HandInv /\ HandInv' /\ StandingsAreFinal /\ CompletionInv /\ TypeOK
  BY HandInvNext DEF StandingsInv, HandInv, CompletionInv, GradedInv
<1> SUFFICES ASSUME completed' # 0, StartedOnce', faults'["board"] = 0,
                    NumQuestions > 1,
                    NEW p \in Players, p \notin late', NEW q \in QuestionIds,
                    NEW i \in DOMAIN stored'[p][q], stored'[p][q][i].point > 0
             PROVE  i \in DOMAIN standings'[p][q]
  BY DEF StandingsAreFinal
<1>o. faults["stamp"] = 0 /\ (UNCHANGED starts => StartedOnce)
  <2>1. faults["stamp"] \in Nat /\ "stamp" \in FaultKinds
    BY <1>h DEF TypeOK, FaultKinds
  <2>2. ~(faults["stamp"] > 0)
    BY <1>h, <2>1, FaultsStay DEF StandingsInv, StartedOnce
  <2> QED BY <2>1, <2>2 DEF StartedOnce
<1>t. /\ starts \in Seq(Start) /\ now \in Nat \ {0}
      /\ stored \in [Players -> [QuestionIds -> Seq(Answer)]]
      /\ faults["board"] \in Nat
  BY <1>h DEF TypeOK, FaultKinds
<1>k. ASSUME NEW k \in FaultKinds, Strike(k)
      PROVE  faults["board"] = 0 /\ k # "board"
  BY <1>h, <1>k, <1>t, StrikeGrows DEF FaultKinds
(* What was final stays so while nothing is stored. *)
<1>q. ASSUME UNCHANGED <<stored, standings, late, completed>>,
             faults["board"] = 0, UNCHANGED starts
      PROVE  i \in DOMAIN standings'[p][q]
  BY <1>q, <1>h, <1>o DEF StandingsAreFinal
<1>1. ASSUME NEW s \in Starters, SaveDeadlines(s)
      PROVE  i \in DOMAIN standings'[p][q]
  <2>1. /\ starts' = Append(starts, [at |-> stamp[s], saved |-> now])
        /\ completed # 0 /\ Len(starts') = 1
    BY <1>1 DEF SaveDeadlines, StartedOnce
  <2>2. starts # <<>>
    BY <1>h, <1>o, <2>1 DEF CompletionInv, DueAfterStart
  <2> QED BY <1>t, <2>1, <2>2
<1>2. CASE CompleteGame
  <2>1. UNCHANGED <<stored, starts>>
    BY <1>2 DEF CompleteGame
  <2>2. GetLeaderBoard
    BY <1>2, <1>k DEF CompleteGame, GetGame, GetNeither, FaultKinds
  <2>3. CASE completed = 0
    BY <2>1, <2>2, <2>3 DEF GetLeaderBoard
  <2>4. CASE completed # 0
    BY <1>q, <2>1, <2>2, <2>4 DEF GetLeaderBoard, FirstCompletion
  <2> QED BY <2>3, <2>4
<1>3. ASSUME UNCHANGED <<stored, standings, late, completed, starts>>,
             UNCHANGED faults \/ \E k \in FaultKinds : Strike(k)
      PROVE  i \in DOMAIN standings'[p][q]
  BY <1>3, <1>k, <1>q
<1>4. CASE \/ \E s \in Starters : StampDeadlines(s) \/ StartUnstamped(s)
           \/ Recache \/ Crash \/ Tick \/ UNCHANGED vars
  BY <1>3, <1>4
  DEF StampDeadlines, StartUnstamped, Recache, Crash, Tick, vars, completion, FaultKinds
<1>5. ASSUME NEW l \in Loops, NEW n \in QuestionIds, NEW correct \in BOOLEAN,
             Submit(l, n, correct)
      PROVE  i \in DOMAIN standings'[p][q]
  BY <1>3, <1>5 DEF Submit, completion
<1>6. ASSUME NEW l \in Loops, Grade(l) \/ FindStored(l)
      PROVE  i \in DOMAIN standings'[p][q]
  BY <1>3, <1>6 DEF Grade, FindStored, completion, FaultKinds
<1>7. ASSUME NEW l \in Loops, InsertAnswer(l)
      PROVE  i \in DOMAIN standings'[p][q]
  <2> DEFINE a == loop[l].answer
             r == Owner[l]
             n == loop[l].question
  <2>1. /\ UNCHANGED <<standings, late, completed, starts>>
        /\ UNCHANGED faults \/ \E k \in FaultKinds : Strike(k)
    BY <1>7 DEF InsertAnswer, completion, FaultKinds
  <2>2. faults["board"] = 0
    BY <1>k, <2>1
  <2>3. CASE UNCHANGED stored
    BY <1>3, <2>1, <2>3
  <2>4. CASE stored' = [stored EXCEPT ![r][n] = Append(@, a)]
    <3>1. a \in Answer /\ loop[l].pc = "insert" /\ n \in QuestionIds \cup {0} /\ r \in Players
      BY <1>7, <1>h, AnswersAssumption DEF InsertAnswer, TypeOK, LoopState
    <3>2. Earned(a, n)
      BY <1>h, <3>1 DEF CompletionInv, GradedInv
    <3>3. \/ stored'[p][q] = stored[p][q]
          \/ p = r /\ q = n /\ stored'[p][q] = Append(stored[p][q], a)
      <4>1. stored[r] \in [QuestionIds -> Seq(Answer)]
        BY <1>t, <3>1
      <4> HIDE DEF a
      <4>2. \/ stored'[p] = stored[p]
            \/ p = r /\ stored'[p] = [stored[p] EXCEPT ![n] = Append(@, a)]
        BY <1>t, <2>4, <3>1
      <4> QED BY <1>t, <4>1, <4>2
    <3>4. CASE stored'[p][q] = stored[p][q]
      BY <1>h, <1>o, <2>1, <2>2, <3>4 DEF StandingsAreFinal
    <3>5. CASE p = r /\ q = n /\ stored'[p][q] = Append(stored[p][q], a)
      <4>1. a.point = 0
        <5> SUFFICES ASSUME a.point # 0 PROVE FALSE
          OBVIOUS
        <5>1. a.point > 0 /\ a.time \in Nat
          BY <3>1 DEF Answer
        <5>2. n \in Questions /\ \E k \in DOMAIN starts : InWindow(a, n, starts[k].at)
          BY <3>2, <5>1 DEF Earned
        <5>3. a.time <= starts[1].at + ValidAnswerTimeOut * n
          <6>1. PICK k \in DOMAIN starts : InWindow(a, n, starts[k].at)
            BY <5>2
          <6>2. k = 1
            BY <1>o, <1>t, <2>1, <6>1 DEF StartedOnce
          <6> QED BY <6>1, <6>2 DEF InWindow
        <5>4. a.time >= completed
          BY <1>h, <2>1, <3>1, <3>5 DEF HandInv, SentSince
        <5> DEFINE end == ValidAnswerTimeOut * n
        <5>5. starts[1].at \in Nat /\ end \in Nat /\ starts[1].at + end < completed
          BY <1>h, <1>o, <2>1, <5>2, CompletedAfterDeadlines
        <5>6. completed \in Nat
          BY <1>h DEF TypeOK
        <5>7. a.time <= starts[1].at + end
          BY <5>3
        <5> HIDE DEF end, a
        <5> QED BY <5>1, <5>4, <5>5, <5>6, <5>7
      <4>2. stored[p][q] \in Seq(Answer)
        BY <1>t
      <4>3. i \in DOMAIN stored[p][q] /\ stored'[p][q][i] = stored[p][q][i]
        <5> DEFINE s == stored[p][q]
        <5> HIDE DEF s, a
        <5>1. stored'[p][q] = Append(s, a) /\ s \in Seq(Answer) /\ a.point = 0
          BY <3>5, <4>1, <4>2 DEF s
        <5>2. i \in 1..(Len(s) + 1) /\ Append(s, a)[i].point > 0
          BY <5>1
        <5>3. i # Len(s) + 1
          BY <5>1, <5>2
        <5>4. i \in DOMAIN s /\ Append(s, a)[i] = s[i]
          BY <5>1, <5>2, <5>3
        <5> QED BY <5>1, <5>4 DEF s
      <4> QED BY <1>h, <1>o, <2>1, <2>2, <4>3 DEF StandingsAreFinal
    <3> QED BY <3>3, <3>4, <3>5
  <2> QED BY <1>7, <2>3, <2>4 DEF InsertAnswer
<1> QED
  BY <1>1, <1>2, <1>4, <1>5, <1>6, <1>7 DEF Next, HandleAnswer

(***************************************************************************)
(* The leader board of a game that is started once has every answer that   *)
(* ever gets points, but for players who had one in hand when it was made. *)
(***************************************************************************)
THEOREM StandingsAreFinalCorrect == Spec => []StandingsAreFinal
<1>1. Init => StandingsInv
  BY HandInvInit DEF Init, StandingsInv, StandingsAreFinal
<1>2. StandingsInv => StandingsAreFinal
  BY DEF StandingsInv
<1> QED BY <1>1, <1>2, StandingsInvNext, PTL DEF Spec

-----------------------------------------------------------------------------
(***************************************************************************)
(* Points for answers in time.  A graded answer had the deadline of the    *)
(* start saved last, unless one was saved since, which only narrows what is*)
(* in time, or its questions were put back.                                *)
(***************************************************************************)
PaidInv == HandInv /\ InTimeIsPaid

(* The start saved last is among those an answer in time has to be in. *)
InLastWindow(l) ==
  LET q    == loop[l].question
      time == loop[l].answer.time
      last == starts[Len(starts)].at + ValidAnswerTimeOut * q
  IN  /\ starts # <<>>
      /\ last - ValidAnswerTimeOut < time
      /\ time <= last

InTimeIsInLast == \A l \in Loops : InTime(l) => InLastWindow(l)

LEMMA InLast == TypeOK => InTimeIsInLast
<1> SUFFICES ASSUME TypeOK, NEW l \in Loops, InTime(l) PROVE InLastWindow(l)
  BY DEF InTimeIsInLast
<1>1. starts \in Seq(Start)
  BY DEF TypeOK
<1>2. starts # <<>>
  <2>1. PICK i \in DOMAIN starts : TRUE
    BY Zenon DEF InTime, InForce
  <2> QED BY <1>1, <2>1
<1>3. Len(starts) \in InForce(loop[l].answer.time)
  BY <1>1, <1>2 DEF InForce
<1> QED BY <1>2, <1>3, Zenon DEF InTime, InLastWindow

(* A right answer in time is graded with points. *)
LEMMA ScoreOfInTime ==
  ASSUME NEW time \in Nat, NEW valid \in Nat, time <= valid
  PROVE  CalculateScore(TRUE, time, valid) >= BaseScore
<1>1. valid - time \in Nat
  OBVIOUS
<1>2. Bonus(valid - time) \in Nat
  BY <1>1, BonusMono
<1> QED BY <1>2, AnswersAssumption DEF CalculateScore

(* With one start, only who was late is in time after the completion. *)
OnlyLateInTime ==
  completed # 0 /\ StartedOnce =>
    \A l \in Loops : InTime(l) => Owner[l] \in late

LEMMA InTimeIsLate == NumQuestions > 1 /\ HandInv => OnlyLateInTime
<1> SUFFICES ASSUME NumQuestions > 1, HandInv, completed # 0, StartedOnce,
                    NEW l \in Loops, InTime(l)
             PROVE  Owner[l] \in late
  BY DEF OnlyLateInTime
<1>1. /\ CompletionInv /\ loop[l] \in LoopState /\ completed \in Nat
      /\ loop[l].answer.time \in Nat
  BY DEF HandInv, CompletionInv, GradedInv, TypeOK, LoopState, Answer
<1>2. /\ loop[l].pc # "idle" /\ loop[l].question \in Questions
      /\ loop[l].answer.time <= starts[1].at + ValidAnswerTimeOut * loop[l].question
  <2>1. loop[l].pc # "idle" /\ loop[l].question \in Questions
    BY DEF InTime
  <2>2. InLastWindow(l)
    BY <1>1, InLast DEF CompletionInv, GradedInv, InTimeIsInLast
  <2> QED BY <2>1, <2>2 DEF InLastWindow, StartedOnce
<1> DEFINE end  == ValidAnswerTimeOut * loop[l].question
           time == loop[l].answer.time
<1>3. starts[1].at \in Nat /\ end \in Nat /\ starts[1].at + end < completed
  BY <1>1, <1>2, CompletedAfterDeadlines
<1>4. time \in Nat /\ time <= starts[1].at + end
  BY <1>1, <1>2
<1>5. ~(time >= completed)
  <2> HIDE DEF end, time
  <2> QED BY <1>1, <1>3, <1>4
<1> QED BY <1>2, <1>5 DEF HandInv, SentSince

LEMMA PaidInvNext == NumQuestions > 1 /\ PaidInv /\ [Next]_vars => PaidInv'
<1> SUFFICES ASSUME NumQuestions > 1, PaidInv, [Next]_vars PROVE InTimeIsPaid'
  BY HandInvNext DEF PaidInv
<1>h. HandInv /\ HandInv' /\ InTimeIsPaid /\ CompletionInv /\ TypeOK /\ TypeOK'
  BY HandInvNext DEF PaidInv, HandInv, CompletionInv, GradedInv
<1> SUFFICES ASSUME NEW l \in Loops, InTime(l)',
                    ~(loop'[l].answer.point >= BaseScore)
             PROVE  /\ faults'["board"] > 0
                    /\ ~StartedOnce' \/ Owner[l] \in late'
  BY DEF InTimeIsPaid
<1>t. /\ starts \in Seq(Start) /\ now \in Nat \ {0}
      /\ loop \in [Loops -> LoopState] /\ loop[l] \in LoopState
      /\ loop[l].answer.time \in Nat
      /\ faults["board"] \in Nat /\ faults'["board"] \in Nat
      /\ deadline \in [Questions -> Nat]
  BY <1>h DEF TypeOK, FaultKinds, LoopState, Answer
<1>i. IdleLoop.pc = "idle"
  BY DEF IdleLoop
<1>k. ASSUME UNCHANGED faults \/ \E k \in FaultKinds : Strike(k)
      PROVE  faults["board"] > 0 => faults'["board"] > 0
  BY <1>h, <1>k, <1>t, StrikeGrows DEF FaultKinds
<1>o. UNCHANGED starts /\ StartedOnce' => StartedOnce
  <2>1. faults["stamp"] \in Nat /\ "stamp" \in FaultKinds
    BY <1>h DEF TypeOK, FaultKinds
  <2>2. faults'["stamp"] = 0 => ~(faults["stamp"] > 0)
    BY <1>h, <2>1, FaultsStay
  <2> QED BY <2>1, <2>2 DEF StartedOnce
<1>w. InLastWindow(l)'
  <2>1. (TypeOK => InTimeIsInLast)'
    BY InLast, PTL
  <2> QED BY <1>h, <2>1, Zenon DEF InTimeIsInLast
<1>p. /\ loop'[l].pc \in {"find", "insert"}
      /\ loop'[l].correct
      /\ loop'[l].question \in Questions
      /\ ~(loop'[l].answer.point >= BaseScore)
  <2>1. loop'[l].pc \in {"find", "insert"}
    BY Zenon DEF InTime
  <2>2. loop'[l].correct
    BY Zenon DEF InTime
  <2>3. loop'[l].question \in Questions
    BY Zenon DEF InTime
  <2> QED BY <2>1, <2>2, <2>3
(* An answer that was in hand before is as it was. *)
<1>q. ASSUME UNCHANGED starts,
             loop[l].pc \in {"find", "insert"},
             loop'[l].correct = loop[l].correct,
             loop'[l].question = loop[l].question,
             loop'[l].answer = loop[l].answer,
             UNCHANGED faults \/ \E k \in FaultKinds : Strike(k)
      PROVE  /\ InTime(l) /\ faults["board"] > 0 /\ faults'["board"] > 0
             /\ ~StartedOnce' \/ Owner[l] \in late
  <2>1. InTime(l)
    <3>1. InForce(loop[l].answer.time)' = InForce(loop[l].answer.time)
      BY <1>q DEF InForce
    <3> QED BY <1>p, <1>q, <3>1, Zenon DEF InTime
  <2>2. ~(loop[l].answer.point >= BaseScore)
    BY <1>p, <1>q
  <2>3. faults["board"] > 0 /\ (~StartedOnce \/ Owner[l] \in late)
    BY <1>h, <2>1, <2>2 DEF InTimeIsPaid
  <2> QED BY <1>k, <1>o, <1>q, <2>1, <2>3
<1>s. ASSUME UNCHANGED starts, loop'[l] = loop[l],
             UNCHANGED faults \/ \E k \in FaultKinds : Strike(k)
      PROVE  /\ InTime(l) /\ faults["board"] > 0 /\ faults'["board"] > 0
             /\ ~StartedOnce' \/ Owner[l] \in late
  BY <1>p, <1>q, <1>s
(* A start only adds to the windows an answer in hand has to be in. *)
<1>1. ASSUME NEW s \in Starters, SaveDeadlines(s)
      PROVE  /\ faults'["board"] > 0
             /\ ~StartedOnce' \/ Owner[l] \in late'
  <2> DEFINE new  == [at |-> stamp[s], saved |-> now]
             time == loop[l].answer.time
  <2>1. /\ starts' = Append(starts, new) /\ UNCHANGED <<loop, faults>>
    BY <1>1 DEF SaveDeadlines
  <2>2. time <= now /\ time \in Nat
    BY <1>h, <1>t DEF HandInv
  <2>3. /\ DOMAIN starts' = DOMAIN starts \cup {Len(starts) + 1}
        /\ \A i \in DOMAIN starts : starts'[i] = starts[i] /\ i \in Nat /\ i < Len(starts) + 1
        /\ Len(starts') = Len(starts) + 1 /\ Len(starts) \in Nat
        /\ starts'[Len(starts) + 1] = new
    BY <1>t, <2>1
  <2>4. new.saved >= time /\ ~(new.saved < time)
    BY <1>t, <2>2
  <2> DEFINE after == {i \in DOMAIN starts' :
                         \A j \in DOMAIN starts' : j > i => starts'[j].saved >= time}
  <2>5. InForce(time) \subseteq after
    <3> SUFFICES ASSUME NEW i \in InForce(time) PROVE i \in after
      OBVIOUS
    <3>1. i \in DOMAIN starts /\ \A j \in DOMAIN starts : j > i => starts[j].saved >= time
      BY DEF InForce
    <3>2. ASSUME NEW j \in DOMAIN starts', j > i PROVE starts'[j].saved >= time
      BY <2>3, <2>4, <3>1, <3>2
    <3> QED BY <2>3, <3>1, <3>2
  <2>6. \A i \in after : i \in DOMAIN starts => i \in InForce(time)
    BY <2>3 DEF InForce
  <2>7. loop'[l].answer.time = time /\ InForce(loop[l].answer.time)' = after
    BY <2>1 DEF InForce
  <2>8. /\ \E i \in after : starts'[i].saved < time
        /\ \A i \in after :
             /\ (starts'[i].at + ValidAnswerTimeOut * loop[l].question) - ValidAnswerTimeOut
                  < time
             /\ time <= starts'[i].at + ValidAnswerTimeOut * loop[l].question
    <3>1. /\ \E i \in InForce(loop[l].answer.time)' : starts'[i].saved < loop'[l].answer.time
          /\ \A i \in InForce(loop[l].answer.time)' :
               /\ (starts'[i].at + ValidAnswerTimeOut * loop'[l].question)
                    - ValidAnswerTimeOut < loop'[l].answer.time
               /\ loop'[l].answer.time
                    <= starts'[i].at + ValidAnswerTimeOut * loop'[l].question
      BY Zenon DEF InTime
    <3> HIDE DEF after, time
    <3> QED BY <2>1, <2>7, <3>1
  <2>9. \E i \in InForce(time) : starts[i].saved < time
    <3>1. PICK i \in after : starts'[i].saved < time
      BY <2>8
    <3>2. i # Len(starts) + 1
      BY <2>3, <2>4, <3>1
    <3>3. i \in DOMAIN starts
      BY <2>3, <3>1, <3>2
    <3> QED BY <2>3, <2>6, <3>1, <3>3
  <2>10. \A i \in InForce(time) :
           /\ (starts[i].at + ValidAnswerTimeOut * loop[l].question) - ValidAnswerTimeOut
                < time
           /\ time <= starts[i].at + ValidAnswerTimeOut * loop[l].question
    <3> SUFFICES ASSUME NEW i \in InForce(time)
                 PROVE  /\ (starts[i].at + ValidAnswerTimeOut * loop[l].question)
                             - ValidAnswerTimeOut < time
                        /\ time <= starts[i].at + ValidAnswerTimeOut * loop[l].question
      OBVIOUS
    <3>1. i \in after /\ starts'[i] = starts[i]
      BY <2>3, <2>5 DEF InForce
    <3> QED BY <2>8, <3>1
  <2>11. InTime(l)
    BY <1>p, <2>1, <2>9, <2>10, Zenon DEF InTime
  <2>12. ~(loop[l].answer.point >= BaseScore)
    BY <1>p, <2>1
  <2>13. faults["board"] > 0
    BY <1>h, <2>11, <2>12 DEF InTimeIsPaid
  <2>14. ~StartedOnce'
    BY <2>3, <2>9 DEF StartedOnce, InForce
  <2> QED BY <2>1, <2>13, <2>14
<1>2. CASE CompleteGame
  <2>1. UNCHANGED <<loop, starts>> /\ (UNCHANGED faults \/ \E k \in FaultKinds : Strike(k))
    BY <1>2 DEF CompleteGame, GetLeaderBoard, GetGame, GetNeither, FaultKinds
  <2>2. /\ InTime(l) /\ faults["board"] > 0 /\ faults'["board"] > 0
        /\ ~StartedOnce' \/ Owner[l] \in late
    BY <1>s, <2>1
  <2>3. Owner[l] \in late'
        \/ UNCHANGED late
    <3>1. loop[l].pc # "idle"
      BY <2>2 DEF InTime
    <3>2. FirstCompletion \/ UNCHANGED late
      BY <1>2 DEF CompleteGame, GetLeaderBoard, GetGame, GetNeither
    <3> QED BY <3>1, <3>2 DEF FirstCompletion, Busy
  <2> QED BY <2>1, <2>2, <2>3
<1>3. CASE \/ \E s \in Starters : StampDeadlines(s) \/ StartUnstamped(s)
           \/ Recache \/ Tick \/ UNCHANGED vars
  <2>1. /\ UNCHANGED <<loop, starts, late>>
        /\ UNCHANGED faults \/ \E k \in FaultKinds : Strike(k)
    BY <1>3
    DEF StampDeadlines, StartUnstamped, Recache, Tick, vars, completion, FaultKinds
  <2> QED BY <1>s, <2>1
<1>4. CASE Crash
  BY <1>4, <1>i, <1>p DEF Crash
<1>5. ASSUME NEW m \in Loops, NEW q \in QuestionIds, NEW correct \in BOOLEAN,
             Submit(m, q, correct)
      PROVE  /\ faults'["board"] > 0
             /\ ~StartedOnce' \/ Owner[l] \in late'
  <2>1. UNCHANGED <<starts, faults, late>> /\ (m = l => loop'[l].pc = "grade")
        /\ (m # l => loop'[l] = loop[l])
    <3>1. UNCHANGED <<starts, faults, completion>>
      BY <1>5 DEF Submit
    <3>2. (m = l => loop'[l].pc = "grade") /\ (m # l => loop'[l] = loop[l])
      BY <1>5, <1>t DEF Submit, IdleLoop
    <3> QED BY <3>1, <3>2 DEF completion
  <2>2. m # l
    BY <1>p, <2>1
  <2> QED BY <1>s, <2>1, <2>2
<1>6. ASSUME NEW m \in Loops, Grade(m)
      PROVE  /\ faults'["board"] > 0
             /\ ~StartedOnce' \/ Owner[l] \in late'
  <2> DEFINE q     == loop[l].question
             time  == loop[l].answer.time
             point == CalculateScore(loop[l].correct, time, deadline[q])
             last  == starts[Len(starts)].at + ValidAnswerTimeOut * q
  <2>1. /\ UNCHANGED <<starts, late, completed>>
        /\ UNCHANGED faults \/ \E k \in FaultKinds : Strike(k)
        /\ m # l => loop'[l] = loop[l]
    <3>1. UNCHANGED <<starts, completion>>
      BY <1>6 DEF Grade
    <3>2. UNCHANGED faults \/ \E k \in FaultKinds : Strike(k)
      BY <1>6 DEF Grade, FaultKinds
    <3>3. m # l => loop'[l] = loop[l]
      BY <1>6, <1>t DEF Grade
    <3> QED BY <3>1, <3>2, <3>3 DEF completion
  <2>2. CASE m # l
    BY <1>s, <2>1, <2>2
  <2>3. CASE m = l
    <3>1. \/ q \notin Questions /\ loop' = [loop EXCEPT ![l].pc = "find"]
          \/ loop' = [loop EXCEPT ![l] = IdleLoop]
          \/ /\ q \in Questions
             /\ loop' = [loop EXCEPT ![l].pc = "find",
                                     ![l].answer.deadline = deadline[q],
                                     ![l].answer.point = point]
      BY <1>6, <2>3 DEF Grade
    <3>2. CASE q \notin Questions /\ loop' = [loop EXCEPT ![l].pc = "find"]
      <4>1. loop'[l].question = q
        BY <1>t, <3>2 DEF LoopState
      <4> QED BY <1>p, <3>2, <4>1
    <3>3. CASE loop' = [loop EXCEPT ![l] = IdleLoop]
      BY <1>i, <1>p, <1>t, <3>3
    <3>4. CASE /\ q \in Questions
               /\ loop' = [loop EXCEPT ![l].pc = "find",
                                       ![l].answer.deadline = deadline[q],
                                       ![l].answer.point = point]
      <4>1. /\ loop'[l].question = q /\ loop'[l].answer.time = time
            /\ loop'[l].correct = loop[l].correct /\ loop'[l].answer.point = point
        <5> HIDE DEF point
        <5> QED BY <1>t, <3>4 DEF LoopState, Answer
      <4>2. loop[l].correct = TRUE /\ time <= last /\ starts # <<>>
        <5>1. loop[l].correct = TRUE
          BY <1>p, <1>t, <4>1 DEF LoopState
        <5>2. time <= last /\ starts # <<>>
          BY <1>w, <2>1, <4>1 DEF InLastWindow
        <5> QED BY <5>1, <5>2
      <4>3. deadline[q] # last
        <5> SUFFICES ASSUME deadline[q] = last PROVE FALSE
          OBVIOUS
        <5>1. time \in Nat /\ last \in Nat /\ time <= last
          <6>1. starts[Len(starts)].at + ValidAnswerTimeOut * q \in Nat
            BY <1>t, <3>4
          <6> QED BY <1>t, <4>2, <6>1
        <5> HIDE DEF last, time
        <5>2. CalculateScore(TRUE, time, last) >= BaseScore
          BY <5>1, ScoreOfInTime
        <5> QED BY <1>p, <4>1, <4>2, <5>2
      <4>4. faults["board"] > 0 /\ completed # 0
        BY <1>h, <3>4, <4>2, <4>3 DEF HandInv, LatestDeadlines
      <4>5. faults'["board"] > 0
        BY <1>k, <2>1, <4>4
      <4>6. ASSUME StartedOnce' PROVE Owner[l] \in late'
        <5>1. completed' # 0
          BY <2>1, <4>4
        <5>2. (NumQuestions > 1 /\ HandInv => OnlyLateInTime)'
          BY InTimeIsLate, PTL
        <5>3. OnlyLateInTime'
          BY <1>h, <5>2
        <5> QED BY <4>6, <5>1, <5>3 DEF OnlyLateInTime
      <4> QED BY <4>5, <4>6
    <3> QED BY <3>1, <3>2, <3>3, <3>4
  <2> QED BY <2>2, <2>3
<1>7. ASSUME NEW m \in Loops, FindStored(m) \/ InsertAnswer(m)
      PROVE  /\ faults'["board"] > 0
             /\ ~StartedOnce' \/ Owner[l] \in late'
  <2>1. /\ UNCHANGED <<starts, late>>
        /\ UNCHANGED faults \/ \E k \in FaultKinds : Strike(k)
    BY <1>7 DEF FindStored, InsertAnswer, completion, FaultKinds
  <2>2. \/ loop'[l] = loop[l]
        \/ loop'[l] = IdleLoop
        \/ loop[l].pc = "find" /\ loop'[l] = [loop[l] EXCEPT !.pc = "insert"]
    <3>1. /\ loop[m].pc \in {"find", "insert"}
          /\ \/ loop' = [loop EXCEPT ![m] = IdleLoop]
             \/ loop[m].pc = "find" /\ loop' = [loop EXCEPT ![m].pc = "insert"]
      BY <1>7 DEF FindStored, InsertAnswer
    <3>2. CASE loop' = [loop EXCEPT ![m] = IdleLoop]
      BY <1>t, <3>2
    <3>3. CASE loop[m].pc = "find" /\ loop' = [loop EXCEPT ![m].pc = "insert"]
      BY <1>t, <3>3
    <3> QED BY <3>1, <3>2, <3>3
  <2>3. loop'[l] # IdleLoop
    BY <1>i, <1>p
  <2>4. CASE loop'[l] = loop[l]
    BY <1>s, <2>1, <2>4
  <2>5. CASE loop[l].pc = "find" /\ loop'[l] = [loop[l] EXCEPT !.pc = "insert"]
    <3>1. /\ loop'[l].question = loop[l].question /\ loop'[l].answer = loop[l].answer
          /\ loop'[l].correct = loop[l].correct
      BY <1>t, <2>5 DEF LoopState
    <3> QED BY <1>q, <2>1, <2>5, <3>1
  <2> QED BY <2>2, <2>3, <2>4, <2>5
<1> QED
  BY <1>1, <1>2, <1>3, <1>4, <1>5, <1>6, <1>7 DEF Next, HandleAnswer

(***************************************************************************)
(* In a game of several questions, whoever knows the answer and sends it   *)
(* inside the windows of the starts in force is paid, unless a leader board*)
(* failed and the answer was in hand then, or the game was not started just*)
(* once and with its deadlines.                                            *)
(***************************************************************************)
THEOREM InTimeIsPaidCorrect ==
  ASSUME NumQuestions > 1
  PROVE  Spec => []InTimeIsPaid
<1>1. Init => PaidInv
  <2>1. Init => \A l \in Loops : loop[l].pc = "idle"
    BY DEF Init, IdleLoop
  <2>2. Init => \A l \in Loops : ~InTime(l)
    BY <2>1 DEF InTime
  <2> QED BY <2>2, HandInvInit, Zenon DEF PaidInv, InTimeIsPaid
<1>2. PaidInv => InTimeIsPaid
  BY DEF PaidInv
<1>3. PaidInv /\ [Next]_vars => PaidInv'
  BY PaidInvNext
<1> QED BY <1>1, <1>2, <1>3, PTL DEF Spec

-----------------------------------------------------------------------------
(***************************************************************************)
(* Answers implement a quiz.  Whoever is about to insert an answer counts  *)
(* as one of those the player is allowed, so there is room for it.         *)
(***************************************************************************)
QuizInv ==
  /\ GradedInv
  /\ BoundInv
  /\ faults["find"] <= MaxFaults["find"]
  /\ completed = 0 => standings = NoAnswers

LEMMA QuizInvInit == Init => QuizInv
BY GradedInvInit, BoundInvInit, AnswersAssumption DEF Init, QuizInv, FaultKinds

(* No kind of fault strikes more often than it may. *)
LEMMA FaultsBounded ==
  ASSUME TypeOK, [Next]_vars, faults["find"] <= MaxFaults["find"]
  PROVE  faults'["find"] <= MaxFaults["find"]
<1>1. /\ "find" \in FaultKinds /\ faults \in [FaultKinds -> Nat]
      /\ faults["find"] \in Nat /\ MaxFaults["find"] \in Nat
  BY AnswersAssumption DEF TypeOK, FaultKinds
<1>2. ASSUME NEW k \in FaultKinds, Strike(k) PROVE faults'["find"] <= MaxFaults["find"]
  <2>1. CASE k = "find"
    <3>1. faults["find"] < MaxFaults["find"] /\ faults'["find"] = faults["find"] + 1
      BY <1>1, <1>2, <2>1 DEF Strike
    <3> QED BY <1>1, <3>1
  <2>2. CASE k # "find"
    BY <1>1, <1>2, <2>2 DEF Strike
  <2> QED BY <2>1, <2>2
<1> QED BY <1>2, StepStrikes

LEMMA QuizInvNext ==
  ASSUME QuizInv, [Next]_vars
  PROVE  QuizInv'
<1>g. GradedInv' /\ BoundInv'
  BY GradedInvNext, BoundInvNext DEF QuizInv
<1>f. faults'["find"] <= MaxFaults["find"]
  BY FaultsBounded DEF QuizInv, GradedInv
<1>t. now \in Nat \ {0}
  BY DEF QuizInv, GradedInv, TypeOK
<1>c. (completed = 0 => standings = NoAnswers)'
  <2>1. CASE CompleteGame
    BY <2>1, <1>t
    DEF QuizInv, CompleteGame, GetLeaderBoard, GetGame, GetNeither, FirstCompletion
  <2>2. CASE ~CompleteGame
    BY <2>2 DEF QuizInv, Next, vars, completion, StampDeadlines, SaveDeadlines,
                StartUnstamped, Recache, Submit, HandleAnswer, Grade, FindStored,
                InsertAnswer, Crash, Tick
  <2> QED BY <2>1, <2>2
<1> QED BY <1>g, <1>f, <1>c DEF QuizInv

LEMMA QuizInit == Init => Game!QuizInit
<1> SUFFICES ASSUME Init PROVE Game!QuizInit
  OBVIOUS
<1>1. {starts[i].at : i \in DOMAIN starts} = {}
  BY DEF Init
<1> QED BY <1>1 DEF Init, NoAnswers, Game!QuizInit, Game!Blank

(* Most steps leave the quiz as it is. *)
LEMMA QuizStutter ==
  ASSUME UNCHANGED <<starts, stored, completed, standings>>
  PROVE  UNCHANGED Game!quizVars
BY DEF Game!quizVars

(* A start adds its moment to those of the quiz, unless it is one of them. *)
LEMMA StartStartsQuiz ==
  ASSUME starts \in Seq(Start), NEW s \in Starters, SaveDeadlines(s)
  PROVE  [Game!QuizNext]_Game!quizVars
<1> DEFINE old == {starts[i].at : i \in DOMAIN starts}
           new == {starts'[i].at : i \in DOMAIN starts'}
<1>1. new = old \cup {stamp[s]}
  <2> DEFINE e == [at |-> stamp[s], saved |-> now]
  <2>1. starts' = Append(starts, e) /\ e.at = stamp[s]
    BY DEF SaveDeadlines
  <2> HIDE DEF e
  <2>2. /\ DOMAIN starts' = DOMAIN starts \cup {Len(starts) + 1}
        /\ starts'[Len(starts) + 1] = e
        /\ \A i \in DOMAIN starts : starts'[i] = starts[i]
    BY <2>1
  <2> QED BY <2>1, <2>2
<1>2. UNCHANGED <<stored, completed, standings>>
  BY DEF SaveDeadlines
<1>3. CASE stamp[s] \in old
  BY <1>1, <1>2, <1>3 DEF Game!quizVars
<1>4. CASE stamp[s] \notin old
  <2>1. stamp[s] \in new \ old
    BY <1>1, <1>4
  <2>2. \E time \in new \ old : Game!StartQuiz(time)
    BY <1>1, <1>2, <2>1 DEF Game!StartQuiz
  <2> QED BY <2>2 DEF Game!QuizNext
<1> QED BY <1>3, <1>4

(* The completion that first has something to tell makes the ranking. *)
LEMMA CompleteRanks ==
  ASSUME QuizInv, CompleteGame
  PROVE  [Game!QuizNext]_Game!quizVars
<1>1. UNCHANGED <<starts, stored>>
  BY DEF CompleteGame
<1>2. now # 0
  BY DEF QuizInv, GradedInv, TypeOK
<1>3. CASE UNCHANGED <<completed, standings>>
  BY <1>1, <1>3, QuizStutter
<1>4. CASE completed = 0 /\ completed' = now /\ standings' \in {NoAnswers, stored}
  BY <1>1, <1>2, <1>4 DEF Game!QuizNext, Game!Rank, Game!Blank, NoAnswers
<1> QED
  BY <1>3, <1>4
  DEF QuizInv, CompleteGame, GetLeaderBoard, GetGame, GetNeither, FirstCompletion

(* An insertion writes an answer, with points only if it was in time. *)
LEMMA InsertWrites ==
  ASSUME QuizInv, NEW l \in Loops, InsertAnswer(l)
  PROVE  [Game!QuizNext]_Game!quizVars
<1> DEFINE p      == Owner[l]
           q      == loop[l].question
           answer == loop[l].answer
<1>t. /\ loop[l] \in LoopState /\ p \in Players
      /\ stored \in [Players -> [QuestionIds -> Seq(Answer)]]
  BY AnswersAssumption DEF QuizInv, GradedInv, TypeOK
<1>1. UNCHANGED <<starts, completed, standings>> /\ loop[l].pc = "insert"
  BY DEF InsertAnswer, completion
<1>2. CASE UNCHANGED stored
  BY <1>1, <1>2, QuizStutter
<1>3. CASE stored' = [stored EXCEPT ![p][q] = Append(@, answer)]
  <2>1. Earned(answer, q) /\ answer \in Answer
    BY <1>1, <1>t DEF QuizInv, GradedInv, LoopState
  <2>2. CASE q \in QuestionIds
    <3>1. stored[p][q] \in Seq(Answer) /\ stored[p] \in [QuestionIds -> Seq(Answer)]
      BY <1>t, <2>2
    <3>2. stored'[p][q] = Append(stored[p][q], answer)
      <4> HIDE DEF answer
      <4>1. stored'[p] = [stored[p] EXCEPT ![q] = Append(@, answer)]
        BY <1>3, <1>t
      <4> QED BY <2>2, <3>1, <4>1
    <3>3. Len(stored[p][q]) < Cardinality(LoopsOf(p)) + MaxFaults["find"]
      <4>1. Len(stored[p][q]) + Cardinality(Inserting(p, q))
              <= Cardinality(LoopsOf(p)) + faults["find"]
        BY <1>t, <2>2 DEF QuizInv, BoundInv, Bounded
      <4>2. Cardinality(Inserting(p, q)) \in Nat \ {0}
        <5>1. l \in Inserting(p, q)
          BY <1>1 DEF Inserting, LoopsOf
        <5> QED BY <5>1, InsertingFinite, FS_EmptySet
      <4>3. /\ Len(stored[p][q]) \in Nat /\ Cardinality(LoopsOf(p)) \in Nat
            /\ faults["find"] \in Nat /\ MaxFaults["find"] \in Nat
            /\ faults["find"] <= MaxFaults["find"]
        <5>1. Len(stored[p][q]) \in Nat /\ Cardinality(LoopsOf(p)) \in Nat
          <6>1. Cardinality(LoopsOf(p)) \in Nat
            BY <1>t, <2>2, InsertingFinite
          <6> QED BY <3>1, <6>1
        <5>2. faults["find"] \in Nat /\ MaxFaults["find"] \in Nat
          <6>1. faults \in [FaultKinds -> Nat] /\ MaxFaults \in [FaultKinds -> Nat]
            BY AnswersAssumption, Zenon DEF QuizInv, GradedInv, TypeOK
          <6> QED BY <6>1 DEF FaultKinds
        <5> QED BY <5>1, <5>2 DEF QuizInv
      <4> DEFINE len == Len(stored[p][q])
                 in  == Cardinality(Inserting(p, q))
                 all == Cardinality(LoopsOf(p))
      <4>4. len + in <= all + faults["find"] /\ len \in Nat /\ all \in Nat /\ in \in Nat \ {0}
        BY <4>1, <4>2, <4>3
      <4> HIDE DEF len, in, all
      <4>5. len < all + MaxFaults["find"]
        BY <4>3, <4>4
      <4> QED BY <4>5 DEF len, all
    <3>4. answer.point > 0 => Game!Open(q, answer.time)
      <4> SUFFICES ASSUME answer.point > 0 PROVE Game!Open(q, answer.time)
        OBVIOUS
      <4>1. PICK i \in DOMAIN starts : InWindow(answer, q, starts[i].at)
        BY <2>1 DEF Earned
      <4> QED BY <4>1 DEF InWindow, Game!Open
    <3>5. Game!Write(p, q)
      <4> DEFINE last == Len(stored[p][q]) + 1
      <4>1. last \in DOMAIN stored'[p][q] /\ stored'[p][q][last] = answer
        <5> DEFINE old == stored[p][q]
                   new == stored'[p][q]
        <5>1. /\ old \in Seq(Answer) /\ answer \in Answer /\ new = Append(old, answer)
              /\ last = Len(old) + 1
          BY <2>1, <3>1, <3>2
        <5> HIDE DEF answer, old, new, last
        <5>2. last \in DOMAIN new /\ new[last] = answer
          BY <5>1
        <5> QED BY <5>2 DEF new
      <4> HIDE DEF last, answer
      <4> QED BY <1>1, <1>3, <1>t, <3>3, <3>4, <4>1 DEF Game!Write
    <3> QED BY <1>t, <2>2, <3>5 DEF Game!QuizNext
  <2>3. CASE q \notin QuestionIds
    <3>1. stored' = stored
      BY <1>3, <1>t, <2>3
    <3> QED BY <1>1, <3>1, QuizStutter
  <2> QED BY <2>2, <2>3
<1> QED BY <1>2, <1>3 DEF InsertAnswer

LEMMA QuizStep == QuizInv /\ [Next]_vars => [Game!QuizNext]_Game!quizVars
<1> SUFFICES ASSUME QuizInv, [Next]_vars PROVE [Game!QuizNext]_Game!quizVars
  OBVIOUS
<1>1. ASSUME NEW s \in Starters, SaveDeadlines(s) PROVE [Game!QuizNext]_Game!quizVars
  BY <1>1, StartStartsQuiz DEF QuizInv, GradedInv, TypeOK
<1>2. CASE CompleteGame
  BY <1>2, CompleteRanks
<1>3. ASSUME NEW l \in Loops, InsertAnswer(l) PROVE [Game!QuizNext]_Game!quizVars
  BY <1>3, InsertWrites
<1>4. CASE \/ \E s \in Starters : StampDeadlines(s) \/ StartUnstamped(s)
           \/ Recache \/ Crash \/ Tick \/ UNCHANGED vars
  BY <1>4, QuizStutter
  DEF StampDeadlines, StartUnstamped, Recache, Crash, Tick, vars, completion
<1>5. ASSUME NEW l \in Loops, NEW q \in QuestionIds, NEW correct \in BOOLEAN,
             Submit(l, q, correct)
      PROVE  [Game!QuizNext]_Game!quizVars
  BY <1>5, QuizStutter DEF Submit, completion
<1>6. ASSUME NEW l \in Loops, Grade(l) \/ FindStored(l)
      PROVE  [Game!QuizNext]_Game!quizVars
  BY <1>6, QuizStutter DEF Grade, FindStored, completion
<1> QED BY <1>1, <1>2, <1>3, <1>4, <1>5, <1>6 DEF Next, HandleAnswer

(***************************************************************************)
(* Answering behaves like the quiz, for any connections, starts and faults:*)
(* a player answers a question at most once per connection and look-up that*)
(* fails, with points only while it was open, and there is one ranking, of *)
(* the sheet as it was.                                                    *)
(***************************************************************************)
THEOREM Refinement == Spec => ImplementsQuiz
<1>1. Init => QuizInv /\ Game!QuizInit
  BY QuizInvInit, QuizInit
<1>2. QuizInv /\ [Next]_vars => QuizInv'
  BY QuizInvNext
<1>3. QuizInv /\ [Next]_vars => [Game!QuizNext]_Game!quizVars
  BY QuizStep
<1> QED BY <1>1, <1>2, <1>3, PTL DEF Spec, ImplementsQuiz, Game!QuizSpec
=============================================================================
