----------------------------- MODULE SetupProofs -----------------------------
(***************************************************************************)
(* Theorems about the set-up of games: first about GameSetup, for any set  *)
(* of matches and any number of faults of each kind, then about the        *)
(* Question Service beside it, for any question bank, limit and faults.    *)
(* One of the latter carries the former over to the two together.          *)
(***************************************************************************)
EXTENDS QuestionService, TLAPS

LEMMA StrikeType ==
  ASSUME faults \in [FaultKinds -> Nat], NEW k \in FaultKinds, Strike(k)
  PROVE  faults' \in [FaultKinds -> Nat]
BY DEF Strike

LEMMA IdleTypes == IdleCreator \in CreatorState /\ IdleSaver \in SaverState
BY DEF IdleCreator, IdleSaver, CreatorState, SaverState

(* What a crash leaves behind is of the declared types. *)
LEMMA LoseEverythingType ==
  ASSUME TypeOK, LoseEverything, faults' \in [FaultKinds -> Nat]
  PROVE  TypeOK'
<1>1. matchMessage' \in MessageStates
  BY DEF TypeOK, LoseEverything, MessageStates
<1>2. questionMessage' \in [Matches -> MessageStates]
  BY DEF TypeOK, LoseEverything, MessageStates
<1> QED BY <1>1, <1>2, IdleTypes DEF TypeOK, LoseEverything

-----------------------------------------------------------------------------
(***************************************************************************)
(* Type correctness.  It is not inductive alone: a handler that is past its*)
(* first step must have a match in hand.                                   *)
(***************************************************************************)
InHand ==
  /\ creator.pc = "insert" => creator.match \in creator.todo
  /\ saver.pc # "idle" => saver.match \in Matches

LEMMA TypeInit == Init => TypeOK /\ InHand
BY IdleTypes
   DEF Init, TypeOK, InHand, MessageStates, FaultKinds, IdleCreator, IdleSaver

LEMMA TypeNext == TypeOK /\ InHand /\ [Next]_vars => TypeOK'
<1> SUFFICES ASSUME TypeOK, InHand, [Next]_vars PROVE TypeOK'
  OBVIOUS
<1>1. ASSUME NEW m \in Matches, PublishQuestions(m) PROVE TypeOK'
  BY <1>1 DEF PublishQuestions, TypeOK, MessageStates
<1>2. CASE ReceiveMatches
  BY <1>2 DEF ReceiveMatches, TypeOK, MessageStates, CreatorState
<1>3. ASSUME NEW m \in Matches, GetQuestionsByMatchId(m) PROVE TypeOK'
  <2>1. creator' \in CreatorState
    <3> DEFINE Looked(found) ==
          [creator EXCEPT !.pc = "insert", !.match = m, !.found = found]
    <3>1. creator' = Looked(m \in byMatch) \/ creator' = Looked(FALSE)
      BY <1>3 DEF GetQuestionsByMatchId, Call
    <3>2. \A found \in BOOLEAN : Looked(found) \in CreatorState
      BY DEF TypeOK, CreatorState
    <3>3. (m \in byMatch) \in BOOLEAN
      OBVIOUS
    <3> HIDE DEF Looked
    <3> QED BY <3>1, <3>2, <3>3, Zenon
  <2>2. faults' \in [FaultKinds -> Nat]
    BY <1>3, StrikeType DEF GetQuestionsByMatchId, Call, TypeOK, FaultKinds
  <2> QED BY <1>3, <2>1, <2>2 DEF GetQuestionsByMatchId, TypeOK
<1>4. CASE InsertGame
  <2>1. creator.match \in Matches
    BY <1>4 DEF InsertGame, InHand, TypeOK, CreatorState
  <2>2. creator' \in CreatorState
    <3> DEFINE left == creator.todo \ {creator.match}
               next == [creator EXCEPT !.pc = IF left = {} THEN "announce" ELSE "get",
                                       !.todo = left, !.match = None, !.found = FALSE]
    <3>1. next \in CreatorState
      BY DEF TypeOK, CreatorState
    <3>2. creator' = [next EXCEPT !.created = @ \cup {creator.match}] \/ creator' = next
      BY <1>4 DEF InsertGame
    <3> HIDE DEF next
    <3> QED BY <2>1, <3>1, <3>2 DEF CreatorState
  <2>3. game' \in [Matches -> {"none", "empty", "filled"}] /\ unanswered' \subseteq Matches
    BY <1>4, <2>1 DEF InsertGame, TypeOK
  <2>4. faults' \in [FaultKinds -> Nat]
    BY <1>4, StrikeType DEF InsertGame, TypeOK, FaultKinds
  <2> QED BY <1>4, <2>2, <2>3, <2>4 DEF InsertGame, TypeOK
<1>5. ASSUME NEW m \in Matches, Announce(m) PROVE TypeOK'
  BY <1>5 DEF Announce, AfterAnnouncing, TypeOK, CreatorState
<1>6. CASE FinishMatches
  BY <1>6, IdleTypes DEF FinishMatches, TypeOK, MessageStates
<1>7. ASSUME NEW m \in Matches, ReceiveQuestions(m) PROVE TypeOK'
  BY <1>7 DEF ReceiveQuestions, IdleSaver, TypeOK, MessageStates, SaverState
<1>8. CASE UpdateGame
  <2>1. saver.match \in Matches
    BY <1>8 DEF UpdateGame, InHand
  <2>2. saver' \in SaverState
    BY <1>8 DEF UpdateGame, AfterMiss, Call, TypeOK, SaverState
  <2>3. game' \in [Matches -> {"none", "empty", "filled"}] /\ updated' \subseteq Matches
    BY <1>8, <2>1 DEF UpdateGame, Call, TypeOK
  <2>4. faults' \in [FaultKinds -> Nat]
    BY <1>8, StrikeType DEF UpdateGame, Call, TypeOK, FaultKinds
  <2> QED BY <1>8, <2>2, <2>3, <2>4 DEF UpdateGame, TypeOK
<1>9. CASE StashByMatchId
  <2>1. saver.match \in Matches
    BY <1>9 DEF StashByMatchId, InHand
  <2>2. CASE UNCHANGED faults
    BY <1>9, <2>1, <2>2, LoseEverythingType DEF StashByMatchId, TypeOK, SaverState, Strike
  <2>3. CASE Strike("set")
    <3>1. faults' \in [FaultKinds -> Nat]
      BY <2>3, StrikeType DEF TypeOK, FaultKinds
    <3>2. CASE LoseEverything
      BY <3>1, <3>2, LoseEverythingType
    <3>3. CASE ~LoseEverything
      BY <1>9, <2>1, <3>1, <3>3 DEF StashByMatchId, TypeOK, SaverState
    <3> QED BY <3>2, <3>3
  <2> QED BY <1>9, <2>2, <2>3 DEF StashByMatchId
<1>10. CASE FindGame
  <2>1. saver' \in SaverState
    BY <1>10 DEF FindGame, Found, Call, TypeOK, SaverState
  <2>2. faults' \in [FaultKinds -> Nat]
    BY <1>10, StrikeType DEF FindGame, Call, TypeOK, FaultKinds
  <2> QED BY <1>10, <2>1, <2>2 DEF FindGame, TypeOK
<1>11. CASE CacheByGameId
  <2>1. saver.match \in Matches
    BY <1>11 DEF CacheByGameId, InHand
  <2>2. faults' \in [FaultKinds -> Nat]
    BY <1>11, StrikeType DEF CacheByGameId, Call, TypeOK, FaultKinds
  <2>3. byGame' \subseteq Matches
    BY <1>11, <2>1 DEF CacheByGameId, Call, TypeOK
  <2> QED BY <1>11, <2>2, <2>3, IdleTypes DEF CacheByGameId, TypeOK, MessageStates
<1>12. CASE Crash
  BY <1>12, StrikeType, LoseEverythingType DEF Crash, TypeOK, FaultKinds
<1>13. CASE UNCHANGED vars
  BY <1>13 DEF vars, TypeOK
<1> QED
  BY <1>1, <1>2, <1>3, <1>4, <1>5, <1>6, <1>7, <1>8, <1>9, <1>10, <1>11, <1>12,
     <1>13 DEF Next, CreatorStep, SaverStep

LEMMA InHandNext == TypeOK /\ InHand /\ [Next]_vars => InHand'
<1> SUFFICES ASSUME TypeOK, InHand, [Next]_vars PROVE InHand'
  OBVIOUS
<1>1. ASSUME UNCHANGED <<creator, saver>> PROVE InHand'
  BY <1>1 DEF InHand
<1>2. ASSUME LoseEverything PROVE InHand'
  BY <1>2 DEF LoseEverything, InHand, IdleCreator, IdleSaver
<1>3. ASSUME CreatorStep PROVE InHand'
  <2>1. CASE ReceiveMatches
    BY <2>1 DEF ReceiveMatches, InHand, TypeOK, CreatorState
  <2>2. ASSUME NEW m \in Matches, GetQuestionsByMatchId(m) PROVE InHand'
    BY <2>2 DEF GetQuestionsByMatchId, Call, InHand, TypeOK, CreatorState
  <2>3. CASE InsertGame
    BY <2>3 DEF InsertGame, InHand, TypeOK, CreatorState
  <2>4. ASSUME NEW m \in Matches, Announce(m) PROVE InHand'
    BY <2>4 DEF Announce, InHand, TypeOK, CreatorState
  <2>5. CASE FinishMatches
    BY <2>5 DEF FinishMatches, IdleCreator, InHand
  <2> QED BY <1>3, <2>1, <2>2, <2>3, <2>4, <2>5 DEF CreatorStep
<1>4. ASSUME SaverStep PROVE InHand'
  <2>1. ASSUME NEW m \in Matches, ReceiveQuestions(m) PROVE InHand'
    BY <2>1 DEF ReceiveQuestions, IdleSaver, InHand
  <2>2. CASE UpdateGame
    BY <2>2 DEF UpdateGame, Call, InHand, TypeOK, SaverState
  <2>3. CASE StashByMatchId
    BY <2>3, <1>2 DEF StashByMatchId, InHand, TypeOK, SaverState
  <2>4. CASE FindGame
    BY <2>4 DEF FindGame, Call, InHand, TypeOK, SaverState
  <2>5. CASE CacheByGameId
    BY <2>5 DEF CacheByGameId, IdleSaver, InHand
  <2> QED BY <1>4, <2>1, <2>2, <2>3, <2>4, <2>5 DEF SaverStep
<1> QED
  BY <1>1, <1>2, <1>3, <1>4 DEF Next, PublishQuestions, Crash, vars

(* Every reachable state of the set-up is of the declared types. *)
THEOREM TypeCorrect == Spec => []TypeOK
BY TypeInit, TypeNext, InHandNext, PTL DEF Spec

-----------------------------------------------------------------------------
(***************************************************************************)
(* The strengthening behind the safety properties.                         *)
(*   - a match that is still to be tried has no document, so inserting one *)
(*     never empties a game the questions have reached;                    *)
(*   - the question consumer past its update has kept the questions        *)
(*     somewhere, or both ways of keeping them have failed;                *)
(*   - the id it found is of a game that exists, and it finds the id of a  *)
(*     game it has updated.                                                *)
(***************************************************************************)
UntriedHaveNoGame ==
  /\ matchMessage = "queued" => \A m \in Matches : game[m] = "none"
  /\ creator.pc # "idle" => matchMessage = "handling"
  /\ creator.pc \in {"get", "insert"} => \A m \in creator.todo : game[m] = "none"

Kept(m) ==
  \/ game[m] = "filled"
  \/ m \in byMatch
  \/ faults["update"] > 0 /\ faults["set"] > 0

SaverKnows ==
  /\ saver.pc # "idle" => questionMessage[saver.match] = "handling"
  /\ saver.pc = "update" => ~saver.error
  /\ saver.pc = "stash" /\ saver.error => faults["update"] > 0
  /\ saver.pc \in {"find", "cache"} => Kept(saver.match)
  /\ saver.pc = "cache" =>
       /\ saver.hit => game[saver.match] # "none"
       /\ saver.match \in updated => saver.hit \/ faults["find"] > 0

SetupInv ==
  /\ TypeOK
  /\ InHand
  /\ UntriedHaveNoGame
  /\ SaverKnows
  /\ QuestionsKept
  /\ GameFirstIsComplete
  /\ CachedGamesExist

(* What the two stores hold only grows, and faults are never forgotten. *)
StoresGrow ==
  /\ \A m \in Matches : game[m] # "none" => game'[m] # "none"
  /\ \A m \in Matches : game[m] = "filled" => game'[m] = "filled"
  /\ byMatch \subseteq byMatch'
  /\ byGame \subseteq byGame'
  /\ \A k \in FaultKinds : faults[k] > 0 => faults'[k] > 0

LEMMA StrikeGrows ==
  ASSUME faults \in [FaultKinds -> Nat], NEW k \in FaultKinds, Strike(k)
  PROVE  /\ \A j \in FaultKinds : faults[j] > 0 => faults'[j] > 0
         /\ faults'[k] > 0
BY DEF Strike

LEMMA SetupInvInit == Init => SetupInv
BY TypeInit
   DEF Init, SetupInv, UntriedHaveNoGame, SaverKnows, QuestionsKept,
       GameFirstIsComplete, CachedGamesExist, IdleCreator, IdleSaver

LEMMA StoresGrowNext == SetupInv /\ [Next]_vars => StoresGrow
<1> SUFFICES ASSUME SetupInv, [Next]_vars PROVE StoresGrow
  OBVIOUS
<1>t. TypeOK
  BY DEF SetupInv
<1>f. ASSUME NEW k \in FaultKinds, UNCHANGED faults \/ Strike(k)
      PROVE  \A j \in FaultKinds : faults[j] > 0 => faults'[j] > 0
  BY <1>f, <1>t, StrikeGrows DEF TypeOK
<1>1. ASSUME UNCHANGED <<game, byMatch, byGame, faults>> PROVE StoresGrow
  BY <1>1 DEF StoresGrow
<1>2. ASSUME CreatorStep PROVE StoresGrow
  <2>1. ASSUME NEW m \in Matches, GetQuestionsByMatchId(m) PROVE StoresGrow
    <3>1. UNCHANGED faults \/ Strike("get")
      BY <2>1 DEF GetQuestionsByMatchId, Call
    <3> QED BY <2>1, <3>1, <1>f DEF GetQuestionsByMatchId, StoresGrow, FaultKinds
  <2>2. CASE InsertGame
    <3>1. UNCHANGED faults \/ Strike("insert")
      BY <2>2 DEF InsertGame
    <3>2. game[creator.match] = "none"
      BY <2>2 DEF InsertGame, SetupInv, InHand, UntriedHaveNoGame
    <3>3. \A m \in Matches : game[m] # "none" => game'[m] = game[m]
      BY <2>2, <3>2, <1>t DEF InsertGame, TypeOK
    <3> QED BY <2>2, <3>1, <3>3, <1>f DEF InsertGame, StoresGrow, FaultKinds
  <2> QED
    BY <1>1, <1>2, <2>1, <2>2 DEF CreatorStep, ReceiveMatches, Announce, FinishMatches
<1>3. ASSUME SaverStep PROVE StoresGrow
  <2>1. CASE UpdateGame
    <3>1. UNCHANGED faults \/ Strike("update")
      BY <2>1 DEF UpdateGame, Call
    <3>2. \A m \in Matches : game'[m] = game[m] \/ (game[m] # "none" /\ game'[m] = "filled")
      BY <2>1, <1>t DEF UpdateGame, Call, TypeOK
    <3> QED BY <2>1, <3>1, <3>2, <1>f DEF UpdateGame, StoresGrow, FaultKinds
  <2>2. CASE StashByMatchId
    <3>1. UNCHANGED faults \/ Strike("set")
      BY <2>2 DEF StashByMatchId
    <3> QED BY <2>2, <3>1, <1>f DEF StashByMatchId, LoseEverything, StoresGrow, FaultKinds
  <2>3. CASE FindGame
    <3>1. UNCHANGED faults \/ Strike("find")
      BY <2>3 DEF FindGame, Call
    <3> QED BY <2>3, <3>1, <1>f DEF FindGame, StoresGrow, FaultKinds
  <2>4. CASE CacheByGameId
    <3>1. UNCHANGED faults \/ Strike("set")
      BY <2>4 DEF CacheByGameId, Call
    <3> QED BY <2>4, <3>1, <1>f DEF CacheByGameId, Call, StoresGrow, FaultKinds
  <2> QED BY <1>1, <1>3, <2>1, <2>2, <2>3, <2>4 DEF SaverStep, ReceiveQuestions
<1>4. ASSUME Crash PROVE StoresGrow
  BY <1>4, <1>f DEF Crash, LoseEverything, StoresGrow, FaultKinds
<1> QED
  BY <1>1, <1>2, <1>3, <1>4 DEF Next, PublishQuestions, vars

LEMMA UntriedNext == SetupInv /\ [Next]_vars => UntriedHaveNoGame'
<1> SUFFICES ASSUME SetupInv, [Next]_vars PROVE UntriedHaveNoGame'
  OBVIOUS
<1> USE DEF UntriedHaveNoGame
<1>i. TypeOK /\ InHand /\ UntriedHaveNoGame /\ creator \in CreatorState
  BY DEF SetupInv, TypeOK
<1>1. ASSUME UNCHANGED <<matchMessage, creator, game>> PROVE UntriedHaveNoGame'
  BY <1>1, <1>i
<1>2. ASSUME LoseEverything PROVE UntriedHaveNoGame'
  BY <1>2, <1>i DEF LoseEverything, IdleCreator
<1>3. CASE ReceiveMatches
  BY <1>3, <1>i DEF ReceiveMatches, CreatorState
<1>4. ASSUME NEW m \in Matches, GetQuestionsByMatchId(m) PROVE UntriedHaveNoGame'
  BY <1>4, <1>i DEF GetQuestionsByMatchId, Call, CreatorState
<1>5. CASE InsertGame
  <2> DEFINE left == creator.todo \ {creator.match}
             next == [creator EXCEPT !.pc = IF left = {} THEN "announce" ELSE "get",
                                     !.todo = left, !.match = None, !.found = FALSE]
  <2>1. creator'.todo = left
    <3>1. creator' = [next EXCEPT !.created = @ \cup {creator.match}] \/ creator' = next
      BY <1>5 DEF InsertGame
    <3>2. next \in CreatorState /\ next.todo = left
      BY <1>i DEF CreatorState
    <3> HIDE DEF next
    <3> QED BY <3>1, <3>2 DEF CreatorState
  <2>2. \A m \in Matches \ {creator.match} : game'[m] = game[m]
    BY <1>5, <1>i DEF InsertGame, TypeOK
  <2>3. matchMessage' = "handling" /\ creator.todo \subseteq Matches
    BY <1>5, <1>i DEF InsertGame, CreatorState
  <2> QED BY <1>5, <1>i, <2>1, <2>2, <2>3 DEF InsertGame
<1>6. ASSUME NEW m \in Matches, Announce(m) PROVE UntriedHaveNoGame'
  BY <1>6, <1>i DEF Announce, CreatorState
<1>7. CASE FinishMatches
  BY <1>7, <1>i DEF FinishMatches, IdleCreator
<1>8. CASE UpdateGame
  <2>1. \A m \in Matches : game[m] = "none" => game'[m] = "none"
    BY <1>8, <1>i DEF UpdateGame, Call, TypeOK
  <2> QED BY <1>8, <1>i, <2>1 DEF UpdateGame, CreatorState
<1>9. CASE StashByMatchId
  BY <1>9, <1>1, <1>2 DEF StashByMatchId
<1> QED
  BY <1>1, <1>2, <1>3, <1>4, <1>5, <1>6, <1>7, <1>8, <1>9
  DEF Next, CreatorStep, SaverStep, PublishQuestions, ReceiveQuestions, FindGame,
      CacheByGameId, Crash, vars

LEMMA SaverKnowsNext == SetupInv /\ [Next]_vars => SaverKnows'
<1> SUFFICES ASSUME SetupInv, [Next]_vars PROVE SaverKnows'
  OBVIOUS
<1>i. TypeOK /\ InHand /\ SaverKnows /\ saver \in SaverState
  BY DEF SetupInv, TypeOK
<1>g. StoresGrow
  BY StoresGrowNext
<1>k. \A m \in Matches : Kept(m) => Kept(m)'
  BY <1>g DEF Kept, StoresGrow, FaultKinds
<1>1. ASSUME UNCHANGED <<saver, updated>>,
             saver.pc # "idle" => questionMessage'[saver.match] = questionMessage[saver.match]
      PROVE  SaverKnows'
  BY <1>1, <1>i, <1>g, <1>k DEF SaverKnows, InHand, StoresGrow, FaultKinds
<1>2. ASSUME LoseEverything PROVE SaverKnows'
  BY <1>2 DEF LoseEverything, SaverKnows, IdleSaver
<1>3. ASSUME NEW m \in Matches, PublishQuestions(m) PROVE SaverKnows'
  <2>1. saver.pc # "idle" => saver.match # m
    BY <1>3, <1>i DEF PublishQuestions, SaverKnows
  <2> QED BY <1>1, <1>3, <1>i, <2>1 DEF PublishQuestions, InHand, TypeOK
<1>4. ASSUME NEW m \in Matches, ReceiveQuestions(m) PROVE SaverKnows'
  BY <1>4, <1>i DEF ReceiveQuestions, IdleSaver, SaverKnows, TypeOK
<1>5. CASE UpdateGame
  <2>1. PICK m \in Matches : m = saver.match
    BY <1>5, <1>i DEF UpdateGame, InHand
  <2>2. questionMessage'[m] = "handling" /\ ~saver.error
    BY <1>5, <1>i, <2>1 DEF UpdateGame, SaverKnows
  <2>3. CASE saver' = [saver EXCEPT !.pc = "stash"]
    BY <1>i, <2>1, <2>2, <2>3 DEF SaverKnows, SaverState
  <2>4. CASE saver' = [saver EXCEPT !.pc = "stash", !.error = TRUE] /\ Strike("update")
    <3>1. faults'["update"] > 0
      BY <2>4, <1>i, StrikeGrows DEF TypeOK, FaultKinds
    <3> QED BY <1>i, <2>1, <2>2, <2>4, <3>1 DEF SaverKnows, SaverState
  <2>5. CASE saver' = [saver EXCEPT !.pc = "find"] /\ game' = [game EXCEPT ![m] = "filled"]
    <3>1. Kept(m)'
      BY <2>5, <1>i DEF Kept, TypeOK
    <3> QED BY <1>i, <2>1, <2>2, <2>5, <3>1 DEF SaverKnows, SaverState
  <2> QED
    BY <1>5, <2>1, <2>3, <2>4, <2>5 DEF UpdateGame, AfterMiss, Call
<1>6. CASE StashByMatchId
  <2>1. PICK m \in Matches : m = saver.match /\ questionMessage[m] = "handling"
    BY <1>6, <1>i DEF StashByMatchId, InHand, SaverKnows
  <2>2. CASE LoseEverything
    BY <2>2, <1>2
  <2>3. CASE ~LoseEverything
    <3>1. /\ saver' = [saver EXCEPT !.pc = "find"]
          /\ UNCHANGED questionMessage
          /\ m \in byMatch' \/ (Strike("set") /\ saver.error)
      BY <1>6, <2>1, <2>3 DEF StashByMatchId
    <3>2. Kept(m)'
      <4>1. CASE m \in byMatch'
        BY <4>1 DEF Kept
      <4>2. CASE Strike("set") /\ saver.error
        <5>1. faults'["set"] > 0
          BY <4>2, <1>i, StrikeGrows DEF TypeOK, FaultKinds
        <5>2. faults'["update"] > 0
          BY <1>6, <4>2, <1>i, <1>g DEF StashByMatchId, SaverKnows, StoresGrow, FaultKinds
        <5> QED BY <5>1, <5>2 DEF Kept
      <4> QED BY <3>1, <4>1, <4>2
    <3> QED BY <2>1, <3>1, <3>2, <1>i DEF SaverKnows, SaverState
  <2> QED BY <2>2, <2>3
<1>7. CASE FindGame
  <2>1. PICK m \in Matches :
          m = saver.match /\ questionMessage[m] = "handling" /\ Kept(m)'
    BY <1>7, <1>i, <1>k DEF FindGame, InHand, SaverKnows
  <2>2. /\ saver'.pc = "cache" /\ saver'.match = m
        /\ UNCHANGED <<game, updated, questionMessage>>
    BY <1>7, <1>i, <2>1 DEF FindGame, Call, SaverState
  <2>3. CASE saver' = [saver EXCEPT !.pc = "cache", !.hit = Found(m)]
    <3>1. saver'.hit <=> game[m] # "none"
      BY <2>3, <1>i DEF Found, SaverState
    <3>2. m \in updated => game[m] # "none"
      BY DEF SetupInv, GameFirstIsComplete
    <3> QED BY <2>1, <2>2, <3>1, <3>2 DEF SaverKnows
  <2>4. CASE saver' = [saver EXCEPT !.pc = "cache", !.hit = FALSE] /\ Strike("find")
    <3>1. faults'["find"] > 0
      BY <2>4, <1>i, StrikeGrows DEF TypeOK, FaultKinds
    <3>2. ~saver'.hit
      BY <2>4, <1>i DEF SaverState
    <3> QED BY <2>1, <2>2, <3>1, <3>2 DEF SaverKnows
  <2> QED BY <1>7, <2>1, <2>3, <2>4 DEF FindGame, Call
<1>8. CASE CacheByGameId
  BY <1>8 DEF CacheByGameId, IdleSaver, SaverKnows
<1> QED
  BY <1>1, <1>2, <1>3, <1>4, <1>5, <1>6, <1>7, <1>8
  DEF Next, CreatorStep, SaverStep, ReceiveMatches, GetQuestionsByMatchId, InsertGame,
      Announce, FinishMatches, Crash, vars

LEMMA QuestionsKeptNext == SetupInv /\ [Next]_vars => QuestionsKept'
<1> SUFFICES ASSUME SetupInv, [Next]_vars PROVE QuestionsKept'
  OBVIOUS
<1>i. TypeOK /\ InHand /\ SaverKnows /\ QuestionsKept
  BY DEF SetupInv
<1>k. \A m \in Matches : Kept(m) => Kept(m)'
  BY StoresGrowNext DEF Kept, StoresGrow, FaultKinds
<1>1. ASSUME \A m \in Matches : questionMessage'[m] = "done" => questionMessage[m] = "done"
      PROVE  QuestionsKept'
  BY <1>1, <1>i, <1>k DEF QuestionsKept, Kept
<1>2. CASE CacheByGameId
  <2>1. \A m \in Matches :
          questionMessage'[m] = "done" => questionMessage[m] = "done" \/ m = saver.match
    BY <1>2, <1>i DEF CacheByGameId, TypeOK
  <2>2. Kept(saver.match) /\ saver.match \in Matches
    BY <1>2, <1>i DEF CacheByGameId, SaverKnows, InHand
  <2> QED BY <2>1, <2>2, <1>i, <1>k DEF QuestionsKept, Kept
<1>3. ASSUME NEW m \in Matches, PublishQuestions(m) PROVE QuestionsKept'
  BY <1>3, <1>1, <1>i DEF PublishQuestions, TypeOK
<1>4. ASSUME NEW m \in Matches, ReceiveQuestions(m) PROVE QuestionsKept'
  BY <1>4, <1>1, <1>i DEF ReceiveQuestions, TypeOK
<1>5. ASSUME LoseEverything PROVE QuestionsKept'
  BY <1>5, <1>1 DEF LoseEverything
<1>6. ASSUME UNCHANGED questionMessage PROVE QuestionsKept'
  BY <1>6, <1>1
<1> QED
  BY <1>2, <1>3, <1>4, <1>5, <1>6
  DEF Next, CreatorStep, SaverStep, ReceiveMatches, GetQuestionsByMatchId, InsertGame,
      Announce, FinishMatches, UpdateGame, StashByMatchId, FindGame, Crash, vars

LEMMA GameFirstNext == SetupInv /\ [Next]_vars => GameFirstIsComplete'
<1> SUFFICES ASSUME SetupInv, [Next]_vars PROVE GameFirstIsComplete'
  OBVIOUS
<1>i. TypeOK /\ InHand /\ SaverKnows /\ GameFirstIsComplete
  BY DEF SetupInv
<1>g. StoresGrow
  BY StoresGrowNext
<1>1. ASSUME UNCHANGED updated,
             \A m \in Matches : questionMessage'[m] = "done" => questionMessage[m] = "done"
      PROVE  GameFirstIsComplete'
  BY <1>1, <1>i, <1>g DEF GameFirstIsComplete, StoresGrow, TypeOK, FaultKinds
<1>2. CASE UpdateGame
  <2>1. PICK m \in Matches : m = saver.match /\ questionMessage'[m] = "handling"
    BY <1>2, <1>i DEF UpdateGame, InHand, SaverKnows
  <2>2. UNCHANGED updated \/ (updated' = updated \cup {m} /\ game'[m] = "filled")
    BY <1>2, <1>i, <2>1 DEF UpdateGame, Call, TypeOK
  <2>3. UNCHANGED questionMessage
    BY <1>2 DEF UpdateGame
  <2> QED
    BY <1>i, <1>g, <2>1, <2>2, <2>3 DEF GameFirstIsComplete, StoresGrow, TypeOK, FaultKinds
<1>3. CASE CacheByGameId
  <2>1. PICK m \in Matches : m = saver.match
    BY <1>3, <1>i DEF CacheByGameId, InHand
  <2>2. \A n \in Matches : questionMessage'[n] = "done" => questionMessage[n] = "done" \/ n = m
    BY <1>3, <1>i, <2>1 DEF CacheByGameId, TypeOK
  <2>3. m \in updated => m \in byGame' \/ faults'["find"] > 0 \/ faults'["set"] > 0
    <3>1. m \in updated => saver.hit \/ faults["find"] > 0
      BY <1>3, <1>i, <2>1 DEF CacheByGameId, SaverKnows
    <3>2. CASE Strike("set")
      BY <3>2, <1>i, StrikeGrows DEF TypeOK, FaultKinds
    <3>3. CASE byGame' = IF saver.hit THEN byGame \cup {m} ELSE byGame
      BY <3>1, <3>3, <1>g DEF StoresGrow, FaultKinds
    <3> QED BY <1>3, <2>1, <3>2, <3>3 DEF CacheByGameId, Call
  <2>4. UNCHANGED updated
    BY <1>3 DEF CacheByGameId
  <2> QED
    BY <1>i, <1>g, <2>2, <2>3, <2>4 DEF GameFirstIsComplete, StoresGrow, TypeOK, FaultKinds
<1>4. ASSUME NEW m \in Matches, PublishQuestions(m) PROVE GameFirstIsComplete'
  BY <1>4, <1>1, <1>i DEF PublishQuestions, TypeOK
<1>5. ASSUME NEW m \in Matches, ReceiveQuestions(m) PROVE GameFirstIsComplete'
  BY <1>5, <1>1, <1>i DEF ReceiveQuestions, TypeOK
<1>6. ASSUME LoseEverything PROVE GameFirstIsComplete'
  BY <1>6, <1>1 DEF LoseEverything
<1>7. ASSUME UNCHANGED <<questionMessage, updated>> PROVE GameFirstIsComplete'
  BY <1>7, <1>1
<1> QED
  BY <1>2, <1>3, <1>4, <1>5, <1>6, <1>7
  DEF Next, CreatorStep, SaverStep, ReceiveMatches, GetQuestionsByMatchId, InsertGame,
      Announce, FinishMatches, StashByMatchId, FindGame, Crash, vars

LEMMA CachedGamesNext == SetupInv /\ [Next]_vars => CachedGamesExist'
<1> SUFFICES ASSUME SetupInv, [Next]_vars PROVE CachedGamesExist'
  OBVIOUS
<1>i. TypeOK /\ InHand /\ SaverKnows /\ CachedGamesExist
  BY DEF SetupInv
<1>g. StoresGrow
  BY StoresGrowNext
<1>1. ASSUME UNCHANGED byGame PROVE CachedGamesExist'
  BY <1>1, <1>i, <1>g DEF CachedGamesExist, StoresGrow, TypeOK
<1>2. CASE CacheByGameId
  <2>1. PICK m \in Matches : m = saver.match /\ (saver.hit => game[m] # "none")
    BY <1>2, <1>i DEF CacheByGameId, InHand, SaverKnows
  <2>2. byGame' = byGame \/ (saver.hit /\ byGame' = byGame \cup {m})
    BY <1>2, <2>1 DEF CacheByGameId, Call
  <2> QED BY <1>i, <1>g, <2>1, <2>2 DEF CachedGamesExist, StoresGrow, TypeOK
<1> QED
  BY <1>1, <1>2
  DEF Next, PublishQuestions, CreatorStep, SaverStep, ReceiveMatches,
      GetQuestionsByMatchId, InsertGame, Announce, FinishMatches, ReceiveQuestions,
      UpdateGame, StashByMatchId, FindGame, Crash, LoseEverything, vars

LEMMA SetupInvNext == SetupInv /\ [Next]_vars => SetupInv'
BY TypeNext, InHandNext, UntriedNext, SaverKnowsNext, QuestionsKeptNext,
   GameFirstNext, CachedGamesNext
   DEF SetupInv

-----------------------------------------------------------------------------
(***************************************************************************)
(* Whatever order the two consumers work in, handled questions are in the  *)
(* game document or under the match id, unless both writes failed.         *)
(***************************************************************************)
THEOREM QuestionsKeptCorrect == Spec => []QuestionsKept
<1>1. SetupInv => QuestionsKept
  BY DEF SetupInv
<1> QED BY <1>1, SetupInvInit, SetupInvNext, PTL DEF Spec

(***************************************************************************)
(* A game that was there when its questions came has them in its document  *)
(* and, once they are handled, under its own id.                           *)
(***************************************************************************)
THEOREM GameFirstIsCompleteCorrect == Spec => []GameFirstIsComplete
<1>1. SetupInv => GameFirstIsComplete
  BY DEF SetupInv
<1> QED BY <1>1, SetupInvInit, SetupInvNext, PTL DEF Spec

(* Questions are only cached under the id of a game that exists. *)
THEOREM CachedGamesExistCorrect == Spec => []CachedGamesExist
<1>1. SetupInv => CachedGamesExist
  BY DEF SetupInv
<1> QED BY <1>1, SetupInvInit, SetupInvNext, PTL DEF Spec


-----------------------------------------------------------------------------
(* Type correctness: a list about to be published is of a match. *)
AskedFor == asker.pc = "publish" => asker.match \in Matches

LEMMA IdleAskerType == IdleAsker \in AskerState
BY DEF IdleAsker, AskerState

LEMMA SlipGrows ==
  ASSUME [AskNext]_allVars
  PROVE  slips \subseteq slips'
BY DEF AskNext, AskerStep, ReceiveMatchedUsers, GetRandomQuestions, PublishList,
       TimeOut, RestartAsker, Slip, allVars, askVars

LEMMA DrawnType == \A m \in Matches : Drawn(m) \in Nat
BY QuestionServiceAssumption DEF Drawn

(* Whatever the query does, there is a list to publish. *)
LEMMA ListInHand ==
  ASSUME NEW m \in Matches, GetRandomQuestions(m)
  PROVE  \E number \in Nat :
           asker' = [asker EXCEPT !.pc = "publish", !.match = m, !.number = number]
<1> DEFINE InHandAfter(number) ==
             asker' = [asker EXCEPT !.pc = "publish", !.match = m, !.number = number]
<1>1. \/ InHandAfter(Drawn(m))
      \/ InHandAfter(0)
      \/ \E number \in 0 .. Limit : InHandAfter(number)
  BY Zenon DEF GetRandomQuestions, AfterFailure
<1>2. 0 .. Limit \subseteq Nat /\ 0 \in Nat
  BY QuestionServiceAssumption
<1> HIDE DEF InHandAfter
<1>3. \E number \in Nat : InHandAfter(number)
  BY <1>1, <1>2, DrawnType, Zenon
<1> QED BY <1>3 DEF InHandAfter

LEMMA AskTypeInit == AskInit => AskTypeOK /\ AskedFor
BY IdleAskerType
   DEF AskInit, AskTypeOK, AskedFor, MessageStates, SlipKinds, IdleAsker

LEMMA AskTypeNext ==
  AskTypeOK /\ AskedFor /\ [AskNext]_allVars => AskTypeOK' /\ AskedFor'
<1> SUFFICES ASSUME AskTypeOK, AskedFor, [AskNext]_allVars
             PROVE  AskTypeOK' /\ AskedFor'
  OBVIOUS
<1>1. CASE ReceiveMatchedUsers
  BY <1>1 DEF ReceiveMatchedUsers, IdleAsker, AskTypeOK, AskedFor, AskerState,
              MessageStates
<1>2. ASSUME NEW m \in Matches, GetRandomQuestions(m)
      PROVE  AskTypeOK' /\ AskedFor'
  <2>1. PICK number \in Nat :
          asker' = [asker EXCEPT !.pc = "publish", !.match = m, !.number = number]
    BY <1>2, ListInHand
  <2>2. slips' \subseteq SlipKinds
    BY <1>2 DEF GetRandomQuestions, Slip, AskTypeOK, SlipKinds
  <2> QED BY <1>2, <2>1, <2>2 DEF GetRandomQuestions, AskTypeOK, AskedFor, AskerState
<1>3. CASE PublishList
  <2>1. content' \in [Matches -> Nat] /\ slips' \subseteq SlipKinds
    BY <1>3 DEF PublishList, Slip, AskTypeOK, AskerState, SlipKinds
  <2>2. CASE asker' = IdleAsker /\ asked' = "done"
    BY <2>1, <2>2, IdleAskerType
       DEF AskTypeOK, AskedFor, MessageStates, IdleAsker
  <2>3. CASE /\ asker' = [asker EXCEPT !.pc = "query", !.todo = @ \ {asker.match},
                                       !.match = None, !.number = 0]
             /\ UNCHANGED asked
    BY <2>1, <2>3 DEF AskTypeOK, AskedFor, AskerState
  <2> QED BY <1>3, <2>2, <2>3 DEF PublishList, AskTypeOK, AskerState
<1>4. CASE TimeOut
  BY <1>4 DEF TimeOut, Slip, AskTypeOK, AskedFor, AskerState, SlipKinds
<1>5. CASE RestartAsker
  BY <1>5, IdleAskerType
     DEF RestartAsker, Slip, IdleAsker, AskTypeOK, AskedFor, MessageStates, SlipKinds
<1>6. CASE UNCHANGED askVars
  BY <1>6 DEF askVars, AskTypeOK, AskedFor
<1> QED
  BY <1>1, <1>2, <1>3, <1>4, <1>5, <1>6 DEF AskNext, AskerStep, allVars

LEMMA StepIsSetupStep == AskedFor /\ [AskNext]_allVars => [Next]_vars
BY DEF AskedFor, AskNext, AskerStep, ReceiveMatchedUsers, GetRandomQuestions,
       PublishList, TimeOut, RestartAsker, Next, allVars

(***************************************************************************)
(* With the Question Service in the place of questions that come at any    *)
(* time or never, the set-up does what it was specified and proved to do.  *)
(***************************************************************************)
THEOREM ImplementsGameSetup == AskSpec => Spec
<1>1. AskInit => Init
  BY DEF AskInit
<1> QED
  BY <1>1, AskTypeInit, AskTypeNext, StepIsSetupStep, PTL DEF AskSpec, Spec

(* Every reachable state of the Question Service is of the declared types. *)
THEOREM AskTypeCorrect == AskSpec => []AskTypeOK
BY AskTypeInit, AskTypeNext, PTL DEF AskSpec

-----------------------------------------------------------------------------
(***************************************************************************)
(* Where questions are, a message brought them: in a document, in Redis    *)
(* under the match id, or in the hands of either consumer.                 *)
(***************************************************************************)
Sent(m) == questionMessage[m] # "unsent"

QuestionsWereSent ==
  /\ \A m \in Matches : game[m] = "filled" => Sent(m)
  /\ \A m \in byMatch : Sent(m)
  /\ creator.pc = "insert" /\ creator.found => Sent(creator.match)

LEMMA SentStays ==
  ASSUME SetupInv, [Next]_vars
  PROVE  \A m \in Matches : Sent(m) => questionMessage'[m] # "unsent"
BY DEF Next, CreatorStep, SaverStep, PublishQuestions, ReceiveMatches,
       GetQuestionsByMatchId, InsertGame, Announce, FinishMatches, ReceiveQuestions,
       UpdateGame, StashByMatchId, FindGame, CacheByGameId, Crash, LoseEverything,
       vars, Sent, SetupInv, TypeOK

LEMMA QuestionsWereSentNext ==
  SetupInv /\ QuestionsWereSent /\ [Next]_vars => QuestionsWereSent'
<1> SUFFICES ASSUME SetupInv, QuestionsWereSent, [Next]_vars
             PROVE  QuestionsWereSent'
  OBVIOUS
<1>i. TypeOK /\ InHand /\ creator \in CreatorState /\ saver \in SaverState
  BY DEF SetupInv, TypeOK
<1>s. \A m \in Matches : Sent(m) => questionMessage'[m] # "unsent"
  BY SentStays
<1>h. saver.pc # "idle" => saver.match \in Matches /\ Sent(saver.match)
  BY <1>i DEF SetupInv, SaverKnows, InHand, Sent
<1>1. ASSUME UNCHANGED <<game, byMatch>>,
             creator'.pc = "insert" => UNCHANGED creator
      PROVE  QuestionsWereSent'
  BY <1>1, <1>i, <1>s DEF QuestionsWereSent, Sent, TypeOK, InHand, CreatorState
<1>2. ASSUME NEW m \in Matches, GetQuestionsByMatchId(m) PROVE QuestionsWereSent'
  <2>1. creator'.match = m /\ (creator'.found => m \in byMatch)
    BY <1>2, <1>i DEF GetQuestionsByMatchId, Call, CreatorState
  <2>2. UNCHANGED <<game, byMatch>>
    BY <1>2 DEF GetQuestionsByMatchId
  <2> QED BY <1>i, <1>s, <2>1, <2>2 DEF QuestionsWereSent, Sent, TypeOK
<1>3. CASE InsertGame
  <2>1. \A m \in Matches : game'[m] = "filled" =>
          game[m] = "filled" \/ (m = creator.match /\ creator.found)
    BY <1>3, <1>i DEF InsertGame, TypeOK
  <2>2. creator'.pc # "insert"
    <3> DEFINE left == creator.todo \ {creator.match}
               next == [creator EXCEPT !.pc = IF left = {} THEN "announce" ELSE "get",
                                       !.todo = left, !.match = None, !.found = FALSE]
    <3>1. creator' = [next EXCEPT !.created = @ \cup {creator.match}] \/ creator' = next
      BY <1>3 DEF InsertGame
    <3>2. next \in CreatorState /\ next.pc # "insert"
      BY <1>i DEF CreatorState
    <3> HIDE DEF next
    <3> QED BY <3>1, <3>2 DEF CreatorState
  <2>3. UNCHANGED byMatch
    BY <1>3 DEF InsertGame
  <2> QED
    BY <1>3, <1>i, <1>s, <2>1, <2>2, <2>3 DEF QuestionsWereSent, Sent, InsertGame, TypeOK
<1>4. CASE UpdateGame
  <2>1. \A m \in Matches : game'[m] = "filled" => game[m] = "filled" \/ m = saver.match
    BY <1>4, <1>i DEF UpdateGame, Call, TypeOK
  <2>2. UNCHANGED <<creator, byMatch>> /\ saver.pc # "idle"
    BY <1>4 DEF UpdateGame
  <2> QED
    BY <1>i, <1>s, <1>h, <2>1, <2>2
    DEF QuestionsWereSent, Sent, TypeOK, InHand, CreatorState
<1>5. ASSUME LoseEverything PROVE QuestionsWereSent'
  BY <1>5, <1>1 DEF LoseEverything, IdleCreator
<1>6. CASE StashByMatchId
  <2>1. CASE LoseEverything
    BY <2>1, <1>5
  <2>2. CASE ~LoseEverything
    <3>1. byMatch' \subseteq byMatch \cup {saver.match} /\ UNCHANGED <<creator, game>>
      BY <1>6, <2>2 DEF StashByMatchId
    <3>2. saver.pc # "idle"
      BY <1>6 DEF StashByMatchId
    <3> QED
      BY <1>i, <1>s, <1>h, <3>1, <3>2
      DEF QuestionsWereSent, Sent, TypeOK, InHand, CreatorState
  <2> QED BY <2>1, <2>2
<1>7. CASE ReceiveMatches
  BY <1>7, <1>i, <1>1 DEF ReceiveMatches, CreatorState
<1>8. ASSUME NEW m \in Matches, Announce(m) PROVE QuestionsWereSent'
  BY <1>8, <1>i, <1>1 DEF Announce, CreatorState
<1>9. CASE FinishMatches
  BY <1>9, <1>1 DEF FinishMatches, IdleCreator
<1> QED
  BY <1>1, <1>2, <1>3, <1>4, <1>5, <1>6, <1>7, <1>8, <1>9
  DEF Next, CreatorStep, SaverStep, PublishQuestions, ReceiveQuestions, FindGame,
      CacheByGameId, Crash, vars

-----------------------------------------------------------------------------
(***************************************************************************)
(* A list in hand, and then the message, is as long as the bank allows,    *)
(* unless something that shortens lists has struck.                        *)
(***************************************************************************)
Shortened == slips \cap {"query", "rows", "timeout"} # {}

ListsAreFull ==
  /\ asker.expired => "timeout" \in slips
  /\ asker.pc = "publish" => asker.number = Drawn(asker.match) \/ Shortened
  /\ \A m \in Matches : Sent(m) => content[m] = Drawn(m) \/ Shortened

ListInv ==
  SetupInv /\ AskTypeOK /\ AskedFor /\ QuestionsWereSent /\ ListsAreFull

LEMMA ListInvInit == AskInit => ListInv
<1> SUFFICES ASSUME AskInit PROVE ListInv
  OBVIOUS
<1>1. Init
  BY DEF AskInit
<1>2. QuestionsWereSent
  BY <1>1 DEF Init, IdleCreator, QuestionsWereSent
<1>3. ListsAreFull
  BY <1>1 DEF AskInit, Init, IdleAsker, ListsAreFull, Sent
<1> QED BY <1>1, <1>2, <1>3, SetupInvInit, AskTypeInit DEF ListInv

LEMMA ListsAreFullNext == ListInv /\ [AskNext]_allVars => ListsAreFull'
<1> SUFFICES ASSUME ListInv, [AskNext]_allVars PROVE ListsAreFull'
  OBVIOUS
<1>i. AskTypeOK /\ AskedFor /\ ListsAreFull /\ asker \in AskerState
  BY DEF ListInv, AskTypeOK
<1>g. slips \subseteq slips'
  BY SlipGrows
<1>m. ASSUME UNCHANGED content,
             \A m \in Matches : questionMessage'[m] # "unsent" => Sent(m)
      PROVE  \A m \in Matches :
               Sent(m)' => content'[m] = Drawn(m) \/ Shortened'
  BY <1>m, <1>i, <1>g DEF ListsAreFull, Shortened, Sent
<1>1. ASSUME UNCHANGED <<asker, content>>,
             \A m \in Matches : questionMessage'[m] # "unsent" => Sent(m)
      PROVE  ListsAreFull'
  BY <1>1, <1>m, <1>i, <1>g DEF ListsAreFull, Shortened
<1>2. CASE ReceiveMatchedUsers
  BY <1>2, <1>m DEF ReceiveMatchedUsers, IdleAsker, ListsAreFull, Sent, vars
<1>3. ASSUME NEW m \in Matches, GetRandomQuestions(m) PROVE ListsAreFull'
  <2>1. PICK number \in Nat :
          asker' = [asker EXCEPT !.pc = "publish", !.match = m, !.number = number]
    BY <1>3, ListInHand
  <2>2. asker'.number = Drawn(m) \/ Shortened'
    BY <1>3, <1>i DEF GetRandomQuestions, Slip, ListsAreFull, Shortened, AskerState
  <2>3. asker'.expired = asker.expired /\ asker'.match = m
    BY <2>1, <1>i DEF AskerState
  <2>4. UNCHANGED <<content, questionMessage>>
    BY <1>3 DEF GetRandomQuestions, vars
  <2> QED BY <1>m, <1>g, <1>i, <2>2, <2>3, <2>4 DEF ListsAreFull, Sent
<1>4. CASE PublishList
  <2>1. asker.match \in Matches
    BY <1>4, <1>i DEF PublishList, AskedFor
  <2>2. asker'.pc # "publish" /\ (asker'.expired => asker.expired)
    <3>1. \/ asker' = IdleAsker
          \/ asker' = [asker EXCEPT !.pc = "query", !.todo = @ \ {asker.match},
                                    !.match = None, !.number = 0]
      BY <1>4, <1>i DEF PublishList, AskerState
    <3>2. CASE asker' = IdleAsker
      BY <3>2 DEF IdleAsker
    <3>3. CASE asker' = [asker EXCEPT !.pc = "query", !.todo = @ \ {asker.match},
                                      !.match = None, !.number = 0]
      <4>1. asker'.pc = "query" /\ asker'.expired = asker.expired
        BY <3>3, <1>i DEF AskerState
      <4> QED BY <4>1
    <3> QED BY <3>1, <3>2, <3>3
  <2>3. \A m \in Matches : Sent(m)' =>
          \/ Sent(m) /\ content'[m] = content[m]
          \/ m = asker.match /\ content'[m] = asker.number
    <3>1. CASE PublishQuestions(asker.match) /\ content' = [content EXCEPT ![asker.match] = asker.number]
      BY <3>1, <2>1, <1>i DEF PublishQuestions, Sent, AskTypeOK, ListInv, SetupInv, TypeOK
    <3>2. CASE UNCHANGED <<vars, content>>
      BY <3>2 DEF vars, Sent
    <3> QED BY <1>4, <3>1, <3>2 DEF PublishList
  <2>4. asker.number = Drawn(asker.match) \/ Shortened
    BY <1>4, <1>i DEF PublishList, ListsAreFull
  <2> QED BY <1>g, <1>i, <2>2, <2>3, <2>4 DEF ListsAreFull, Shortened
<1>5. CASE TimeOut
  <2>1. asker'.pc = asker.pc /\ asker'.match = asker.match
        /\ asker'.number = asker.number /\ "timeout" \in slips'
    BY <1>5, <1>i DEF TimeOut, Slip, AskerState
  <2> QED BY <1>5, <1>m, <1>g, <1>i, <2>1 DEF TimeOut, ListsAreFull, Shortened, Sent, vars
<1>6. CASE RestartAsker
  BY <1>6, <1>m DEF RestartAsker, IdleAsker, ListsAreFull, Sent, vars
<1>7. CASE (CreatorStep \/ SaverStep \/ Crash) /\ UNCHANGED askVars
  <2>1. \A m \in Matches : questionMessage'[m] # "unsent" => Sent(m)
    <3>1. TypeOK /\ SaverKnows /\ InHand
      BY DEF ListInv, SetupInv
    <3> QED
      BY <1>7, <3>1
      DEF CreatorStep, SaverStep, ReceiveMatches, GetQuestionsByMatchId, InsertGame,
          Announce, FinishMatches, ReceiveQuestions, UpdateGame, StashByMatchId,
          FindGame, CacheByGameId, Crash, LoseEverything, Sent, TypeOK, SaverKnows,
          InHand
  <2> QED BY <1>7, <1>1, <2>1 DEF askVars
<1>8. CASE UNCHANGED allVars
  BY <1>8, <1>1 DEF allVars, vars, askVars, Sent
<1> QED
  BY <1>2, <1>3, <1>4, <1>5, <1>6, <1>7, <1>8 DEF AskNext, AskerStep

(***************************************************************************)
(* For any bank and any faults, a game document has as many questions as   *)
(* were asked for or as there are, unless a query failed, rows ended early *)
(* or the time-out of the message was over.                                *)
(***************************************************************************)
THEOREM ShortOnlyByFaultCorrect == AskSpec => []ShortOnlyByFault
<1>1. ListInv /\ [AskNext]_allVars => ListInv'
  BY StepIsSetupStep, SetupInvNext, AskTypeNext, QuestionsWereSentNext,
     ListsAreFullNext
     DEF ListInv
<1>2. ListInv => ShortOnlyByFault
  BY QuestionServiceAssumption
     DEF ListInv, QuestionsWereSent, ListsAreFull, Shortened, Drawn, ShortOnlyByFault
<1> QED BY <1>1, <1>2, ListInvInit, PTL DEF AskSpec

-----------------------------------------------------------------------------
(***************************************************************************)
(* A created game is on its way to its players: in "created", where the    *)
(* second loop takes it from only to announce it.  The loop ends only when *)
(* nothing is left there.                                                  *)
(***************************************************************************)
Died == faults["crash"] + faults["set"] > 0

LEMMA DiedStays == SetupInv /\ [Next]_vars /\ Died => Died'
<1> SUFFICES ASSUME SetupInv, [Next]_vars, Died PROVE Died'
  OBVIOUS
<1>1. faults \in [FaultKinds -> Nat] /\ faults' \in [FaultKinds -> Nat]
  BY SetupInvNext DEF SetupInv, TypeOK
<1>2. faults["crash"] > 0 \/ faults["set"] > 0
  BY <1>1 DEF Died, FaultKinds
<1>3. faults'["crash"] > 0 \/ faults'["set"] > 0
  BY <1>2, StoresGrowNext DEF StoresGrow, FaultKinds
<1> QED BY <1>1, <1>3 DEF Died, FaultKinds

LEMMA InsertKeepsInHand ==
  ASSUME SetupInv, CreatedIsInHand, InsertGame
  PROVE  \A m \in Matches : game'[m] # "none" =>
           m \in announced \cup creator'.created \cup unanswered' \/ Died
<1>i. TypeOK /\ creator \in CreatorState
  BY DEF SetupInv, TypeOK
<1> DEFINE left == creator.todo \ {creator.match}
           next == [creator EXCEPT !.pc = IF left = {} THEN "announce" ELSE "get",
                                   !.todo = left, !.match = None, !.found = FALSE]
<1>1. next \in CreatorState /\ next.created = creator.created
  BY <1>i DEF CreatorState
<1>2. \/ /\ creator' = [next EXCEPT !.created = @ \cup {creator.match}]
         /\ UNCHANGED unanswered
      \/ creator' = next /\ UNCHANGED <<game, unanswered>>
      \/ creator' = next /\ unanswered' = unanswered \cup {creator.match}
  BY DEF InsertGame
<1>3. \A m \in Matches : m # creator.match => game'[m] = game[m]
  BY <1>i DEF InsertGame, TypeOK
<1> HIDE DEF next
<1>4. \/ creator'.created = creator.created \cup {creator.match} /\ UNCHANGED unanswered
      \/ /\ creator'.created = creator.created
         /\ \/ UNCHANGED <<game, unanswered>>
            \/ unanswered' = unanswered \cup {creator.match}
  BY <1>1, <1>2 DEF CreatorState
<1> QED BY <1>3, <1>4 DEF CreatedIsInHand, Died

LEMMA CreatedIsInHandNext ==
  SetupInv /\ CreatedIsInHand /\ [Next]_vars => CreatedIsInHand'
<1> SUFFICES ASSUME SetupInv, CreatedIsInHand, [Next]_vars
             PROVE  CreatedIsInHand'
  OBVIOUS
<1>i. TypeOK /\ creator \in CreatorState
  BY DEF SetupInv, TypeOK
<1>d. Died => Died'
  BY DiedStays
<1>1. ASSUME announced \cup creator.created \subseteq announced' \cup creator'.created,
             UNCHANGED unanswered,
             \A m \in Matches : game'[m] # "none" => game[m] # "none"
      PROVE  CreatedIsInHand'
  BY <1>1, <1>d DEF CreatedIsInHand, Died
<1>2. ASSUME NEW k \in {"crash", "set"}, Strike(k) PROVE CreatedIsInHand'
  <2>1. faults' \in [FaultKinds -> Nat] /\ faults'[k] > 0
    BY <1>2, <1>i, StrikeType, StrikeGrows DEF TypeOK, FaultKinds
  <2> QED BY <2>1 DEF CreatedIsInHand, FaultKinds
<1>3. CASE ReceiveMatches
  BY <1>1, <1>3, <1>i DEF ReceiveMatches, CreatorState
<1>4. ASSUME NEW m \in Matches, GetQuestionsByMatchId(m) PROVE CreatedIsInHand'
  BY <1>1, <1>4, <1>i DEF GetQuestionsByMatchId, Call, CreatorState
<1>5. CASE InsertGame
  BY <1>5, <1>d, InsertKeepsInHand DEF InsertGame, CreatedIsInHand, Died
<1>6. ASSUME NEW m \in Matches, Announce(m) PROVE CreatedIsInHand'
  BY <1>1, <1>6, <1>i DEF Announce, AfterAnnouncing, CreatorState
<1>7. CASE FinishMatches
  BY <1>1, <1>7 DEF FinishMatches
<1>8. CASE UpdateGame
  BY <1>1, <1>8, <1>i DEF UpdateGame, Call, TypeOK
<1>9. CASE StashByMatchId
  BY <1>1, <1>2, <1>9 DEF StashByMatchId
<1>10. CASE Crash
  BY <1>2, <1>10 DEF Crash
<1>11. CASE UNCHANGED <<creator, game, announced, unanswered>>
  BY <1>1, <1>11
<1> QED
  BY <1>3, <1>4, <1>5, <1>6, <1>7, <1>8, <1>9, <1>10, <1>11
  DEF Next, CreatorStep, SaverStep, PublishQuestions, ReceiveQuestions, FindGame,
      CacheByGameId, vars

(***************************************************************************)
(* No created game is dropped on the way to its players by anything but    *)
(* the end of the process and an insertion that is answered with an error, *)
(* whatever fails for the other matches.                                   *)
(***************************************************************************)
THEOREM CreatedIsInHandCorrect == Spec => []CreatedIsInHand
<1>1. Init => CreatedIsInHand
  BY DEF Init, CreatedIsInHand
<1> QED
  BY <1>1, SetupInvInit, SetupInvNext, CreatedIsInHandNext, PTL DEF Spec

-----------------------------------------------------------------------------
(***************************************************************************)
(* A match leaves "todo" only as its questions are published or the        *)
(* producer fails, and the message is not done before "todo" is empty.     *)
(***************************************************************************)
Spared == slips \cap {"publish", "restart"} = {}

AskerIsHandling == asker.pc # "idle" => asked = "handling"

LEMMA AskerIsHandlingNext ==
  AskTypeOK /\ AskerIsHandling /\ [AskNext]_allVars => AskerIsHandling'
<1> SUFFICES ASSUME AskTypeOK, AskerIsHandling, [AskNext]_allVars
             PROVE  AskerIsHandling'
  OBVIOUS
<1>i. asker \in AskerState
  BY DEF AskTypeOK
<1>1. ASSUME asker.pc # "idle", UNCHANGED asked PROVE AskerIsHandling'
  BY <1>1 DEF AskerIsHandling
<1>2. ASSUME NEW m \in Matches, GetRandomQuestions(m) PROVE AskerIsHandling'
  BY <1>1, <1>2 DEF GetRandomQuestions
<1>3. CASE PublishList
  BY <1>1, <1>3 DEF PublishList, IdleAsker, AskerIsHandling
<1>4. CASE ReceiveMatchedUsers
  BY <1>4 DEF ReceiveMatchedUsers, AskerIsHandling
<1>5. CASE TimeOut
  BY <1>1, <1>5 DEF TimeOut
<1>6. CASE RestartAsker
  BY <1>6 DEF RestartAsker, IdleAsker, AskerIsHandling
<1>7. CASE UNCHANGED askVars
  BY <1>7 DEF askVars, AskerIsHandling
<1> QED
  BY <1>2, <1>3, <1>4, <1>5, <1>6, <1>7 DEF AskNext, AskerStep, allVars

LEMMA MatchIsInHandNext ==
  ListInv /\ AskerIsHandling /\ MatchIsInHand /\ [AskNext]_allVars => MatchIsInHand'
<1> SUFFICES ASSUME ListInv, AskerIsHandling, MatchIsInHand, [AskNext]_allVars
             PROVE  MatchIsInHand'
  OBVIOUS
<1>i. AskTypeOK /\ AskedFor /\ SetupInv /\ TypeOK /\ asker \in AskerState
  BY DEF ListInv, SetupInv, AskTypeOK
<1>s. \A m \in Matches : Sent(m) => questionMessage'[m] # "unsent"
  BY <1>i, StepIsSetupStep, SentStays
<1>g. Spared' => Spared
  BY SlipGrows DEF Spared
<1>1. ASSUME UNCHANGED asked,
             asker.pc # "idle" => asker'.pc # "idle" /\ asker'.todo = asker.todo
      PROVE  MatchIsInHand'
  BY <1>1, <1>s, <1>g DEF MatchIsInHand, Sent, Spared
<1>2. CASE ReceiveMatchedUsers
  BY <1>2 DEF ReceiveMatchedUsers, IdleAsker, MatchIsInHand
<1>3. ASSUME NEW m \in Matches, GetRandomQuestions(m) PROVE MatchIsInHand'
  <2>1. asker'.pc = "publish" /\ asker'.todo = asker.todo
    BY <1>3, <1>i, ListInHand DEF AskerState
  <2> QED BY <1>1, <1>3, <2>1 DEF GetRandomQuestions
<1>4. CASE PublishList
  <2>1. asker.match \in Matches
    BY <1>4, <1>i DEF PublishList, AskedFor
  <2>2. questionMessage'[asker.match] # "unsent" \/ ~Spared'
    BY <1>4, <1>i, <2>1 DEF PublishList, PublishQuestions, Slip, Spared, TypeOK
  <2>3. \A m \in Matches :
          m \in asker.todo => m = asker.match \/ (asker'.pc # "idle" /\ m \in asker'.todo)
    <3> DEFINE left == asker.todo \ {asker.match}
    <3>1. CASE left = {}
      BY <3>1
    <3>2. CASE left # {}
      <4>1. asker' = [asker EXCEPT !.pc = "query", !.todo = left, !.match = None,
                                   !.number = 0]
        BY <1>4, <3>2 DEF PublishList
      <4>2. asker'.pc = "query" /\ asker'.todo = left
        BY <4>1, <1>i DEF AskerState
      <4> QED BY <4>2
    <3> QED BY <3>1, <3>2
  <2>4. asked = "handling"
    BY <1>4 DEF PublishList, AskerIsHandling
  <2> QED BY <1>s, <1>g, <2>1, <2>2, <2>3, <2>4 DEF MatchIsInHand, Sent, Spared
<1>5. CASE TimeOut
  BY <1>1, <1>5, <1>i DEF TimeOut, AskerState
<1>6. CASE RestartAsker
  BY <1>6 DEF RestartAsker, Slip, MatchIsInHand
<1>7. CASE UNCHANGED askVars
  BY <1>1, <1>7 DEF askVars
<1> QED
  BY <1>2, <1>3, <1>4, <1>5, <1>6, <1>7 DEF AskNext, AskerStep, allVars

(***************************************************************************)
(* No match of a message the Question Service took is passed over: it has  *)
(* its message of questions, or it is still to be done, or the producer    *)
(* failed or the service died.                                             *)
(***************************************************************************)
THEOREM MatchIsInHandCorrect == AskSpec => []MatchIsInHand
<1>1. AskInit => MatchIsInHand /\ AskerIsHandling
  BY DEF AskInit, IdleAsker, MatchIsInHand, AskerIsHandling
<1>2. ListInv /\ [AskNext]_allVars => ListInv'
  BY StepIsSetupStep, SetupInvNext, AskTypeNext, QuestionsWereSentNext,
     ListsAreFullNext
     DEF ListInv
<1> QED
  <2>1. ListInv => AskTypeOK
    BY DEF ListInv
  <2> QED
    BY <1>1, <1>2, <2>1, ListInvInit, AskerIsHandlingNext, MatchIsInHandNext, PTL
    DEF AskSpec
=============================================================================
