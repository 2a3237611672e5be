------------------------------ MODULE GameSetup ------------------------------
(***************************************************************************)
(* How the Game Service turns a match into a game with questions.          *)
(*                                                                         *)
(* Two Kafka consumers run in goroutines of their own:                     *)
(*   - ConsumeMatchCreated creates a game document in MongoDB for every    *)
(*     match of a message, with the questions it finds in Redis under the  *)
(*     match id, then starts the roster and notifies the players;          *)
(*   - ConsumeQuestions stores the questions of one match in the game      *)
(*     document, or in Redis under the match id when no document matches,  *)
(*     and then caches them in Redis under the game id.                    *)
(* The Question Service consumes the same match message, so the questions  *)
(* may be handled before, after or while the game is created.              *)
(*                                                                         *)
(* Consumers read partition 0 from the newest offset and keep no offset:   *)
(* what is queued or in hand when the process dies is lost.                *)
(***************************************************************************)
EXTENDS Integers, FiniteSets

CONSTANTS
  Matches,    \* the matches of one message of the Match Service
  MaxFaults   \* bound: how often each kind of fault may strike

(***************************************************************************)
(* "get", "insert", "update", "find": the Redis or MongoDB call fails;     *)
(* "set": a Redis SET fails;  "crash": the process dies and is restarted.  *)
(***************************************************************************)
FaultKinds == {"get", "insert", "update", "find", "set", "crash"}

ASSUME GameSetupAssumption == MaxFaults \in [FaultKinds -> Nat]

VARIABLES
  matchMessage,     \* the matchMaking_v1_matchUsers message
  questionMessage,  \* questionMessage[m]: the question_v1_questions message
  creator,          \* local state of the match consumer
  saver,            \* local state of the question consumer
  game,             \* game[m]: the MongoDB game document of match m
  byMatch,          \* matches with a Redis key game_questions_<matchId>
  byGame,           \* matches with a Redis key game_questions_<gameId>
  announced,        \* matches whose roster and MATCH_CREATED were started
  updated,          \* history: matches whose UpdateOne matched a document
  unanswered,       \* history: matches whose InsertOne stored a document, but failed
  faults            \* history: faults so far, by kind

vars == <<matchMessage, questionMessage, creator, saver, game, byMatch, byGame,
          announced, updated, unanswered, faults>>

MessageStates == {"unsent", "queued", "handling", "done", "lost"}

None == "none"

CreatorState ==
  [pc      : {"idle", "get", "insert", "announce"},
   todo    : SUBSET Matches,          \* matches not yet tried
   match   : Matches \cup {None},     \* the match being created
   found   : BOOLEAN,                 \* questions found under its match id
   created : SUBSET Matches]          \* createdMatches not yet announced

SaverState ==
  [pc    : {"idle", "update", "stash", "find", "cache"},
   match : Matches \cup {None},
   error : BOOLEAN,                   \* UpdateOne returned an error
   hit   : BOOLEAN]                   \* FindOne returned the game's id

TypeOK ==
  /\ matchMessage \in MessageStates
  /\ questionMessage \in [Matches -> MessageStates]
  /\ creator \in CreatorState
  /\ saver \in SaverState
  /\ game \in [Matches -> {"none", "empty", "filled"}]
  /\ byMatch \subseteq Matches
  /\ byGame \subseteq Matches
  /\ announced \subseteq Matches
  /\ updated \subseteq Matches
  /\ unanswered \subseteq Matches
  /\ faults \in [FaultKinds -> Nat]

IdleCreator ==
  [pc |-> "idle", todo |-> {}, match |-> None, found |-> FALSE, created |-> {}]
IdleSaver == [pc |-> "idle", match |-> None, error |-> FALSE, hit |-> FALSE]

Init ==
  /\ matchMessage = "queued"
  /\ questionMessage = [m \in Matches |-> "unsent"]
  /\ creator = IdleCreator
  /\ saver = IdleSaver
  /\ game = [m \in Matches |-> "none"]
  /\ byMatch = {}
  /\ byGame = {}
  /\ announced = {}
  /\ updated = {}
  /\ unanswered = {}
  /\ faults = [k \in FaultKinds |-> 0]

Strike(kind) ==
  /\ faults[kind] < MaxFaults[kind]
  /\ faults' = [faults EXCEPT ![kind] = @ + 1]

(* A call returns, or fails once more. *)
Call(kind, onSuccess, onFailure) ==
  \/ onSuccess /\ UNCHANGED faults
  \/ onFailure /\ Strike(kind)

-----------------------------------------------------------------------------
(* The Question Service: one message per match, whenever it is done. *)
PublishQuestions(m) ==
  /\ questionMessage[m] = "unsent"
  /\ questionMessage' = [questionMessage EXCEPT ![m] = "queued"]
  /\ UNCHANGED <<matchMessage, creator, saver, game, byMatch, byGame, announced,
                 updated, unanswered, faults>>

-----------------------------------------------------------------------------
(* ConsumeMatchCreated *)

ReceiveMatches ==
  /\ matchMessage = "queued"
  /\ creator.pc = "idle"
  /\ matchMessage' = "handling"
  /\ creator' = [creator EXCEPT !.pc = "get", !.todo = Matches]
  /\ UNCHANGED <<questionMessage, saver, game, byMatch, byGame, announced, updated,
                 unanswered, faults>>

(* CreateGame first looks for early questions; any error is a miss. *)
GetQuestionsByMatchId(m) ==
  /\ creator.pc = "get"
  /\ m \in creator.todo
  /\ Call("get",
          creator' = [creator EXCEPT !.pc = "insert", !.match = m,
                                     !.found = m \in byMatch],
          creator' = [creator EXCEPT !.pc = "insert", !.match = m,
                                     !.found = FALSE])
  /\ UNCHANGED <<matchMessage, questionMessage, saver, game, byMatch, byGame,
                 announced, updated, unanswered>>

(***************************************************************************)
(* InsertOne.  A match that cannot be inserted, or whose document is stored*)
(* but the answer is an error, is skipped; the loop goes on with the next  *)
(* one, and after the last one the created ones are announced.             *)
(***************************************************************************)
InsertGame ==
  LET m      == creator.match
      left   == creator.todo \ {m}
      next   == [creator EXCEPT !.pc = IF left = {} THEN "announce" ELSE "get",
                                !.todo = left, !.match = None, !.found = FALSE]
      stored == [game EXCEPT ![m] = IF creator.found THEN "filled" ELSE "empty"]
  IN
  /\ creator.pc = "insert"
  /\ \/ /\ game' = stored
        /\ creator' = [next EXCEPT !.created = @ \cup {m}]
        /\ UNCHANGED <<unanswered, faults>>
     \/ /\ Strike("insert")
        /\ creator' = next
        /\ \/ UNCHANGED <<game, unanswered>>
           \/ game' = stored /\ unanswered' = unanswered \cup {m}
  /\ UNCHANGED <<matchMessage, questionMessage, saver, byMatch, byGame, announced,
                 updated>>

(***************************************************************************)
(* The second loop: per created game, start the goroutines that save the   *)
(* players' status and the roster, and send MATCH_CREATED.                 *)
(***************************************************************************)
AfterAnnouncing_StopsEarly(m) == {}
AfterAnnouncing(m) == creator.created \ {m}

Announce(m) ==
  /\ creator.pc = "announce"
  /\ m \in creator.created
  /\ announced' = announced \cup {m}
  /\ creator' = [creator EXCEPT !.created = AfterAnnouncing(m)]
  /\ UNCHANGED <<matchMessage, questionMessage, saver, game, byMatch, byGame,
                 updated, unanswered, faults>>

FinishMatches ==
  /\ creator.pc = "announce"
  /\ creator.created = {}
  /\ matchMessage' = "done"
  /\ creator' = IdleCreator
  /\ UNCHANGED <<questionMessage, saver, game, byMatch, byGame, announced, updated,
                 unanswered, faults>>

-----------------------------------------------------------------------------
(* ConsumeQuestions *)

ReceiveQuestions(m) ==
  /\ questionMessage[m] = "queued"
  /\ saver.pc = "idle"
  /\ questionMessage' = [questionMessage EXCEPT ![m] = "handling"]
  /\ saver' = [IdleSaver EXCEPT !.pc = "update", !.match = m]
  /\ UNCHANGED <<matchMessage, creator, game, byMatch, byGame, announced, updated,
                 unanswered, faults>>

(***************************************************************************)
(* UpdateOne by match id, without upsert.  With no document to match, or on*)
(* an error (the document may be updated all the same), the questions are  *)
(* put in Redis under the match id.                                        *)
(***************************************************************************)
AfterMiss_Skips == "find"
AfterMiss == "stash"

UpdateGame ==
  LET m == saver.match
  IN
  /\ saver.pc = "update"
  /\ Call("update",
          IF game[m] = "none"
          THEN /\ saver' = [saver EXCEPT !.pc = AfterMiss]
               /\ UNCHANGED <<game, updated>>
          ELSE /\ saver' = [saver EXCEPT !.pc = "find"]
               /\ game' = [game EXCEPT ![m] = "filled"]
               /\ updated' = updated \cup {m},
          /\ saver' = [saver EXCEPT !.pc = "stash", !.error = TRUE]
          /\ \/ UNCHANGED game
             \/ game[m] # "none" /\ game' = [game EXCEPT ![m] = "filled"]
          /\ UNCHANGED updated)
  /\ UNCHANGED <<matchMessage, questionMessage, creator, byMatch, byGame, announced,
                 unanswered>>

(* The process dies; whatever it has in hand or has not read yet is lost. *)
LoseEverything ==
  /\ creator' = IdleCreator
  /\ saver' = IdleSaver
  /\ matchMessage' = IF matchMessage = "done" THEN "done" ELSE "lost"
  /\ questionMessage' = [m \in Matches |->
        IF questionMessage[m] \in {"queued", "handling"}
        THEN "lost" ELSE questionMessage[m]]
  /\ UNCHANGED <<game, byMatch, byGame, announced, updated, unanswered>>

(***************************************************************************)
(* SET game_questions_<matchId>.  If it fails after UpdateOne matched      *)
(* nothing, the error that is logged is UpdateOne's, which is nil: the     *)
(* consumer goroutine panics and takes the process down.  If UpdateOne     *)
(* itself failed its error is not nil and the handler goes on.             *)
(***************************************************************************)
StashByMatchId ==
  /\ saver.pc = "stash"
  /\ \/ /\ byMatch' = byMatch \cup {saver.match}
        /\ saver' = [saver EXCEPT !.pc = "find"]
        /\ UNCHANGED <<matchMessage, questionMessage, creator, game, byGame,
                       announced, updated, unanswered, faults>>
     \/ /\ Strike("set")
        /\ IF saver.error
           THEN /\ saver' = [saver EXCEPT !.pc = "find"]
                /\ UNCHANGED <<matchMessage, questionMessage, creator, game, byMatch,
                               byGame, announced, updated, unanswered>>
           ELSE LoseEverything

(* FindOne by match id, for the game's id and players. *)
Found_Never(m) == FALSE
Found(m) == game[m] # "none"

FindGame ==
  /\ saver.pc = "find"
  /\ Call("find",
          saver' = [saver EXCEPT !.pc = "cache", !.hit = Found(saver.match)],
          saver' = [saver EXCEPT !.pc = "cache", !.hit = FALSE])
  /\ UNCHANGED <<matchMessage, questionMessage, creator, game, byMatch, byGame,
                 announced, updated, unanswered>>

(***************************************************************************)
(* SET game_questions_<gameId>.  After a miss the id is the zero ObjectID: *)
(* a key no game reads is written, shared by every match.                  *)
(***************************************************************************)
CacheByGameId ==
  /\ saver.pc = "cache"
  /\ Call("set",
          byGame' = IF saver.hit THEN byGame \cup {saver.match} ELSE byGame,
          UNCHANGED byGame)
  /\ questionMessage' = [questionMessage EXCEPT ![saver.match] = "done"]
  /\ saver' = IdleSaver
  /\ UNCHANGED <<matchMessage, creator, game, byMatch, announced, updated, unanswered>>

-----------------------------------------------------------------------------
Crash == Strike("crash") /\ LoseEverything

CreatorStep ==
  \/ ReceiveMatches
  \/ \E m \in Matches : GetQuestionsByMatchId(m)
  \/ InsertGame
  \/ \E m \in Matches : Announce(m)
  \/ FinishMatches

SaverStep ==
  \/ \E m \in Matches : ReceiveQuestions(m)
  \/ UpdateGame
  \/ StashByMatchId
  \/ FindGame
  \/ CacheByGameId

Next ==
  \/ \E m \in Matches : PublishQuestions(m)
  \/ CreatorStep
  \/ SaverStep
  \/ Crash

Spec == Init /\ [][Next]_vars

-----------------------------------------------------------------------------
(* Properties *)

Handled(m) == matchMessage = "done" /\ questionMessage[m] = "done"

(***************************************************************************)
(* Questions that were handled are kept somewhere a game can be given them *)
(* from: in the game document or in Redis under the match id.  The one way *)
(* to lose them is a failing UpdateOne followed by a failing SET.          *)
(***************************************************************************)
QuestionsKept ==
  \A m \in Matches : questionMessage[m] = "done" =>
    \/ game[m] = "filled"
    \/ m \in byMatch
    \/ faults["update"] > 0 /\ faults["set"] > 0

(***************************************************************************)
(* When the questions found the game document (the order the consumers are *)
(* meant for), handling them leaves both the document and the cache under  *)
(* the game id complete, unless the lookup or the last SET failed.         *)
(***************************************************************************)
GameFirstIsComplete ==
  \A m \in updated :
    /\ game[m] = "filled"
    /\ questionMessage[m] = "done" =>
         m \in byGame \/ faults["find"] > 0 \/ faults["set"] > 0

(* Only games that exist are cached under their id. *)
CachedGamesExist ==
  \A m \in byGame : game[m] # "none"

(***************************************************************************)
(* No created game is forgotten on the way to its players: it is announced,*)
(* or the consumer still holds it, also when other matches of the message  *)
(* fail before or after it.  Only the end of the process drops one, and an *)
(* insertion that fails although the document is stored: nobody looks for  *)
(* that game again, even if it is given its questions.                     *)
(***************************************************************************)
CreatedIsInHand ==
  \A m \in Matches : game[m] # "none" =>
    \/ m \in announced \cup creator.created
    \/ m \in unanswered
    \/ faults["crash"] + faults["set"] > 0

(***************************************************************************)
(* Every game that was created is announced to its players, even when      *)
(* other matches of the message could not be created; a crash in between,  *)
(* or an insertion that is answered with an error, leaves a game nobody    *)
(* hears of.                                                               *)
(***************************************************************************)
CreatedIsAnnounced ==
  \A m \in Matches :
    game[m] # "none" ~>
      m \in announced \cup unanswered \/ faults["crash"] + faults["set"] > 0
=============================================================================

