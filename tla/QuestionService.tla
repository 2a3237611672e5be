--------------------------- MODULE QuestionService ---------------------------
(***************************************************************************)
(* The Question Service beside the set-up of games: its consumer takes the *)
(* same message of matches as the Game Service, and publishes a message of *)
(* questions for one match after another.  It replaces the questions that  *)
(* come "at any time or never" of GameSetup by the service that sends them.*)
(*                                                                         *)
(* One time-out of two seconds is shared by all the matches of a message.  *)
(* A query that fails is logged, and what it returned - nothing - is       *)
(* published all the same; rows that end early are not told from rows that *)
(* end.  The Kafka producer does not look at the time-out.                 *)
(*                                                                         *)
(* Abstracted: which questions are drawn, and their texts; a message is    *)
(* the number of questions in it.                                          *)
(***************************************************************************)
EXTENDS GameSetup

CONSTANTS
  Bank,      \* Bank[m]: the EASY questions there are in the category of m
  Limit,     \* the most questions that are asked for
  MaxSlips   \* bound: how many kinds of fault of the service may strike

(***************************************************************************)
(* "query": the query fails;  "rows": its rows end early;                  *)
(* "timeout": the two seconds are over;  "publish": the producer returns   *)
(* an error;  "restart": the service dies and is restarted.                *)
(***************************************************************************)
SlipKinds == {"query", "rows", "timeout", "publish", "restart"}

ASSUME QuestionServiceAssumption ==
  /\ Limit \in Nat
  /\ Bank \in [Matches -> Nat]
  /\ MaxSlips \in Nat

VARIABLES
  asked,    \* the message of matches, as the Question Service has it
  asker,    \* local state of its consumer
  content,  \* content[m]: the number of questions published for m
  slips     \* history: the kinds of fault of the service so far

askVars == <<asked, asker, content, slips>>
allVars == <<vars, askVars>>

AskerState ==
  [pc      : {"idle", "query", "publish"},
   todo    : SUBSET Matches,       \* matches not yet published for
   match   : Matches \cup {None},
   number  : Nat,                  \* questions in hand
   expired : BOOLEAN]              \* the two seconds are over

AskTypeOK ==
  /\ asked \in MessageStates
  /\ asker \in AskerState
  /\ content \in [Matches -> Nat]
  /\ slips \subseteq SlipKinds

IdleAsker ==
  [pc |-> "idle", todo |-> {}, match |-> None, number |-> 0, expired |-> FALSE]

AskInit ==
  /\ Init
  /\ asked = "queued"
  /\ asker = IdleAsker
  /\ content = [m \in Matches |-> 0]
  /\ slips = {}

Slip(kind) ==
  /\ kind \notin slips
  /\ Cardinality(slips) < MaxSlips
  /\ slips' = slips \cup {kind}

-----------------------------------------------------------------------------
(* ConsumeMatchCreated of the Question Service *)

ReceiveMatchedUsers ==
  /\ asked = "queued"
  /\ asked' = "handling"
  /\ asker' = [IdleAsker EXCEPT !.pc = "query", !.todo = Matches]
  /\ UNCHANGED <<vars, content, slips>>

TimeOut ==
  /\ asker.pc # "idle"
  /\ ~asker.expired
  /\ Slip("timeout")
  /\ asker' = [asker EXCEPT !.expired = TRUE]
  /\ UNCHANGED <<vars, asked, content>>

(* SELECT ... WHERE category = ANY($1) AND difficulty = 'EASY' LIMIT $3 *)
Drawn_NoLimit(m) == Bank[m]
Drawn(m) == IF Bank[m] < Limit THEN Bank[m] ELSE Limit

(* The loop goes on to publish, with whatever the query returned. *)
AfterFailure_GivesUp == "idle"
AfterFailure == "publish"

GetRandomQuestions(m) ==
  LET Returns(number) ==
        asker' = [asker EXCEPT !.pc = "publish", !.match = m, !.number = number]
      Fails ==
        asker' = [asker EXCEPT !.pc = AfterFailure, !.match = m, !.number = 0]
  IN
  /\ asker.pc = "query"
  /\ m \in asker.todo
  /\ \/ ~asker.expired /\ Returns(Drawn(m)) /\ UNCHANGED slips
     \/ asker.expired /\ Fails /\ UNCHANGED slips
     \/ ~asker.expired /\ Fails /\ Slip("query")
     \/ /\ ~asker.expired
        /\ Slip("rows")
        /\ \E number \in 0 .. Limit : number < Drawn(m) /\ Returns(number)
  /\ UNCHANGED <<vars, asked, content>>

(* The message is stored, or an error comes back whether or not it was. *)
PublishList ==
  LET m == asker.match
      left == asker.todo \ {m}
  IN
  /\ asker.pc = "publish"
  /\ \/ /\ PublishQuestions(m)
        /\ content' = [content EXCEPT ![m] = asker.number]
        /\ UNCHANGED slips \/ Slip("publish")
     \/ /\ Slip("publish")
        /\ UNCHANGED <<vars, content>>
  /\ IF left = {}
     THEN asked' = "done" /\ asker' = IdleAsker
     ELSE /\ asker' = [asker EXCEPT !.pc = "query", !.todo = left, !.match = None,
                                    !.number = 0]
          /\ UNCHANGED asked

(* The service dies; consumers start at the newest message. *)
RestartAsker ==
  /\ Slip("restart")
  /\ asked' = IF asked = "done" THEN "done" ELSE "lost"
  /\ asker' = IdleAsker
  /\ UNCHANGED <<vars, content>>

AskerStep ==
  \/ ReceiveMatchedUsers
  \/ \E m \in Matches : GetRandomQuestions(m)
  \/ PublishList

AskNext ==
  \/ AskerStep
  \/ TimeOut
  \/ RestartAsker
  \/ (CreatorStep \/ SaverStep \/ Crash) /\ UNCHANGED askVars

AskSpec == AskInit /\ [][AskNext]_allVars

(* Each of the three consumers keeps running while it has a message. *)
FairAskSpec ==
  /\ AskSpec
  /\ WF_allVars(AskerStep)
  /\ WF_allVars(CreatorStep /\ UNCHANGED askVars)
  /\ WF_allVars(SaverStep /\ UNCHANGED askVars)

-----------------------------------------------------------------------------
(* Properties *)

(***************************************************************************)
(* A game document that has questions has as many as were asked for, or as *)
(* there are: a short or an empty game is the mark of a query that failed, *)
(* of rows that ended early or of a message that took over two seconds.    *)
(***************************************************************************)
ShortOnlyByFault ==
  \A m \in Matches : game[m] = "filled" =>
    \/ content[m] <= Limit /\ content[m] \in {Limit, Bank[m]}
    \/ slips \cap {"query", "rows", "timeout"} # {}

(***************************************************************************)
(* No match of the message is forgotten: its questions are published, or   *)
(* the consumer still has it before it, whatever happened to the others,   *)
(* also once the message counts as done.  A producer error or the end of   *)
(* the service is what drops one.                                          *)
(***************************************************************************)
MatchIsInHand ==
  \A m \in Matches : asked \in {"handling", "done", "lost"} =>
    \/ questionMessage[m] # "unsent"
    \/ asker.pc # "idle" /\ m \in asker.todo
    \/ slips \cap {"publish", "restart"} # {}

(***************************************************************************)
(* Each match the service takes in hand is eventually answered by a        *)
(* message, whatever happened to the other matches of the message before   *)
(* it; a producer error or the end of the service is what can prevent it.  *)
(***************************************************************************)
EveryMatchIsAnswered ==
  \A m \in Matches :
    asked = "handling" ~>
      questionMessage[m] # "unsent" \/ slips \cap {"publish", "restart"} # {}
=============================================================================
