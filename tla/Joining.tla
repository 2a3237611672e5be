------------------------------- MODULE Joining -------------------------------
(***************************************************************************)
(* How a player gets into a match: Game Service and Match Service together.*)
(*                                                                         *)
(* ADD_TO_WAITING_LIST on a player's connection publishes a request; the   *)
(* Match Service's consumer puts the player into the waiting list.  The    *)
(* Match Service also has an HTTP endpoint that does so at once.  Runs of  *)
(* the matchmaking, of which several can be in flight, read the lists,     *)
(* publish groups of waiting players and then remove them one by one, and  *)
(* the Game Service creates their games.  On the way, each player's status *)
(* in Redis is written by goroutines that nothing orders.                  *)
(*                                                                         *)
(* Abstracted: the scores of the lists, the window and the order in which a*)
(* run reads the lists (MatchMaking has them), what happens to a created   *)
(* game (GameSetup, ReadyRoster), the texts of the replies.                *)
(***************************************************************************)
EXTENDS Integers, Sequences, FiniteSets

CONSTANTS
  Users,
  Categories,
  AllowedGroups, \* the sets of players a run may match together
  Runs,          \* scheduler goroutines that may be in flight at once
  UnknownNames,  \* what a player may ask for that is no category
  MaxAsks,       \* bound: MaxAsks[p][n], how often p asks for n
  MaxFaults      \* bound: how many kinds of fault may strike, once each

Names == Categories \cup UnknownNames

(***************************************************************************)
(* "reply": the peer cannot be written to;  "publish": the producer fails; *)
(* "zadd", "zrem", "set": Redis fails;  "create": MongoDB fails;           *)
(* "produce": the producer fails for a message with matches;               *)
(* "expire": a status outlives its TTL;  "game", "match": that service is  *)
(* restarted.                                                              *)
(***************************************************************************)
FaultKinds ==
  {"reply", "publish", "zadd", "zrem", "produce", "set", "create", "expire", "game", "match"}

ASSUME JoiningAssumption ==
  /\ AllowedGroups \subseteq SUBSET Users /\ {} \in AllowedGroups
  /\ IsFiniteSet(Runs)
  /\ IsFiniteSet(Categories) /\ Categories \cap UnknownNames = {}
  /\ MaxAsks \in [Users -> [Names -> Nat]]
  /\ MaxFaults \in Nat

VARIABLES
  waiting,     \* Redis: the players in the waiting list of each category
  run,         \* local state of each scheduler goroutine
  loop,        \* the read loop of each player's connection
  requests,    \* Kafka: join requests the Match Service has not yet handled
  matches,     \* Kafka: match messages the Game Service has not yet handled
  writers,     \* goroutines about to write a status, by player and status
  status,      \* Redis: the status of each player
  told,        \* history: what each player was last told to be added to
  waitingFor,  \* history: asked for, and not matched since
  raced,       \* history: asked for last while a run was removing the player
  asks,        \* history: how often each player asked for each name
  played,      \* history: how often each player was matched in each category
  faults       \* history: the kinds of fault that struck

listVars == <<waiting, run>>
history == <<told, waitingFor, raced, asks, played>>
vars == <<listVars, loop, requests, matches, writers, status, history, faults>>

Written == {"INITIALIZED", "PENDING"}
NoStatus == "none"

Request == [user : Users, name : Names]
IdleLoop == [pc |-> "idle"]
LoopState == [pc : {"publish", "confirm"}, name : Names] \cup {IdleLoop}
Groups == [Categories -> SUBSET Users]
NoGroups == [c \in Categories |-> {}]

(***************************************************************************)
(* A run forms its groups of the lists it has read, and when no list is    *)
(* unread publishes them; what is left of them is then to be removed.      *)
(***************************************************************************)
IdleRun == [pc |-> "read", unread |-> Categories, groups |-> NoGroups]
RunState == [pc : {"read", "remove"}, unread : SUBSET Categories, groups : Groups]

TypeOK ==
  /\ waiting \in Groups
  /\ run \in [Runs -> RunState]
  /\ loop \in [Users -> LoopState]
  /\ requests \in Seq(Request)
  /\ matches \in Seq(Groups)
  /\ writers \in [Users -> [Written -> Nat]]
  /\ status \in [Users -> Written \cup {NoStatus}]
  /\ told \in [Users -> SUBSET Names]
  /\ waitingFor \in [Users -> SUBSET Categories]
  /\ raced \in [Users -> SUBSET Categories]
  /\ asks \in [Users -> [Names -> Nat]]
  /\ played \in [Users -> [Categories -> Nat]]
  /\ faults \subseteq FaultKinds

NoWriters == [p \in Users |-> [s \in Written |-> 0]]

Init ==
  /\ waiting = NoGroups
  /\ run = [r \in Runs |-> IdleRun]
  /\ loop = [p \in Users |-> IdleLoop]
  /\ requests = <<>>
  /\ matches = <<>>
  /\ writers = NoWriters
  /\ status = [p \in Users |-> NoStatus]
  /\ told = [p \in Users |-> {}]
  /\ waitingFor = [p \in Users |-> {}]
  /\ raced = [p \in Users |-> {}]
  /\ asks = [p \in Users |-> [n \in Names |-> 0]]
  /\ played = [p \in Users |-> [c \in Categories |-> 0]]
  /\ faults = {}

Strike(kind) ==
  /\ kind \notin faults /\ Cardinality(faults) < MaxFaults
  /\ faults' = faults \cup {kind}

-----------------------------------------------------------------------------
(* ADD_TO_WAITING_LIST *)

(* saveUsersGameStatus: one goroutine for each of the players. *)
Launch(players, s) ==
  [p \in Users |-> IF p \in players THEN [writers[p] EXCEPT ![s] = @ + 1] ELSE writers[p]]

Ask(p, name) ==
  /\ asks[p][name] < MaxAsks[p][name]
  /\ asks' = [asks EXCEPT ![p][name] = @ + 1]

(* The names under which some run has published p and is yet to remove p.  *)
Leaving(p) ==
  {c \in Categories : \E r \in Runs : run[r].pc = "remove" /\ p \in run[r].groups[c]}

(* From now on p is waiting for name. *)
WaitFor(p, name) ==
  /\ waitingFor' = [waitingFor EXCEPT ![p] = @ \cup ({name} \cap Categories)]
  /\ raced' = [raced EXCEPT ![p] = (@ \ {name}) \cup ({name} \cap Leaving(p))]

(***************************************************************************)
(* An unknown category is answered with an error, and treated like any     *)
(* other from there on unless that reply cannot be written.                *)
(***************************************************************************)
ReceiveAdd(p, name) ==
  /\ loop[p].pc = "idle"
  /\ Ask(p, name)
  /\ \/ /\ loop' = [loop EXCEPT ![p] = [pc |-> "publish", name |-> name]]
        /\ writers' = Launch({p}, "INITIALIZED")
        /\ told' = [told EXCEPT ![p] = @ \ {name}]
        /\ WaitFor(p, name)
        /\ UNCHANGED faults
     \/ /\ name \in UnknownNames /\ Strike("reply")
        /\ UNCHANGED <<loop, writers, told, waitingFor, raced>>
  /\ UNCHANGED <<listVars, requests, matches, status, played>>

(***************************************************************************)
(* A producer error, after which the request may be stored or not, is      *)
(* answered with an error, and when that can be written, with success too. *)
(***************************************************************************)
PublishRequest(p) ==
  LET stored == Append(requests, [user |-> p, name |-> loop[p].name])
  IN
  /\ loop[p].pc = "publish"
  /\ \/ /\ requests' = stored
        /\ loop' = [loop EXCEPT ![p].pc = "confirm"]
        /\ UNCHANGED faults
     \/ /\ Strike("publish")
        /\ requests' \in {requests, stored}
        /\ \/ loop' = [loop EXCEPT ![p].pc = "confirm"]
           \/ loop' = [loop EXCEPT ![p] = IdleLoop]
  /\ UNCHANGED <<listVars, matches, writers, status, history>>

Confirm(p) ==
  /\ loop[p].pc = "confirm"
  /\ \/ /\ told' = [told EXCEPT ![p] = @ \cup {loop[p].name}]
        /\ UNCHANGED faults
     \/ /\ Strike("reply")
        /\ UNCHANGED told
  /\ loop' = [loop EXCEPT ![p] = IdleLoop]
  /\ UNCHANGED <<listVars, requests, matches, writers, status>>
  /\ UNCHANGED <<waitingFor, raced, asks, played>>

(* UpsertUserStatus, with a TTL. *)
SaveStatus(p, s) ==
  /\ writers[p][s] > 0
  /\ writers' = [writers EXCEPT ![p][s] = @ - 1]
  /\ \/ status' = [status EXCEPT ![p] = s] /\ UNCHANGED faults
     \/ Strike("set") /\ UNCHANGED status
  /\ UNCHANGED <<listVars, loop, requests, matches, history>>

Expire(p) ==
  /\ status[p] # NoStatus
  /\ Strike("expire")
  /\ status' = [status EXCEPT ![p] = NoStatus]
  /\ UNCHANGED <<listVars, loop, requests, matches, writers, history>>

-----------------------------------------------------------------------------
(* Into the waiting list and out of it *)

Enter(p, c) == waiting' = [waiting EXCEPT ![c] = @ \cup {p}]

(* The consumer goes on with the next message, whatever came of this one. *)
Rest_Newest(messages) == <<>>
Rest_Same(messages) == messages
Rest_Retries(messages) ==
  IF Head(messages).name \in UnknownNames THEN messages ELSE Tail(messages)
Rest(messages) == Tail(messages)

ConsumeJoinMatchQueueRequest ==
  /\ requests # <<>>
  /\ requests' = Rest(requests)
  /\ LET request == Head(requests) IN
     \/ request.name \in Categories /\ Enter(request.user, request.name) /\ UNCHANGED faults
     \/ request.name \in UnknownNames /\ UNCHANGED <<waiting, faults>>
     \/ request.name \in Categories /\ Strike("zadd") /\ UNCHANGED waiting
  /\ UNCHANGED <<run, loop, matches, writers, status, history>>

(* The endpoint.  An invalid category is refused and changes nothing. *)
AddToWaitingList(p, c) ==
  /\ Ask(p, c)
  /\ \/ /\ Enter(p, c)
        /\ told' = [told EXCEPT ![p] = @ \cup {c}]
        /\ WaitFor(p, c)
        /\ UNCHANGED faults
     \/ /\ Strike("zadd")
        /\ UNCHANGED <<waiting, told, waitingFor, raced>>
  /\ UNCHANGED <<run, loop, requests, matches, writers, status, played>>

(***************************************************************************)
(* One list of a run: some allowed group of the players in it, none if the *)
(* read fails.  A run that has formed no group at all ends.                *)
(***************************************************************************)
GetWaitingListByCategory(r, c) ==
  /\ run[r].pc = "read"
  /\ c \in run[r].unread
  /\ \E G \in AllowedGroups :
       LET formed == [run[r].groups EXCEPT ![c] = G] IN
       /\ G \subseteq waiting[c]
       /\ run' = [run EXCEPT ![r] =
                    IF run[r].unread = {c} /\ formed = NoGroups
                    THEN IdleRun
                    ELSE [run[r] EXCEPT !.unread = @ \ {c}, !.groups = formed]]
  /\ UNCHANGED <<waiting, loop, requests, matches, writers, status, history, faults>>

Matched(groups) ==
  /\ matches' = Append(matches, groups)
  /\ waitingFor' = [p \in Users |-> waitingFor[p] \ {c \in Categories : p \in groups[c]}]
  /\ played' = [p \in Users |-> [c \in Categories |->
                  IF p \in groups[c] THEN played[p][c] + 1 ELSE played[p][c]]]

(***************************************************************************)
(* A producer error, after which the message may be stored or not, is only *)
(* logged: the members are removed all the same.                           *)
(***************************************************************************)
PublishFinalUsers(r) ==
  /\ run[r].pc = "read" /\ run[r].unread = {} /\ run[r].groups # NoGroups
  /\ \/ Matched(run[r].groups) /\ UNCHANGED faults
     \/ Matched(run[r].groups) /\ Strike("produce")
     \/ UNCHANGED <<matches, waitingFor, played>> /\ Strike("produce")
  /\ run' = [run EXCEPT ![r].pc = "remove"]
  /\ UNCHANGED <<waiting, loop, requests, writers, status, told, raced, asks>>

(* One ZREM; a failing one is logged and skipped. *)
RemoveWaitingMember(r, c, p) ==
  LET left == [run[r].groups EXCEPT ![c] = @ \ {p}]
  IN
  /\ run[r].pc = "remove"
  /\ p \in run[r].groups[c]
  /\ \/ waiting' = [waiting EXCEPT ![c] = @ \ {p}] /\ UNCHANGED faults
     \/ UNCHANGED waiting /\ Strike("zrem")
  /\ run' = [run EXCEPT ![r] =
               IF left = NoGroups THEN IdleRun ELSE [@ EXCEPT !.groups = left]]
  /\ UNCHANGED <<loop, requests, matches, writers, status, history>>

(***************************************************************************)
(* Each match of the message gets a game, or one of them fails.  The       *)
(* players of those that do are PENDING, once for each of their games.     *)
(***************************************************************************)
Pending_LastId(p, created, groups) ==
  {c \in created : p \in groups[c] /\ p = CHOOSE q \in groups[c] : TRUE}
Pending(p, created, groups) == {c \in created : p \in groups[c]}

Announced(created, groups) ==
  [p \in Users |-> [writers[p] EXCEPT
                      !["PENDING"] = @ + Cardinality(Pending(p, created, groups))]]

ConsumeMatchCreated ==
  /\ matches # <<>>
  /\ matches' = Tail(matches)
  /\ \/ /\ writers' = Announced(Categories, Head(matches))
        /\ UNCHANGED faults
     \/ /\ Strike("create")
        /\ \E c \in Categories : writers' = Announced(Categories \ {c}, Head(matches))
  /\ UNCHANGED <<listVars, loop, requests, status, history>>

-----------------------------------------------------------------------------
(* Restarts: consumers start at the newest message, Redis keeps the lists. *)

RestartGameService ==
  /\ Strike("game")
  /\ loop' = [p \in Users |-> IdleLoop]
  /\ writers' = NoWriters
  /\ matches' = <<>>
  /\ UNCHANGED <<listVars, requests, status, history>>

RestartMatchService ==
  /\ Strike("match")
  /\ requests' = <<>>
  /\ run' = [r \in Runs |-> IdleRun]
  /\ UNCHANGED <<waiting, loop, matches, writers, status, history>>

Next ==
  \/ \E p \in Users, name \in Names : ReceiveAdd(p, name)
  \/ \E p \in Users : PublishRequest(p) \/ Confirm(p) \/ Expire(p)
  \/ \E p \in Users, s \in Written : SaveStatus(p, s)
  \/ ConsumeJoinMatchQueueRequest
  \/ \E p \in Users, c \in Categories : AddToWaitingList(p, c)
  \/ \E r \in Runs, c \in Categories :
        GetWaitingListByCategory(r, c) \/ \E p \in Users : RemoveWaitingMember(r, c, p)
  \/ \E r \in Runs : PublishFinalUsers(r)
  \/ ConsumeMatchCreated
  \/ RestartGameService
  \/ RestartMatchService

Spec == Init /\ [][Next]_vars

(* The consumers and the goroutines that were started run. *)
FairSpec ==
  /\ Spec
  /\ WF_vars(ConsumeJoinMatchQueueRequest)
  /\ WF_vars(ConsumeMatchCreated)
  /\ \A p \in Users, s \in Written : WF_vars(SaveStatus(p, s))

-----------------------------------------------------------------------------
(* Properties *)

Queued(p, c) == \E i \in DOMAIN requests : requests[i] = [user |-> p, name |-> c]

(***************************************************************************)
(* A player who is told to have been added to the list of a category is on *)
(* the way to it, in it, or was matched since asking, although the reply   *)
(* is sent before the Match Service has seen the request.  What can make it*)
(* untrue is a producer error of either service, a failing ZADD, a restart *)
(* of the Match Service - and, without any fault, asking while a run that  *)
(* has published the player is still removing the members of its groups.   *)
(***************************************************************************)
Excused(p, c) ==
  c \in raced[p] \/ faults \cap {"publish", "zadd", "produce", "match"} # {}

ToldIsKept ==
  \A p \in Users : \A c \in told[p] \cap waitingFor[p] :
    Queued(p, c) \/ p \in waiting[c] \/ Excused(p, c)

(***************************************************************************)
(* Each time a player asks for a category, over the connection or the      *)
(* endpoint, at most as many matches follow as runs can be in flight; one  *)
(* failing ZREM allows one more, and a restart of the Match Service one    *)
(* more per run: no request is handled twice, none is taken for another    *)
(* category, and none outlives the removal of every run.                   *)
(***************************************************************************)
Again == (IF "match" \in faults THEN Cardinality(Runs) ELSE 0)
         + (IF "zrem" \in faults THEN 1 ELSE 0)

MatchedAsAsked ==
  \A p \in Users, c \in Categories :
    played[p][c] <= Cardinality(Runs) * asks[p][c] + Again

(* p is in a match message the Game Service has still to handle. *)
InMatch(p) == \E i \in DOMAIN matches, c \in Categories : p \in matches[i][c]

(***************************************************************************)
(* Nobody who is matched goes without a status: the message with their     *)
(* match is unread, a goroutine has their PENDING in hand, or a status is  *)
(* there (a late INITIALIZED may have replaced PENDING), whichever way they*)
(* joined, unless the game was not created, a status was not written or has*)
(* expired, or the Game Service was restarted.                             *)
(***************************************************************************)
MatchedIsInHand ==
  \A p \in Users : (\E c \in Categories : played[p][c] > 0) =>
    \/ InMatch(p)
    \/ writers[p]["PENDING"] > 0
    \/ status[p] # NoStatus
    \/ faults \cap {"create", "set", "game", "expire"} # {}

(***************************************************************************)
(* Who is told to have been added is eventually in the list, or matched,   *)
(* with the same exceptions.                                               *)
(***************************************************************************)
ToldIsListed ==
  \A p \in Users, c \in Categories :
    c \in told[p] ~>
      p \in waiting[c] \/ c \notin waitingFor[p] \/ Excused(p, c)

(***************************************************************************)
(* Who is matched becomes PENDING, whatever the goroutines of earlier      *)
(* requests still write, unless the game is not created, the status cannot *)
(* be written or the Game Service is restarted.                            *)
(***************************************************************************)
MatchedIsPending ==
  \A p \in Users :
    InMatch(p) ~>
      status[p] = "PENDING" \/ faults \cap {"create", "set", "game"} # {}
=============================================================================
