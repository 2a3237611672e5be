---------------------------- MODULE JoiningProofs ----------------------------
(***************************************************************************)
(* Theorems about Joining, for any players, categories, numbers of requests*)
(* and faults.                                                             *)
(***************************************************************************)
EXTENDS Joining, FiniteSetTheorems, TLAPS

LEMMA LoopStateType ==
  /\ IdleLoop \in LoopState
  /\ \A name \in Names : [pc |-> "publish", name |-> name] \in LoopState
BY DEF IdleLoop, LoopState

LEMMA StrikeType ==
  ASSUME faults \subseteq FaultKinds, NEW kind \in FaultKinds, Strike(kind)
  PROVE  faults' \subseteq FaultKinds /\ faults \subseteq faults' /\ kind \in faults'
BY DEF Strike

LEMMA WritersUpdate ==
  ASSUME NEW w \in [Users -> [Written -> Nat]], NEW p \in Users, NEW s \in Written,
         NEW n \in Nat
  PROVE  /\ [w EXCEPT ![p][s] = n] \in [Users -> [Written -> Nat]]
         /\ [w[p] EXCEPT ![s] = n] \in [Written -> Nat]
OBVIOUS

LEMMA SetsUpdate ==
  ASSUME NEW S, NEW f \in [Users -> SUBSET S], NEW p \in Users, NEW X \in SUBSET S
  PROVE  /\ [f EXCEPT ![p] = @ \cup X] \in [Users -> SUBSET S]
         /\ [f EXCEPT ![p] = @ \ X] \in [Users -> SUBSET S]
OBVIOUS

LEMMA LaunchType ==
  ASSUME TypeOK, NEW players, NEW s \in Written
  PROVE  Launch(players, s) \in [Users -> [Written -> Nat]]
<1>1. \A p \in Users : [writers[p] EXCEPT ![s] = @ + 1] \in [Written -> Nat]
  BY DEF TypeOK
<1>2. \A p \in Users : writers[p] \in [Written -> Nat]
  BY DEF TypeOK
<1> QED BY <1>1, <1>2 DEF Launch

LEMMA AnnouncedType ==
  ASSUME TypeOK, NEW created \in SUBSET Categories, NEW groups
  PROVE  Announced(created, groups) \in [Users -> [Written -> Nat]]
<1> DEFINE n(p) == Cardinality(Pending(p, created, groups))
<1>1. ASSUME NEW p \in Users
      PROVE  n(p) \in Nat
  <2>1. Pending(p, created, groups) \in SUBSET Categories
    BY DEF Pending
  <2> QED BY <2>1, FS_Subset, FS_CardinalityType, JoiningAssumption
<1> HIDE DEF n
<1>2. ASSUME NEW p \in Users
      PROVE  [writers[p] EXCEPT !["PENDING"] = @ + n(p)] \in [Written -> Nat]
  <2>1. writers[p] \in [Written -> Nat] /\ "PENDING" \in Written
    BY DEF TypeOK, Written
  <2>2. writers[p]["PENDING"] + n(p) \in Nat
    BY <1>1, <2>1
  <2> QED BY <2>1, <2>2
<1>3. Announced(created, groups) =
        [p \in Users |-> [writers[p] EXCEPT !["PENDING"] = @ + n(p)]]
  BY DEF Announced, n
<1> QED BY <1>2, <1>3

ListsTypeOK ==
  /\ waiting \in Groups
  /\ run \in [Runs -> RunState]

LEMMA IdleRunType == IdleRun \in RunState /\ NoGroups \in Groups
BY DEF IdleRun, RunState, Groups, NoGroups

LEMMA TypeInit == Init => TypeOK
<1> SUFFICES ASSUME Init PROVE TypeOK
  OBVIOUS
<1>1. ListsTypeOK
  BY IdleRunType DEF Init, ListsTypeOK
<1>2. writers \in [Users -> [Written -> Nat]]
  BY DEF Init, NoWriters
<1> QED BY <1>1, <1>2, LoopStateType DEF Init, TypeOK, ListsTypeOK

(* The types of the lists and runs, step by step. *)
LEMMA EnterType ==
  ASSUME ListsTypeOK, NEW p \in Users, NEW c \in Categories, Enter(p, c)
  PROVE  waiting' \in Groups
BY DEF ListsTypeOK, Enter, Groups

LEMMA ListsStay == ListsTypeOK /\ UNCHANGED listVars => ListsTypeOK'
BY DEF ListsTypeOK, listVars

(* What a run is after it has read the list of c and formed the group G. *)
AfterRead(r, c, G) ==
  LET formed == [run[r].groups EXCEPT ![c] = G] IN
  IF run[r].unread = {c} /\ formed = NoGroups
  THEN IdleRun
  ELSE [run[r] EXCEPT !.unread = @ \ {c}, !.groups = formed]

LEMMA ReadStep ==
  ASSUME NEW r, NEW c, GetWaitingListByCategory(r, c)
  PROVE  \E G \in AllowedGroups : G \subseteq waiting[c] /\ run' = [run EXCEPT ![r] = AfterRead(r, c, G)]
BY Zenon DEF GetWaitingListByCategory, AfterRead

LEMMA ReadType ==
  ASSUME ListsTypeOK, NEW r \in Runs, NEW c \in Categories, GetWaitingListByCategory(r, c)
  PROVE  ListsTypeOK'
<1>1. PICK G \in AllowedGroups : run' = [run EXCEPT ![r] = AfterRead(r, c, G)]
  BY ReadStep
<1>2. G \in SUBSET Users
  BY JoiningAssumption
<1>3. run[r] \in RunState
  BY DEF ListsTypeOK
<1> DEFINE formed == [run[r].groups EXCEPT ![c] = G]
<1>4. formed \in Groups
  BY <1>2, <1>3 DEF RunState, Groups
<1> HIDE DEF formed
<1>5. [run[r] EXCEPT !.unread = @ \ {c}, !.groups = formed] \in RunState
  BY <1>3, <1>4 DEF RunState
<1>6. AfterRead(r, c, G) \in RunState
  BY <1>5, IdleRunType DEF AfterRead, formed
<1>7. run' \in [Runs -> RunState]
  BY <1>1, <1>6 DEF ListsTypeOK
<1> QED BY <1>7 DEF ListsTypeOK, GetWaitingListByCategory

LEMMA RemoveType ==
  ASSUME ListsTypeOK, NEW r \in Runs, NEW c \in Categories, NEW p \in Users,
         RemoveWaitingMember(r, c, p)
  PROVE  ListsTypeOK'
<1> DEFINE left == [run[r].groups EXCEPT ![c] = @ \ {p}]
<1>1. run[r] \in RunState /\ waiting \in Groups
  BY DEF ListsTypeOK
<1>2. left \in Groups
  BY <1>1 DEF RunState, Groups
<1>3. [run[r] EXCEPT !.groups = left] \in RunState
  BY <1>1, <1>2 DEF RunState
<1>4. run' = [run EXCEPT ![r] =
                IF left = NoGroups THEN IdleRun ELSE [run[r] EXCEPT !.groups = left]]
  BY DEF RemoveWaitingMember
<1>5. run' \in [Runs -> RunState]
  BY <1>3, <1>4, IdleRunType DEF ListsTypeOK
<1>6. waiting' = waiting \/ waiting' = [waiting EXCEPT ![c] = @ \ {p}]
  BY DEF RemoveWaitingMember
<1>7. waiting' \in Groups
  BY <1>1, <1>6 DEF Groups
<1> QED BY <1>5, <1>7 DEF ListsTypeOK

LEMMA PublishType ==
  ASSUME ListsTypeOK, NEW r \in Runs, PublishFinalUsers(r)
  PROVE  ListsTypeOK' /\ run[r].groups \in Groups
<1>1. run[r] \in RunState
  BY DEF ListsTypeOK
<1>2. [run[r] EXCEPT !.pc = "remove"] \in RunState
  BY <1>1 DEF RunState
<1>3. run' = [run EXCEPT ![r] = [run[r] EXCEPT !.pc = "remove"]]
  BY DEF PublishFinalUsers
<1> QED BY <1>1, <1>2, <1>3 DEF ListsTypeOK, PublishFinalUsers, RunState

LEMMA MatchedType ==
  ASSUME matches \in Seq(Groups),
         waitingFor \in [Users -> SUBSET Categories],
         played \in [Users -> [Categories -> Nat]],
         NEW groups \in Groups,
         Matched(groups)
  PROVE  /\ matches' \in Seq(Groups)
         /\ waitingFor' \in [Users -> SUBSET Categories]
         /\ played' \in [Users -> [Categories -> Nat]]
<1>1. matches' \in Seq(Groups)
  BY DEF Matched
<1>2. waitingFor' \in [Users -> SUBSET Categories]
  BY DEF Matched
<1>3. \A p \in Users, c \in Categories : played[p][c] + 1 \in Nat /\ played[p][c] \in Nat
  OBVIOUS
<1>4. played' = [p \in Users |-> [c \in Categories |->
                  IF p \in groups[c] THEN played[p][c] + 1 ELSE played[p][c]]]
  BY DEF Matched
<1>5. \A p \in Users :
        [c \in Categories |-> IF p \in groups[c] THEN played[p][c] + 1 ELSE played[p][c]]
          \in [Categories -> Nat]
  BY <1>3
<1> QED BY <1>1, <1>2, <1>4, <1>5

LEMMA TypeNext == TypeOK /\ [Next]_vars => TypeOK'
<1> SUFFICES ASSUME TypeOK, [Next]_vars PROVE TypeOK'
  OBVIOUS
<1>t. /\ ListsTypeOK
      /\ loop \in [Users -> LoopState]
      /\ requests \in Seq(Request)
      /\ matches \in Seq(Groups)
      /\ writers \in [Users -> [Written -> Nat]]
      /\ status \in [Users -> Written \cup {NoStatus}]
      /\ told \in [Users -> SUBSET Names]
      /\ waitingFor \in [Users -> SUBSET Categories]
      /\ raced \in [Users -> SUBSET Categories]
      /\ asks \in [Users -> [Names -> Nat]]
      /\ played \in [Users -> [Categories -> Nat]]
      /\ faults \subseteq FaultKinds
  BY DEF TypeOK, ListsTypeOK
<1>f. \A kind \in FaultKinds : Strike(kind) => faults' \subseteq FaultKinds
  BY <1>t, StrikeType
<1>k. FaultKinds = {"reply", "publish", "zadd", "zrem", "produce", "set", "create",
                    "expire", "game", "match"}
  BY DEF FaultKinds
<1>n. Categories \subseteq Names
  BY DEF Names
<1>a. ASSUME NEW p \in Users, NEW name \in Names, Ask(p, name)
      PROVE  asks' \in [Users -> [Names -> Nat]]
  BY <1>a, <1>t DEF Ask
<1>w. ASSUME NEW p \in Users, NEW name \in Names, WaitFor(p, name)
      PROVE  /\ waitingFor' \in [Users -> SUBSET Categories]
             /\ raced' \in [Users -> SUBSET Categories]
  <2> DEFINE now == waitingFor[p] \cup ({name} \cap Categories)
             late == (raced[p] \ {name}) \cup ({name} \cap Leaving(p))
  <2>1. waitingFor' = [waitingFor EXCEPT ![p] = now] /\ raced' = [raced EXCEPT ![p] = late]
    BY <1>w DEF WaitFor
  <2>2. now \in SUBSET Categories /\ late \in SUBSET Categories
    BY <1>t DEF Leaving
  <2> HIDE DEF now, late
  <2> QED BY <1>t, <2>1, <2>2
<1>1. ASSUME NEW p \in Users, NEW name \in Names, ReceiveAdd(p, name) PROVE TypeOK'
  <2>1. loop' \in [Users -> LoopState]
    BY <1>1, <1>t, LoopStateType DEF ReceiveAdd
  <2>2. writers' \in [Users -> [Written -> Nat]]
    BY <1>1, <1>t, LaunchType DEF ReceiveAdd, Written
  <2>3. told' \in [Users -> SUBSET Names]
    <3>1. told' \in {told, [told EXCEPT ![p] = @ \ {name}]}
      BY <1>1 DEF ReceiveAdd
    <3>2. [told EXCEPT ![p] = @ \ {name}] \in [Users -> SUBSET Names]
      BY <1>t, SetsUpdate, Zenon
    <3> QED BY <1>t, <3>1, <3>2, Zenon
  <2>7. /\ waitingFor' \in [Users -> SUBSET Categories]
        /\ raced' \in [Users -> SUBSET Categories]
    <3>1. WaitFor(p, name) \/ UNCHANGED <<waitingFor, raced>>
      BY <1>1 DEF ReceiveAdd
    <3> QED BY <1>t, <1>w, <3>1
  <2>4. faults' \subseteq FaultKinds
    BY <1>1, <1>t, <1>f, <1>k DEF ReceiveAdd
  <2>5. asks' \in [Users -> [Names -> Nat]]
    BY <1>1, <1>a DEF ReceiveAdd
  <2>6. ListsTypeOK'
    BY <1>1, <1>t, ListsStay DEF ReceiveAdd
  <2> QED
    BY <1>1, <1>t, <2>1, <2>2, <2>3, <2>4, <2>5, <2>6, <2>7 DEF ReceiveAdd, TypeOK, ListsTypeOK
<1>2. ASSUME NEW p \in Users, PublishRequest(p) PROVE TypeOK'
  <2>1. loop[p] \in [pc : {"publish", "confirm"}, name : Names]
    BY <1>2, <1>t DEF PublishRequest, LoopState, IdleLoop
  <2>2. loop' \in [Users -> LoopState]
    <3>1. [loop[p] EXCEPT !.pc = "confirm"] \in LoopState
      BY <2>1 DEF LoopState
    <3> QED BY <1>2, <1>t, <3>1, LoopStateType DEF PublishRequest
  <2>3. [user |-> p, name |-> loop[p].name] \in Request
    BY <2>1 DEF Request
  <2>4. requests' \in Seq(Request)
    <3> DEFINE request == [user |-> p, name |-> loop[p].name]
    <3>1. requests' \in {requests, Append(requests, request)}
      BY <1>2 DEF PublishRequest
    <3>2. request \in Request
      BY <2>3
    <3> HIDE DEF request
    <3>3. Append(requests, request) \in Seq(Request)
      BY <1>t, <3>2
    <3> QED BY <1>t, <3>1, <3>3, Zenon
  <2>5. faults' \subseteq FaultKinds
    BY <1>2, <1>t, <1>f, <1>k DEF PublishRequest
  <2>6. ListsTypeOK'
    BY <1>2, <1>t, ListsStay DEF PublishRequest
  <2> QED BY <1>2, <1>t, <2>2, <2>4, <2>5, <2>6 DEF PublishRequest, TypeOK, ListsTypeOK, history
<1>3. ASSUME NEW p \in Users, Confirm(p) PROVE TypeOK'
  <2>1. loop[p] \in [pc : {"publish", "confirm"}, name : Names]
    BY <1>3, <1>t DEF Confirm, LoopState, IdleLoop
  <2>2. loop' \in [Users -> LoopState] /\ told' \in [Users -> SUBSET Names]
    <3>1. told' \in {told, [told EXCEPT ![p] = @ \cup {loop[p].name}]}
      BY <1>3 DEF Confirm
    <3>2. {loop[p].name} \in SUBSET Names
      BY <2>1
    <3>3. [told EXCEPT ![p] = @ \cup {loop[p].name}] \in [Users -> SUBSET Names]
      BY <1>t, <3>2, SetsUpdate, Zenon
    <3>4. told' \in [Users -> SUBSET Names]
      BY <1>t, <3>1, <3>3, Zenon
    <3> QED BY <1>3, <1>t, <3>4, LoopStateType DEF Confirm
  <2>3. faults' \subseteq FaultKinds
    BY <1>3, <1>t, <1>f, <1>k DEF Confirm
  <2>4. ListsTypeOK'
    BY <1>3, <1>t, ListsStay DEF Confirm
  <2> QED BY <1>3, <1>t, <2>2, <2>3, <2>4 DEF Confirm, TypeOK, ListsTypeOK, history
<1>4. ASSUME NEW p \in Users, NEW s \in Written, SaveStatus(p, s) PROVE TypeOK'
  <2>1. writers' \in [Users -> [Written -> Nat]]
    <3>1. writers[p][s] \in Nat /\ writers[p][s] > 0
      BY <1>4, <1>t DEF SaveStatus
    <3>2. writers[p][s] - 1 \in Nat
      BY <3>1
    <3> QED BY <1>4, <1>t, <3>2, WritersUpdate DEF SaveStatus
  <2>2. status' \in [Users -> Written \cup {NoStatus}]
    BY <1>4, <1>t DEF SaveStatus
  <2>3. faults' \subseteq FaultKinds
    BY <1>4, <1>t, <1>f, <1>k DEF SaveStatus
  <2>4. ListsTypeOK'
    BY <1>4, <1>t, ListsStay DEF SaveStatus
  <2> QED BY <1>4, <1>t, <2>1, <2>2, <2>3, <2>4 DEF SaveStatus, TypeOK, ListsTypeOK, history
<1>5. ASSUME NEW p \in Users, Expire(p) PROVE TypeOK'
  <2>1. ListsTypeOK'
    BY <1>5, <1>t, ListsStay DEF Expire
  <2> QED BY <1>5, <1>t, <1>f, <1>k, <2>1 DEF Expire, TypeOK, ListsTypeOK, history
<1>6. CASE ConsumeJoinMatchQueueRequest
  <2>1. Head(requests) \in Request /\ requests' \in Seq(Request)
    BY <1>6, <1>t DEF ConsumeJoinMatchQueueRequest, Rest
  <2>2. ListsTypeOK'
    <3>1. Enter(Head(requests).user, Head(requests).name) /\ Head(requests).name \in Categories
            => waiting' \in Groups
      BY <1>t, <2>1, EnterType DEF Request
    <3> QED BY <1>6, <1>t, <3>1 DEF ConsumeJoinMatchQueueRequest, ListsTypeOK
  <2>3. faults' \subseteq FaultKinds
    BY <1>6, <1>t, <1>f, <1>k DEF ConsumeJoinMatchQueueRequest
  <2> QED BY <1>6, <1>t, <2>1, <2>2, <2>3 DEF ConsumeJoinMatchQueueRequest, TypeOK, ListsTypeOK, history
<1>7. ASSUME NEW p \in Users, NEW c \in Categories, AddToWaitingList(p, c) PROVE TypeOK'
  <2>1. asks' \in [Users -> [Names -> Nat]]
    BY <1>7, <1>a, <1>n DEF AddToWaitingList
  <2>2. told' \in [Users -> SUBSET Names]
    <3>1. told' \in {told, [told EXCEPT ![p] = @ \cup {c}]}
      BY <1>7 DEF AddToWaitingList
    <3>2. {c} \in SUBSET Names
      BY <1>n
    <3>3. [told EXCEPT ![p] = @ \cup {c}] \in [Users -> SUBSET Names]
      BY <1>t, <3>2, SetsUpdate, Zenon
    <3> QED BY <1>t, <3>1, <3>3, Zenon
  <2>3. ListsTypeOK'
    BY <1>7, <1>t, EnterType DEF AddToWaitingList, ListsTypeOK
  <2>4. faults' \subseteq FaultKinds
    BY <1>7, <1>t, <1>f, <1>k DEF AddToWaitingList
  <2>5. /\ waitingFor' \in [Users -> SUBSET Categories]
        /\ raced' \in [Users -> SUBSET Categories]
    <3>1. WaitFor(p, c) \/ UNCHANGED <<waitingFor, raced>>
      BY <1>7 DEF AddToWaitingList
    <3> QED BY <1>n, <1>t, <1>w, <3>1
  <2> QED
    BY <1>7, <1>t, <2>1, <2>2, <2>3, <2>4, <2>5 DEF AddToWaitingList, TypeOK, ListsTypeOK
<1>8. ASSUME NEW r \in Runs, PublishFinalUsers(r) PROVE TypeOK'
  <2>1. ListsTypeOK' /\ run[r].groups \in Groups
    BY <1>8, <1>t, PublishType
  <2>2. Matched(run[r].groups) \/ UNCHANGED <<matches, waitingFor, played>>
    BY <1>8 DEF PublishFinalUsers
  <2>3. /\ matches' \in Seq(Groups)
        /\ waitingFor' \in [Users -> SUBSET Categories]
        /\ played' \in [Users -> [Categories -> Nat]]
    <3>1. CASE Matched(run[r].groups)
      BY <1>t, <2>1, <3>1, MatchedType
    <3>2. CASE UNCHANGED <<matches, waitingFor, played>>
      BY <1>t, <3>2
    <3> QED BY <2>2, <3>1, <3>2
  <2>6. faults' \subseteq FaultKinds
    BY <1>8, <1>t, <1>f, <1>k DEF PublishFinalUsers
  <2> QED
    BY <1>8, <1>t, <2>1, <2>3, <2>6 DEF PublishFinalUsers, TypeOK, ListsTypeOK
<1>13. ASSUME NEW r \in Runs, NEW c \in Categories, GetWaitingListByCategory(r, c)
       PROVE  TypeOK'
  <2>1. ListsTypeOK'
    BY <1>13, <1>t, ReadType
  <2> QED
    BY <1>13, <1>t, <2>1 DEF GetWaitingListByCategory, TypeOK, ListsTypeOK, history
<1>14. ASSUME NEW r \in Runs, NEW c \in Categories, NEW p \in Users,
              RemoveWaitingMember(r, c, p)
       PROVE  TypeOK'
  <2>1. ListsTypeOK'
    BY <1>14, <1>t, RemoveType
  <2>2. faults' \subseteq FaultKinds
    BY <1>14, <1>t, <1>f, <1>k DEF RemoveWaitingMember
  <2> QED
    BY <1>14, <1>t, <2>1, <2>2 DEF RemoveWaitingMember, TypeOK, ListsTypeOK, history
<1>9. CASE ConsumeMatchCreated
  <2>1. matches' \in Seq(Groups)
    BY <1>9, <1>t DEF ConsumeMatchCreated
  <2>2. writers' \in [Users -> [Written -> Nat]]
    <3>1. PICK created \in SUBSET Categories : writers' = Announced(created, Head(matches))
      BY <1>9 DEF ConsumeMatchCreated
    <3> QED BY <3>1, AnnouncedType
  <2>3. ListsTypeOK'
    BY <1>9, <1>t, ListsStay DEF ConsumeMatchCreated
  <2>4. faults' \subseteq FaultKinds
    BY <1>9, <1>t, <1>f, <1>k DEF ConsumeMatchCreated
  <2> QED BY <1>9, <1>t, <2>1, <2>2, <2>3, <2>4 DEF ConsumeMatchCreated, TypeOK, ListsTypeOK, history
<1>10. CASE RestartGameService
  <2>1. loop' \in [Users -> LoopState] /\ matches' \in Seq(Groups)
    BY <1>10, LoopStateType DEF RestartGameService
  <2>2. writers' \in [Users -> [Written -> Nat]]
    BY <1>10 DEF RestartGameService, NoWriters
  <2>3. ListsTypeOK'
    BY <1>10, <1>t, ListsStay DEF RestartGameService
  <2> QED BY <1>10, <1>t, <1>f, <1>k, <2>1, <2>2, <2>3 DEF RestartGameService, TypeOK, ListsTypeOK, history
<1>11. CASE RestartMatchService
  <2>1. requests' \in Seq(Request)
    BY <1>11 DEF RestartMatchService
  <2>2. ListsTypeOK'
    BY <1>11, <1>t, IdleRunType DEF RestartMatchService, ListsTypeOK
  <2> QED
    BY <1>11, <1>t, <1>f, <1>k, <2>1, <2>2 DEF RestartMatchService, TypeOK, ListsTypeOK, history
<1>12. CASE UNCHANGED vars
  <2>1. ListsTypeOK'
    BY <1>12, <1>t, ListsStay DEF vars
  <2> QED BY <1>12, <1>t, <2>1 DEF vars, history, TypeOK, ListsTypeOK
<1> QED
  BY <1>1, <1>2, <1>3, <1>4, <1>5, <1>6, <1>7, <1>8, <1>9, <1>10, <1>11, <1>12, <1>13, <1>14
  DEF Next

(* Every reachable state of the joining is of the declared types. *)
THEOREM TypeCorrect == Spec => []TypeOK
BY TypeInit, TypeNext, PTL DEF Spec

-----------------------------------------------------------------------------
(* What the steps of a run do to the players it is still to remove. *)

(* Faults stay in the history. *)
LEMMA FaultsStay ==
  ASSUME [Next]_vars
  PROVE  faults \subseteq faults'
BY DEF Next, vars, ReceiveAdd, PublishRequest, Confirm, Expire, SaveStatus,
   ConsumeJoinMatchQueueRequest, AddToWaitingList, GetWaitingListByCategory,
   PublishFinalUsers, RemoveWaitingMember, ConsumeMatchCreated, RestartGameService,
   RestartMatchService, Strike

Removes(r, p, c) == run[r].pc = "remove" /\ p \in run[r].groups[c]

LEMMA LeavingIs ==
  ASSUME NEW p, NEW c \in Categories
  PROVE  c \in Leaving(p) <=> \E r \in Runs : Removes(r, p, c)
BY DEF Leaving, Removes

LEMMA ReadLeaves ==
  ASSUME ListsTypeOK, NEW r \in Runs, NEW c \in Categories, GetWaitingListByCategory(r, c)
  PROVE  /\ \A q \in Runs \ {r} : run'[q] = run[q]
         /\ run[r].pc = "read" /\ run'[r].pc = "read"
         /\ \A d \in Categories, p \in Users : p \in run'[r].groups[d] =>
              p \in run[r].groups[d] \/ (d = c /\ p \in waiting[c])
<1>1. PICK G \in AllowedGroups :
        G \subseteq waiting[c] /\ run' = [run EXCEPT ![r] = AfterRead(r, c, G)]
  BY ReadStep
<1>2. run[r].pc = "read"
  BY DEF GetWaitingListByCategory
<1>3. run[r] \in RunState
  BY DEF ListsTypeOK
<1> DEFINE formed == [run[r].groups EXCEPT ![c] = G]
<1>4. \A d \in Categories : formed[d] = IF d = c THEN G ELSE run[r].groups[d]
  BY <1>3 DEF RunState, Groups
<1> HIDE DEF formed
<1>5. \/ AfterRead(r, c, G) = IdleRun
      \/ /\ AfterRead(r, c, G).pc = run[r].pc
         /\ AfterRead(r, c, G).groups = formed
  BY <1>3 DEF AfterRead, formed, RunState
<1>6. run'[r] = AfterRead(r, c, G) /\ \A q \in Runs \ {r} : run'[q] = run[q]
  BY <1>1 DEF ListsTypeOK
<1> QED BY <1>1, <1>2, <1>4, <1>5, <1>6 DEF IdleRun, NoGroups

LEMMA PublishLeaves ==
  ASSUME ListsTypeOK, NEW r \in Runs, PublishFinalUsers(r)
  PROVE  /\ \A q \in Runs \ {r} : run'[q] = run[q]
         /\ run[r].pc = "read" /\ run'[r].pc = "remove" /\ run'[r].groups = run[r].groups
BY DEF PublishFinalUsers, ListsTypeOK, RunState

LEMMA RemoveLeaves ==
  ASSUME ListsTypeOK, NEW r \in Runs, NEW c \in Categories, NEW p \in Users,
         RemoveWaitingMember(r, c, p)
  PROVE  /\ \A q \in Runs \ {r} : run'[q] = run[q]
         /\ run[r].pc = "remove" /\ p \in run[r].groups[c]
         /\ run'[r].pc = "remove" \/ (run'[r].pc = "read" /\ run'[r].groups = NoGroups)
         /\ \A d \in Categories, k \in Users :
              k \in run'[r].groups[d] <=> k \in run[r].groups[d] /\ ~(k = p /\ d = c)
         /\ \A d \in Categories, k \in Users :
              k \in waiting[d] => k \in waiting'[d] \/ (k = p /\ d = c)
<1> DEFINE left == [run[r].groups EXCEPT ![c] = @ \ {p}]
<1>1. run[r] \in RunState /\ waiting \in Groups /\ run \in [Runs -> RunState]
  BY DEF ListsTypeOK
<1>2. run' = [run EXCEPT ![r] =
                IF left = NoGroups THEN IdleRun ELSE [run[r] EXCEPT !.groups = left]]
  BY DEF RemoveWaitingMember
<1>3. \A d \in Categories, k \in Users :
        k \in left[d] <=> k \in run[r].groups[d] /\ ~(k = p /\ d = c)
  BY <1>1 DEF RunState, Groups
<1> HIDE DEF left
<1>4. run'[r] = IF left = NoGroups THEN IdleRun ELSE [run[r] EXCEPT !.groups = left]
  BY <1>1, <1>2
<1>8. run[r].pc = "remove"
  BY DEF RemoveWaitingMember
<1>5. /\ run'[r].groups = left
      /\ run'[r].pc = "remove" \/ (run'[r].pc = "read" /\ run'[r].groups = NoGroups)
  BY <1>1, <1>4, <1>8 DEF IdleRun, RunState
<1>6. \A q \in Runs \ {r} : run'[q] = run[q]
  BY <1>1, <1>2
<1>7. \A d \in Categories, k \in Users :
        k \in waiting[d] => k \in waiting'[d] \/ (k = p /\ d = c)
  BY <1>1 DEF RemoveWaitingMember, Groups
<1> QED BY <1>3, <1>5, <1>6, <1>7 DEF RemoveWaitingMember

-----------------------------------------------------------------------------
(***************************************************************************)
(* What was promised, or is about to be promised, is on the way to the     *)
(* list or in it, and who waits again while a run is still to remove them  *)
(* has an excuse already.  Queued requests are compared with the list one  *)
(* request at a time: the first moves into the list, a new one comes last. *)
(***************************************************************************)
Promised(p, c) ==
  c \in told[p] \/ (loop[p].pc = "confirm" /\ loop[p].name = c)

OnTheWay(p, c) == Queued(p, c) \/ p \in waiting[c]

Kept(p, c) ==
  /\ Promised(p, c) => OnTheWay(p, c) \/ Excused(p, c)
  /\ c \in Leaving(p) => Excused(p, c)

KeptInv == TypeOK /\ \A p \in Users : \A c \in waitingFor[p] : Kept(p, c)

LEMMA QueueMoves ==
  ASSUME NEW S, NEW s \in Seq(S), NEW r \in S
  PROVE  /\ \E i \in DOMAIN Append(s, r) : Append(s, r)[i] = r
         /\ \A i \in DOMAIN s : i \in DOMAIN Append(s, r) /\ Append(s, r)[i] = s[i]
         /\ s # <<>> => \A i \in DOMAIN s :
              s[i] = Head(s) \/ (i - 1 \in DOMAIN Tail(s) /\ Tail(s)[i - 1] = s[i])
<1>1. /\ Len(s) + 1 \in DOMAIN Append(s, r) /\ Append(s, r)[Len(s) + 1] = r
      /\ DOMAIN s = 1 .. Len(s) /\ Len(s) \in Nat
  OBVIOUS
<1>2. \A i \in DOMAIN s : i \in DOMAIN Append(s, r) /\ Append(s, r)[i] = s[i]
  OBVIOUS
<1>3. ASSUME s # <<>>, NEW i \in DOMAIN s
      PROVE  s[i] = Head(s) \/ (i - 1 \in DOMAIN Tail(s) /\ Tail(s)[i - 1] = s[i])
  <2>1. CASE i = 1
    BY <1>3, <2>1
  <2>2. CASE i # 1
    BY <1>3, <2>2
  <2> QED BY <2>1, <2>2
<1> QED BY <1>1, <1>2, <1>3

LEMMA KeptInvInit == Init => KeptInv
<1> SUFFICES ASSUME Init, NEW p \in Users PROVE TypeOK /\ waitingFor[p] = {}
  BY TypeInit DEF KeptInv, Init
<1> QED BY TypeInit DEF Init

LEMMA KeptInvNext == KeptInv /\ [Next]_vars => KeptInv'
<1> SUFFICES ASSUME KeptInv, [Next]_vars PROVE KeptInv'
  OBVIOUS
<1>t. TypeOK /\ TypeOK'
  BY TypeNext DEF KeptInv
<1>l. /\ waiting \in Groups
      /\ loop \in [Users -> LoopState]
      /\ requests \in Seq(Request)
      /\ told \in [Users -> SUBSET Names]
      /\ waitingFor \in [Users -> SUBSET Categories]
      /\ raced \in [Users -> SUBSET Categories]
      /\ ListsTypeOK
  BY <1>t DEF TypeOK, ListsTypeOK
<1>w. ASSUME NEW p \in Users, NEW c \in waitingFor[p] PROVE c \in Categories /\ Kept(p, c)
  BY <1>l, <1>w DEF KeptInv
<1>g. ASSUME \A p \in Users, c \in Categories : c \in waitingFor'[p] => Kept(p, c)'
      PROVE  KeptInv'
  <2>1. waitingFor' \in [Users -> SUBSET Categories]
    BY <1>t DEF TypeOK
  <2>2. ASSUME NEW p \in Users, NEW c \in waitingFor'[p]
        PROVE  Kept(p, c)'
    BY <1>g, <2>1
  <2> QED BY <1>t, <2>2 DEF KeptInv
<1>e. ASSUME UNCHANGED raced, NEW p \in Users, NEW c, Excused(p, c)
      PROVE  Excused(p, c)'
  BY <1>e, FaultsStay DEF Excused
(* Steps that promise nothing new, and leave the queue, the list and the runs alone. *)
<1>q. ASSUME UNCHANGED <<requests, waiting, run, raced>>,
             \A p \in Users : \A c \in waitingFor'[p] :
               c \in waitingFor[p] /\ (Promised(p, c)' => Promised(p, c))
      PROVE  KeptInv'
  <2> SUFFICES ASSUME NEW p \in Users, NEW c \in Categories, c \in waitingFor'[p]
               PROVE  Kept(p, c)'
    BY <1>g
  <2>1. Kept(p, c) /\ (Promised(p, c)' => Promised(p, c))
    BY <1>q, <1>w
  <2>2. OnTheWay(p, c)' <=> OnTheWay(p, c)
    BY <1>q DEF OnTheWay, Queued
  <2>3. Leaving(p)' = Leaving(p)
    BY <1>q DEF Leaving
  <2>4. Excused(p, c) => Excused(p, c)'
    BY <1>q, <1>e
  <2> QED BY <2>1, <2>2, <2>3, <2>4 DEF Kept
<1>u. ASSUME UNCHANGED <<requests, waiting, run, raced, loop, told, waitingFor>>
      PROVE  KeptInv'
  BY <1>q, <1>u DEF Promised
(* A player who starts to wait is excused when a run is still to remove them. *)
<1>a. ASSUME NEW p \in Users, NEW name \in Names, WaitFor(p, name), UNCHANGED run,
             NEW k \in Users, NEW c \in Categories, c \in waitingFor'[k]
      PROVE  /\ k = p /\ c = name => (c \in Leaving(k)' => Excused(k, c)')
             /\ ~(k = p /\ c = name) => /\ c \in waitingFor[k]
                                        /\ Excused(k, c) => Excused(k, c)'
                                        /\ c \in Leaving(k)' => c \in Leaving(k)
  <2>1. Leaving(k)' = Leaving(k)
    BY <1>a DEF Leaving
  <2>2. /\ waitingFor' = [waitingFor EXCEPT ![p] = @ \cup ({name} \cap Categories)]
        /\ raced' = [raced EXCEPT ![p] = (@ \ {name}) \cup ({name} \cap Leaving(p))]
    BY <1>a DEF WaitFor
  <2>3. CASE k = p /\ c = name
    BY <1>l, <2>1, <2>2, <2>3 DEF Excused
  <2>4. CASE ~(k = p /\ c = name)
    <3>1. c \in waitingFor[k] /\ (c \in raced[k] => c \in raced'[k])
      BY <1>a, <1>l, <2>2, <2>4
    <3>2. Excused(k, c) => Excused(k, c)'
      BY <3>1, FaultsStay DEF Excused
    <3> QED BY <2>1, <2>4, <3>1, <3>2
  <2> QED BY <2>3, <2>4
<1>1. ASSUME NEW p \in Users, NEW name \in Names, ReceiveAdd(p, name) PROVE KeptInv'
  <2>1. UNCHANGED <<requests, waiting, run>>
    BY <1>1 DEF ReceiveAdd, listVars
  <2>2. CASE UNCHANGED <<loop, writers, told, waitingFor, raced>>
    BY <1>u, <2>1, <2>2
  <2>3. CASE /\ loop' = [loop EXCEPT ![p] = [pc |-> "publish", name |-> name]]
             /\ told' = [told EXCEPT ![p] = @ \ {name}]
             /\ WaitFor(p, name)
    <3> SUFFICES ASSUME NEW k \in Users, NEW c \in Categories, c \in waitingFor'[k]
                 PROVE  Kept(k, c)'
      BY <1>g
    <3>1. Promised(k, c)' => Promised(k, c) /\ ~(k = p /\ c = name)
      BY <1>l, <2>3 DEF Promised
    <3>2. OnTheWay(k, c)' <=> OnTheWay(k, c)
      BY <2>1 DEF OnTheWay, Queued
    <3>3. CASE k = p /\ c = name
      BY <1>a, <2>1, <2>3, <3>1, <3>3 DEF Kept
    <3>4. CASE ~(k = p /\ c = name)
      <4>1. c \in waitingFor[k] /\ (Excused(k, c) => Excused(k, c)')
            /\ (c \in Leaving(k)' => c \in Leaving(k))
        BY <1>a, <2>1, <2>3, <3>4
      <4>2. Kept(k, c)
        BY <1>w, <4>1
      <4> QED BY <3>1, <3>2, <4>1, <4>2 DEF Kept
    <3> QED BY <3>3, <3>4
  <2> QED BY <1>1, <2>2, <2>3 DEF ReceiveAdd
<1>2. ASSUME NEW p \in Users, PublishRequest(p) PROVE KeptInv'
  <2> DEFINE request == [user |-> p, name |-> loop[p].name]
  <2>0. /\ loop[p].pc = "publish" /\ loop[p] \in [pc : {"publish", "confirm"}, name : Names]
        /\ UNCHANGED <<waiting, run, told, waitingFor, raced>>
    BY <1>2, <1>l DEF PublishRequest, LoopState, IdleLoop, listVars, history
  <2>1. request \in Request
    BY <2>0 DEF Request
  <2>2. requests' = requests \/ requests' = Append(requests, request)
    BY <1>2 DEF PublishRequest
  <2>3. \A k \in Users, c \in Categories : Queued(k, c) => Queued(k, c)'
    <3>1. CASE requests' = requests
      BY <3>1 DEF Queued
    <3>2. CASE requests' = Append(requests, request)
      <4>1. \A i \in DOMAIN requests : i \in DOMAIN requests' /\ requests'[i] = requests[i]
        BY <1>l, <2>1, <3>2, QueueMoves
      <4> QED BY <4>1 DEF Queued
    <3> QED BY <2>2, <3>1, <3>2
  <2>4. \/ loop' = [loop EXCEPT ![p].pc = "confirm"]
        \/ loop' = [loop EXCEPT ![p] = IdleLoop]
    BY <1>2 DEF PublishRequest
  <2>5. ASSUME NEW k \in Users, NEW c \in Categories, c \in waitingFor'[k]
        PROVE  Kept(k, c)'
    <3>0. Kept(k, c) /\ (Excused(k, c) => Excused(k, c)')
      BY <1>e, <1>w, <2>0, <2>5
    <3>l. Leaving(k)' = Leaving(k)
      BY <2>0 DEF Leaving
    <3>1. CASE Promised(k, c) \/ ~Promised(k, c)'
      BY <2>0, <2>3, <3>0, <3>1, <3>l DEF Kept, OnTheWay
    <3>2. CASE ~Promised(k, c) /\ Promised(k, c)'
      <4>1. k = p /\ c = loop[p].name
        BY <1>l, <2>0, <2>4, <3>2 DEF Promised, IdleLoop
      <4>2. CASE requests' = Append(requests, request)
        <5>1. \E i \in DOMAIN requests' : requests'[i] = request
          BY <1>l, <2>1, <4>2, QueueMoves
        <5>2. OnTheWay(k, c)'
          BY <4>1, <5>1 DEF OnTheWay, Queued
        <5> QED BY <3>0, <3>l, <5>2 DEF Kept
      <4>3. CASE Strike("publish")
        <5>1. Excused(k, c)'
          BY <4>3 DEF Strike, Excused
        <5> QED BY <5>1 DEF Kept
      <4> QED BY <1>2, <4>2, <4>3 DEF PublishRequest
    <3> QED BY <3>1, <3>2
  <2> QED BY <1>g, <2>5
<1>3. ASSUME NEW p \in Users, Confirm(p) PROVE KeptInv'
  <2>1. UNCHANGED <<requests, waiting, run, raced, waitingFor>> /\ loop[p].pc = "confirm"
    BY <1>3 DEF Confirm, listVars
  <2>2. /\ loop' = [loop EXCEPT ![p] = IdleLoop]
        /\ told' = [told EXCEPT ![p] = @ \cup {loop[p].name}] \/ told' = told
    BY <1>3 DEF Confirm
  <2>3. ASSUME NEW k \in Users, NEW c \in waitingFor'[k]
        PROVE  c \in waitingFor[k] /\ (Promised(k, c)' => Promised(k, c))
    BY <1>l, <2>1, <2>2, <2>3 DEF Promised, IdleLoop
  <2> QED BY <1>q, <2>1, <2>3
<1>4. CASE ConsumeJoinMatchQueueRequest
  <2> DEFINE request == Head(requests)
  <2>1. /\ requests # <<>> /\ requests' = Tail(requests) /\ request \in Request
        /\ UNCHANGED <<run, raced, loop, told, waitingFor>>
    BY <1>4, <1>l DEF ConsumeJoinMatchQueueRequest, Rest, history
  <2>2. ASSUME NEW k \in Users, NEW c \in Categories, Queued(k, c)
        PROVE  request = [user |-> k, name |-> c] \/ Queued(k, c)'
    <3>1. PICK i \in DOMAIN requests : requests[i] = [user |-> k, name |-> c]
      BY <2>2 DEF Queued
    <3>2. request = requests[i] \/
            (i - 1 \in DOMAIN Tail(requests) /\ Tail(requests)[i - 1] = requests[i])
      BY <1>l, <2>1, QueueMoves
    <3> QED BY <2>1, <3>1, <3>2 DEF Queued
  <2>3. ASSUME NEW k \in Users, NEW c \in Categories
        PROVE  /\ k \in waiting[c] => k \in waiting'[c]
               /\ request = [user |-> k, name |-> c] => k \in waiting'[c] \/ Excused(k, c)'
    <3>1. CASE request.name \in Categories /\ Enter(request.user, request.name)
      BY <1>l, <3>1 DEF Enter, Groups
    <3>2. CASE request.name \in UnknownNames /\ UNCHANGED waiting
      BY <3>2, JoiningAssumption
    <3>3. CASE Strike("zadd") /\ UNCHANGED waiting
      BY <3>3 DEF Strike, Excused
    <3> QED BY <1>4, <3>1, <3>2, <3>3 DEF ConsumeJoinMatchQueueRequest
  <2>4. ASSUME NEW k \in Users, NEW c \in Categories, c \in waitingFor'[k]
        PROVE  Kept(k, c)'
    <3>1. Kept(k, c) /\ (Excused(k, c) => Excused(k, c)')
      BY <1>e, <1>w, <2>1, <2>4
    <3>2. Leaving(k)' = Leaving(k) /\ (Promised(k, c)' <=> Promised(k, c))
      BY <2>1 DEF Leaving, Promised
    <3>3. OnTheWay(k, c) => OnTheWay(k, c)' \/ Excused(k, c)'
      BY <2>2, <2>3 DEF OnTheWay
    <3> QED BY <3>1, <3>2, <3>3 DEF Kept
  <2> QED BY <1>g, <2>4
<1>5. ASSUME NEW p \in Users, NEW d \in Categories, AddToWaitingList(p, d) PROVE KeptInv'
  <2>0. UNCHANGED <<requests, loop, run>> /\ d \in Names
    BY <1>5 DEF AddToWaitingList, Names
  <2>1. CASE UNCHANGED <<waiting, told, waitingFor, raced>>
    BY <1>u, <2>0, <2>1
  <2>2. CASE /\ Enter(p, d)
             /\ told' = [told EXCEPT ![p] = @ \cup {d}]
             /\ WaitFor(p, d)
    <3>2. /\ p \in waiting'[d]
          /\ \A c \in Categories : waiting[c] \subseteq waiting'[c]
      BY <1>l, <2>2 DEF Enter, Groups
    <3>3. ASSUME NEW k \in Users, NEW c \in Categories, c \in waitingFor'[k]
          PROVE  Kept(k, c)'
      <4>1. CASE k = p /\ c = d
        <5>1. OnTheWay(k, c)'
          BY <3>2, <4>1 DEF OnTheWay
        <5> QED BY <1>a, <2>0, <2>2, <3>3, <4>1, <5>1 DEF Kept
      <4>2. CASE ~(k = p /\ c = d)
        <5>1. c \in waitingFor[k] /\ (Excused(k, c) => Excused(k, c)')
              /\ (c \in Leaving(k)' => c \in Leaving(k))
          BY <1>a, <2>0, <2>2, <3>3, <4>2
        <5>2. Promised(k, c)' => Promised(k, c)
          BY <1>l, <2>0, <2>2, <4>2 DEF Promised
        <5>3. OnTheWay(k, c) => OnTheWay(k, c)'
          BY <2>0, <3>2 DEF OnTheWay, Queued
        <5>4. Kept(k, c)
          BY <1>w, <5>1
        <5> QED BY <5>1, <5>2, <5>3, <5>4 DEF Kept
      <4> QED BY <4>1, <4>2
    <3> QED BY <1>g, <3>3
  <2> QED BY <1>5, <2>1, <2>2 DEF AddToWaitingList
<1>6. ASSUME NEW r \in Runs, PublishFinalUsers(r) PROVE KeptInv'
  <2>0. UNCHANGED <<requests, waiting, loop, told, raced>>
    BY <1>6 DEF PublishFinalUsers
  <2>1. CASE Strike("produce")
    <3>1. \A k \in Users, c \in Categories : Excused(k, c)'
      BY <2>1 DEF Strike, Excused
    <3> QED BY <1>g, <3>1 DEF Kept
  <2>2. CASE Matched(run[r].groups)
    <3>1. ASSUME NEW k \in Users, NEW c \in Categories, c \in waitingFor'[k]
          PROVE  Kept(k, c)'
      <4>1. c \in waitingFor[k] /\ k \notin run[r].groups[c]
        BY <1>l, <2>2, <3>1 DEF Matched
      <4>2. Kept(k, c) /\ (Excused(k, c) => Excused(k, c)')
        BY <1>e, <1>w, <2>0, <4>1
      <4>3. (Promised(k, c)' <=> Promised(k, c)) /\ (OnTheWay(k, c)' <=> OnTheWay(k, c))
        BY <2>0 DEF Promised, OnTheWay, Queued
      <4>4. c \in Leaving(k)' => c \in Leaving(k)
        BY <1>6, <1>l, <4>1, PublishLeaves DEF Leaving
      <4> QED BY <4>2, <4>3, <4>4 DEF Kept
    <3> QED BY <1>g, <3>1
  <2> QED BY <1>6, <2>1, <2>2 DEF PublishFinalUsers
<1>7. ASSUME NEW r \in Runs, NEW d \in Categories, GetWaitingListByCategory(r, d)
      PROVE  KeptInv'
  <2>0. UNCHANGED <<waiting, loop, requests, told, waitingFor, raced>>
    BY <1>7 DEF GetWaitingListByCategory, history
  <2>1. ASSUME NEW k \in Users, NEW c \in Categories, c \in waitingFor'[k]
        PROVE  Kept(k, c)'
    <3>1. Kept(k, c) /\ (Excused(k, c) => Excused(k, c)')
      BY <1>e, <1>w, <2>0, <2>1
    <3>2. (Promised(k, c)' <=> Promised(k, c)) /\ (OnTheWay(k, c)' <=> OnTheWay(k, c))
      BY <2>0 DEF Promised, OnTheWay, Queued
    <3>3. c \in Leaving(k)' => c \in Leaving(k)
      BY <1>7, <1>l, ReadLeaves DEF Leaving
    <3> QED BY <3>1, <3>2, <3>3 DEF Kept
  <2> QED BY <1>g, <2>1
<1>8. ASSUME NEW r \in Runs, NEW d \in Categories, NEW p \in Users,
             RemoveWaitingMember(r, d, p)
      PROVE  KeptInv'
  <2>0. UNCHANGED <<loop, requests, told, waitingFor, raced>>
    BY <1>8 DEF RemoveWaitingMember, history
  <2>1. ASSUME NEW k \in Users, NEW c \in Categories, c \in waitingFor'[k]
        PROVE  Kept(k, c)'
    <3>1. Kept(k, c) /\ (Excused(k, c) => Excused(k, c)')
      BY <1>e, <1>w, <2>0, <2>1
    <3>2. Promised(k, c)' <=> Promised(k, c)
      BY <2>0 DEF Promised
    <3>3. c \in Leaving(k)' => c \in Leaving(k)
      BY <1>8, <1>l, RemoveLeaves DEF Leaving
    <3>4. OnTheWay(k, c) => OnTheWay(k, c)' \/ c \in Leaving(k)
      <4>1. CASE k = p /\ c = d
        <5>1. c \in Leaving(k)
          BY <1>8, <1>l, <4>1, RemoveLeaves DEF Leaving
        <5> QED BY <5>1
      <4>2. CASE ~(k = p /\ c = d)
        <5>1. k \in waiting[c] => k \in waiting'[c]
          BY <1>8, <1>l, <4>2, RemoveLeaves
        <5> QED BY <2>0, <5>1 DEF OnTheWay, Queued
      <4> QED BY <4>1, <4>2
    <3> QED BY <3>1, <3>2, <3>3, <3>4 DEF Kept
  <2> QED BY <1>g, <2>1
<1>9. CASE RestartGameService
  <2>1. /\ UNCHANGED <<requests, waiting, run, raced, waitingFor, told>>
        /\ loop' = [p \in Users |-> IdleLoop]
    BY <1>9 DEF RestartGameService, listVars, history
  <2>2. ASSUME NEW k \in Users, NEW c \in waitingFor'[k]
        PROVE  c \in waitingFor[k] /\ (Promised(k, c)' => Promised(k, c))
    BY <2>1, <2>2 DEF Promised, IdleLoop
  <2> QED BY <1>q, <2>1, <2>2
<1>10. CASE RestartMatchService
  <2>1. \A k \in Users, c \in Categories : Excused(k, c)'
    BY <1>10 DEF RestartMatchService, Strike, Excused
  <2> QED BY <1>g, <2>1 DEF Kept
<1>11. ASSUME NEW p \in Users, NEW s \in Written, SaveStatus(p, s) PROVE KeptInv'
  BY <1>11, <1>u DEF SaveStatus, listVars, history
<1>12. ASSUME NEW p \in Users, Expire(p) PROVE KeptInv'
  BY <1>12, <1>u DEF Expire, listVars, history
<1>13. CASE ConsumeMatchCreated
  BY <1>13, <1>u DEF ConsumeMatchCreated, listVars, history
<1>14. CASE UNCHANGED vars
  BY <1>14, <1>u DEF vars, listVars, history
<1> QED
  BY <1>1, <1>2, <1>3, <1>4, <1>5, <1>6, <1>7, <1>8, <1>9, <1>10, <1>11, <1>12, <1>13, <1>14
  DEF Next

(***************************************************************************)
(* Who is told to have been added is on the way, in the list, or matched   *)
(* since asking, unless they asked while a run was removing them, a        *)
(* producer or Redis failed or the Match Service was restarted.            *)
(***************************************************************************)
THEOREM ToldIsKeptCorrect == Spec => []ToldIsKept
<1>1. KeptInv => ToldIsKept
  BY DEF KeptInv, Kept, ToldIsKept, Promised, OnTheWay
<1> QED BY <1>1, KeptInvInit, KeptInvNext, PTL DEF Spec

-----------------------------------------------------------------------------
(***************************************************************************)
(* Requests are conserved: what was asked for is about to be published,    *)
(* queued, or handled, and each request is one of these at most once.  A   *)
(* player who was put into a list can be published from there once by each *)
(* run that is not removing them already; a player who is in no list, only *)
(* by the runs that have them in a group.  What can still be published and *)
(* what was matched are together at most a match per run for each request  *)
(* that was handled, and what the faults allow.                            *)
(***************************************************************************)
InQueue(messages, p, c) ==
  {i \in DOMAIN messages : messages[i] = [user |-> p, name |-> c]}

AsNumber(b) == IF b THEN 1 ELSE 0

Held(p, c) == AsNumber(loop[p].pc = "publish" /\ loop[p].name = c)

LEMMA QueueCounts ==
  ASSUME NEW s \in Seq(Request), NEW p, NEW c
  PROVE  IsFiniteSet(InQueue(s, p, c)) /\ Cardinality(InQueue(s, p, c)) \in Nat
<1>1. InQueue(s, p, c) \in SUBSET (1 .. Len(s)) /\ Len(s) \in Nat
  BY DEF InQueue
<1>2. IsFiniteSet(1 .. Len(s))
  BY <1>1, FS_Interval
<1> QED BY <1>1, <1>2, FS_Subset, FS_CardinalityType

LEMMA AppendCounts ==
  ASSUME NEW s \in Seq(Request), NEW r \in Request, NEW p, NEW c
  PROVE  Cardinality(InQueue(Append(s, r), p, c)) <=
           Cardinality(InQueue(s, p, c)) + AsNumber(r = [user |-> p, name |-> c])
<1> DEFINE old == InQueue(s, p, c)
           new == InQueue(Append(s, r), p, c)
<1>1. CASE r = [user |-> p, name |-> c]
  <2>1. new = old \cup {Len(s) + 1}
    BY <1>1 DEF InQueue
  <2>2. Len(s) + 1 \notin old
    BY DEF InQueue
  <2>3. IsFiniteSet(old) /\ Cardinality(old) \in Nat
    BY QueueCounts
  <2> HIDE DEF old, new
  <2>4. Cardinality(new) = Cardinality(old) + 1
    BY <2>1, <2>2, <2>3, FS_AddElement
  <2> QED BY <1>1, <2>3, <2>4 DEF AsNumber, old, new
<1>2. CASE r # [user |-> p, name |-> c]
  <2>1. new = old
    BY <1>2 DEF InQueue
  <2>2. Cardinality(old) \in Nat
    BY QueueCounts
  <2> QED BY <1>2, <2>1, <2>2 DEF AsNumber
<1> QED BY <1>1, <1>2

LEMMA TailCounts ==
  ASSUME NEW s \in Seq(Request), s # <<>>, NEW p, NEW c
  PROVE  Cardinality(InQueue(Tail(s), p, c)) + AsNumber(Head(s) = [user |-> p, name |-> c])
           <= Cardinality(InQueue(s, p, c))
<1> DEFINE old == InQueue(s, p, c)
           new == InQueue(Tail(s), p, c)
           shift == [i \in new |-> i + 1]
<1>1. IsFiniteSet(old) /\ Cardinality(old) \in Nat
  BY QueueCounts
<1>2. Tail(s) \in Seq(Request)
  OBVIOUS
<1>3. IsFiniteSet(new) /\ Cardinality(new) \in Nat
  BY <1>2, QueueCounts
<1>4. /\ \A i \in new : i \in Nat /\ i + 1 \in old \ {1}
      /\ 1 \in old <=> Head(s) = [user |-> p, name |-> c]
  BY DEF InQueue
<1> HIDE DEF old, new
<1>5. shift \in Injection(new, old \ {1})
  BY <1>4 DEF Injection, IsInjective
<1>6. IsFiniteSet(old \ {1}) /\ Cardinality(old \ {1}) =
        IF 1 \in old THEN Cardinality(old) - 1 ELSE Cardinality(old)
  BY <1>1, FS_RemoveElement
<1>7. Cardinality(new) <= Cardinality(old \ {1})
  BY <1>5, <1>6, FS_Injection
<1> QED BY <1>1, <1>3, <1>4, <1>6, <1>7 DEF AsNumber, old, new

LEMMA AsNumberType ==
  ASSUME NEW b
  PROVE  AsNumber(b) \in {0, 1}
BY DEF AsNumber

LEMMA SubRuns ==
  ASSUME NEW S \in SUBSET Runs
  PROVE  /\ IsFiniteSet(S) /\ Cardinality(S) \in Nat
         /\ Cardinality(Runs) \in Nat /\ Cardinality(S) <= Cardinality(Runs)
BY FS_Subset, FS_CardinalityType, JoiningAssumption

LEMMA FewerRuns ==
  ASSUME NEW S \in SUBSET Runs, NEW T \in SUBSET S
  PROVE  Cardinality(T) <= Cardinality(S)
BY SubRuns, FS_Subset

LEMMA OneRun ==
  ASSUME NEW S \in SUBSET Runs, NEW T, NEW r \in Runs
  PROVE  /\ r \notin S /\ T = S \cup {r} => Cardinality(T) = Cardinality(S) + 1
         /\ r \in S /\ T = S \ {r} => Cardinality(T) = Cardinality(S) - 1
BY SubRuns, FS_AddElement, FS_RemoveElement

(* The runs that are removing p, and those that have p in a group to publish. *)
Removers(p, c) == {r \in Runs : Removes(r, p, c)}
Namers(p, c) == {r \in Runs : run[r].pc = "read" /\ p \in run[r].groups[c]}

LEMMA RunNumbers ==
  ASSUME NEW p, NEW c
  PROVE  /\ Removers(p, c) \in SUBSET Runs /\ Namers(p, c) \in SUBSET Runs
         /\ IsFiniteSet(Removers(p, c)) /\ IsFiniteSet(Namers(p, c))
         /\ Cardinality(Removers(p, c)) \in Nat /\ Cardinality(Namers(p, c)) \in Nat
         /\ Cardinality(Runs) \in Nat
         /\ Cardinality(Namers(p, c)) <= Cardinality(Runs) - Cardinality(Removers(p, c))
<1>1. Removers(p, c) \in SUBSET Runs /\ Namers(p, c) \in SUBSET (Runs \ Removers(p, c))
  BY DEF Removers, Namers, Removes
<1>2. IsFiniteSet(Runs)
  BY JoiningAssumption
<1> DEFINE S == Removers(p, c)
<1>3. /\ IsFiniteSet(S) /\ Cardinality(S) \in Nat /\ Cardinality(Runs) \in Nat
      /\ Cardinality(Namers(p, c)) \in Nat /\ IsFiniteSet(Namers(p, c))
  BY <1>1, SubRuns
<1>4. Runs \ S \in SUBSET Runs /\ Runs \cap S = S
  BY <1>1
<1> HIDE DEF S
<1>5. Cardinality(Runs \ S) = Cardinality(Runs) - Cardinality(S)
  BY <1>2, <1>4, FS_Difference
<1>6. Cardinality(Namers(p, c)) <= Cardinality(Runs \ S)
  BY <1>1, <1>4, FewerRuns DEF S
<1> QED BY <1>1, <1>3, <1>5, <1>6 DEF S

(* How often p can still be published in c before the next request is handled. *)
Chances(p, c) ==
  IF p \in waiting[c]
  THEN Cardinality(Runs) - Cardinality(Removers(p, c))
  ELSE Cardinality(Namers(p, c))

LEMMA ChancesType ==
  ASSUME NEW p, NEW c
  PROVE  Chances(p, c) \in Nat /\ Chances(p, c) <= Cardinality(Runs)
<1> DEFINE n == Cardinality(Runs)
           h == Cardinality(Removers(p, c))
           m == Cardinality(Namers(p, c))
<1>1. n \in Nat /\ h \in Nat /\ m \in Nat /\ m <= n - h
  BY RunNumbers
<1>2. Chances(p, c) \in {n - h, m}
  BY DEF Chances
<1> HIDE DEF n, h, m
<1>3. \A x \in {n - h, m} : x \in Nat /\ x <= n
  BY <1>1
<1> QED BY <1>2, <1>3 DEF n

InKafka(p, c) == Cardinality(InQueue(requests, p, c))

Handled(p, c) == asks[p][c] - InKafka(p, c) - Held(p, c)

(* Entering a list makes a match by each run possible. *)
LEMMA EnterChances ==
  ASSUME ListsTypeOK, NEW q \in Users, NEW d \in Categories, Enter(q, d), UNCHANGED run,
         NEW p \in Users, NEW c \in Categories
  PROVE  \/ Chances(p, c)' = Chances(p, c)
         \/ p = q /\ c = d /\ Chances(p, c)' <= Cardinality(Runs)
<1>1. Removers(p, c)' = Removers(p, c) /\ Namers(p, c)' = Namers(p, c)
  BY DEF Removers, Removes, Namers
<1>2. waiting' = [waiting EXCEPT ![d] = @ \cup {q}] /\ waiting \in Groups
  BY DEF Enter, ListsTypeOK
<1>3. CASE p = q /\ c = d
  <2>1. p \in waiting'[c]
    BY <1>2, <1>3 DEF Groups
  <2>2. Chances(p, c)' = Cardinality(Runs) - Cardinality(Removers(p, c))
    BY <1>1, <2>1 DEF Chances
  <2> QED BY <1>3, <2>2, RunNumbers
<1>4. CASE ~(p = q /\ c = d)
  <2>1. p \in waiting'[c] <=> p \in waiting[c]
    BY <1>2, <1>4 DEF Groups
  <2> QED BY <1>1, <2>1 DEF Chances
<1> QED BY <1>3, <1>4

(* Reading a list names only players who are in it. *)
LEMMA ReadChances ==
  ASSUME ListsTypeOK, NEW r \in Runs, NEW d \in Categories, GetWaitingListByCategory(r, d),
         NEW p \in Users, NEW c \in Categories
  PROVE  Chances(p, c)' <= Chances(p, c)
<1>1. /\ \A q \in Runs \ {r} : run'[q] = run[q]
      /\ run[r].pc = "read" /\ run'[r].pc = "read"
      /\ p \in run'[r].groups[c] => p \in run[r].groups[c] \/ p \in waiting[c]
  BY ReadLeaves
<1>2. waiting' = waiting
  BY DEF GetWaitingListByCategory
<1>3. Removers(p, c)' = Removers(p, c)
  BY <1>1 DEF Removers, Removes
<1>4. CASE p \in waiting[c]
  <2>1. Chances(p, c)' = Cardinality(Runs) - Cardinality(Removers(p, c))
    BY <1>2, <1>3, <1>4 DEF Chances
  <2>2. Chances(p, c) = Cardinality(Runs) - Cardinality(Removers(p, c))
    BY <1>4 DEF Chances
  <2> QED BY <2>1, <2>2, ChancesType
<1>5. CASE p \notin waiting[c]
  <2>1. Namers(p, c)' \in SUBSET Namers(p, c)
    BY <1>1, <1>5 DEF Namers
  <2>2. Cardinality(Namers(p, c)') <= Cardinality(Namers(p, c))
    BY <2>1, RunNumbers, FewerRuns
  <2> QED BY <1>2, <1>5, <2>2 DEF Chances
<1> QED BY <1>4, <1>5

(* Publishing uses up the chance of that run. *)
LEMMA PublishChances ==
  ASSUME ListsTypeOK, NEW r \in Runs, PublishFinalUsers(r), NEW p \in Users, NEW c \in Categories
  PROVE  Chances(p, c)' + AsNumber(p \in run[r].groups[c]) <= Chances(p, c)
<1>1. /\ \A q \in Runs \ {r} : run'[q] = run[q]
      /\ run[r].pc = "read" /\ run'[r].pc = "remove" /\ run'[r].groups = run[r].groups
  BY PublishLeaves
<1>2. waiting' = waiting
  BY DEF PublishFinalUsers
<1> DEFINE n == Cardinality(Runs)
           h == Cardinality(Removers(p, c))
           m == Cardinality(Namers(p, c))
           h2 == Cardinality(Removers(p, c)')
           m2 == Cardinality(Namers(p, c)')
<1>3. n \in Nat /\ h \in Nat /\ m \in Nat
  BY RunNumbers
<1>4. CASE p \in run[r].groups[c]
  <2>1. /\ Removers(p, c)' = Removers(p, c) \cup {r} /\ r \notin Removers(p, c)
        /\ Namers(p, c)' = Namers(p, c) \ {r} /\ r \in Namers(p, c)
    BY <1>1, <1>4 DEF Removers, Removes, Namers
  <2>2. h2 = h + 1 /\ m2 = m - 1
    BY <2>1, RunNumbers, OneRun
  <2>3. CASE p \in waiting[c]
    <3>1. Chances(p, c) = n - h /\ Chances(p, c)' = n - h2
      BY <1>2, <2>3 DEF Chances
    <3> HIDE DEF n, h, m, h2, m2
    <3> QED BY <1>3, <1>4, <2>2, <3>1 DEF AsNumber
  <2>4. CASE p \notin waiting[c]
    <3>1. Chances(p, c) = m /\ Chances(p, c)' = m2
      BY <1>2, <2>4 DEF Chances
    <3> HIDE DEF n, h, m, h2, m2
    <3> QED BY <1>3, <1>4, <2>2, <3>1 DEF AsNumber
  <2> QED BY <2>3, <2>4
<1>5. CASE p \notin run[r].groups[c]
  <2>1. Removers(p, c)' = Removers(p, c) /\ Namers(p, c)' = Namers(p, c)
    BY <1>1, <1>5 DEF Removers, Removes, Namers
  <2>2. Chances(p, c)' = Chances(p, c)
    BY <1>2, <2>1 DEF Chances
  <2> QED BY <1>5, <2>2, ChancesType DEF AsNumber
<1> QED BY <1>4, <1>5

(* A removal gives a chance back only when it fails. *)
LEMMA RemoveChances ==
  ASSUME ListsTypeOK, NEW r \in Runs, NEW d \in Categories, NEW q \in Users,
         RemoveWaitingMember(r, d, q), NEW p \in Users, NEW c \in Categories
  PROVE  \/ Chances(p, c)' <= Chances(p, c)
         \/ Strike("zrem") /\ Chances(p, c)' <= Chances(p, c) + 1
<1>1. /\ \A x \in Runs \ {r} : run'[x] = run[x]
      /\ run[r].pc = "remove" /\ q \in run[r].groups[d]
      /\ run'[r].pc = "remove" \/ (run'[r].pc = "read" /\ run'[r].groups = NoGroups)
      /\ p \in run'[r].groups[c] <=> p \in run[r].groups[c] /\ ~(p = q /\ c = d)
  BY RemoveLeaves
<1>2. Namers(p, c)' = Namers(p, c)
  BY <1>1 DEF Namers, NoGroups
<1>3. waiting \in Groups
  BY DEF ListsTypeOK
<1> DEFINE n == Cardinality(Runs)
           h == Cardinality(Removers(p, c))
           m == Cardinality(Namers(p, c))
           h2 == Cardinality(Removers(p, c)')
<1>4. n \in Nat /\ h \in Nat /\ m \in Nat /\ m <= n - h
  BY RunNumbers
<1>5. CASE ~(p = q /\ c = d)
  <2>1. Removers(p, c)' = Removers(p, c)
    BY <1>1, <1>5 DEF Removers, Removes, NoGroups
  <2>2. p \in waiting'[c] <=> p \in waiting[c]
    BY <1>3, <1>5 DEF RemoveWaitingMember, Groups
  <2>3. Chances(p, c)' = Chances(p, c)
    BY <1>2, <2>1, <2>2 DEF Chances
  <2> QED BY <2>3, ChancesType
<1>6. CASE p = q /\ c = d
  <2>1. Removers(p, c)' = Removers(p, c) \ {r} /\ r \in Removers(p, c)
    BY <1>1, <1>6 DEF Removers, Removes, NoGroups
  <2>2. h2 = h - 1
    BY <2>1, RunNumbers, OneRun
  <2>3. CASE waiting' = [waiting EXCEPT ![d] = @ \ {q}]
    <3>1. p \notin waiting'[c]
      BY <1>3, <1>6, <2>3 DEF Groups
    <3>2. Chances(p, c)' = m
      BY <1>2, <3>1 DEF Chances
    <3>3. Chances(p, c) \in {n - h, m}
      BY DEF Chances
    <3> HIDE DEF n, h, m, h2
    <3> QED BY <1>4, <3>2, <3>3
  <2>4. CASE waiting' = waiting /\ Strike("zrem")
    <3>1. CASE p \in waiting[c]
      <4>1. Chances(p, c) = n - h /\ Chances(p, c)' = n - h2
        BY <2>4, <3>1 DEF Chances
      <4> HIDE DEF n, h, m, h2
      <4>2. Chances(p, c)' <= Chances(p, c) + 1
        BY <1>4, <2>2, <4>1
      <4> QED BY <2>4, <4>2
    <3>2. CASE p \notin waiting[c]
      <4>1. Chances(p, c)' = Chances(p, c)
        BY <1>2, <2>4, <3>2 DEF Chances
      <4> QED BY <4>1, ChancesType
    <3> QED BY <3>1, <3>2
  <2> QED BY <2>3, <2>4 DEF RemoveWaitingMember
<1> QED BY <1>5, <1>6

(* What the faults allow only grows. *)
LEMMA AgainGrows ==
  ASSUME TypeOK, [Next]_vars
  PROVE  /\ Again \in Nat /\ Again' \in Nat /\ Again <= Again'
         /\ Strike("match") => Again' = Again + Cardinality(Runs)
         /\ Strike("zrem") => Again' = Again + 1
<1> DEFINE n == Cardinality(Runs)
<1>1. n \in Nat
  BY SubRuns
<1>2. /\ "match" \in faults => "match" \in faults'
      /\ "zrem" \in faults => "zrem" \in faults'
  BY FaultsStay
<1>3. Strike("match") => /\ "match" \notin faults /\ "match" \in faults'
                         /\ "zrem" \in faults' <=> "zrem" \in faults
  BY DEF Strike
<1>4. Strike("zrem") => /\ "zrem" \notin faults /\ "zrem" \in faults'
                        /\ "match" \in faults' <=> "match" \in faults
  BY DEF Strike
<1>5. /\ Again = (IF "match" \in faults THEN n ELSE 0) + (IF "zrem" \in faults THEN 1 ELSE 0)
      /\ Again' = (IF "match" \in faults' THEN n ELSE 0) + (IF "zrem" \in faults' THEN 1 ELSE 0)
  BY DEF Again
<1> HIDE DEF n
<1>6. Again \in Nat /\ Again' \in Nat /\ Again <= Again'
  BY <1>1, <1>2, <1>5
<1>7. Strike("match") => Again' = Again + n
  BY <1>1, <1>3, <1>5
<1>8. Strike("zrem") => Again' = Again + 1
  BY <1>1, <1>4, <1>5
<1> QED BY <1>6, <1>7, <1>8 DEF n

LEMMA ProductGrows ==
  ASSUME NEW n \in Nat, NEW h \in Int, NEW k \in Int, h <= k
  PROVE  n * h \in Int /\ n * k \in Int /\ n * h <= n * k /\ n * (h + 1) = n * h + n
<1>1. n * (k - h) >= 0
  OBVIOUS
<1>2. n * (k - h) = n * k - n * h
  OBVIOUS
<1> QED BY <1>1, <1>2

(* The weighing of one step: a request more is worth a match per run. *)
LEMMA Weighing ==
  ASSUME NEW n \in Nat, NEW h \in Int, NEW k \in Int,
         NEW x \in Int, NEW y \in Int, NEW a \in Int, NEW b \in Int,
         x <= n * h + a,
         \/ h <= k /\ y + a <= x + b
         \/ h + 1 <= k /\ y + a <= x + n + b
  PROVE  y <= n * k + b
<1> DEFINE nh == n * h
           nk == n * k
<1>1. CASE h <= k /\ y + a <= x + b
  <2>1. nh \in Int /\ nk \in Int /\ nh <= nk
    BY <1>1, ProductGrows
  <2>2. x <= nh + a
    OBVIOUS
  <2> HIDE DEF nh, nk
  <2>3. y <= nk + b
    BY <1>1, <2>1, <2>2
  <2> QED BY <2>3 DEF nk
<1>2. CASE h + 1 <= k /\ y + a <= x + n + b
  <2>1. h + 1 \in Int
    OBVIOUS
  <2>2. n * (h + 1) \in Int /\ nk \in Int /\ n * (h + 1) <= nk
    BY <1>2, <2>1, ProductGrows
  <2>3. nh \in Int /\ n * (h + 1) = nh + n
    BY ProductGrows
  <2>4. x <= nh + a
    OBVIOUS
  <2> DEFINE more == n * (h + 1)
  <2> HIDE DEF nh, nk, more
  <2>5. y <= nk + b
    BY <1>2, <2>2, <2>3, <2>4 DEF more
  <2> QED BY <2>5 DEF nk
<1> QED BY <1>1, <1>2

CountInv ==
  /\ TypeOK
  /\ \A p \in Users, c \in Categories :
       played[p][c] + Chances(p, c) <= Cardinality(Runs) * Handled(p, c) + Again

Numbers ==
  \A p \in Users, c \in Categories :
    /\ played[p][c] \in Nat /\ asks[p][c] \in Nat /\ Chances(p, c) \in Nat
    /\ Held(p, c) \in {0, 1} /\ InKafka(p, c) \in Nat /\ Handled(p, c) \in Int

LEMMA CountsAreNumbers == TypeOK => Numbers
<1> SUFFICES ASSUME TypeOK, NEW p \in Users, NEW c \in Categories
             PROVE  /\ played[p][c] \in Nat /\ asks[p][c] \in Nat /\ Chances(p, c) \in Nat
                    /\ Held(p, c) \in {0, 1} /\ InKafka(p, c) \in Nat
                    /\ Handled(p, c) \in Int
  BY DEF Numbers
<1>1. requests \in Seq(Request)
  BY DEF TypeOK
<1>2. InKafka(p, c) \in Nat
  BY <1>1, QueueCounts DEF InKafka
<1>3. asks[p][c] \in Nat
  BY DEF TypeOK, Names
<1>4. Held(p, c) \in {0, 1}
  BY DEF Held, AsNumber
<1>5. Handled(p, c) \in Int
  BY <1>2, <1>3, <1>4 DEF Handled
<1> QED BY <1>2, <1>3, <1>4, <1>5, ChancesType DEF TypeOK

LEMMA CountsStayNumbers == TypeOK' => Numbers'
BY CountsAreNumbers, PTL

FewChances == \A p \in Users, c \in Categories : Chances(p, c) <= Cardinality(Runs)

LEMMA ChancesAreFew == FewChances
BY ChancesType DEF FewChances

LEMMA ChancesStay == FewChances'
BY ChancesAreFew, PTL

LEMMA CountInvInit == Init => CountInv
<1> SUFFICES ASSUME Init PROVE CountInv
  OBVIOUS
<1>1. TypeOK
  BY TypeInit
<1>2. ASSUME NEW p \in Users, NEW c \in Categories
      PROVE  played[p][c] + Chances(p, c) <= Cardinality(Runs) * Handled(p, c) + Again
  <2>1. InQueue(requests, p, c) = {}
    BY DEF Init, InQueue
  <2>2. InKafka(p, c) = 0
    BY <2>1, FS_EmptySet DEF InKafka
  <2>3. Held(p, c) = 0 /\ played[p][c] = 0 /\ asks[p][c] = 0
    BY DEF Init, Held, AsNumber, IdleLoop, Names
  <2>4. Namers(p, c) = {} /\ p \notin waiting[c]
    BY DEF Init, Namers, IdleRun, NoGroups
  <2>5. Chances(p, c) = 0
    BY <2>4, FS_EmptySet DEF Chances
  <2>6. Again = 0
    BY DEF Init, Again
  <2>7. Handled(p, c) = 0
    BY <2>2, <2>3 DEF Handled
  <2>8. Cardinality(Runs) * 0 = 0
    BY SubRuns
  <2> QED BY <2>3, <2>5, <2>6, <2>7, <2>8
<1> QED BY <1>1, <1>2 DEF CountInv

LEMMA CountInvNext == CountInv /\ [Next]_vars => CountInv'
<1> SUFFICES ASSUME CountInv, [Next]_vars PROVE CountInv'
  OBVIOUS
<1>t. TypeOK /\ TypeOK'
  BY TypeNext DEF CountInv
<1>l. /\ ListsTypeOK
      /\ loop \in [Users -> LoopState]
      /\ requests \in Seq(Request)
      /\ asks \in [Users -> [Names -> Nat]]
      /\ played \in [Users -> [Categories -> Nat]]
      /\ Categories \subseteq Names
  BY <1>t DEF TypeOK, ListsTypeOK, Names
<1>n. Numbers /\ Numbers'
  BY <1>t, CountsAreNumbers, CountsStayNumbers
<1>g. /\ Again \in Nat /\ Again' \in Nat /\ Again <= Again'
      /\ Strike("match") => Again' = Again + Cardinality(Runs)
      /\ Strike("zrem") => Again' = Again + 1
      /\ Cardinality(Runs) \in Nat
  BY <1>t, AgainGrows, SubRuns
<1>c. \A k \in Users, c \in Categories : Chances(k, c)' <= Cardinality(Runs)
  BY ChancesStay DEF FewChances
<1>s. ASSUME \A k \in Users, c \in Categories :
               \/ /\ Handled(k, c) <= Handled(k, c)'
                  /\ played'[k][c] + Chances(k, c)' + Again
                       <= played[k][c] + Chances(k, c) + Again'
               \/ /\ Handled(k, c) + 1 <= Handled(k, c)'
                  /\ played'[k][c] + Chances(k, c)' + Again
                       <= played[k][c] + Chances(k, c) + Cardinality(Runs) + Again'
      PROVE  CountInv'
  <2>1. ASSUME NEW k \in Users, NEW c \in Categories
        PROVE  played'[k][c] + Chances(k, c)' <= Cardinality(Runs) * Handled(k, c)' + Again'
    <3> DEFINE x == played[k][c] + Chances(k, c)
               y == played'[k][c] + Chances(k, c)'
               h == Handled(k, c)
               h2 == Handled(k, c)'
    <3>1. x \in Int /\ h \in Int
      BY <1>n DEF Numbers
    <3>2. y \in Int /\ h2 \in Int
      BY <1>n DEF Numbers
    <3>3. x <= Cardinality(Runs) * h + Again
      BY DEF CountInv
    <3>4. \/ h <= h2 /\ y + Again <= x + Again'
          \/ h + 1 <= h2 /\ y + Again <= x + Cardinality(Runs) + Again'
      BY <1>s
    <3> DEFINE n == Cardinality(Runs)
               a == Again
               b == Again'
    <3>5. n \in Nat /\ a \in Int /\ b \in Int
      BY <1>g
    <3> HIDE DEF x, y, h, h2, n, a, b
    <3>6. y <= n * h2 + b
      <4>1. x <= n * h + a
        BY <3>3 DEF n, a
      <4>2. (h <= h2 /\ y + a <= x + b) \/ (h + 1 <= h2 /\ y + a <= x + n + b)
        BY <3>4 DEF n, a, b
      <4> QED BY <3>1, <3>2, <3>5, <4>1, <4>2, Weighing
    <3> QED BY <3>6 DEF y, h2, n, b
  <2> QED BY <1>t, <2>1 DEF CountInv
(* Steps that leave the lists alone, and move no request back. *)
<1>h. ASSUME UNCHANGED <<waiting, run, played>>,
             \A k \in Users, c \in Categories : Handled(k, c) <= Handled(k, c)'
      PROVE  CountInv'
  <2>1. ASSUME NEW k \in Users, NEW c \in Categories
        PROVE  /\ Handled(k, c) <= Handled(k, c)'
               /\ played'[k][c] + Chances(k, c)' + Again
                    <= played[k][c] + Chances(k, c) + Again'
    <3>1. Chances(k, c)' = Chances(k, c)
      BY <1>h DEF Chances, Removers, Removes, Namers
    <3>2. played'[k][c] = played[k][c] /\ played[k][c] \in Nat /\ Chances(k, c) \in Nat
      BY <1>h, <1>n DEF Numbers
    <3>3. played'[k][c] + Chances(k, c)' + Again <= played[k][c] + Chances(k, c) + Again'
      BY <1>g, <3>1, <3>2
    <3> QED BY <1>h, <3>3
  <2> QED BY <1>s, <2>1
(* Steps of the runs, which handle no request. *)
<1>r. ASSUME UNCHANGED <<loop, requests, asks>>,
             \A k \in Users, c \in Categories :
               played'[k][c] + Chances(k, c)' + Again
                 <= played[k][c] + Chances(k, c) + Again'
      PROVE  CountInv'
  <2>1. ASSUME NEW k \in Users, NEW c \in Categories
        PROVE  Handled(k, c) <= Handled(k, c)'
    <3>1. Handled(k, c)' = Handled(k, c)
      BY <1>r DEF Handled, InKafka, Held
    <3> QED BY <1>n, <3>1 DEF Numbers
  <2> QED BY <1>r, <1>s, <2>1
<1>u. ASSUME UNCHANGED <<waiting, run, loop, requests, asks, played>> PROVE CountInv'
  <2>1. ASSUME NEW k \in Users, NEW c \in Categories
        PROVE  Handled(k, c) <= Handled(k, c)'
    <3>1. Handled(k, c)' = Handled(k, c)
      BY <1>u DEF Handled, InKafka, Held
    <3> QED BY <1>n, <3>1 DEF Numbers
  <2> QED BY <1>h, <1>u, <2>1
(* One more request is asked for, and one more may be on its way. *)
<1>a. ASSUME NEW p \in Users, NEW name \in Names, Ask(p, name)
      PROVE  \A k \in Users, c \in Categories :
               asks'[k][c] = asks[k][c] + AsNumber(k = p /\ c = name)
  BY <1>a, <1>l DEF Ask, AsNumber
(* Requests in hand that are dropped count as handled. *)
<1>d. ASSUME UNCHANGED <<waiting, run, requests, asks, played>>,
             \A k \in Users : loop'[k] = IdleLoop \/ loop'[k] = loop[k]
      PROVE  CountInv'
  <2>1. ASSUME NEW k \in Users, NEW c \in Categories
        PROVE  Handled(k, c) <= Handled(k, c)'
    <3>1. Held(k, c)' = 0 \/ Held(k, c)' = Held(k, c)
      BY <1>d DEF Held, AsNumber, IdleLoop
    <3>2. InKafka(k, c)' = InKafka(k, c) /\ asks'[k][c] = asks[k][c]
      BY <1>d DEF InKafka
    <3>3. Handled(k, c)' = asks[k][c] - InKafka(k, c) - Held(k, c)'
      BY <3>2 DEF Handled
    <3>4. asks[k][c] \in Nat /\ InKafka(k, c) \in Nat /\ Held(k, c) \in {0, 1}
      BY <1>n DEF Numbers
    <3> QED BY <3>1, <3>3, <3>4 DEF Handled
  <2> QED BY <1>d, <1>h, <2>1
<1>1. ASSUME NEW p \in Users, NEW name \in Names, ReceiveAdd(p, name) PROVE CountInv'
  <2>1. UNCHANGED <<waiting, run, requests, played>> /\ Ask(p, name) /\ loop[p].pc = "idle"
    BY <1>1 DEF ReceiveAdd, listVars
  <2>2. loop' \in {loop, [loop EXCEPT ![p] = [pc |-> "publish", name |-> name]]}
    BY <1>1 DEF ReceiveAdd
  <2>3. ASSUME NEW k \in Users, NEW c \in Categories
        PROVE  Handled(k, c) <= Handled(k, c)'
    <3> DEFINE one == AsNumber(k = p /\ c = name)
    <3>1. InKafka(k, c)' = InKafka(k, c)
      BY <2>1 DEF InKafka
    <3>2. Held(k, c)' <= Held(k, c) + one
      BY <1>l, <2>1, <2>2 DEF Held, AsNumber
    <3>3. asks'[k][c] = asks[k][c] + one
      BY <1>a, <2>1
    <3>4. one \in {0, 1} /\ asks[k][c] \in Nat /\ InKafka(k, c) \in Nat /\ Held(k, c) \in {0, 1}
      BY <1>n, AsNumberType DEF Numbers
    <3>5. Held(k, c)' \in {0, 1}
      BY <1>n DEF Numbers
    <3> HIDE DEF one
    <3>6. Handled(k, c)' = asks[k][c] + one - InKafka(k, c) - Held(k, c)'
      BY <3>1, <3>3, <3>4, <3>5 DEF Handled
    <3> QED BY <3>2, <3>4, <3>5, <3>6 DEF Handled
  <2> QED BY <1>h, <2>1, <2>3
<1>2. ASSUME NEW p \in Users, PublishRequest(p) PROVE CountInv'
  <2> DEFINE request == [user |-> p, name |-> loop[p].name]
  <2>1. /\ loop[p].pc = "publish" /\ loop[p] \in [pc : {"publish", "confirm"}, name : Names]
        /\ UNCHANGED <<waiting, run, asks, played>>
        /\ requests' = requests \/ requests' = Append(requests, request)
    BY <1>2, <1>l DEF PublishRequest, LoopState, IdleLoop, listVars, history
  <2>2. request \in Request
    BY <2>1 DEF Request
  <2>3. loop' \in {[loop EXCEPT ![p].pc = "confirm"], [loop EXCEPT ![p] = IdleLoop]}
    BY <1>2 DEF PublishRequest
  <2>4. ASSUME NEW k \in Users, NEW c \in Categories
        PROVE  Held(k, c)' + AsNumber(request = [user |-> k, name |-> c]) <= Held(k, c)
    BY <1>l, <2>1, <2>3 DEF Held, AsNumber, IdleLoop
  <2>5. ASSUME NEW k \in Users, NEW c \in Categories
        PROVE  InKafka(k, c)' <= InKafka(k, c) + AsNumber(request = [user |-> k, name |-> c])
    <3>1. AsNumber(request = [user |-> k, name |-> c]) \in {0, 1} /\ InKafka(k, c) \in Nat
      BY <1>n DEF AsNumber, Numbers
    <3>2. CASE requests' = requests
      <4>1. InKafka(k, c)' = InKafka(k, c)
        BY <3>2 DEF InKafka
      <4> QED BY <3>1, <4>1
    <3>3. CASE requests' = Append(requests, request)
      <4> HIDE DEF request
      <4> QED BY <1>l, <2>2, <3>3, AppendCounts DEF InKafka
    <3> QED BY <2>1, <3>2, <3>3
  <2>6. ASSUME NEW k \in Users, NEW c \in Categories
        PROVE  Handled(k, c) <= Handled(k, c)'
    <3> DEFINE one == AsNumber(request = [user |-> k, name |-> c])
    <3>1. one \in {0, 1} /\ asks[k][c] \in Nat /\ InKafka(k, c) \in Nat /\ Held(k, c) \in {0, 1}
      BY <1>n, AsNumberType DEF Numbers
    <3>2. InKafka(k, c)' \in Nat /\ Held(k, c)' \in {0, 1}
      BY <1>n DEF Numbers
    <3>3. Held(k, c)' + one <= Held(k, c) /\ InKafka(k, c)' <= InKafka(k, c) + one
      BY <2>4, <2>5
    <3> HIDE DEF one
    <3>4. Handled(k, c)' = asks[k][c] - InKafka(k, c)' - Held(k, c)'
      BY <2>1 DEF Handled
    <3> QED BY <3>1, <3>2, <3>3, <3>4 DEF Handled
  <2> QED BY <1>h, <2>1, <2>6
<1>3. ASSUME NEW p \in Users, Confirm(p) PROVE CountInv'
  <2>1. UNCHANGED <<waiting, run, requests, asks, played>>
    BY <1>3 DEF Confirm, listVars
  <2>2. \A k \in Users : loop'[k] = IdleLoop \/ loop'[k] = loop[k]
    BY <1>3, <1>l DEF Confirm
  <2> QED BY <1>d, <2>1, <2>2
<1>4. CASE ConsumeJoinMatchQueueRequest
  <2> DEFINE request == Head(requests)
  <2>1. /\ requests # <<>> /\ requests' = Tail(requests) /\ request \in Request
        /\ UNCHANGED <<run, loop, asks, played>>
    BY <1>4, <1>l DEF ConsumeJoinMatchQueueRequest, Rest, history
  <2>2. ASSUME NEW k \in Users, NEW c \in Categories
        PROVE  \/ Chances(k, c)' = Chances(k, c)
               \/ request = [user |-> k, name |-> c] /\ Chances(k, c)' <= Cardinality(Runs)
    <3>1. CASE UNCHANGED waiting
      BY <2>1, <3>1 DEF Chances, Removers, Removes, Namers
    <3>2. CASE request.name \in Categories /\ Enter(request.user, request.name)
      <4>1. request = [user |-> request.user, name |-> request.name] /\ request.user \in Users
        BY <2>1 DEF Request
      <4> HIDE DEF request
      <4>2. \/ Chances(k, c)' = Chances(k, c)
            \/ /\ k = request.user /\ c = request.name
               /\ Chances(k, c)' <= Cardinality(Runs)
        BY <1>l, <2>1, <3>2, <4>1, EnterChances
      <4> QED BY <4>1, <4>2
    <3> QED BY <1>4, <3>1, <3>2 DEF ConsumeJoinMatchQueueRequest
  <2>3. ASSUME NEW k \in Users, NEW c \in Categories
        PROVE  Handled(k, c) + AsNumber(request = [user |-> k, name |-> c]) <= Handled(k, c)'
    <3> DEFINE one == AsNumber(request = [user |-> k, name |-> c])
    <3>1. InKafka(k, c)' + one <= InKafka(k, c)
      BY <1>l, <2>1, TailCounts DEF InKafka
    <3>2. one \in {0, 1} /\ asks[k][c] \in Nat /\ InKafka(k, c) \in Nat /\ Held(k, c) \in {0, 1}
      BY <1>n, AsNumberType DEF Numbers
    <3>3. InKafka(k, c)' \in Nat
      BY <1>n DEF Numbers
    <3> HIDE DEF one
    <3>4. Handled(k, c)' = asks[k][c] - InKafka(k, c)' - Held(k, c)
      BY <2>1 DEF Handled, Held
    <3>5. Handled(k, c) + one <= Handled(k, c)'
      BY <3>1, <3>2, <3>3, <3>4 DEF Handled
    <3> QED BY <3>5 DEF one
  <2>4. ASSUME NEW k \in Users, NEW c \in Categories
        PROVE  \/ /\ Handled(k, c) <= Handled(k, c)'
                  /\ played'[k][c] + Chances(k, c)' + Again
                       <= played[k][c] + Chances(k, c) + Again'
               \/ /\ Handled(k, c) + 1 <= Handled(k, c)'
                  /\ played'[k][c] + Chances(k, c)' + Again
                       <= played[k][c] + Chances(k, c) + Cardinality(Runs) + Again'
    <3>1. /\ played'[k][c] = played[k][c] /\ played[k][c] \in Nat /\ Chances(k, c) \in Nat
          /\ Handled(k, c) \in Int
      BY <2>1, <1>n DEF Numbers
    <3>2. Chances(k, c)' \in Nat /\ Handled(k, c)' \in Int
      BY <1>n DEF Numbers
    <3>3. CASE Chances(k, c)' = Chances(k, c)
      <4>1. Handled(k, c) <= Handled(k, c)'
        BY <2>3, <3>1, <3>2 DEF AsNumber
      <4>2. played'[k][c] + Chances(k, c)' + Again <= played[k][c] + Chances(k, c) + Again'
        BY <1>g, <3>1, <3>3
      <4> QED BY <4>1, <4>2
    <3>4. CASE request = [user |-> k, name |-> c] /\ Chances(k, c)' <= Cardinality(Runs)
      <4>1. Handled(k, c) + 1 <= Handled(k, c)'
        BY <2>3, <3>4 DEF AsNumber
      <4>2. played'[k][c] + Chances(k, c)' + Again
              <= played[k][c] + Chances(k, c) + Cardinality(Runs) + Again'
        BY <1>g, <3>1, <3>2, <3>4
      <4> QED BY <4>1, <4>2
    <3> QED BY <2>2, <3>3, <3>4
  <2> QED BY <1>s, <2>4
<1>5. ASSUME NEW p \in Users, NEW d \in Categories, AddToWaitingList(p, d) PROVE CountInv'
  <2>1. UNCHANGED <<run, requests, loop, played>> /\ Ask(p, d) /\ d \in Names
    BY <1>5, <1>l DEF AddToWaitingList
  <2>2. ASSUME NEW k \in Users, NEW c \in Categories
        PROVE  \/ Chances(k, c)' = Chances(k, c)
               \/ k = p /\ c = d /\ Chances(k, c)' <= Cardinality(Runs)
    <3>1. CASE UNCHANGED waiting
      BY <2>1, <3>1 DEF Chances, Removers, Removes, Namers
    <3>2. CASE Enter(p, d)
      BY <1>l, <2>1, <3>2, EnterChances
    <3> QED BY <1>5, <3>1, <3>2 DEF AddToWaitingList
  <2>3. ASSUME NEW k \in Users, NEW c \in Categories
        PROVE  Handled(k, c)' = Handled(k, c) + AsNumber(k = p /\ c = d)
    <3> DEFINE one == AsNumber(k = p /\ c = d)
    <3>1. Held(k, c)' = Held(k, c) /\ InKafka(k, c)' = InKafka(k, c)
      BY <2>1 DEF Held, InKafka
    <3>2. asks'[k][c] = asks[k][c] + one
      BY <1>a, <2>1
    <3>3. one \in {0, 1} /\ asks[k][c] \in Nat /\ InKafka(k, c) \in Nat /\ Held(k, c) \in {0, 1}
      BY <1>n, AsNumberType DEF Numbers
    <3> HIDE DEF one
    <3>4. Handled(k, c)' = asks[k][c] + one - InKafka(k, c) - Held(k, c)
      BY <3>1, <3>2, <3>3 DEF Handled
    <3>5. Handled(k, c)' = Handled(k, c) + one
      BY <3>3, <3>4 DEF Handled
    <3> QED BY <3>5 DEF one
  <2>4. ASSUME NEW k \in Users, NEW c \in Categories
        PROVE  \/ /\ Handled(k, c) <= Handled(k, c)'
                  /\ played'[k][c] + Chances(k, c)' + Again
                       <= played[k][c] + Chances(k, c) + Again'
               \/ /\ Handled(k, c) + 1 <= Handled(k, c)'
                  /\ played'[k][c] + Chances(k, c)' + Again
                       <= played[k][c] + Chances(k, c) + Cardinality(Runs) + Again'
    <3>1. /\ played'[k][c] = played[k][c] /\ played[k][c] \in Nat /\ Chances(k, c) \in Nat
          /\ Handled(k, c) \in Int
      BY <2>1, <1>n DEF Numbers
    <3>2. Chances(k, c)' \in Nat
      BY <1>n DEF Numbers
    <3>3. CASE Chances(k, c)' = Chances(k, c)
      <4>1. Handled(k, c) <= Handled(k, c)'
        BY <2>3, <3>1 DEF AsNumber
      <4>2. played'[k][c] + Chances(k, c)' + Again <= played[k][c] + Chances(k, c) + Again'
        BY <1>g, <3>1, <3>3
      <4> QED BY <4>1, <4>2
    <3>4. CASE k = p /\ c = d /\ Chances(k, c)' <= Cardinality(Runs)
      <4>1. Handled(k, c) + 1 <= Handled(k, c)'
        BY <2>3, <3>1, <3>4 DEF AsNumber
      <4>2. played'[k][c] + Chances(k, c)' + Again
              <= played[k][c] + Chances(k, c) + Cardinality(Runs) + Again'
        BY <1>g, <3>1, <3>2, <3>4
      <4> QED BY <4>1, <4>2
    <3> QED BY <2>2, <3>3, <3>4
  <2> QED BY <1>s, <2>4
<1>6. ASSUME NEW r \in Runs, PublishFinalUsers(r) PROVE CountInv'
  <2>1. UNCHANGED <<requests, loop, asks>>
    BY <1>6 DEF PublishFinalUsers
  <2>2. ASSUME NEW k \in Users, NEW c \in Categories
        PROVE  played'[k][c] + Chances(k, c)' + Again
                 <= played[k][c] + Chances(k, c) + Again'
    <3> DEFINE one == AsNumber(k \in run[r].groups[c])
    <3>1. Chances(k, c)' + one <= Chances(k, c)
      BY <1>6, <1>l, PublishChances
    <3>2. played[k][c] \in Nat /\ Chances(k, c) \in Nat /\ one \in {0, 1}
      BY <1>n, AsNumberType DEF Numbers
    <3>3. Chances(k, c)' \in Nat
      BY <1>n DEF Numbers
    <3>4. played'[k][c] = played[k][c] \/ played'[k][c] = played[k][c] + one
      <4>1. CASE Matched(run[r].groups)
        BY <3>2, <4>1 DEF Matched, AsNumber
      <4>2. CASE UNCHANGED played
        BY <4>2
      <4> QED BY <1>6, <4>1, <4>2 DEF PublishFinalUsers
    <3> HIDE DEF one
    <3> QED BY <1>g, <3>1, <3>2, <3>3, <3>4
  <2> QED BY <1>r, <2>1, <2>2
<1>7. ASSUME NEW r \in Runs, NEW d \in Categories, GetWaitingListByCategory(r, d)
      PROVE  CountInv'
  <2>1. UNCHANGED <<requests, loop, asks, played>>
    BY <1>7 DEF GetWaitingListByCategory, history
  <2>2. ASSUME NEW k \in Users, NEW c \in Categories
        PROVE  played'[k][c] + Chances(k, c)' + Again
                 <= played[k][c] + Chances(k, c) + Again'
    <3>1. Chances(k, c)' <= Chances(k, c)
      BY <1>7, <1>l, ReadChances
    <3>2. played'[k][c] = played[k][c] /\ played[k][c] \in Nat /\ Chances(k, c) \in Nat
      BY <1>n, <2>1 DEF Numbers
    <3>3. Chances(k, c)' \in Nat
      BY <1>n DEF Numbers
    <3> QED BY <1>g, <3>1, <3>2, <3>3
  <2> QED BY <1>r, <2>1, <2>2
<1>8. ASSUME NEW r \in Runs, NEW d \in Categories, NEW p \in Users,
             RemoveWaitingMember(r, d, p)
      PROVE  CountInv'
  <2>1. UNCHANGED <<requests, loop, asks, played>>
    BY <1>8 DEF RemoveWaitingMember, history
  <2>2. ASSUME NEW k \in Users, NEW c \in Categories
        PROVE  played'[k][c] + Chances(k, c)' + Again
                 <= played[k][c] + Chances(k, c) + Again'
    <3>1. \/ Chances(k, c)' <= Chances(k, c)
          \/ Strike("zrem") /\ Chances(k, c)' <= Chances(k, c) + 1
      BY <1>8, <1>l, RemoveChances
    <3>2. played'[k][c] = played[k][c] /\ played[k][c] \in Nat /\ Chances(k, c) \in Nat
      BY <1>n, <2>1 DEF Numbers
    <3>3. Chances(k, c)' \in Nat
      BY <1>n DEF Numbers
    <3> QED BY <1>g, <3>1, <3>2, <3>3
  <2> QED BY <1>r, <2>1, <2>2
<1>9. CASE RestartGameService
  <2>1. UNCHANGED <<waiting, run, requests, asks, played>> /\ loop' = [p \in Users |-> IdleLoop]
    BY <1>9 DEF RestartGameService, listVars, history
  <2> QED BY <1>d, <2>1
<1>10. CASE RestartMatchService
  <2>1. /\ UNCHANGED <<waiting, loop, asks, played>> /\ requests' = <<>>
        /\ Again' = Again + Cardinality(Runs)
    BY <1>10, <1>g DEF RestartMatchService, history
  <2>2. ASSUME NEW k \in Users, NEW c \in Categories
        PROVE  /\ Handled(k, c) <= Handled(k, c)'
               /\ played'[k][c] + Chances(k, c)' + Again
                    <= played[k][c] + Chances(k, c) + Again'
    <3>1. InQueue(requests', k, c) = {}
      BY <2>1 DEF InQueue
    <3>2. InKafka(k, c)' = 0 /\ Held(k, c)' = Held(k, c)
      BY <2>1, <3>1, FS_EmptySet DEF InKafka, Held
    <3>3. /\ played'[k][c] = played[k][c] /\ played[k][c] \in Nat /\ Chances(k, c) \in Nat
          /\ asks[k][c] \in Nat /\ InKafka(k, c) \in Nat /\ Held(k, c) \in {0, 1}
      BY <1>n, <2>1 DEF Numbers
    <3>4. Handled(k, c)' = asks[k][c] - 0 - Held(k, c)
      BY <2>1, <3>2 DEF Handled
    <3>5. Handled(k, c) <= Handled(k, c)'
      BY <3>3, <3>4 DEF Handled
    <3>6. Chances(k, c)' \in Nat /\ Chances(k, c)' <= Cardinality(Runs)
      <4>1. Chances(k, c)' \in Nat
        BY <1>n DEF Numbers
      <4> QED BY <1>c, <4>1
    <3>7. played'[k][c] + Chances(k, c)' + Again <= played[k][c] + Chances(k, c) + Again'
      BY <1>g, <2>1, <3>3, <3>6
    <3> QED BY <3>5, <3>7
  <2> QED BY <1>s, <2>2
<1>11. ASSUME NEW p \in Users, NEW s \in Written, SaveStatus(p, s) PROVE CountInv'
  BY <1>11, <1>u DEF SaveStatus, listVars, history
<1>12. ASSUME NEW p \in Users, Expire(p) PROVE CountInv'
  BY <1>12, <1>u DEF Expire, listVars, history
<1>13. CASE ConsumeMatchCreated
  BY <1>13, <1>u DEF ConsumeMatchCreated, listVars, history
<1>14. CASE UNCHANGED vars
  BY <1>14, <1>u DEF vars, listVars, history
<1> QED
  BY <1>1, <1>2, <1>3, <1>4, <1>5, <1>6, <1>7, <1>8, <1>9, <1>10, <1>11, <1>12, <1>13, <1>14
  DEF Next

(***************************************************************************)
(* Nobody is matched in a category more often than they asked for it times *)
(* the runs in flight, and what a failing removal or a restart adds, for   *)
(* any number of runs, any requests, over the connection or the endpoint,  *)
(* and any faults.                                                         *)
(***************************************************************************)
THEOREM MatchedAsAskedCorrect == Spec => []MatchedAsAsked
<1>1. CountInv => MatchedAsAsked
  <2> SUFFICES ASSUME CountInv, NEW p \in Users, NEW c \in Categories
               PROVE  played[p][c] <= Cardinality(Runs) * asks[p][c] + Again
    BY DEF MatchedAsAsked
  <2> DEFINE n == Cardinality(Runs)
             h == Handled(p, c)
             a == asks[p][c]
             x == played[p][c] + Chances(p, c)
  <2>1. Numbers
    BY CountsAreNumbers DEF CountInv
  <2>2. /\ n \in Nat /\ h \in Int /\ a \in Nat /\ h <= a
        /\ played[p][c] \in Nat /\ Chances(p, c) \in Nat /\ x \in Int /\ played[p][c] <= x
    BY <2>1, SubRuns DEF Numbers, Handled
  <2>3. Again \in Int
    BY SubRuns DEF Again
  <2>4. x <= n * h + Again
    BY DEF CountInv
  <2> HIDE DEF n, h, a, x
  <2>5. x <= n * a + Again
    BY <2>2, <2>3, <2>4, Weighing
  <2>6. n * a \in Int
    BY <2>2
  <2> DEFINE bound == n * a
  <2>7. bound \in Int /\ x <= bound + Again
    BY <2>5, <2>6
  <2> HIDE DEF bound
  <2>8. played[p][c] <= bound + Again
    BY <2>2, <2>3, <2>7
  <2> QED BY <2>8 DEF bound, n, a
<1> QED BY <1>1, CountInvInit, CountInvNext, PTL DEF Spec

-----------------------------------------------------------------------------
(***************************************************************************)
(* A match on its way to the status of its players.  The messages before   *)
(* the one that names a player do not touch it, handling it starts the     *)
(* goroutine, and only that goroutine's SET takes it away from there.      *)
(***************************************************************************)
Lost == faults \cap {"create", "set", "game", "expire"} # {}

Marked(p) == InMatch(p) \/ writers[p]["PENDING"] > 0 \/ status[p] # NoStatus

MarkedInv == TypeOK /\ MatchedIsInHand

LEMMA MarkedInvInit == Init => MarkedInv
BY TypeInit DEF Init, MarkedInv, MatchedIsInHand

(* A goroutine to write INITIALIZED is none to write PENDING. *)
LEMMA LaunchKeepsPending ==
  ASSUME TypeOK, NEW players, NEW p \in Users
  PROVE  Launch(players, "INITIALIZED")[p]["PENDING"] = writers[p]["PENDING"]
BY DEF Launch, TypeOK, Written

(* A match that gets its game has PENDING in hand for each of its players. *)
LEMMA AnnouncedAdds ==
  ASSUME TypeOK, NEW created \in SUBSET Categories, NEW groups, NEW p \in Users
  PROVE  /\ writers[p]["PENDING"] > 0 => Announced(created, groups)[p]["PENDING"] > 0
         /\ \A c \in created : p \in groups[c] =>
              Announced(created, groups)[p]["PENDING"] > 0
<1> DEFINE games == Pending(p, created, groups)
           n     == Cardinality(games)
<1>1. IsFiniteSet(games)
  BY FS_Subset, JoiningAssumption DEF Pending
<1>2. n \in Nat /\ (games # {} => n # 0)
  BY <1>1, FS_CardinalityType, FS_EmptySet
<1>3. writers[p] \in [Written -> Nat] /\ "PENDING" \in Written
  BY DEF TypeOK, Written
<1>4. Announced(created, groups)[p]["PENDING"] = writers[p]["PENDING"] + n
  BY <1>3 DEF Announced
<1>5. \A c \in created : p \in groups[c] => games # {}
  BY DEF Pending
<1> HIDE DEF n, games
<1> QED BY <1>2, <1>3, <1>4, <1>5

LEMMA MarkedInvNext == MarkedInv /\ [Next]_vars => MarkedInv'
<1> SUFFICES ASSUME MarkedInv, [Next]_vars PROVE MatchedIsInHand'
  BY TypeNext DEF MarkedInv
<1>t. /\ TypeOK
      /\ matches \in Seq(Groups)
      /\ writers \in [Users -> [Written -> Nat]]
      /\ status \in [Users -> Written \cup {NoStatus}]
      /\ \A p \in Users : writers[p]["PENDING"] \in Nat
  BY DEF MarkedInv, TypeOK, Written
<1>f. faults \subseteq faults' /\ (Lost => Lost')
  BY FaultsStay DEF Lost
<1>p. ASSUME NEW p \in Users, NEW c \in Categories, played[p][c] > 0
      PROVE  Marked(p) \/ Lost
  BY <1>p DEF MarkedInv, MatchedIsInHand, Marked, Lost
<1>s. ASSUME \A p \in Users : (\E c \in Categories : played'[p][c] > 0) =>
                              Marked(p)' \/ Lost'
      PROVE  MatchedIsInHand'
  BY <1>s DEF MatchedIsInHand, Marked, Lost
(* Steps after which whoever was marked is marked. *)
<1>q. ASSUME UNCHANGED played, \A p \in Users : Marked(p) => Marked(p)' \/ Lost'
      PROVE  MatchedIsInHand'
  BY <1>q, <1>p, <1>f, <1>s
<1>1. ASSUME NEW p \in Users, NEW name \in Names, ReceiveAdd(p, name) PROVE MatchedIsInHand'
  <2>1. UNCHANGED <<matches, status, played>>
    BY <1>1 DEF ReceiveAdd
  <2>2. \A r \in Users : writers'[r]["PENDING"] = writers[r]["PENDING"]
    BY <1>1, <1>t, LaunchKeepsPending DEF ReceiveAdd
  <2> QED BY <2>1, <2>2, <1>q DEF Marked, InMatch
<1>2. CASE UNCHANGED <<matches, writers, status, played>>
  BY <1>2, <1>q DEF Marked, InMatch
<1>3. ASSUME NEW p \in Users, Expire(p) PROVE MatchedIsInHand'
  <2>1. Lost' /\ UNCHANGED played
    BY <1>3 DEF Expire, Strike, Lost, history
  <2> QED BY <2>1, <1>q
<1>4. ASSUME NEW p \in Users, NEW s \in Written, SaveStatus(p, s) PROVE MatchedIsInHand'
  <2>1. UNCHANGED <<matches, played>>
    BY <1>4 DEF SaveStatus, history
  <2>2. CASE Strike("set")
    <3>1. Lost'
      BY <2>2 DEF Strike, Lost
    <3> QED BY <2>1, <3>1, <1>q
  <2>3. CASE status' = [status EXCEPT ![p] = s]
    <3>1. status'[p] # NoStatus
      BY <2>3, <1>t DEF Written, NoStatus
    <3>2. \A r \in Users \ {p} : status'[r] = status[r] /\ writers'[r] = writers[r]
      BY <1>4, <2>3, <1>t DEF SaveStatus
    <3> QED BY <2>1, <3>1, <3>2, <1>q DEF Marked, InMatch
  <2> QED BY <1>4, <2>2, <2>3 DEF SaveStatus
<1>5. ASSUME NEW r \in Runs, PublishFinalUsers(r) PROVE MatchedIsInHand'
  <2>1. UNCHANGED <<writers, status>>
    BY <1>5 DEF PublishFinalUsers
  <2>2. CASE UNCHANGED <<matches, played>>
    BY <1>2, <2>1, <2>2
  <2>3. CASE Matched(run[r].groups)
    <3>1. run[r].groups \in Groups
      BY <1>5, <1>t, PublishType DEF TypeOK, ListsTypeOK
    <3>2. matches' = Append(matches, run[r].groups)
      BY <2>3 DEF Matched
    <3>3. ASSUME NEW p \in Users, NEW c \in Categories, played'[p][c] > 0
          PROVE  played[p][c] > 0 \/ p \in run[r].groups[c]
      BY <2>3, <3>3 DEF Matched
    <3>4. \A p \in Users : InMatch(p) => InMatch(p)'
      BY <1>t, <3>1, <3>2, QueueMoves DEF InMatch
    <3>5. \A p \in Users, c \in Categories : p \in run[r].groups[c] => InMatch(p)'
      BY <1>t, <3>1, <3>2, QueueMoves DEF InMatch
    <3> QED BY <2>1, <3>3, <3>4, <3>5, <1>p, <1>f, <1>s DEF Marked
  <2> QED BY <1>5, <2>2, <2>3 DEF PublishFinalUsers
<1>6. CASE ConsumeMatchCreated
  <2>1. /\ matches # <<>> /\ matches' = Tail(matches)
        /\ UNCHANGED <<status, played>>
    BY <1>6 DEF ConsumeMatchCreated, history
  <2>2. CASE Strike("create")
    <3>1. Lost'
      BY <2>2 DEF Strike, Lost
    <3> QED BY <2>1, <3>1, <1>q
  <2>3. CASE writers' = Announced(Categories, Head(matches))
    <3>1. ASSUME NEW p \in Users, InMatch(p)
          PROVE  InMatch(p)' \/ writers'[p]["PENDING"] > 0
      <4>1. PICK i \in DOMAIN matches, c \in Categories : p \in matches[i][c]
        BY <3>1 DEF InMatch
      <4>2. CASE matches[i] = Head(matches)
        BY <2>3, <4>1, <4>2, <1>t, AnnouncedAdds
      <4>3. CASE i - 1 \in DOMAIN Tail(matches) /\ Tail(matches)[i - 1] = matches[i]
        BY <2>1, <4>1, <4>3 DEF InMatch
      <4>4. Head(matches) \in Groups
        BY <2>1, <1>t
      <4> QED BY <2>1, <4>1, <4>2, <4>3, <4>4, <1>t, QueueMoves
    <3>2. \A p \in Users : writers[p]["PENDING"] > 0 => writers'[p]["PENDING"] > 0
      BY <2>3, <1>t, AnnouncedAdds
    <3> QED BY <2>1, <3>1, <3>2, <1>q DEF Marked
  <2> QED BY <1>6, <2>2, <2>3 DEF ConsumeMatchCreated
<1>7. CASE RestartGameService
  <2>1. Lost' /\ UNCHANGED played
    BY <1>7 DEF RestartGameService, Strike, Lost, history
  <2> QED BY <2>1, <1>q
<1>8. ASSUME NEW r \in Runs, NEW c \in Categories,
             GetWaitingListByCategory(r, c) \/ \E p \in Users : RemoveWaitingMember(r, c, p)
      PROVE  MatchedIsInHand'
  BY <1>2, <1>8 DEF GetWaitingListByCategory, RemoveWaitingMember, history
<1>9. ASSUME NEW p \in Users,
             PublishRequest(p) \/ Confirm(p) \/ \E c \in Categories : AddToWaitingList(p, c)
      PROVE  MatchedIsInHand'
  BY <1>2, <1>9 DEF PublishRequest, Confirm, AddToWaitingList, history
<1>10. CASE ConsumeJoinMatchQueueRequest \/ RestartMatchService \/ UNCHANGED vars
  BY <1>2, <1>10 DEF ConsumeJoinMatchQueueRequest, RestartMatchService, history, vars
<1> QED
  BY <1>1, <1>3, <1>4, <1>5, <1>6, <1>7, <1>8, <1>9, <1>10 DEF Next

(***************************************************************************)
(* Nobody who is matched goes without a status, for any players, categories*)
(* and requests, unless a failure of the Game Service lost it.             *)
(***************************************************************************)
THEOREM MatchedIsInHandCorrect == Spec => []MatchedIsInHand
<1>1. MarkedInv => MatchedIsInHand
  BY DEF MarkedInv
<1> QED BY <1>1, MarkedInvInit, MarkedInvNext, PTL DEF Spec

=============================================================================
