-------------------------- MODULE MatchMakingProofs --------------------------
(***************************************************************************)
(* Theorems about MatchMaking, for every number of players, categories and *)
(* concurrent runs, any window, clock bound and fault budget.              *)
(***************************************************************************)
EXTENDS MatchMakingPool, FiniteSetTheorems, TLAPS

(***************************************************************************)
(* Removing the odd one out: EvenPart of a size is an even size, not larger*)
(* than it, and positive as soon as two players wait.                      *)
(***************************************************************************)
LEMMA EvenPartLemma ==
  ASSUME NEW n \in Nat
  PROVE  /\ EvenPart(n) \in Nat
         /\ EvenPart(n) <= n
         /\ EvenPart(n) % 2 = 0
         /\ n >= 2 => EvenPart(n) >= 2
BY DEF EvenPart

(* The next category a run reads is one of the categories. *)
LEMMA NextCategory ==
  ASSUME NEW i \in DOMAIN GetCategories
  PROVE  GetCategories[i] \in Categories
BY DEF Categories

LEMMA IdleRunType == IdleRun \in RunState
BY DEF IdleRun, RunState, NobodyWaiting, NotWaiting, NoGroups

(* A fault only counts one kind up. *)
LEMMA StrikeType ==
  ASSUME faults \in [FaultKinds -> Nat], NEW k \in FaultKinds, Strike(k)
  PROVE  faults' \in [FaultKinds -> Nat]
BY DEF Strike

(* A removal takes one player out of one list, or, failing, nobody.        *)
LEMMA RemovalLists ==
  ASSUME TypeOK, NEW r \in Runs, NEW d \in Categories, NEW v \in Users,
         RemoveWaitingMember(r, d, v)
  PROVE  /\ \A c \in Categories, u \in Users :
              /\ waiting'[c][u] \in {waiting[c][u], NotWaiting}
              /\ waiting'[c][u] # waiting[c][u] => c = d /\ u = v
         /\ waiting'[d][v] = NotWaiting \/ Strike("remove")
         /\ run[r].pc = "remove" /\ v \in run[r].groups[d]
<1>1. \/ waiting' = [waiting EXCEPT ![d] = ZRem(waiting[d], v)]
      \/ waiting' = waiting /\ Strike("remove")
  BY DEF RemoveWaitingMember
<1>2. waiting \in [Categories -> [Users -> Nat]]
  BY DEF TypeOK
<1>3. \A u \in Users : ZRem(waiting[d], v)[u] = IF u = v THEN NotWaiting ELSE waiting[d][u]
  BY <1>2 DEF ZRem
<1>4. run[r].pc = "remove" /\ v \in run[r].groups[d]
  BY DEF RemoveWaitingMember
<1> QED BY <1>1, <1>2, <1>3, <1>4

LEMMA JoinType ==
  ASSUME TypeOK, NEW u \in Users, NEW c \in Categories, AddToWaitingList(u, c)
  PROVE  /\ waiting' \in [Categories -> [Users -> Nat]]
         /\ served' \in [Categories -> [Users -> Nat]]
         /\ lapsed' \in [Categories -> SUBSET Users]
<1>1. /\ now \in Nat
      /\ waiting \in [Categories -> [Users -> Nat]]
      /\ served \in [Categories -> [Users -> Nat]]
      /\ lapsed \in [Categories -> SUBSET Users]
  BY DEF TypeOK
<1>2. waiting' = [waiting EXCEPT ![c] = ZAdd(waiting[c], u)]
  BY DEF AddToWaitingList
<1>3. ZAdd(waiting[c], u) \in [Users -> Nat]
  BY <1>1 DEF ZAdd
<1>4. \/ served' = served
      \/ served' = [served EXCEPT ![c] = [served[c] EXCEPT ![u] = 0]]
  BY DEF AddToWaitingList
<1>5. \/ lapsed' = lapsed
      \/ lapsed' = [lapsed EXCEPT ![c] = @ \cup ({u} \cap BeingRemoved(c))]
  BY DEF AddToWaitingList
<1>6. waiting' \in [Categories -> [Users -> Nat]]
  BY <1>1, <1>2, <1>3
<1>7. served' \in [Categories -> [Users -> Nat]]
  <2>1. [served[c] EXCEPT ![u] = 0] \in [Users -> Nat]
    BY <1>1
  <2> QED BY <1>1, <1>4, <2>1
<1>8. lapsed' \in [Categories -> SUBSET Users]
  <2>1. lapsed[c] \cup ({u} \cap BeingRemoved(c)) \in SUBSET Users
    BY <1>1
  <2> HIDE DEF BeingRemoved
  <2> QED BY <1>1, <1>5, <2>1
<1> QED BY <1>6, <1>7, <1>8

(***************************************************************************)
(* Type correctness of the Match Service's state.                          *)
(***************************************************************************)
LEMMA TypeInit == Init => TypeOK
BY MatchMakingAssumption, IdleRunType
   DEF Init, TypeOK, NobodyWaiting, NotWaiting, NoGroups, FaultKinds

LEMMA TypeNext == TypeOK /\ [Next]_vars => TypeOK'
<1> SUFFICES ASSUME TypeOK, [Next]_vars PROVE TypeOK'
  OBVIOUS
<1> USE MatchMakingAssumption DEF TypeOK
<1>1. ASSUME NEW u \in Users, NEW c \in Categories, AddToWaitingList(u, c)
      PROVE  TypeOK'
  <2>1. /\ waiting' \in [Categories -> [Users -> Nat]]
        /\ served' \in [Categories -> [Users -> Nat]]
        /\ lapsed' \in [Categories -> SUBSET Users]
    BY <1>1, JoinType
  <2>2. UNCHANGED <<now, run, topic, gone, faults>>
    BY <1>1 DEF AddToWaitingList
  <2> QED BY <2>1, <2>2
<1>2. ASSUME NEW r \in Runs, StartRun(r)
      PROVE  TypeOK'
  <2>1. run' = [run EXCEPT ![r] = [run[r] EXCEPT !.pc = "read"]]
    BY <1>2 DEF StartRun
  <2>2. [run[r] EXCEPT !.pc = "read"] \in RunState
    <3>1. run[r] \in RunState
      OBVIOUS
    <3> QED BY <3>1 DEF RunState
  <2> QED BY <1>2, <2>1, <2>2 DEF StartRun
<1>3. ASSUME NEW r \in Runs, GetWaitingListByCategory(r)
      PROVE  TypeOK'
  <2> DEFINE c == GetCategories[run[r].next]
  <2>1. c \in Categories
    BY <1>3, NextCategory DEF GetWaitingListByCategory
  <2>2. InWindow(waiting[c], now - Window) \in [Users -> Nat]
    BY <2>1 DEF InWindow, NotWaiting
  <2>3. run' \in [Runs -> RunState]
    <3>1. now - Window \in Int /\ run[r] \in RunState /\ run[r].next + 1 \in Nat \ {0}
      BY DEF RunState
    <3>2. CASE run' = [run EXCEPT ![r].next = @ + 1,
                                  ![r].seen[c] = InWindow(waiting[c], now - Window),
                                  ![r].since[c] = now - Window]
      BY <3>1, <3>2, <2>1, <2>2 DEF RunState
    <3>3. CASE run' = [run EXCEPT ![r].next = @ + 1]
      BY <3>1, <3>3 DEF RunState
    <3> QED BY <3>2, <3>3, <1>3 DEF GetWaitingListByCategory
  <2>4. faults' \in [FaultKinds -> Nat]
    BY <1>3, StrikeType DEF GetWaitingListByCategory, FaultKinds
  <2> QED BY <2>3, <2>4, <1>3 DEF GetWaitingListByCategory
<1>4. ASSUME NEW r \in Runs, FormGroups(r)
      PROVE  TypeOK'
  <2>1. PICK groups \in [Categories -> SUBSET Users] :
          run' = [run EXCEPT ![r] =
                    IF groups = NoGroups
                    THEN IdleRun
                    ELSE [run[r] EXCEPT !.pc = "publish", !.groups = groups]]
    BY <1>4 DEF FormGroups
  <2>2. run[r] \in RunState
    OBVIOUS
  <2>3. [run[r] EXCEPT !.pc = "publish", !.groups = groups] \in RunState
    BY <2>2 DEF RunState
  <2> QED BY <2>1, <2>3, <1>4, IdleRunType DEF FormGroups
<1>5. ASSUME NEW r \in Runs, Publish(r)
      PROVE  TypeOK'
  <2>1. run[r].groups \in [Categories -> SUBSET Users]
    <3>1. run[r] \in RunState
      OBVIOUS
    <3> QED BY <3>1 DEF RunState
  <2>2. [IdleRun EXCEPT !.pc = "remove", !.groups = run[r].groups] \in RunState
    BY <2>1, IdleRunType DEF RunState
  <2>3. PICK acked, stored \in BOOLEAN :
           /\ IF acked THEN stored /\ UNCHANGED faults ELSE Strike("publish")
           /\ IF stored
              THEN /\ topic' = run[r].groups
                   /\ served' = [c \in Categories |->
                                   [u \in Users |->
                                      IF u \in run[r].groups[c]
                                      THEN served[c][u] + 1
                                      ELSE served[c][u]]]
                   /\ UNCHANGED lapsed
              ELSE /\ lapsed' = [c \in Categories |->
                        lapsed[c] \cup (run[r].groups[c] \cap Waiting(waiting[c]))]
                   /\ UNCHANGED <<topic, served>>
    BY <1>5 DEF Publish
  <2>4. topic' \in [Categories -> SUBSET Users]
    BY <2>1, <2>3
  <2>6. [c \in Categories |-> [u \in Users |->
            IF u \in run[r].groups[c] THEN served[c][u] + 1 ELSE served[c][u]]]
          \in [Categories -> [Users -> Nat]]
    OBVIOUS
  <2>7. served' \in [Categories -> [Users -> Nat]]
    BY <2>3, <2>6
  <2>5. faults' \in [FaultKinds -> Nat]
    BY <2>3, StrikeType DEF FaultKinds
  <2>8. lapsed' \in [Categories -> SUBSET Users]
    BY <2>3 DEF Waiting
  <2>9. gone' \in [Categories -> SUBSET Users]
    BY <1>5, <2>1 DEF Publish
  <2> QED BY <2>2, <2>4, <2>5, <2>7, <2>8, <2>9, <1>5 DEF Publish
<1>6. ASSUME NEW r \in Runs, NEW c \in Categories, NEW u \in Users,
             RemoveWaitingMember(r, c, u)
      PROVE  TypeOK'
  <2> DEFINE left == [run[r].groups EXCEPT ![c] = @ \ {u}]
  <2>1. run[r] \in RunState
    OBVIOUS
  <2>2. left \in [Categories -> SUBSET Users]
    BY <2>1 DEF RunState
  <2>3. [run[r] EXCEPT !.groups = left] \in RunState
    BY <2>1, <2>2 DEF RunState
  <2>4. run' \in [Runs -> RunState]
    BY <2>3, <1>6, IdleRunType DEF RemoveWaitingMember
  <2>5. ZRem(waiting[c], u) \in [Users -> Nat]
    BY DEF ZRem, NotWaiting
  <2>6. waiting' \in [Categories -> [Users -> Nat]]
    BY <1>6, <2>5 DEF RemoveWaitingMember
  <2>7. faults' \in [FaultKinds -> Nat]
    BY <1>6, StrikeType DEF RemoveWaitingMember, FaultKinds
  <2>8. lapsed' \in [Categories -> SUBSET Users]
    <3>1. lapsed' = [lapsed EXCEPT ![c] = @ \ {u}] \/ lapsed' = lapsed
      BY <1>6 DEF RemoveWaitingMember
    <3> QED BY <3>1
  <2> QED BY <2>4, <2>6, <2>7, <2>8, <1>6 DEF RemoveWaitingMember
<1>7. CASE Crash
  BY <1>7, IdleRunType, StrikeType DEF Crash, FaultKinds
<1>8. CASE Tick
  BY <1>8 DEF Tick
<1>9. CASE UNCHANGED vars
  BY <1>9 DEF vars
<1> QED
  BY <1>1, <1>2, <1>3, <1>4, <1>5, <1>6, <1>7, <1>8, <1>9 DEF Next, RunStep

THEOREM TypeCorrect == Spec => []TypeOK
BY TypeInit, TypeNext, PTL DEF Spec

-----------------------------------------------------------------------------
(***************************************************************************)
(* The strengthening behind GroupsAreEven and NoOvertaking.                *)
(*   - no score lies in the future;                                        *)
(*   - a snapshot ages well: whoever a run saw waits, if at all, with a    *)
(*     score that has not gone down; whoever it did not see and waits now  *)
(*     joined after everybody it saw, or was outside the window;           *)
(*   - a group about to be published is an even oldest part of the run's   *)
(*     snapshot.                                                           *)
(***************************************************************************)
ScoresInThePast ==
  \A c \in Categories, u \in Users : waiting[c][u] <= now

SnapshotAges(r, c) ==
  \A u \in Users :
    /\ run[r].seen[c][u] <= now
    /\ waiting[c][u] # NotWaiting =>
         IF run[r].seen[c][u] # NotWaiting
         THEN waiting[c][u] >= run[r].seen[c][u]
         ELSE \/ waiting[c][u] < run[r].since[c]
              \/ \A m \in Users : waiting[c][u] >= run[r].seen[c][m]

GroupsFromSnapshot(r) ==
  run[r].pc = "publish" =>
    /\ run[r].groups # NoGroups
    /\ \A c \in Categories : run[r].groups[c] \in EvenPrefixes(run[r].seen[c])

MatchInv ==
  /\ TypeOK
  /\ ScoresInThePast
  /\ \A r \in Runs, c \in Categories : SnapshotAges(r, c)
  /\ \A r \in Runs : GroupsFromSnapshot(r)
  /\ EvenGroups(topic)

(* Even prefixes have an even size. *)
LEMMA EvenPrefixesAreEven ==
  ASSUME NEW list \in [Users -> Nat], NEW G \in EvenPrefixes(list)
  PROVE  Cardinality(G) % 2 = 0
<1>1. IsFiniteSet(Waiting(list))
  BY MatchMakingAssumption, FS_Subset DEF Waiting
<1>2. Cardinality(Waiting(list)) \in Nat
  BY <1>1, FS_CardinalityType
<1> QED BY <1>2, EvenPartLemma DEF EvenPrefixes

LEMMA MatchInvInit == Init => MatchInv
<1> SUFFICES ASSUME Init PROVE MatchInv
  OBVIOUS
<1>1. TypeOK
  BY TypeInit
<1>2. \A r \in Runs : run[r] = IdleRun
  BY DEF Init
<1>3. \A r \in Runs, c \in Categories : SnapshotAges(r, c)
  BY <1>2 DEF Init, SnapshotAges, IdleRun, NobodyWaiting, NotWaiting
<1>4. \A r \in Runs : GroupsFromSnapshot(r)
  BY <1>2 DEF GroupsFromSnapshot, IdleRun
<1>5. EvenGroups(topic)
  <2>1. \A c \in Categories : topic[c] = {}
    BY DEF Init, NoGroups
  <2> QED BY <2>1, FS_EmptySet DEF EvenGroups
<1> QED
  BY <1>1, <1>3, <1>4, <1>5 DEF MatchInv, ScoresInThePast, Init, NobodyWaiting, NotWaiting

(* An idle snapshot, or none, says nothing that could become false. *)
LEMMA EmptySnapshotAges ==
  ASSUME TypeOK', NEW r \in Runs, NEW c \in Categories,
         run'[r].seen = IdleRun.seen
  PROVE  SnapshotAges(r, c)'
BY DEF SnapshotAges, IdleRun, NobodyWaiting, NotWaiting, TypeOK

LEMMA MatchInvNext == MatchInv /\ [Next]_vars => MatchInv'
<1> SUFFICES ASSUME MatchInv, [Next]_vars PROVE MatchInv'
  OBVIOUS
<1>t. TypeOK /\ TypeOK'
  BY TypeNext DEF MatchInv
<1>s. \A q \in Runs : run[q] \in RunState /\ run'[q] \in RunState
  BY <1>t DEF TypeOK
<1>m. /\ ScoresInThePast
      /\ \A r \in Runs, c \in Categories : SnapshotAges(r, c)
      /\ \A r \in Runs : GroupsFromSnapshot(r)
      /\ EvenGroups(topic)
  BY DEF MatchInv
<1>1. ASSUME NEW u \in Users, NEW c \in Categories, AddToWaitingList(u, c)
      PROVE  MatchInv'
  <2>1. ScoresInThePast'
    BY <1>1, <1>t, <1>m DEF AddToWaitingList, ZAdd, ScoresInThePast, TypeOK
  <2>2. ASSUME NEW r \in Runs, NEW d \in Categories PROVE SnapshotAges(r, d)'
    <3>1. /\ run[r].seen \in [Categories -> [Users -> Nat]]
          /\ run[r].since \in [Categories -> Int]
      BY <1>s DEF RunState
    <3> QED
      BY <1>1, <1>t, <1>m, <3>1 DEF AddToWaitingList, ZAdd, SnapshotAges, NotWaiting, TypeOK
  <2> QED
    BY <1>1, <1>t, <1>m, <2>1, <2>2
    DEF AddToWaitingList, ZAdd, MatchInv, GroupsFromSnapshot, EvenPrefixes, Older, Waiting, EvenGroups
<1>2. ASSUME NEW r \in Runs, StartRun(r)
      PROVE  MatchInv'
  <2>1. \A q \in Runs : /\ run'[q].seen = run[q].seen
                         /\ run'[q].since = run[q].since
                         /\ run'[q].groups = run[q].groups
                         /\ run'[q].pc = "publish" => run[q].pc = "publish"
    BY <1>2, <1>s, <1>t DEF StartRun, RunState, TypeOK
  <2> QED
    BY <1>2, <1>t, <1>m, <2>1
    DEF StartRun, MatchInv, ScoresInThePast, SnapshotAges, GroupsFromSnapshot, EvenGroups
<1>3. ASSUME NEW r \in Runs, GetWaitingListByCategory(r)
      PROVE  MatchInv'
  <2> DEFINE c == GetCategories[run[r].next]
  <2>1. c \in Categories
    BY <1>3, NextCategory DEF GetWaitingListByCategory
  <2>2. \A q \in Runs : q # r => run'[q] = run[q]
    BY <1>3, <1>t DEF GetWaitingListByCategory, TypeOK
  <2>3. run'[r].pc = "read"
    BY <1>3, <1>s, <1>t DEF GetWaitingListByCategory, TypeOK, RunState
  <2>4. ASSUME NEW q \in Runs PROVE GroupsFromSnapshot(q)'
    BY <1>m, <2>2, <2>3 DEF GroupsFromSnapshot
  <2>5. ASSUME NEW q \in Runs, NEW d \in Categories PROVE SnapshotAges(q, d)'
    <3>0. now' = now /\ waiting' = waiting
      BY <1>3 DEF GetWaitingListByCategory
    <3>1. CASE run'[q].seen[d] = run[q].seen[d] /\ run'[q].since[d] = run[q].since[d]
      BY <1>m, <3>0, <3>1 DEF SnapshotAges
    <3>2. CASE /\ q = r /\ d = c
               /\ run'[q].seen[d] = InWindow(waiting[d], now - Window)
               /\ run'[q].since[d] = now - Window
      <4>1. \A u \in Users : waiting[d][u] <= now /\ waiting[d][u] \in Nat
        BY <1>m, <1>t DEF ScoresInThePast, TypeOK
      <4>2. now \in Nat /\ Window \in Nat
        BY <1>t, MatchMakingAssumption DEF TypeOK
      <4>3. \A u \in Users :
              \/ run'[q].seen[d][u] = waiting[d][u]
              \/ /\ run'[q].seen[d][u] = NotWaiting
                 /\ waiting[d][u] < now - Window
        <5>1. TAKE u \in Users
        <5>2. run'[q].seen[d][u] = IF waiting[d][u] \in now - Window .. now
                                   THEN waiting[d][u] ELSE NotWaiting
          BY <3>2, <5>1 DEF InWindow
        <5>3. waiting[d][u] \in Nat /\ waiting[d][u] <= now /\ now - Window \in Int
          BY <4>1, <4>2
        <5> QED BY <4>2, <5>2, <5>3
      <4>4. \A u \in Users : run'[q].seen[d][u] <= now
        BY <4>1, <4>2, <4>3 DEF NotWaiting
      <4>5. SUFFICES ASSUME NEW u \in Users
                     PROVE  waiting[d][u] # NotWaiting =>
                              (IF run'[q].seen[d][u] # NotWaiting
                               THEN waiting[d][u] >= run'[q].seen[d][u]
                               ELSE waiting[d][u] < run'[q].since[d])
        BY <3>0, <4>4, <4>5 DEF SnapshotAges
      <4>6. CASE run'[q].seen[d][u] = waiting[d][u]
        BY <4>1, <4>6
      <4>7. CASE /\ run'[q].seen[d][u] = NotWaiting
                 /\ waiting[d][u] < now - Window
        BY <3>2, <4>7
      <4> QED
        BY <4>3, <4>6, <4>7
    <3>3. run[r].seen \in [Categories -> [Users -> Nat]] /\ run[r].since \in [Categories -> Int]
      BY <1>s DEF RunState
    <3>4. CASE q = r
      <4>1. CASE run' = [run EXCEPT ![r].next = @ + 1,
                           ![r].seen[c] = InWindow(waiting[c], now - Window),
                           ![r].since[c] = now - Window]
        <5>1. /\ run'[r].seen = [run[r].seen EXCEPT ![c] = InWindow(waiting[c], now - Window)]
              /\ run'[r].since = [run[r].since EXCEPT ![c] = now - Window]
          BY <4>1, <1>s, <1>t DEF TypeOK, RunState
        <5> QED BY <5>1, <3>1, <3>2, <3>3, <3>4, <2>1
      <4>2. CASE run' = [run EXCEPT ![r].next = @ + 1]
        BY <4>2, <3>1, <3>4, <1>s, <1>t DEF TypeOK, RunState
      <4> QED BY <4>1, <4>2, <1>3 DEF GetWaitingListByCategory
    <3> QED BY <3>1, <3>4, <2>2
  <2> QED
    BY <1>3, <1>t, <1>m, <2>4, <2>5
    DEF GetWaitingListByCategory, MatchInv, ScoresInThePast, EvenGroups
<1>4. ASSUME NEW r \in Runs, FormGroups(r)
      PROVE  MatchInv'
  <2>1. PICK groups \in [Categories -> SUBSET Users] :
          /\ \A c \in Categories : groups[c] \in EvenPrefixes(run[r].seen[c])
          /\ run' = [run EXCEPT ![r] =
                       IF groups = NoGroups
                       THEN IdleRun
                       ELSE [run[r] EXCEPT !.pc = "publish", !.groups = groups]]
    BY <1>4 DEF FormGroups
  <2>2. \A q \in Runs : q # r => run'[q] = run[q]
    BY <2>1, <1>t DEF TypeOK
  <2>3. CASE groups = NoGroups
    <3>1. run'[r] = IdleRun
      BY <2>1, <2>3, <1>t DEF TypeOK
    <3>2. \A q \in Runs, c \in Categories : SnapshotAges(q, c)'
      BY <1>4, <1>t, <1>m, <2>2, <3>1, EmptySnapshotAges DEF SnapshotAges, FormGroups
    <3>3. \A q \in Runs : GroupsFromSnapshot(q)'
      BY <1>m, <2>2, <3>1 DEF GroupsFromSnapshot, IdleRun
    <3> QED
      BY <1>4, <1>t, <1>m, <3>2, <3>3 DEF FormGroups, MatchInv, ScoresInThePast, EvenGroups
  <2>4. CASE groups # NoGroups
    <3>1. /\ run'[r].seen = run[r].seen
          /\ run'[r].since = run[r].since
          /\ run'[r].groups = groups
      BY <2>1, <2>4, <1>s, <1>t DEF TypeOK, RunState
    <3>2. \A q \in Runs, c \in Categories : SnapshotAges(q, c)'
      BY <1>4, <1>m, <2>2, <3>1 DEF SnapshotAges, FormGroups
    <3>3. \A q \in Runs : GroupsFromSnapshot(q)'
      BY <1>m, <2>1, <2>2, <2>4, <3>1 DEF GroupsFromSnapshot
    <3> QED
      BY <1>4, <1>t, <1>m, <3>2, <3>3 DEF FormGroups, MatchInv, ScoresInThePast, EvenGroups
  <2> QED BY <2>3, <2>4
<1>5. ASSUME NEW r \in Runs, Publish(r)
      PROVE  MatchInv'
  <2>1. run'[r] = [IdleRun EXCEPT !.pc = "remove", !.groups = run[r].groups]
    BY <1>5, <1>t DEF Publish, TypeOK
  <2>2. \A q \in Runs : q # r => run'[q] = run[q]
    BY <1>5, <1>t DEF Publish, TypeOK
  <2>3. run'[r].pc = "remove" /\ run'[r].seen = IdleRun.seen
    BY <2>1 DEF IdleRun
  <2>4. \A q \in Runs, c \in Categories : SnapshotAges(q, c)'
    BY <1>5, <1>t, <1>m, <2>2, <2>3, EmptySnapshotAges DEF SnapshotAges, Publish
  <2>5. \A q \in Runs : GroupsFromSnapshot(q)'
    BY <1>m, <2>2, <2>3 DEF GroupsFromSnapshot
  <2>6. EvenGroups(topic)'
    <3>1. topic' = topic \/ topic' = run[r].groups
      BY <1>5 DEF Publish
    <3>2. \A c \in Categories : run[r].seen[c] \in [Users -> Nat]
      BY <1>s DEF RunState
    <3>3. EvenGroups(run[r].groups)
      BY <1>5, <1>m, <3>2, EvenPrefixesAreEven DEF Publish, GroupsFromSnapshot, EvenGroups
    <3> QED BY <1>m, <3>1, <3>3 DEF EvenGroups
  <2> QED
    BY <1>5, <1>t, <1>m, <2>4, <2>5, <2>6 DEF Publish, MatchInv, ScoresInThePast
<1>6. ASSUME NEW r \in Runs, NEW c \in Categories, NEW u \in Users,
             RemoveWaitingMember(r, c, u)
      PROVE  MatchInv'
  <2>1. \A d \in Categories, v \in Users :
          waiting'[d][v] = waiting[d][v] \/ waiting'[d][v] = NotWaiting
    BY <1>6, <1>t, RemovalLists
  <2>2. \A q \in Runs : q # r => run'[q] = run[q]
    BY <1>6, <1>t DEF RemoveWaitingMember, TypeOK
  <2>3. /\ \/ run'[r].seen = IdleRun.seen
           \/ run'[r].seen = run[r].seen /\ run'[r].since = run[r].since
        /\ run'[r].pc # "publish"
    <3> DEFINE left == [run[r].groups EXCEPT ![c] = @ \ {u}]
    <3>1. CASE run'[r] = IdleRun
      BY <3>1 DEF IdleRun
    <3>2. CASE run'[r] = [run[r] EXCEPT !.groups = left]
      BY <1>6, <3>2, <1>s DEF RunState, RemoveWaitingMember
    <3> QED BY <1>6, <1>t, <3>1, <3>2 DEF RemoveWaitingMember, TypeOK
  <2>4. ScoresInThePast'
    <3>1. now' = now /\ now \in Nat
      BY <1>6, <1>t DEF RemoveWaitingMember, TypeOK
    <3> QED BY <1>m, <2>1, <3>1 DEF ScoresInThePast, NotWaiting
  <2>5. ASSUME NEW q \in Runs, NEW d \in Categories PROVE SnapshotAges(q, d)'
    <3>1. CASE run'[q].seen = IdleRun.seen
      BY <1>t, <3>1, EmptySnapshotAges
    <3>2. CASE run'[q].seen = run[q].seen /\ run'[q].since = run[q].since
      BY <1>6, <1>m, <3>2, <2>1 DEF RemoveWaitingMember, SnapshotAges
    <3> QED BY <3>1, <3>2, <2>2, <2>3
  <2>6. \A q \in Runs : GroupsFromSnapshot(q)'
    BY <1>m, <2>2, <2>3 DEF GroupsFromSnapshot
  <2> QED
    BY <1>6, <1>t, <1>m, <2>4, <2>5, <2>6 DEF RemoveWaitingMember, MatchInv, EvenGroups
<1>7. CASE Crash
  <2>1. \A q \in Runs : run'[q] = IdleRun
    BY <1>7 DEF Crash
  <2>2. \A q \in Runs, c \in Categories : SnapshotAges(q, c)'
    BY <1>t, <2>1, EmptySnapshotAges
  <2>3. \A q \in Runs : GroupsFromSnapshot(q)'
    BY <2>1 DEF GroupsFromSnapshot, IdleRun
  <2> QED
    BY <1>7, <1>t, <1>m, <2>2, <2>3 DEF Crash, MatchInv, ScoresInThePast, EvenGroups
<1>8. CASE Tick
  <2>1. ScoresInThePast'
    BY <1>8, <1>t, <1>m DEF Tick, ScoresInThePast, TypeOK
  <2>2. ASSUME NEW q \in Runs, NEW d \in Categories PROVE SnapshotAges(q, d)'
    <3>1. run[q].seen \in [Categories -> [Users -> Nat]]
      BY <1>s DEF RunState
    <3>2. now \in Nat /\ now' = now + 1 /\ waiting' = waiting /\ run' = run
      BY <1>8, <1>t DEF Tick, TypeOK
    <3>3. SnapshotAges(q, d)
      BY <1>m
    <3>4. \A u \in Users : run[q].seen[d][u] <= now'
      BY <3>1, <3>2, <3>3 DEF SnapshotAges
    <3> QED BY <3>2, <3>3, <3>4 DEF SnapshotAges
  <2> QED
    BY <1>8, <1>t, <1>m, <2>1, <2>2 DEF Tick, MatchInv, GroupsFromSnapshot, EvenGroups
<1>9. CASE UNCHANGED vars
  BY <1>9, <1>t, <1>m
  DEF vars, MatchInv, ScoresInThePast, SnapshotAges, GroupsFromSnapshot, EvenGroups
<1> QED
  BY <1>1, <1>2, <1>3, <1>4, <1>5, <1>6, <1>7, <1>8, <1>9 DEF Next, RunStep

LEMMA MatchInvariant == Spec => []MatchInv
BY MatchInvInit, MatchInvNext, PTL DEF Spec

(***************************************************************************)
(* Every published or about-to-be-published group is even.                 *)
(***************************************************************************)
THEOREM EvenGroupsCorrect == Spec => []GroupsAreEven
<1>1. MatchInv => GroupsAreEven
  <2> SUFFICES ASSUME MatchInv PROVE GroupsAreEven
    OBVIOUS
  <2>1. ASSUME NEW r \in Runs, run[r].pc = "publish"
        PROVE  EvenGroups(run[r].groups) /\ run[r].groups # NoGroups
    <3>1. \A c \in Categories : run[r].seen[c] \in [Users -> Nat]
      BY DEF MatchInv, TypeOK, RunState
    <3> QED
      BY <2>1, <3>1, EvenPrefixesAreEven DEF MatchInv, GroupsFromSnapshot, EvenGroups
  <2> QED BY <2>1 DEF GroupsAreEven, MatchInv
<1> QED BY <1>1, MatchInvariant, PTL

(***************************************************************************)
(* First come, first served: no run publishes a group that overtakes a     *)
(* player of the live list, whatever joins and runs interleave with it.    *)
(***************************************************************************)
THEOREM NoOvertakingCorrect == Spec => []NoOvertaking
<1>1. MatchInv => NoOvertaking
  <2> SUFFICES ASSUME MatchInv,
                      NEW r \in Runs, run[r].pc = "publish",
                      NEW c \in Categories, NEW m \in run[r].groups[c],
                      NEW u \in Waiting(waiting[c]) \ run[r].groups[c]
               PROVE  \/ waiting[c][u] >= run[r].seen[c][m]
                      \/ waiting[c][u] < run[r].since[c]
    BY DEF NoOvertaking
  <2>1. /\ run[r].seen[c] \in [Users -> Nat] /\ run[r].since[c] \in Int
        /\ waiting[c] \in [Users -> Nat]
    BY DEF MatchInv, TypeOK, RunState
  <2>2. m \in Users /\ u \in Users
    BY DEF MatchInv, TypeOK, RunState, Waiting
  <2>3. CASE run[r].seen[c][u] = NotWaiting
    BY <2>1, <2>2, <2>3 DEF MatchInv, SnapshotAges, Waiting
  <2>4. CASE run[r].seen[c][u] # NotWaiting
    <3>1. run[r].seen[c][m] <= run[r].seen[c][u]
      BY <2>2, <2>4 DEF MatchInv, GroupsFromSnapshot, EvenPrefixes, Waiting, Older
    <3>2. run[r].seen[c][u] <= waiting[c][u]
      BY <2>1, <2>2, <2>4 DEF MatchInv, SnapshotAges, Waiting
    <3> QED BY <2>1, <2>2, <3>1, <3>2
  <2> QED BY <2>3, <2>4
<1> QED BY <1>1, MatchInvariant, PTL

-----------------------------------------------------------------------------
(***************************************************************************)
(* With one run at a time, what a run saw still waits until the run itself *)
(* removes it: the list only shrinks by the removals of that run.          *)
(***************************************************************************)
SingleRunInv ==
  /\ TypeOK
  /\ \A r \in Runs :
       /\ run[r].pc \in {"idle", "read"} => run[r].groups = NoGroups
       /\ run[r].pc \in {"idle", "remove"} => run[r].seen = IdleRun.seen
       /\ \A c \in Categories :
            /\ Waiting(run[r].seen[c]) \subseteq Waiting(waiting[c])
            /\ run[r].groups[c] \subseteq Waiting(waiting[c])

LEMMA IdleRunWaitsForNobody ==
  ASSUME NEW c \in Categories
  PROVE  Waiting(IdleRun.seen[c]) = {} /\ IdleRun.groups[c] = {}
BY DEF IdleRun, NobodyWaiting, Waiting, NoGroups

LEMMA SingleRunInit == Init => SingleRunInv
<1> SUFFICES ASSUME Init PROVE SingleRunInv
  OBVIOUS
<1>1. \A r \in Runs : run[r] = IdleRun
  BY DEF Init
<1>2. IdleRun.pc = "idle" /\ IdleRun.groups = NoGroups
  BY DEF IdleRun
<1> QED BY <1>1, <1>2, TypeInit, IdleRunWaitsForNobody DEF SingleRunInv

LEMMA SingleRunNext ==
  ASSUME SingleRun, SingleRunInv, [Next]_vars
  PROVE  SingleRunInv'
<1>t. TypeOK /\ TypeOK'
  BY TypeNext DEF SingleRunInv
<1>s. \A q \in Runs : run[q] \in RunState /\ run'[q] \in RunState
  BY <1>t DEF TypeOK
<1>i. IdleRun.pc = "idle" /\ IdleRun.groups = NoGroups
  BY DEF IdleRun
<1>1. ASSUME NEW u \in Users, NEW c \in Categories, AddToWaitingList(u, c)
      PROVE  SingleRunInv'
  <2>1. \A d \in Categories : Waiting(waiting[d]) \subseteq Waiting(waiting'[d])
    BY <1>1, <1>t DEF AddToWaitingList, ZAdd, Waiting, NotWaiting, TypeOK
  <2>2. run' = run
    BY <1>1 DEF AddToWaitingList, ZAdd
  <2> QED BY <1>t, <2>1, <2>2 DEF SingleRunInv
<1>2. ASSUME NEW r \in Runs, StartRun(r)
      PROVE  SingleRunInv'
  <2>1. waiting' = waiting
    BY <1>2 DEF StartRun
  <2>2. /\ run[r].pc = "idle" /\ run'[r].pc = "read"
        /\ run'[r].groups = run[r].groups /\ run'[r].seen = run[r].seen
    BY <1>2, <1>s, <1>t DEF StartRun, TypeOK, RunState
  <2> QED BY <1>t, <2>1, <2>2 DEF SingleRunInv, SingleRun
<1>3. ASSUME NEW r \in Runs, GetWaitingListByCategory(r)
      PROVE  SingleRunInv'
  <2> DEFINE c == GetCategories[run[r].next]
  <2>1. c \in Categories /\ waiting' = waiting /\ run[r].pc = "read"
    BY <1>3, NextCategory DEF GetWaitingListByCategory
  <2>2. /\ run'[r].pc = "read"
        /\ run'[r].groups = run[r].groups
        /\ \/ run'[r].seen = run[r].seen
           \/ run'[r].seen = [run[r].seen EXCEPT ![c] = InWindow(waiting[c], now - Window)]
    <3>1. CASE run' = [run EXCEPT ![r].next = @ + 1,
                         ![r].seen[c] = InWindow(waiting[c], now - Window),
                         ![r].since[c] = now - Window]
      BY <3>1, <2>1, <1>s, <1>t DEF TypeOK, RunState
    <3>2. CASE run' = [run EXCEPT ![r].next = @ + 1]
      BY <3>2, <2>1, <1>s, <1>t DEF TypeOK, RunState
    <3> QED BY <1>3, <3>1, <3>2 DEF GetWaitingListByCategory
  <2>3. Waiting(InWindow(waiting[c], now - Window)) \subseteq Waiting(waiting[c])
    BY DEF InWindow, Waiting
  <2>4. \A d \in Categories : Waiting(run'[r].seen[d]) \subseteq Waiting(waiting'[d])
    <3>1. run[r].seen \in [Categories -> [Users -> Nat]]
      BY <1>s DEF RunState
    <3> QED BY <2>1, <2>2, <2>3, <3>1 DEF SingleRunInv
  <2> QED BY <1>t, <2>1, <2>2, <2>4 DEF SingleRunInv, SingleRun
<1>4. ASSUME NEW r \in Runs, FormGroups(r)
      PROVE  SingleRunInv'
  <2>1. PICK groups \in [Categories -> SUBSET Users] :
          /\ \A c \in Categories : groups[c] \in EvenPrefixes(run[r].seen[c])
          /\ run' = [run EXCEPT ![r] =
                       IF groups = NoGroups
                       THEN IdleRun
                       ELSE [run[r] EXCEPT !.pc = "publish", !.groups = groups]]
    BY <1>4 DEF FormGroups
  <2>2. waiting' = waiting
    BY <1>4 DEF FormGroups
  <2>3. CASE groups = NoGroups
    <3>1. run'[r] = IdleRun
      BY <2>1, <2>3, <1>t DEF TypeOK
    <3> QED BY <1>t, <1>i, <3>1, IdleRunWaitsForNobody DEF SingleRunInv, SingleRun
  <2>4. CASE groups # NoGroups
    <3>1. /\ run'[r].pc = "publish"
          /\ run'[r].seen = run[r].seen
          /\ run'[r].groups = groups
      BY <2>1, <2>4, <1>s, <1>t DEF TypeOK, RunState
    <3>2. \A c \in Categories : groups[c] \subseteq Waiting(run[r].seen[c])
      BY <2>1 DEF EvenPrefixes
    <3> QED BY <1>t, <2>2, <3>1, <3>2 DEF SingleRunInv, SingleRun
  <2> QED BY <2>3, <2>4
<1>5. ASSUME NEW r \in Runs, Publish(r)
      PROVE  SingleRunInv'
  <2>1. run'[r] = [IdleRun EXCEPT !.pc = "remove", !.groups = run[r].groups]
    BY <1>5, <1>t DEF Publish, TypeOK
  <2>2. /\ run'[r].pc = "remove" /\ run'[r].seen = IdleRun.seen
        /\ run'[r].groups = run[r].groups
    BY <2>1 DEF IdleRun
  <2>3. waiting' = waiting
    BY <1>5 DEF Publish
  <2> QED BY <1>t, <2>2, <2>3, IdleRunWaitsForNobody DEF SingleRunInv, SingleRun
<1>6. ASSUME NEW r \in Runs, NEW c \in Categories, NEW u \in Users,
             RemoveWaitingMember(r, c, u)
      PROVE  SingleRunInv'
  <2> DEFINE left == [run[r].groups EXCEPT ![c] = @ \ {u}]
  <2>1. CASE run'[r] = IdleRun
    BY <1>t, <1>i, <2>1, IdleRunWaitsForNobody DEF SingleRunInv, SingleRun
  <2>2. CASE run'[r] = [run[r] EXCEPT !.groups = left]
    <3>1. /\ run'[r].pc = "remove" /\ run'[r].seen = IdleRun.seen
          /\ run'[r].groups = left
      <4>1. run[r].pc = "remove" /\ run[r].seen = IdleRun.seen
        BY <1>6 DEF RemoveWaitingMember, SingleRunInv
      <4> QED BY <2>2, <4>1, <1>s DEF RunState
    <3>2. run[r].groups \in [Categories -> SUBSET Users]
      BY <1>s DEF RunState
    <3>3. \A d \in Categories : left[d] \subseteq Waiting(waiting'[d])
      <4>1. \A d \in Categories : run[r].groups[d] \subseteq Waiting(waiting[d])
        BY DEF SingleRunInv
      <4>2. waiting' = [waiting EXCEPT ![c] = ZRem(waiting[c], u)] \/ waiting' = waiting
        BY <1>6 DEF RemoveWaitingMember
      <4>3. Waiting(waiting[c]) \ {u} \subseteq Waiting(ZRem(waiting[c], u))
        BY <1>t DEF Waiting, ZRem, TypeOK
      <4> QED BY <4>1, <4>2, <4>3, <3>2, <1>t DEF TypeOK
    <3> QED
      BY <1>t, <3>1, <3>3, IdleRunWaitsForNobody DEF SingleRunInv, SingleRun
  <2> QED BY <1>6, <1>t, <2>1, <2>2 DEF RemoveWaitingMember, TypeOK
<1>7. CASE Crash
  <2>1. \A q \in Runs : run'[q] = IdleRun
    BY <1>7 DEF Crash
  <2> QED BY <1>t, <1>i, <2>1, IdleRunWaitsForNobody DEF SingleRunInv
<1>8. CASE Tick
  BY <1>8, <1>t DEF Tick, SingleRunInv
<1>9. CASE UNCHANGED vars
  BY <1>9, <1>t DEF vars, SingleRunInv
<1> QED
  BY <1>1, <1>2, <1>3, <1>4, <1>5, <1>6, <1>7, <1>8, <1>9 DEF Next, RunStep

-----------------------------------------------------------------------------
(***************************************************************************)
(* With any number of runs: whoever a run has read or grouped either waits *)
(* or has been published before, and whoever is being removed has been.    *)
(***************************************************************************)
OverlapInv ==
  /\ TypeOK
  /\ \A r \in Runs, c \in Categories :
       /\ Waiting(run[r].seen[c]) \subseteq Waiting(waiting[c]) \cup gone[c]
       /\ run[r].groups[c] \subseteq Waiting(waiting[c]) \cup gone[c]
       /\ run[r].pc = "remove" => run[r].groups[c] \subseteq gone[c]

LEMMA OverlapInit == Init => OverlapInv
<1> SUFFICES ASSUME Init PROVE OverlapInv
  OBVIOUS
<1>1. \A r \in Runs : run[r] = IdleRun
  BY DEF Init
<1>2. IdleRun.pc = "idle"
  BY DEF IdleRun
<1> QED BY <1>1, <1>2, TypeInit, IdleRunWaitsForNobody DEF OverlapInv

LEMMA OverlapNext == OverlapInv /\ [Next]_vars => OverlapInv'
<1> SUFFICES ASSUME OverlapInv, [Next]_vars PROVE OverlapInv'
  OBVIOUS
<1>t. TypeOK /\ TypeOK'
  BY TypeNext DEF OverlapInv
<1>s. \A q \in Runs : run[q] \in RunState /\ run'[q] \in RunState
  BY <1>t DEF TypeOK
<1>i. IdleRun.pc = "idle"
  BY DEF IdleRun
(* A step that keeps, or idles, what the runs hold. *)
<1>k. ASSUME NEW r \in Runs, NEW c \in Categories,
             Waiting(waiting[c]) \cup gone[c] \subseteq Waiting(waiting'[c]) \cup gone'[c],
             gone[c] \subseteq gone'[c],
             \/ run'[r] = IdleRun
             \/ /\ run'[r].seen[c] = run[r].seen[c]
                /\ run'[r].groups[c] \subseteq run[r].groups[c]
                /\ run'[r].pc = "remove" => run[r].pc = "remove"
      PROVE  /\ Waiting(run'[r].seen[c]) \subseteq Waiting(waiting'[c]) \cup gone'[c]
             /\ run'[r].groups[c] \subseteq Waiting(waiting'[c]) \cup gone'[c]
             /\ run'[r].pc = "remove" => run'[r].groups[c] \subseteq gone'[c]
  BY <1>k, <1>i, IdleRunWaitsForNobody DEF OverlapInv
<1>1. ASSUME NEW u \in Users, NEW c \in Categories, AddToWaitingList(u, c)
      PROVE  OverlapInv'
  <2>1. \A d \in Categories : Waiting(waiting[d]) \subseteq Waiting(waiting'[d])
    BY <1>1, <1>t DEF AddToWaitingList, ZAdd, Waiting, NotWaiting, TypeOK
  <2>2. run' = run /\ gone' = gone
    BY <1>1 DEF AddToWaitingList
  <2> QED BY <1>t, <2>1, <2>2 DEF OverlapInv
<1>2. ASSUME NEW r \in Runs, StartRun(r)
      PROVE  OverlapInv'
  <2>1. waiting' = waiting /\ gone' = gone
    BY <1>2 DEF StartRun
  <2>2. \A q \in Runs : /\ run'[q].seen = run[q].seen
                        /\ run'[q].groups = run[q].groups
                        /\ run'[q].pc = "remove" => run[q].pc = "remove"
    BY <1>2, <1>s, <1>t DEF StartRun, TypeOK, RunState
  <2> QED BY <1>t, <2>1, <2>2 DEF OverlapInv
<1>3. ASSUME NEW r \in Runs, GetWaitingListByCategory(r)
      PROVE  OverlapInv'
  <2> DEFINE c == GetCategories[run[r].next]
  <2>1. /\ c \in Categories /\ waiting' = waiting /\ gone' = gone
        /\ run[r].pc = "read"
    BY <1>3, NextCategory DEF GetWaitingListByCategory
  <2>2. /\ run'[r].pc = "read"
        /\ run'[r].groups = run[r].groups
        /\ \/ run'[r].seen = run[r].seen
           \/ run'[r].seen = [run[r].seen EXCEPT ![c] = InWindow(waiting[c], now - Window)]
    <3>1. CASE run' = [run EXCEPT ![r].next = @ + 1,
                         ![r].seen[c] = InWindow(waiting[c], now - Window),
                         ![r].since[c] = now - Window]
      BY <3>1, <2>1, <1>s, <1>t DEF TypeOK, RunState
    <3>2. CASE run' = [run EXCEPT ![r].next = @ + 1]
      BY <3>2, <2>1, <1>s, <1>t DEF TypeOK, RunState
    <3> QED BY <1>3, <3>1, <3>2 DEF GetWaitingListByCategory
  <2>3. Waiting(InWindow(waiting[c], now - Window)) \subseteq Waiting(waiting[c])
    BY DEF InWindow, Waiting
  <2>4. \A d \in Categories :
          Waiting(run'[r].seen[d]) \subseteq Waiting(waiting'[d]) \cup gone'[d]
    <3>1. run[r].seen \in [Categories -> [Users -> Nat]]
      BY <1>s DEF RunState
    <3> QED BY <2>1, <2>2, <2>3, <3>1 DEF OverlapInv
  <2>5. \A q \in Runs \ {r} : run'[q] = run[q]
    BY <1>3, <1>t DEF GetWaitingListByCategory, TypeOK
  <2> QED BY <1>t, <2>1, <2>2, <2>4, <2>5 DEF OverlapInv
<1>4. ASSUME NEW r \in Runs, FormGroups(r)
      PROVE  OverlapInv'
  <2>1. PICK groups \in [Categories -> SUBSET Users] :
          /\ \A c \in Categories : groups[c] \in EvenPrefixes(run[r].seen[c])
          /\ run' = [run EXCEPT ![r] =
                       IF groups = NoGroups
                       THEN IdleRun
                       ELSE [run[r] EXCEPT !.pc = "publish", !.groups = groups]]
    BY <1>4 DEF FormGroups
  <2>2. waiting' = waiting /\ gone' = gone
    BY <1>4 DEF FormGroups
  <2>3. \A q \in Runs \ {r} : run'[q] = run[q]
    BY <1>t, <2>1 DEF TypeOK
  <2>4. CASE groups = NoGroups
    <3>1. run'[r] = IdleRun
      BY <2>1, <2>4, <1>t DEF TypeOK
    <3> QED BY <1>t, <1>i, <2>2, <2>3, <3>1, IdleRunWaitsForNobody DEF OverlapInv
  <2>5. CASE groups # NoGroups
    <3>1. /\ run'[r].pc = "publish"
          /\ run'[r].seen = run[r].seen
          /\ run'[r].groups = groups
      BY <2>1, <2>5, <1>s, <1>t DEF TypeOK, RunState
    <3>2. \A c \in Categories : groups[c] \subseteq Waiting(run[r].seen[c])
      BY <2>1 DEF EvenPrefixes
    <3> QED BY <1>t, <2>2, <2>3, <3>1, <3>2 DEF OverlapInv
  <2> QED BY <2>4, <2>5
<1>5. ASSUME NEW r \in Runs, Publish(r)
      PROVE  OverlapInv'
  <2>1. run'[r] = [IdleRun EXCEPT !.pc = "remove", !.groups = run[r].groups]
    BY <1>5, <1>t DEF Publish, TypeOK
  <2>2. /\ run'[r].seen = IdleRun.seen
        /\ run'[r].groups = run[r].groups
    BY <2>1 DEF IdleRun
  <2>3. waiting' = waiting /\ \A q \in Runs \ {r} : run'[q] = run[q]
    BY <1>5, <1>t DEF Publish, TypeOK
  <2>4. \A c \in Categories : gone'[c] = gone[c] \cup run[r].groups[c]
    BY <1>5 DEF Publish
  <2> QED BY <1>t, <2>2, <2>3, <2>4, IdleRunWaitsForNobody DEF OverlapInv
<1>6. ASSUME NEW r \in Runs, NEW c \in Categories, NEW u \in Users,
             RemoveWaitingMember(r, c, u)
      PROVE  OverlapInv'
  <2> DEFINE left == [run[r].groups EXCEPT ![c] = @ \ {u}]
  <2>1. run[r].groups \in [Categories -> SUBSET Users] /\ gone' = gone
    BY <1>6, <1>s DEF RunState, RemoveWaitingMember
  <2>2. \A d \in Categories :
          Waiting(waiting[d]) \cup gone[d] \subseteq Waiting(waiting'[d]) \cup gone'[d]
    <3>1. u \in gone[c]
      BY <1>6 DEF OverlapInv, RemoveWaitingMember
    <3>2. waiting' = [waiting EXCEPT ![c] = ZRem(waiting[c], u)] \/ waiting' = waiting
      BY <1>6 DEF RemoveWaitingMember
    <3>3. Waiting(waiting[c]) \ {u} \subseteq Waiting(ZRem(waiting[c], u))
      BY <1>t DEF Waiting, ZRem, TypeOK
    <3> QED BY <1>t, <2>1, <3>1, <3>2, <3>3 DEF TypeOK
  <2>3. \A q \in Runs \ {r} : run'[q] = run[q]
    BY <1>6, <1>t DEF RemoveWaitingMember, TypeOK
  <2>4. \/ run'[r] = IdleRun
        \/ /\ run'[r].seen = run[r].seen /\ run'[r].groups = left
           /\ run[r].pc = "remove"
    <3>1. run'[r] = IdleRun \/ run'[r] = [run[r] EXCEPT !.groups = left]
      BY <1>6, <1>t DEF RemoveWaitingMember, TypeOK
    <3>2. run[r].pc = "remove"
      BY <1>6, <1>t, RemovalLists
    <3> QED BY <1>s, <3>1, <3>2 DEF RunState
  <2>5. \A d \in Categories : left[d] \subseteq run[r].groups[d]
    BY <2>1
  <2> QED BY <1>t, <1>k, <2>1, <2>2, <2>3, <2>4, <2>5 DEF OverlapInv
<1>7. CASE Crash
  <2>1. (\A q \in Runs : run'[q] = IdleRun) /\ waiting' = waiting /\ gone' = gone
    BY <1>7 DEF Crash
  <2> QED BY <1>t, <1>i, <2>1, IdleRunWaitsForNobody DEF OverlapInv
<1>8. CASE Tick \/ UNCHANGED vars
  BY <1>8, <1>t DEF Tick, vars, OverlapInv
<1> QED
  BY <1>1, <1>2, <1>3, <1>4, <1>5, <1>6, <1>7, <1>8 DEF Next, RunStep

-----------------------------------------------------------------------------
(***************************************************************************)
(* Refinement: the read / publish / remove sequence of every run, however  *)
(* many overlap, takes its groups out of the pool in one step.             *)
(***************************************************************************)
LEMMA PublishNeverFails ==
  ASSUME PublishWorks, TypeOK
  PROVE  ~ Strike("publish")
BY MatchMakingAssumption DEF PublishWorks, TypeOK, Strike, FaultKinds

LEMMA RefinementInit == Init => Pool!PoolInit
<1> SUFFICES ASSUME Init PROVE Pool!PoolInit
  OBVIOUS
<1>1. \A c \in Categories : Waiting(waiting[c]) \ BeingRemoved(c) = {}
  BY DEF Init, Waiting, NobodyWaiting
<1> QED BY <1>1 DEF Pool!PoolInit, Init, NoGroups

(* Whoever is being removed has left the pool before. *)
LEMMA RemovedAreGone ==
  ASSUME OverlapInv, NEW c \in Categories
  PROVE  BeingRemoved(c) \subseteq gone[c]
BY DEF OverlapInv, BeingRemoved

(* What a publishing run holds can leave the pool. *)
LEMMA PublishedLeave ==
  ASSUME MatchInv, OverlapInv, SingleRun => SingleRunInv, [Next]_vars,
         NEW r \in Runs, Publish(r)
  PROVE  Pool!LeavePool(run[r].groups)
<1> DEFINE groups == run[r].groups
           pool == [c \in Categories |-> Waiting(waiting[c]) \ BeingRemoved(c)]
<1>t. TypeOK /\ TypeOK'
  BY TypeNext DEF OverlapInv
<1>1. waiting' = waiting /\ run[r].pc = "publish"
  BY DEF Publish
<1>2. run'[r].pc = "remove" /\ run'[r].groups = groups
  BY <1>t DEF Publish, TypeOK, IdleRun
<1>3. \A q \in Runs \ {r} : run'[q] = run[q]
  BY <1>t DEF Publish, TypeOK
<1>4. groups \in [Categories -> SUBSET Users]
  BY <1>t DEF TypeOK, RunState
<1>5. \A c \in Categories : BeingRemoved(c)' = BeingRemoved(c) \cup groups[c]
  BY <1>1, <1>2, <1>3 DEF BeingRemoved
<1>6. pool' = [c \in Categories |-> pool[c] \ groups[c]]
  BY <1>1, <1>5
<1>7. gone' = [c \in Categories |-> gone[c] \cup groups[c]]
  BY DEF Publish
<1>8. \E c \in Categories : groups[c] # {}
  BY <1>1, <1>4 DEF MatchInv, GroupsFromSnapshot, NoGroups
<1>9. ASSUME NEW c \in Categories
      PROVE  /\ groups[c] \in {G \in SUBSET Users : Cardinality(G) % 2 = 0}
             /\ groups[c] \ pool[c] \subseteq (IF ~SingleRun THEN gone[c] ELSE {})
  <2>1. run[r].seen[c] \in [Users -> Nat]
    BY <1>t DEF TypeOK, RunState
  <2>2. Cardinality(groups[c]) % 2 = 0
    BY <1>1, <2>1, EvenPrefixesAreEven DEF MatchInv, GroupsFromSnapshot
  <2>3. groups[c] \ pool[c] \subseteq gone[c]
    BY RemovedAreGone DEF OverlapInv
  <2>4. CASE SingleRun
    <3>1. BeingRemoved(c) = {}
      BY <1>1, <2>4 DEF SingleRun, BeingRemoved
    <3>2. groups[c] \subseteq Waiting(waiting[c])
      BY <2>4 DEF SingleRunInv
    <3> QED BY <1>4, <2>2, <2>4, <3>1, <3>2
  <2>5. CASE ~SingleRun
    BY <1>4, <2>2, <2>3, <2>5
  <2> QED BY <2>4, <2>5
<1> HIDE DEF groups, pool
<1>10. /\ \E c \in Categories : groups[c] # {}
       /\ \A c \in Categories :
            /\ groups[c] \in {G \in SUBSET Users : Cardinality(G) % 2 = 0}
            /\ groups[c] \ pool[c] \subseteq (IF ~SingleRun THEN gone[c] ELSE {})
       /\ pool' = [c \in Categories |-> pool[c] \ groups[c]]
       /\ gone' = [c \in Categories |-> gone[c] \cup groups[c]]
  BY <1>6, <1>7, <1>8, <1>9, Zenon
<1> QED BY <1>10 DEF Pool!LeavePool, pool, groups

LEMMA RefinementNext ==
  ASSUME MatchInv, OverlapInv, SingleRun => SingleRunInv, [Next]_vars
  PROVE  [Pool!PoolNext]_Pool!poolVars
<1> DEFINE pool == [c \in Categories |-> Waiting(waiting[c]) \ BeingRemoved(c)]
<1>a. pool' = pool /\ topic' = topic /\ gone' = gone => UNCHANGED Pool!poolVars
  BY DEF Pool!poolVars
<1>b. ASSUME \A c \in Categories : pool[c] \subseteq pool'[c],
             topic' = topic, gone' = gone
      PROVE  Pool!PoolNext
  <2> DEFINE players == [c \in Categories |-> pool'[c]]
  <2>1. players \in [Categories -> SUBSET Users]
    BY DEF Waiting
  <2>2. pool' = [c \in Categories |-> pool[c] \cup players[c]]
    BY <1>b
  <2>3. Pool!EnterPool(players)
    BY <1>b, <2>2 DEF Pool!EnterPool
  <2> QED BY <2>1, <2>3 DEF Pool!PoolNext
<1>t. TypeOK /\ TypeOK'
  BY TypeNext DEF OverlapInv
<1>s. \A q \in Runs : run[q] \in RunState /\ run'[q] \in RunState
  BY <1>t DEF TypeOK
<1>1. ASSUME NEW u \in Users, NEW c \in Categories, AddToWaitingList(u, c)
      PROVE  /\ topic' = topic /\ gone' = gone
             /\ \A d \in Categories : pool[d] \subseteq pool'[d]
  <2>1. /\ Waiting(waiting'[c]) = Waiting(waiting[c]) \cup {u}
        /\ \A d \in Categories : d # c => waiting'[d] = waiting[d]
    BY <1>1, <1>t DEF AddToWaitingList, ZAdd, Waiting, NotWaiting, TypeOK
  <2>2. \A d \in Categories : BeingRemoved(d)' = BeingRemoved(d)
    BY <1>1 DEF AddToWaitingList, BeingRemoved
  <2>3. topic' = topic /\ gone' = gone
    BY <1>1 DEF AddToWaitingList
  <2> QED BY <2>1, <2>2, <2>3
<1>2. ASSUME NEW r \in Runs, StartRun(r) \/ GetWaitingListByCategory(r) \/ FormGroups(r)
      PROVE  pool' = pool /\ topic' = topic /\ gone' = gone
  <2>1. waiting' = waiting /\ topic' = topic /\ gone' = gone
    BY <1>2 DEF StartRun, GetWaitingListByCategory, FormGroups
  <2>2. run[r].pc # "remove"
    BY <1>2 DEF StartRun, GetWaitingListByCategory, FormGroups
  <2>3. run'[r].pc # "remove"
    <3>1. CASE StartRun(r)
      BY <3>1, <1>s, <1>t DEF StartRun, TypeOK, RunState
    <3>2. CASE GetWaitingListByCategory(r)
      BY <3>2, <1>s, <1>t DEF GetWaitingListByCategory, TypeOK, RunState
    <3>3. CASE FormGroups(r)
      <4>1. PICK groups \in [Categories -> SUBSET Users] :
              run'[r] = IF groups = NoGroups
                        THEN IdleRun
                        ELSE [run[r] EXCEPT !.pc = "publish", !.groups = groups]
        BY <3>3, <1>t DEF FormGroups, TypeOK
      <4>2. IdleRun.pc # "remove"
        BY DEF IdleRun
      <4>3. [run[r] EXCEPT !.pc = "publish", !.groups = groups].pc = "publish"
        BY <1>s DEF RunState
      <4> QED BY <4>1, <4>2, <4>3
    <3> QED BY <1>2, <3>1, <3>2, <3>3
  <2>4. \A q \in Runs \ {r} : run'[q] = run[q]
    BY <1>2, <1>t DEF StartRun, GetWaitingListByCategory, FormGroups, TypeOK
  <2>5. \A c \in Categories : BeingRemoved(c)' = BeingRemoved(c)
    BY <2>2, <2>3, <2>4 DEF BeingRemoved
  <2> QED BY <2>1, <2>5
<1>3. ASSUME NEW r \in Runs, Publish(r)
      PROVE  Pool!PoolNext
  <2>1. Pool!LeavePool(run[r].groups)
    BY <1>3, PublishedLeave
  <2>2. run[r].groups \in [Categories -> SUBSET Users]
    BY <1>s DEF RunState
  <2>3. topic' = run[r].groups \/ (topic' = topic /\ Strike("publish"))
    BY <1>3 DEF Publish
  <2>4. CASE topic' = run[r].groups
    BY <2>1, <2>2, <2>4 DEF Pool!PoolNext, Pool!MatchGroups
  <2>5. CASE topic' = topic /\ Strike("publish")
    <3>1. ~PublishWorks
      BY <1>t, <2>5, PublishNeverFails
    <3> QED BY <2>1, <2>2, <2>5, <3>1 DEF Pool!PoolNext, Pool!LoseGroups
  <2> QED BY <2>3, <2>4, <2>5
<1>4. ASSUME NEW r \in Runs, NEW c \in Categories, NEW u \in Users,
             RemoveWaitingMember(r, c, u)
      PROVE  /\ topic' = topic /\ gone' = gone
             /\ \A d \in Categories : pool[d] \subseteq pool'[d]
  <2> DEFINE left == [run[r].groups EXCEPT ![c] = @ \ {u}]
  <2>1. /\ \/ waiting' = [waiting EXCEPT ![c] = ZRem(waiting[c], u)]
           \/ waiting' = waiting
        /\ topic' = topic /\ gone' = gone
        /\ run[r].pc = "remove" /\ u \in run[r].groups[c]
    BY <1>4 DEF RemoveWaitingMember
  <2>2. run[r].groups \in [Categories -> SUBSET Users]
    BY <1>s DEF RunState
  <2>3. \A q \in Runs \ {r} : run'[q] = run[q]
    BY <1>4, <1>t DEF RemoveWaitingMember, TypeOK
  <2>4. run'[r].pc = "remove" =>
          \A d \in Categories : run'[r].groups[d] \subseteq run[r].groups[d]
    <3>1. run'[r] = IdleRun \/ run'[r] = [run[r] EXCEPT !.groups = left]
      BY <1>4, <1>t DEF RemoveWaitingMember, TypeOK
    <3>2. IdleRun.pc # "remove"
      BY DEF IdleRun
    <3>3. [run[r] EXCEPT !.groups = left].groups = left
      BY <1>s DEF RunState
    <3>4. \A d \in Categories : left[d] \subseteq run[r].groups[d]
      BY <2>2
    <3> QED BY <3>1, <3>2, <3>3, <3>4
  <2>5. \A d \in Categories : BeingRemoved(d)' \subseteq BeingRemoved(d)
    BY <2>1, <2>3, <2>4 DEF BeingRemoved
  <2>6. \A d \in Categories :
          Waiting(waiting[d]) \ BeingRemoved(d) \subseteq Waiting(waiting'[d])
    <3>1. u \in BeingRemoved(c)
      BY <2>1 DEF BeingRemoved
    <3>2. Waiting(ZRem(waiting[c], u)) = Waiting(waiting[c]) \ {u}
      BY <1>t DEF Waiting, ZRem, TypeOK
    <3> QED BY <1>t, <2>1, <3>1, <3>2 DEF TypeOK
  <2> QED BY <2>1, <2>5, <2>6
<1>5. ASSUME Crash
      PROVE  /\ topic' = topic /\ gone' = gone
             /\ \A d \in Categories : pool[d] \subseteq pool'[d]
  <2>1. /\ waiting' = waiting /\ topic' = topic /\ gone' = gone
        /\ \A q \in Runs : run'[q] = IdleRun
    BY <1>5 DEF Crash
  <2>2. \A d \in Categories : BeingRemoved(d)' = {}
    BY <2>1 DEF BeingRemoved, IdleRun
  <2> QED BY <2>1, <2>2
<1>6. ASSUME Tick \/ UNCHANGED vars
      PROVE  pool' = pool /\ topic' = topic /\ gone' = gone
  BY <1>6 DEF Tick, vars, BeingRemoved, Waiting
<1> HIDE DEF pool
<1>7. CASE pool' = pool /\ topic' = topic /\ gone' = gone
  BY <1>7, <1>a
<1>8. CASE /\ topic' = topic /\ gone' = gone
           /\ \A d \in Categories : pool[d] \subseteq pool'[d]
  BY <1>8, <1>b
<1> QED
  BY <1>1, <1>2, <1>3, <1>4, <1>5, <1>6, <1>7, <1>8 DEF Next, RunStep

(***************************************************************************)
(* MatchMaking implements MatchPool, whatever the producer, reads, removals*)
(* or the process do: the strict pool where runs cannot overlap and the    *)
(* producer does not fail, and exactly as much weaker a pool where they do.*)
(***************************************************************************)
THEOREM Refinement == Spec => ImplementsMatchPool
<1> DEFINE RefInv == MatchInv /\ OverlapInv /\ (SingleRun => SingleRunInv)
<1>1. Init => RefInv
  BY MatchInvInit, OverlapInit, SingleRunInit
<1>2. RefInv /\ [Next]_vars => RefInv'
  <2>1. SingleRun' <=> SingleRun
    BY DEF SingleRun
  <2> QED BY <2>1, MatchInvNext, OverlapNext, SingleRunNext
<1>3. RefInv /\ [Next]_vars => [Pool!PoolNext]_Pool!poolVars
  BY RefinementNext
<1> QED
  BY <1>1, <1>2, <1>3, RefinementInit, PTL DEF Spec, ImplementsMatchPool, Pool!PoolSpec

-----------------------------------------------------------------------------
(***************************************************************************)
(* Whoever a run is still removing, and who waits, was named in a stored   *)
(* message during this stay, or is one of the two exceptions.              *)
(***************************************************************************)
RemovedWereNamed ==
  \A r \in Runs : run[r].pc = "remove" =>
    \A c \in Categories : \A u \in run[r].groups[c] :
      waiting[c][u] # NotWaiting => served[c][u] > 0 \/ u \in lapsed[c]

(* Only a removal takes a player out of a list, the one it names. *)
LEMMA OnlyRemovalsShrink ==
  ASSUME TypeOK, NEW c \in Categories, NEW u \in Users, [Next]_vars,
         waiting[c][u] # NotWaiting, waiting'[c][u] = NotWaiting
  PROVE  \E r \in Runs : run[r].pc = "remove" /\ u \in run[r].groups[c]
<1>1. ASSUME NEW v \in Users, NEW d \in Categories, AddToWaitingList(v, d)
      PROVE  FALSE
  BY <1>1 DEF AddToWaitingList, ZAdd, NotWaiting, TypeOK
<1>2. ASSUME NEW r \in Runs, NEW d \in Categories, NEW v \in Users,
             RemoveWaitingMember(r, d, v)
      PROVE  run[r].pc = "remove" /\ u \in run[r].groups[c]
  BY <1>2, RemovalLists
<1>3. waiting' # waiting
  OBVIOUS
<1> QED
  BY <1>1, <1>2, <1>3
  DEF Next, RunStep, StartRun, GetWaitingListByCategory, FormGroups, Publish, Crash, Tick, vars

LEMMA RemovedWereNamedNext ==
  ASSUME TypeOK, RemovedWereNamed, [Next]_vars
  PROVE  RemovedWereNamed'
<1>t. TypeOK /\ TypeOK'
  BY TypeNext
<1>s. \A q \in Runs : run[q] \in RunState /\ run'[q] \in RunState
  BY <1>t DEF TypeOK
<1>1. ASSUME NEW v \in Users, NEW d \in Categories, AddToWaitingList(v, d)
      PROVE  RemovedWereNamed'
  <2> SUFFICES ASSUME NEW r \in Runs, run'[r].pc = "remove",
                      NEW c \in Categories, NEW u \in run'[r].groups[c],
                      waiting'[c][u] # NotWaiting
               PROVE  served'[c][u] > 0 \/ u \in lapsed'[c]
    BY DEF RemovedWereNamed
  <2>1. run' = run /\ u \in Users
    BY <1>1, <1>s DEF AddToWaitingList, RunState
  <2>2. u \in BeingRemoved(c)
    BY <2>1 DEF BeingRemoved
  <2>3. CASE waiting[c][u] # NotWaiting
    <3>1. served'[c][u] = served[c][u] /\ lapsed[c] \subseteq lapsed'[c]
      BY <1>1, <1>t, <2>1, <2>3 DEF AddToWaitingList, TypeOK
    <3> QED BY <2>1, <2>3, <3>1 DEF RemovedWereNamed
  <2>4. CASE waiting[c][u] = NotWaiting
    <3>1. v = u /\ d = c
      BY <1>1, <1>t, <2>1, <2>4 DEF AddToWaitingList, ZAdd, TypeOK
    <3> QED BY <1>1, <1>t, <2>2, <2>4, <3>1 DEF AddToWaitingList, TypeOK
  <2> QED BY <2>3, <2>4
<1>2. ASSUME NEW r \in Runs, StartRun(r) \/ GetWaitingListByCategory(r) \/ FormGroups(r)
      PROVE  RemovedWereNamed'
  <2>1. served' = served /\ waiting' = waiting /\ lapsed' = lapsed
    BY <1>2 DEF StartRun, GetWaitingListByCategory, FormGroups
  <2>2. run'[r].pc # "remove"
    <3>1. CASE StartRun(r)
      BY <3>1, <1>s, <1>t DEF StartRun, TypeOK, RunState
    <3>2. CASE GetWaitingListByCategory(r)
      BY <3>2, <1>s, <1>t DEF GetWaitingListByCategory, TypeOK, RunState
    <3>3. CASE FormGroups(r)
      <4>1. PICK groups \in [Categories -> SUBSET Users] :
              run'[r] = IF groups = NoGroups
                        THEN IdleRun
                        ELSE [run[r] EXCEPT !.pc = "publish", !.groups = groups]
        BY <3>3, <1>t DEF FormGroups, TypeOK
      <4>2. /\ IdleRun.pc # "remove"
            /\ [run[r] EXCEPT !.pc = "publish", !.groups = groups].pc = "publish"
        BY <1>s DEF IdleRun, RunState
      <4> QED BY <4>1, <4>2
    <3> QED BY <1>2, <3>1, <3>2, <3>3
  <2>3. \A q \in Runs \ {r} : run'[q] = run[q]
    BY <1>2, <1>t DEF StartRun, GetWaitingListByCategory, FormGroups, TypeOK
  <2> QED BY <2>1, <2>2, <2>3 DEF RemovedWereNamed
<1>3. ASSUME NEW r \in Runs, Publish(r)
      PROVE  RemovedWereNamed'
  <2>1. waiting' = waiting /\ \A q \in Runs \ {r} : run'[q] = run[q]
    BY <1>3, <1>t DEF Publish, TypeOK
  <2>2. run'[r].groups = run[r].groups /\ run[r].groups \in [Categories -> SUBSET Users]
    BY <1>3, <1>t, <1>s DEF Publish, TypeOK, IdleRun, RunState
  <2>3. \A c \in Categories, u \in Users : served[c][u] \in Nat
    BY <1>t DEF TypeOK
  <2>4. \/ /\ served' = [c \in Categories |->
                           [u \in Users |->
                              IF u \in run[r].groups[c] THEN served[c][u] + 1 ELSE served[c][u]]]
           /\ lapsed' = lapsed
        \/ /\ lapsed' = [c \in Categories |->
                           lapsed[c] \cup (run[r].groups[c] \cap Waiting(waiting[c]))]
           /\ served' = served
    BY <1>3 DEF Publish
  <2>5. ASSUME NEW c \in Categories, NEW u \in Users, waiting'[c][u] # NotWaiting,
               \/ u \in run[r].groups[c]
               \/ served[c][u] > 0 \/ u \in lapsed[c]
        PROVE  served'[c][u] > 0 \/ u \in lapsed'[c]
    <3>1. CASE /\ served' = [c_1 \in Categories |->
                               [u_1 \in Users |->
                                  IF u_1 \in run[r].groups[c_1]
                                  THEN served[c_1][u_1] + 1 ELSE served[c_1][u_1]]]
               /\ lapsed' = lapsed
      BY <2>3, <2>5, <3>1
    <3>2. CASE /\ lapsed' = [c_1 \in Categories |->
                   lapsed[c_1] \cup (run[r].groups[c_1] \cap Waiting(waiting[c_1]))]
               /\ served' = served
      BY <2>1, <2>5, <3>2 DEF Waiting
    <3> QED BY <2>4, <3>1, <3>2
  <2>6. \A q \in Runs, c \in Categories : run[q].groups[c] \subseteq Users
    BY <1>s DEF RunState
  <2>7. ASSUME NEW q \in Runs, run'[q].pc = "remove",
               NEW c \in Categories, NEW u \in run'[q].groups[c],
               waiting'[c][u] # NotWaiting
        PROVE  served'[c][u] > 0 \/ u \in lapsed'[c]
    <3>1. CASE q = r
      BY <2>2, <2>5, <2>6, <2>7, <3>1
    <3>2. CASE q # r
      BY <2>1, <2>5, <2>6, <2>7, <3>2 DEF RemovedWereNamed
    <3> QED BY <3>1, <3>2
  <2> QED BY <2>7 DEF RemovedWereNamed
<1>4. ASSUME NEW r \in Runs, NEW d \in Categories, NEW v \in Users,
             RemoveWaitingMember(r, d, v)
      PROVE  RemovedWereNamed'
  <2> DEFINE left == [run[r].groups EXCEPT ![d] = @ \ {v}]
  <2>1. served' = served /\ run[r].pc = "remove"
    BY <1>4 DEF RemoveWaitingMember
  <2>2. \A q \in Runs \ {r} : run'[q] = run[q]
    BY <1>4, <1>t DEF RemoveWaitingMember, TypeOK
  <2>3. run'[r].pc = "remove" =>
          \A c \in Categories : run'[r].groups[c] \subseteq run[r].groups[c]
    <3>1. run'[r] = IdleRun \/ run'[r] = [run[r] EXCEPT !.groups = left]
      BY <1>4, <1>t DEF RemoveWaitingMember, TypeOK
    <3>2. IdleRun.pc # "remove"
      BY DEF IdleRun
    <3>3. [run[r] EXCEPT !.groups = left].groups = left
      BY <1>s DEF RunState
    <3>4. \A c \in Categories : left[c] \subseteq run[r].groups[c]
      BY <1>s DEF RunState
    <3> QED BY <3>1, <3>2, <3>3, <3>4
  <2>4. ASSUME NEW c \in Categories, NEW u \in Users, waiting'[c][u] # NotWaiting
        PROVE  /\ waiting[c][u] # NotWaiting
               /\ u \in lapsed[c] => u \in lapsed'[c]
    BY <1>4, <1>t, <2>4 DEF RemoveWaitingMember, ZRem, TypeOK
  <2>5. \A q \in Runs, c \in Categories : run[q].groups[c] \subseteq Users
    BY <1>s DEF RunState
  <2>6. \A q \in Runs : run'[q].pc = "remove" =>
          /\ run[q].pc = "remove"
          /\ \A c \in Categories : run'[q].groups[c] \subseteq run[q].groups[c]
    BY <2>1, <2>2, <2>3
  <2> QED BY <2>1, <2>4, <2>5, <2>6 DEF RemovedWereNamed
<1>5. CASE Crash
  BY <1>5 DEF Crash, RemovedWereNamed, IdleRun
<1>6. CASE Tick \/ UNCHANGED vars
  BY <1>6 DEF Tick, vars, RemovedWereNamed
<1> QED
  BY <1>1, <1>2, <1>3, <1>4, <1>5, <1>6 DEF Next, RunStep

(***************************************************************************)
(* However many runs overlap and whatever fails, a player leaves a list    *)
(* without a match of the stay only after a lost message, or after joining *)
(* while a run was still removing them.                                    *)
(***************************************************************************)
THEOREM NoSilentRemovalCorrect == Spec => NoSilentRemoval
<1>1. Init => RemovedWereNamed
  BY DEF Init, RemovedWereNamed, IdleRun
<1>2. TypeOK /\ RemovedWereNamed /\ [Next]_vars => RemovedWereNamed'
  BY RemovedWereNamedNext
<1>3. TypeOK /\ RemovedWereNamed /\ [Next]_vars
        => [\A c \in Categories, u \in Users : LeftUnmatched(c, u) => u \in lapsed[c]]_vars
  <2> SUFFICES ASSUME TypeOK, RemovedWereNamed, [Next]_vars,
                      NEW c \in Categories, NEW u \in Users, LeftUnmatched(c, u)
               PROVE  u \in lapsed[c]
    OBVIOUS
  <2>1. PICK r \in Runs : run[r].pc = "remove" /\ u \in run[r].groups[c]
    BY OnlyRemovalsShrink DEF LeftUnmatched
  <2> QED BY <2>1 DEF LeftUnmatched, RemovedWereNamed
<1> QED
  BY <1>1, <1>2, <1>3, TypeInit, TypeNext, PTL DEF Spec, NoSilentRemoval

-----------------------------------------------------------------------------
(***************************************************************************)
(* Charging the matches of a stay.  While a player waits, every match of   *)
(* the stay is charged to a run that has still to remove the player, or to *)
(* a crash or a failed removal.  The removal of another run may end the    *)
(* stay; from then on only runs that have read the list before can name    *)
(* the player once more.                                                   *)
(***************************************************************************)
Holding(c, u) == {r \in Runs : run[r].pc = "remove" /\ u \in run[r].groups[c]}

MayName(c, u) ==
  {r \in Runs : \/ run[r].pc \in {"idle", "read"} /\ run[r].seen[c][u] # NotWaiting
                \/ run[r].pc = "publish" /\ u \in run[r].groups[c]}

Spent == Cardinality(Runs) * faults["crash"] + faults["remove"]

Charged(c, u) ==
  IF waiting[c][u] # NotWaiting
  THEN served[c][u] <= Cardinality(Holding(c, u)) + Spent
  ELSE served[c][u] + Cardinality(MayName(c, u)) <= Cardinality(Runs) + Spent

ChargeInv == TypeOK /\ \A c \in Categories, u \in Users : Charged(c, u)

(* A run that holds a player is none that may still name the player. *)
LEMMA ChargesFit ==
  ASSUME IsFiniteSet(Runs), NEW c \in Categories, NEW u \in Users
  PROVE  /\ IsFiniteSet(Holding(c, u)) /\ IsFiniteSet(MayName(c, u))
         /\ Cardinality(Runs) \in Nat
         /\ Cardinality(Holding(c, u)) \in Nat /\ Cardinality(MayName(c, u)) \in Nat
         /\ Cardinality(Holding(c, u)) + Cardinality(MayName(c, u)) <= Cardinality(Runs)
<1> DEFINE H == Holding(c, u)
           M == MayName(c, u)
<1>1. H \subseteq Runs /\ M \subseteq Runs /\ H \cap M = {}
  BY DEF Holding, MayName
<1> HIDE DEF H, M
<1>2. IsFiniteSet(H) /\ IsFiniteSet(M)
  BY <1>1, FS_Subset
<1>3. Cardinality(H \cup M) = Cardinality(H) + Cardinality(M) - Cardinality(H \cap M)
  BY <1>2, FS_Union
<1>4. Cardinality(H \cap M) = 0
  BY <1>1, FS_EmptySet
<1>5. Cardinality(H \cup M) <= Cardinality(Runs)
  BY <1>1, FS_Subset
<1>6. Cardinality(H) \in Nat /\ Cardinality(M) \in Nat /\ Cardinality(Runs) \in Nat
  BY <1>2, FS_CardinalityType
<1> QED BY <1>2, <1>3, <1>4, <1>5, <1>6 DEF H, M

(* Multiplication stays out of the other steps. *)
LEMMA SpentGrows ==
  ASSUME NEW n \in Nat, NEW m \in Nat
  PROVE  n * m \in Nat /\ n * (m + 1) = n * m + n
OBVIOUS

LEMMA SpentNext ==
  ASSUME IsFiniteSet(Runs), TypeOK, [Next]_vars
  PROVE  /\ Spent \in Nat /\ Spent' \in Nat /\ Spent <= Spent'
         /\ Strike("crash") => Spent' = Spent + Cardinality(Runs)
         /\ Strike("remove") => Spent' = Spent + 1
<1> DEFINE n == Cardinality(Runs)
<1>1. n \in Nat
  BY FS_CardinalityType
<1>2. /\ faults["crash"] \in Nat /\ faults["remove"] \in Nat
      /\ faults \in [FaultKinds -> Nat]
  BY DEF TypeOK, FaultKinds
<1>3. UNCHANGED faults \/ \E k \in FaultKinds : Strike(k)
  BY DEF Next, RunStep, vars, AddToWaitingList, StartRun, GetWaitingListByCategory,
         FormGroups, Publish, RemoveWaitingMember, Crash, Tick, FaultKinds
<1>4. /\ n * faults["crash"] \in Nat
      /\ n * (faults["crash"] + 1) = n * faults["crash"] + n
  BY <1>1, <1>2, SpentGrows
<1>5. ASSUME NEW k \in FaultKinds, Strike(k)
      PROVE  /\ k = "crash" => /\ faults'["crash"] = faults["crash"] + 1
                               /\ faults'["remove"] = faults["remove"]
             /\ k = "remove" => /\ faults'["crash"] = faults["crash"]
                                /\ faults'["remove"] = faults["remove"] + 1
             /\ k \notin {"crash", "remove"} => /\ faults'["crash"] = faults["crash"]
                                                /\ faults'["remove"] = faults["remove"]
  BY <1>2, <1>5 DEF Strike, FaultKinds
<1>6. Strike("crash") => Spent' = n * (faults["crash"] + 1) + faults["remove"]
  BY <1>5 DEF Spent, FaultKinds
<1>7. Strike("remove") => Spent' = n * faults["crash"] + (faults["remove"] + 1)
  BY <1>5 DEF Spent, FaultKinds
<1>8. ASSUME UNCHANGED faults \/ \E k \in FaultKinds \ {"crash", "remove"} : Strike(k)
      PROVE  Spent' = Spent
  BY <1>5, <1>8 DEF Spent
<1>9. Spent = n * faults["crash"] + faults["remove"]
  BY DEF Spent
<1>10. Strike("crash") \/ Strike("remove") \/ Spent' = Spent
  BY <1>3, <1>8
<1> HIDE DEF n
<1> DEFINE product == n * faults["crash"]
<1>11. /\ product \in Nat
       /\ Spent = product + faults["remove"]
       /\ Strike("crash") => Spent' = (product + n) + faults["remove"]
       /\ Strike("remove") => Spent' = product + (faults["remove"] + 1)
  BY <1>4, <1>6, <1>7, <1>9
<1> HIDE DEF product
<1>12. /\ Strike("crash") => Spent' = Spent + n
       /\ Strike("remove") => Spent' = Spent + 1
       /\ Spent \in Nat
  BY <1>1, <1>2, <1>11
<1>13. Spent' \in Nat /\ Spent <= Spent'
  BY <1>1, <1>10, <1>12
<1> QED BY <1>12, <1>13 DEF n

LEMMA ChargeInvInit == IsFiniteSet(Runs) /\ Init => ChargeInv
<1> SUFFICES ASSUME IsFiniteSet(Runs), Init PROVE ChargeInv
  OBVIOUS
<1>1. TypeOK
  BY TypeInit
<1>2. ASSUME NEW c \in Categories, NEW u \in Users PROVE Charged(c, u)
  <2>1. /\ waiting[c][u] = NotWaiting /\ served[c][u] = 0
        /\ faults["crash"] = 0 /\ faults["remove"] = 0
    BY DEF Init, NobodyWaiting, FaultKinds
  <2>2. Cardinality(Runs) \in Nat /\ Cardinality(Runs) * 0 = 0
    BY FS_CardinalityType
  <2>3. Spent = 0
    BY <2>1, <2>2 DEF Spent
  <2>4. Cardinality(MayName(c, u)) \in Nat
        /\ Cardinality(MayName(c, u)) <= Cardinality(Runs)
    BY ChargesFit, <2>2
  <2> QED BY <2>1, <2>2, <2>3, <2>4 DEF Charged
<1> QED BY <1>1, <1>2 DEF ChargeInv

LEMMA SumsGrow ==
  \A n, h, m, k, top, s, t \in Nat :
    /\ s <= t /\ n <= h + s => n <= h + t
    /\ s <= t /\ k <= m /\ n + m <= top + s => n + k <= top + t
OBVIOUS

(***************************************************************************)
(* What a step does to the charges of one player and category: H and M are *)
(* Holding and MayName, w the score, n the matches of the stay.            *)
(***************************************************************************)
LEMMA ChargeKept ==
  ASSUME IsFiniteSet(Runs), TypeOK, TypeOK', [Next]_vars,
         NEW c \in Categories, NEW u \in Users, Charged(c, u),
         Holding(c, u)' = Holding(c, u),
         UNCHANGED <<waiting[c][u], served[c][u]>>,
         waiting[c][u] = NotWaiting => MayName(c, u)' \subseteq MayName(c, u)
  PROVE  Charged(c, u)'
<1> DEFINE H == Cardinality(Holding(c, u))
           M == Cardinality(MayName(c, u))
           K == Cardinality(MayName(c, u)')
           n == served[c][u]
           N == Cardinality(Runs)
<1>1. Spent \in Nat /\ Spent' \in Nat /\ Spent <= Spent'
  BY SpentNext
<1>2. H \in Nat /\ M \in Nat /\ N \in Nat
  BY ChargesFit
<1>3. waiting[c][u] = NotWaiting => K \in Nat /\ K <= M
  <2>1. SUFFICES ASSUME waiting[c][u] = NotWaiting PROVE K \in Nat /\ K <= M
    OBVIOUS
  <2>2. IsFiniteSet(MayName(c, u)) /\ MayName(c, u)' \in SUBSET MayName(c, u)
    BY <2>1, ChargesFit
  <2> QED BY <2>2, FS_Subset, FS_CardinalityType
<1>4. n \in Nat
  BY DEF TypeOK
<1>5. IF waiting[c][u] # NotWaiting THEN n <= H + Spent ELSE n + M <= N + Spent
  BY DEF Charged
<1>6. SUFFICES IF waiting[c][u] # NotWaiting THEN n <= H + Spent' ELSE n + K <= N + Spent'
  BY DEF Charged
<1> HIDE DEF H, M, K, n, N
<1>7. CASE waiting[c][u] # NotWaiting
  <2>1. n <= H + Spent
    BY <1>5, <1>7
  <2>2. n <= H + Spent'
    BY <1>1, <1>2, <1>4, <2>1, SumsGrow, Zenon
  <2> QED BY <1>7, <2>2
<1>8. CASE waiting[c][u] = NotWaiting
  <2>1. K \in Nat /\ K <= M /\ n + M <= N + Spent
    BY <1>3, <1>5, <1>8
  <2>2. n + K <= N + Spent'
    BY <1>1, <1>2, <1>4, <2>1, SumsGrow, Zenon
  <2> QED BY <1>8, <2>2
<1> QED BY <1>7, <1>8

LEMMA ChargeInvNext ==
  IsFiniteSet(Runs) /\ ChargeInv /\ [Next]_vars => ChargeInv'
<1> SUFFICES ASSUME IsFiniteSet(Runs), ChargeInv, [Next]_vars,
                    NEW c \in Categories, NEW u \in Users
             PROVE  Charged(c, u)'
  BY TypeNext DEF ChargeInv
<1> DEFINE H == Holding(c, u)
           M == MayName(c, u)
           N == Cardinality(Runs)
<1>t. TypeOK /\ TypeOK'
  BY TypeNext DEF ChargeInv
<1>c. Charged(c, u)
  BY DEF ChargeInv
<1>s. \A q \in Runs : run[q] \in RunState
  BY <1>t DEF TypeOK
<1>n. /\ waiting[c][u] \in Nat /\ waiting'[c][u] \in Nat
      /\ served[c][u] \in Nat /\ served'[c][u] \in Nat
  BY <1>t DEF TypeOK
<1>f. /\ IsFiniteSet(H) /\ IsFiniteSet(M) /\ N \in Nat
      /\ Cardinality(H) \in Nat /\ Cardinality(M) \in Nat
      /\ Cardinality(H) + Cardinality(M) <= N
  BY ChargesFit
<1>p. Spent \in Nat /\ Spent' \in Nat /\ Spent <= Spent'
  BY <1>t, SpentNext
<1>1. ASSUME NEW v \in Users, NEW d \in Categories, AddToWaitingList(v, d)
      PROVE  Charged(c, u)'
  <2>1. H' = H /\ M' = M
    BY <1>1 DEF AddToWaitingList, Holding, MayName
  <2>2. CASE waiting'[c][u] = waiting[c][u] /\ served'[c][u] = served[c][u]
    BY <1>c, <1>t, <2>1, <2>2, ChargeKept
  <2>3. CASE v = u /\ d = c
    <3>1. waiting'[c][u] = now /\ now # NotWaiting
      BY <1>1, <1>t, <2>3 DEF AddToWaitingList, ZAdd, TypeOK, NotWaiting
    <3>2. served'[c][u] = (IF waiting[c][u] = NotWaiting THEN 0 ELSE served[c][u])
      BY <1>1, <1>t, <2>3 DEF AddToWaitingList, TypeOK
    <3>3. served'[c][u] <= Cardinality(H) + Spent'
      <4> HIDE DEF H
      <4> QED BY <1>c, <1>f, <1>n, <1>p, <3>2 DEF Charged, H
    <3> QED BY <2>1, <3>1, <3>3 DEF Charged
  <2>4. CASE ~(v = u /\ d = c)
    BY <1>1, <1>t, <2>2, <2>4 DEF AddToWaitingList, ZAdd, TypeOK
  <2> QED BY <2>3, <2>4
<1>2. ASSUME NEW r \in Runs, StartRun(r) \/ GetWaitingListByCategory(r) \/ FormGroups(r)
      PROVE  Charged(c, u)'
  <2>1. UNCHANGED <<waiting, served>>
    BY <1>2 DEF StartRun, GetWaitingListByCategory, FormGroups
  <2>2. \A q \in Runs \ {r} : run'[q] = run[q]
    BY <1>2, <1>t DEF StartRun, GetWaitingListByCategory, FormGroups, TypeOK
  <2>3. r \notin H /\ r \notin H'
    <3>1. run[r].pc # "remove"
      BY <1>2 DEF StartRun, GetWaitingListByCategory, FormGroups
    <3>2. run'[r].pc # "remove"
      <4>1. CASE StartRun(r) \/ GetWaitingListByCategory(r)
        BY <1>s, <1>t, <4>1 DEF StartRun, GetWaitingListByCategory, TypeOK, RunState
      <4>2. CASE FormGroups(r)
        <5>1. PICK groups \in [Categories -> SUBSET Users] :
                run' = [run EXCEPT ![r] =
                          IF groups = NoGroups
                          THEN IdleRun
                          ELSE [run[r] EXCEPT !.pc = "publish", !.groups = groups]]
          BY <4>2 DEF FormGroups
        <5>2. run'[r] = IdleRun \/ run'[r].pc = "publish"
          BY <1>s, <1>t, <5>1 DEF TypeOK, RunState
        <5> QED BY <5>2 DEF IdleRun
      <4> QED BY <1>2, <4>1, <4>2
    <3> QED BY <3>1, <3>2 DEF Holding
  <2>4. H' = H
    BY <2>2, <2>3 DEF Holding
  <2>5. waiting[c][u] = NotWaiting /\ r \in M' => r \in M
    <3> SUFFICES ASSUME waiting[c][u] = NotWaiting, r \in M' PROVE r \in M
      OBVIOUS
    <3>1. CASE StartRun(r)
      <4>1. run'[r].pc = "read" /\ run'[r].seen = run[r].seen /\ run[r].pc = "idle"
        BY <1>s, <1>t, <3>1 DEF StartRun, TypeOK, RunState
      <4> QED BY <4>1 DEF MayName
    <3>2. CASE GetWaitingListByCategory(r)
      <4> DEFINE d == GetCategories[run[r].next]
      <4>1. /\ run'[r].pc = "read" /\ run[r].pc = "read"
            /\ run'[r].seen \in {run[r].seen,
                                 [run[r].seen EXCEPT ![d] = InWindow(waiting[d], now - Window)]}
        BY <1>s, <1>t, <3>2 DEF GetWaitingListByCategory, TypeOK, RunState
      <4>2. d = c => InWindow(waiting[d], now - Window)[u] = NotWaiting
        BY DEF InWindow
      <4>3. run[r].seen \in [Categories -> [Users -> Nat]]
        BY <1>s DEF RunState
      <4>4. run'[r].seen[c][u] # NotWaiting
        BY <4>1 DEF MayName
      <4>5. run[r].seen[c][u] # NotWaiting
        <5> HIDE DEF d
        <5> QED BY <4>1, <4>2, <4>3, <4>4
      <4> QED BY <4>1, <4>5 DEF MayName
    <3>3. CASE FormGroups(r)
      <4>1. PICK groups \in [Categories -> SUBSET Users] :
              /\ \A d \in Categories : groups[d] \in EvenPrefixes(run[r].seen[d])
              /\ run' = [run EXCEPT ![r] =
                           IF groups = NoGroups
                           THEN IdleRun
                           ELSE [run[r] EXCEPT !.pc = "publish", !.groups = groups]]
        BY <3>3 DEF FormGroups
      <4>2. CASE groups = NoGroups
        <5>1. run'[r] = IdleRun
          BY <1>t, <4>1, <4>2 DEF TypeOK
        <5> QED BY <5>1 DEF MayName, IdleRun, NobodyWaiting
      <4>3. CASE groups # NoGroups
        <5>1. run'[r].pc = "publish" /\ run'[r].groups = groups
          BY <1>s, <1>t, <4>1, <4>3 DEF TypeOK, RunState
        <5>2. u \in groups[c] /\ groups[c] \subseteq Waiting(run[r].seen[c])
          BY <4>1, <5>1 DEF MayName, EvenPrefixes
        <5> QED BY <3>3, <5>2 DEF MayName, Waiting, FormGroups
      <4> QED BY <4>2, <4>3
    <3> QED BY <1>2, <3>1, <3>2, <3>3
  <2>6. waiting[c][u] = NotWaiting => M' \subseteq M
    BY <2>2, <2>5 DEF MayName
  <2> QED BY <1>c, <1>t, <2>1, <2>4, <2>6, ChargeKept
<1>3. ASSUME NEW r \in Runs, Publish(r)
      PROVE  Charged(c, u)'
  <2>1. UNCHANGED waiting
    BY <1>3 DEF Publish
  <2>2. /\ \A q \in Runs \ {r} : run'[q] = run[q]
        /\ run'[r].pc = "remove" /\ run'[r].groups = run[r].groups /\ run[r].pc = "publish"
    BY <1>3, <1>t DEF Publish, TypeOK, IdleRun
  <2>3. CASE u \notin run[r].groups[c]
    <3>1. H' = H /\ M' = M
      BY <2>2, <2>3 DEF Holding, MayName
    <3>2. served'[c][u] = served[c][u]
      BY <1>3, <2>3 DEF Publish
    <3> QED BY <1>c, <1>t, <2>1, <3>1, <3>2, ChargeKept
  <2>4. CASE u \in run[r].groups[c]
    <3>1. /\ r \notin H /\ H' = H \cup {r}
          /\ r \in M /\ M' = M \ {r}
      BY <2>2, <2>4 DEF Holding, MayName
    <3>2. served'[c][u] \in {served[c][u], served[c][u] + 1}
      BY <1>3 DEF Publish
    <3> HIDE DEF H, M
    <3>3. /\ Cardinality(H') = Cardinality(H) + 1
          /\ Cardinality(M') = Cardinality(M) - 1
      BY <1>f, <3>1, FS_AddElement, FS_RemoveElement
    <3>4. IF waiting[c][u] # NotWaiting
          THEN served[c][u] <= Cardinality(H) + Spent
          ELSE served[c][u] + Cardinality(M) <= N + Spent
      BY <1>c DEF Charged, H, M
    <3>5. IF waiting[c][u] # NotWaiting
          THEN served'[c][u] <= Cardinality(H') + Spent'
          ELSE served'[c][u] + Cardinality(M') <= N + Spent'
      BY <1>f, <1>n, <1>p, <3>2, <3>3, <3>4
    <3> QED BY <2>1, <3>5 DEF Charged, H, M
  <2> QED BY <2>3, <2>4
<1>4. ASSUME NEW r \in Runs, NEW d \in Categories, NEW v \in Users,
             RemoveWaitingMember(r, d, v)
      PROVE  Charged(c, u)'
  <2> DEFINE left == [run[r].groups EXCEPT ![d] = @ \ {v}]
  <2>1. /\ \A q \in Runs \ {r} : run'[q] = run[q]
        /\ UNCHANGED served
        /\ run[r].pc = "remove" /\ v \in run[r].groups[d]
    BY <1>4, <1>t DEF RemoveWaitingMember, TypeOK
  <2>2. run'[r] = (IF left = NoGroups THEN IdleRun ELSE [run[r] EXCEPT !.groups = left])
    BY <1>4, <1>t DEF RemoveWaitingMember, TypeOK
  <2>3. run[r].groups \in [Categories -> SUBSET Users]
    BY <1>s DEF RunState
  <2>4. /\ r \in H => u \in run[r].groups[c]
        /\ r \in H' <=> u \in left[c]
        /\ r \notin M /\ r \notin M'
    <3>1. r \in H <=> u \in run[r].groups[c]
      BY <2>1 DEF Holding
    <3>2. CASE left = NoGroups
      <4>1. run'[r] = IdleRun /\ u \notin left[c]
        BY <2>2, <3>2 DEF NoGroups
      <4> QED BY <2>1, <3>1, <4>1 DEF Holding, MayName, IdleRun, NobodyWaiting
    <3>3. CASE left # NoGroups
      <4>1. run'[r].pc = "remove" /\ run'[r].groups = left
        BY <1>s, <2>1, <2>2, <3>3 DEF RunState
      <4> QED BY <2>1, <3>1, <4>1 DEF Holding, MayName
    <3> QED BY <3>2, <3>3
  <2>5. M' = M
    BY <2>1, <2>4 DEF MayName
  <2>6. CASE ~(v = u /\ d = c)
    <3>1. u \in left[c] <=> u \in run[r].groups[c]
      BY <2>3, <2>6
    <3>2. H' = H
      BY <2>1, <2>4, <3>1 DEF Holding
    <3>3. waiting'[c][u] = waiting[c][u]
      BY <1>4, <1>t, <2>6, RemovalLists
    <3> QED BY <1>c, <1>t, <2>1, <2>5, <3>2, <3>3, ChargeKept
  <2>7. CASE v = u /\ d = c
    <3>1. r \in H /\ H' = H \ {r}
      <4>1. u \notin left[c]
        BY <2>3, <2>7
      <4> QED BY <2>1, <2>4, <2>7, <4>1 DEF Holding
    <3>2. \/ waiting'[c][u] = NotWaiting
          \/ waiting'[c][u] = waiting[c][u] /\ Strike("remove")
      BY <1>4, <1>t, <2>7, RemovalLists
    <3>3. Strike("remove") => Spent' = Spent + 1
      BY <1>t, SpentNext
    <3> HIDE DEF H, M
    <3>4. Cardinality(H') = Cardinality(H) - 1
      BY <1>f, <3>1, FS_RemoveElement
    <3>5. IF waiting[c][u] # NotWaiting
          THEN served[c][u] <= Cardinality(H) + Spent
          ELSE served[c][u] + Cardinality(M) <= N + Spent
      BY <1>c DEF Charged, H, M
    <3>6. IF waiting'[c][u] # NotWaiting
          THEN served[c][u] <= Cardinality(H') + Spent'
          ELSE served[c][u] + Cardinality(M) <= N + Spent'
      BY <1>f, <1>n, <1>p, <3>2, <3>3, <3>4, <3>5
    <3> QED BY <2>1, <2>5, <3>6 DEF Charged, H, M
  <2> QED BY <2>6, <2>7
<1>5. CASE Crash
  <2>1. UNCHANGED <<waiting, served>> /\ \A q \in Runs : run'[q] = IdleRun
    BY <1>5 DEF Crash
  <2>2. H' = {} /\ M' = {}
    BY <2>1 DEF Holding, MayName, IdleRun, NobodyWaiting
  <2>3. Spent' = Spent + N
    BY <1>5, <1>t, SpentNext DEF Crash
  <2> HIDE DEF H, M
  <2>4. Cardinality(H') = 0 /\ Cardinality(M') = 0
    BY <2>2, FS_EmptySet
  <2>5. IF waiting[c][u] # NotWaiting
        THEN served[c][u] <= Cardinality(H) + Spent
        ELSE served[c][u] + Cardinality(M) <= N + Spent
    BY <1>c DEF Charged, H, M
  <2>6. IF waiting[c][u] # NotWaiting
        THEN served[c][u] <= Cardinality(H') + Spent'
        ELSE served[c][u] + Cardinality(M') <= N + Spent'
    BY <1>f, <1>n, <1>p, <2>3, <2>4, <2>5
  <2> QED BY <2>1, <2>6 DEF Charged, H, M
<1>6. CASE Tick \/ UNCHANGED vars
  <2>1. UNCHANGED <<waiting, served, run>>
    BY <1>6 DEF Tick, vars
  <2>2. H' = H /\ M' = M
    BY <2>1 DEF Holding, MayName
  <2> QED BY <1>c, <1>t, <2>1, <2>2, ChargeKept
<1> QED
  BY <1>1, <1>2, <1>3, <1>4, <1>5, <1>6 DEF Next, RunStep

(***************************************************************************)
(* However many runs overlap, one stay in a list is matched at most once   *)
(* per run, once more per run and crash, and once per failed removal.      *)
(***************************************************************************)
THEOREM MatchesPerStayBoundedCorrect ==
  ASSUME IsFiniteSet(Runs)
  PROVE  Spec => []MatchesPerStayBounded
<1>1. ChargeInv => MatchesPerStayBounded
  <2> SUFFICES ASSUME ChargeInv, NEW c \in Categories, NEW u \in Users
               PROVE  served[c][u] <= Cardinality(Runs) * (1 + faults["crash"]) + faults["remove"]
    BY DEF MatchesPerStayBounded
  <2> DEFINE n == Cardinality(Runs)
             H == Cardinality(Holding(c, u))
             M == Cardinality(MayName(c, u))
  <2>1. n \in Nat /\ H \in Nat /\ M \in Nat /\ H + M <= n
    BY ChargesFit
  <2>2. served[c][u] \in Nat /\ faults["crash"] \in Nat /\ faults["remove"] \in Nat
    BY DEF ChargeInv, TypeOK, FaultKinds
  <2>3. served[c][u] <= H + Spent \/ served[c][u] + M <= n + Spent
    BY DEF ChargeInv, Charged
  <2> HIDE DEF n, H, M
  <2> DEFINE product == n * faults["crash"]
  <2>4. product \in Nat /\ n * (1 + faults["crash"]) = product + n
    BY <2>1, <2>2, SpentGrows
  <2>5. Spent = product + faults["remove"]
    BY DEF Spent, n
  <2> HIDE DEF product
  <2>6. served[c][u] <= (product + n) + faults["remove"]
    BY <2>1, <2>2, <2>3, <2>4, <2>5
  <2> QED BY <2>4, <2>6 DEF n
<1>2. Init => ChargeInv
  BY ChargeInvInit
<1>3. ChargeInv /\ [Next]_vars => ChargeInv'
  BY ChargeInvNext
<1> QED BY <1>1, <1>2, <1>3, PTL DEF Spec

=============================================================================
