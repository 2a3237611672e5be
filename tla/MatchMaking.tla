----------------------------- MODULE MatchMaking -----------------------------
(***************************************************************************)
(* The Match Service: players join per-category waiting lists (Redis       *)
(* sorted sets scored by join time) and a gocron scheduler periodically    *)
(* starts a run of MatchWaitUsers that reads the lists one after another,  *)
(* groups the waiting players, publishes the groups to Kafka in one        *)
(* message and then removes the grouped players one ZREM at a time.        *)
(*                                                                         *)
(* gocron starts every run in a goroutine of its own and does not wait for *)
(* the previous one, so up to Cardinality(Runs) runs are in flight and     *)
(* interleave, with each other and with joins.                             *)
(*                                                                         *)
(* Abstracted: the ULID of a match (a group is identified by its category  *)
(* and members), the order of the users inside a group (nothing downstream *)
(* depends on it), logging.                                                *)
(***************************************************************************)
EXTENDS Integers, FiniteSets, Sequences

CONSTANTS
  Users,          \* players
  GetCategories,  \* the fixed order in which a run reads the waiting lists
  Runs,           \* scheduler goroutines that may be in flight at once
  Window,         \* -min_time_list_selection, in clock units
  MaxTime,        \* bound: the clock stops here
  MaxFaults       \* bound: how often each kind of fault may strike

Categories == {GetCategories[i] : i \in DOMAIN GetCategories}

(***************************************************************************)
(* "read":    ZRANGEBYSCORE fails; the adapter returns an empty list.      *)
(* "publish": the producer returns an error.                               *)
(* "remove":  one ZREM fails (also: the 2s context expired while           *)
(*            publishing, then every ZREM of the run fails).               *)
(* "crash":   the process dies and is restarted.                           *)
(***************************************************************************)
FaultKinds == {"read", "publish", "remove", "crash"}

ASSUME MatchMakingAssumption ==
  /\ IsFiniteSet(Users)
  /\ GetCategories \in Seq(Categories)
  /\ \A i, j \in DOMAIN GetCategories :
        GetCategories[i] = GetCategories[j] => i = j
  /\ Window \in Nat
  /\ MaxTime \in Nat \ {0}
  /\ MaxFaults \in [FaultKinds -> Nat]

VARIABLES
  now,      \* wall clock; scores are readings of it
  waiting,  \* the sorted sets: waiting[c][u] is u's score, NotWaiting if absent
  run,      \* local state of each scheduler goroutine
  topic,    \* groups of the last message on matchMaking_v1_matchUsers
  served,   \* history: messages that named u in c since u's current entry
  lapsed,   \* history: waiting players whose message was not stored, or who
            \* entered while a run was still removing them
  gone,     \* history: players that a run has published, or has tried to
  faults    \* history: faults so far, by kind

vars == <<now, waiting, run, topic, served, lapsed, gone, faults>>

NotWaiting == 0
NobodyWaiting == [u \in Users |-> NotWaiting]
NoGroups == [c \in Categories |-> {}]

(***************************************************************************)
(* A run between two scheduler ticks.  seen[c] is the part of the sorted   *)
(* set of c the run read, from the score since[c] on; groups[c] is the     *)
(* group it formed, and after publishing what is left of it to remove.     *)
(***************************************************************************)
IdleRun ==
  [pc     |-> "idle",
   next   |-> 1,
   seen   |-> [c \in Categories |-> NobodyWaiting],
   since  |-> [c \in Categories |-> 0],
   groups |-> NoGroups]

RunState ==
  [pc     : {"idle", "read", "publish", "remove"},
   next   : Nat \ {0},
   seen   : [Categories -> [Users -> Nat]],
   since  : [Categories -> Int],
   groups : [Categories -> SUBSET Users]]

TypeOK ==
  /\ now \in Nat \ {0}
  /\ waiting \in [Categories -> [Users -> Nat]]
  /\ run \in [Runs -> RunState]
  /\ topic \in [Categories -> SUBSET Users]
  /\ served \in [Categories -> [Users -> Nat]]
  /\ lapsed \in [Categories -> SUBSET Users]
  /\ gone \in [Categories -> SUBSET Users]
  /\ faults \in [FaultKinds -> Nat]

Init ==
  /\ now = 1
  /\ waiting = [c \in Categories |-> NobodyWaiting]
  /\ run = [r \in Runs |-> IdleRun]
  /\ topic = NoGroups
  /\ served = [c \in Categories |-> [u \in Users |-> 0]]
  /\ lapsed = NoGroups
  /\ gone = NoGroups
  /\ faults = [k \in FaultKinds |-> 0]

Strike(kind) ==
  /\ faults[kind] < MaxFaults[kind]
  /\ faults' = [faults EXCEPT ![kind] = @ + 1]

-----------------------------------------------------------------------------
(* Joining *)

(***************************************************************************)
(* ZADD: the score of a player who already waits is overwritten, so a      *)
(* repeated join moves the player to the back of the list.                 *)
(***************************************************************************)
ZAdd(list, u) == [list EXCEPT ![u] = now]

(* The players some run has published and not yet tried to remove.         *)
BeingRemoved(c) ==
  UNION {run[r].groups[c] : r \in {q \in Runs : run[q].pc = "remove"}}

AddToWaitingList(u, c) ==
  /\ waiting' = [waiting EXCEPT ![c] = ZAdd(@, u)]
  /\ IF waiting[c][u] = NotWaiting
     THEN /\ served' = [served EXCEPT ![c][u] = 0]
          /\ lapsed' = [lapsed EXCEPT ![c] = @ \cup ({u} \cap BeingRemoved(c))]
     ELSE UNCHANGED <<served, lapsed>>
  /\ UNCHANGED <<now, run, topic, gone, faults>>

-----------------------------------------------------------------------------
(* A scheduler run *)

Waiting(list) == {u \in Users : list[u] # NotWaiting}

StartRun(r) ==
  /\ run[r].pc = "idle"
  /\ run' = [run EXCEPT ![r].pc = "read"]
  /\ UNCHANGED <<now, waiting, topic, served, lapsed, gone, faults>>

(***************************************************************************)
(* One ZRANGEBYSCORE with the bounds now - Window and now, both inclusive. *)
(* On a Redis error the adapter returns nil, nil: the category looks empty.*)
(***************************************************************************)
InWindow(list, from) ==
  [u \in Users |-> IF list[u] \in from .. now THEN list[u] ELSE NotWaiting]

GetWaitingListByCategory(r) ==
  LET c    == GetCategories[run[r].next]
      from == now - Window
  IN
  /\ run[r].pc = "read"
  /\ run[r].next \in DOMAIN GetCategories
  /\ \/ /\ run' = [run EXCEPT ![r].next = @ + 1,
                              ![r].seen[c] = InWindow(waiting[c], from),
                              ![r].since[c] = from]
        /\ UNCHANGED faults
     \/ /\ Strike("read")
        /\ run' = [run EXCEPT ![r].next = @ + 1]
  /\ UNCHANGED <<now, waiting, topic, served, lapsed, gone>>

(***************************************************************************)
(* The members a run saw in a category, sorted by score and cut to the     *)
(* largest even prefix.  sort.Slice is not stable: players with equal      *)
(* scores come in any order, so either may be the one that is cut.         *)
(***************************************************************************)
EvenPart_KeepsOdd(n) == n
EvenPart_NeedsThree(n) == IF n <= 2 THEN 0 ELSE n - (n % 2)
EvenPart(n) == IF n < 2 THEN 0 ELSE n - (n % 2)

Older_Reversed(list, u, v) == list[u] >= list[v]
Older(list, u, v) == list[u] <= list[v]

EvenPrefixes(list) ==
  {G \in SUBSET Waiting(list) :
     /\ Cardinality(G) = EvenPart(Cardinality(Waiting(list)))
     /\ \A u \in G, v \in Waiting(list) \ G : Older(list, u, v)}

FormGroups(r) ==
  /\ run[r].pc = "read"
  /\ run[r].next \notin DOMAIN GetCategories
  /\ \E groups \in [Categories -> SUBSET Users] :
       /\ \A c \in Categories : groups[c] \in EvenPrefixes(run[r].seen[c])
       /\ run' = [run EXCEPT ![r] =
                    IF groups = NoGroups
                    THEN IdleRun
                    ELSE [@ EXCEPT !.pc = "publish", !.groups = groups]]
  /\ UNCHANGED <<now, waiting, topic, served, lapsed, gone, faults>>

(***************************************************************************)
(* publishFinalUsers: one message with every group.  A producer error is   *)
(* logged and the run goes on to remove the users, whether or not the      *)
(* broker kept the message (an acknowledgement can be lost).               *)
(***************************************************************************)
Publish(r) ==
  /\ run[r].pc = "publish"
  /\ \E acked, stored \in BOOLEAN :
       /\ IF acked THEN stored /\ UNCHANGED faults ELSE Strike("publish")
       /\ IF stored
          THEN /\ topic' = run[r].groups
               /\ served' = [c \in Categories |->
                               [u \in Users |->
                                  IF u \in run[r].groups[c]
                                  THEN served[c][u] + 1
                                  ELSE served[c][u]]]
               /\ UNCHANGED lapsed
          ELSE /\ lapsed' = [c \in Categories |->
                  lapsed[c] \cup (run[r].groups[c] \cap Waiting(waiting[c]))]
               /\ UNCHANGED <<topic, served>>
  /\ gone' = [c \in Categories |-> gone[c] \cup run[r].groups[c]]
  /\ run' = [run EXCEPT ![r] = [IdleRun EXCEPT !.pc = "remove",
                                               !.groups = run[r].groups]]
  /\ UNCHANGED <<now, waiting>>

(***************************************************************************)
(* RemoveWaitingMember: one ZREM per member; a failing one is logged and   *)
(* skipped.  The run ends with the last member.                            *)
(***************************************************************************)
ZRem_DeletesKey(list, u) == NobodyWaiting
ZRem_DeletesNothing(list, u) == list
ZRem(list, u) == [list EXCEPT ![u] = NotWaiting]

RemoveWaitingMember(r, c, u) ==
  LET left == [run[r].groups EXCEPT ![c] = @ \ {u}]
  IN
  /\ run[r].pc = "remove"
  /\ u \in run[r].groups[c]
  /\ \/ /\ waiting' = [waiting EXCEPT ![c] = ZRem(@, u)]
        /\ lapsed' = [lapsed EXCEPT ![c] = @ \ {u}]
        /\ UNCHANGED faults
     \/ /\ Strike("remove")
        /\ UNCHANGED <<waiting, lapsed>>
  /\ run' = [run EXCEPT ![r] = IF left = NoGroups
                               THEN IdleRun
                               ELSE [@ EXCEPT !.groups = left]]
  /\ UNCHANGED <<now, topic, served, gone>>

-----------------------------------------------------------------------------
(* Environment *)

(* The process dies: every run is lost, Redis and Kafka keep their data.   *)
Crash ==
  /\ Strike("crash")
  /\ run' = [r \in Runs |-> IdleRun]
  /\ UNCHANGED <<now, waiting, topic, served, lapsed, gone>>

Tick ==
  /\ now < MaxTime
  /\ now' = now + 1
  /\ UNCHANGED <<waiting, run, topic, served, lapsed, gone, faults>>

RunStep(r) ==
  \/ StartRun(r)
  \/ GetWaitingListByCategory(r)
  \/ FormGroups(r)
  \/ Publish(r)
  \/ \E c \in Categories, u \in Users : RemoveWaitingMember(r, c, u)

Next ==
  \/ \E u \in Users, c \in Categories : AddToWaitingList(u, c)
  \/ \E r \in Runs : RunStep(r)
  \/ Crash
  \/ Tick

Spec == Init /\ [][Next]_vars

(***************************************************************************)
(* The scheduler ticks for ever and the Go runtime keeps running its       *)
(* goroutines.  Nobody is obliged to join, and time owes nothing.          *)
(***************************************************************************)
FairSpec == Spec /\ \A r \in Runs : WF_vars(RunStep(r))

-----------------------------------------------------------------------------
(* Properties *)

(***************************************************************************)
(* Every group a run is about to publish, and every group in the message   *)
(* on the topic, has an even number of members (Flow 5: "take an even      *)
(* number"), and a run only publishes when it has a group.                 *)
(***************************************************************************)
EvenGroups(groups) == \A c \in Categories : Cardinality(groups[c]) % 2 = 0

GroupsAreEven ==
  /\ EvenGroups(topic)
  /\ \A r \in Runs : run[r].pc = "publish" =>
        EvenGroups(run[r].groups) /\ run[r].groups # NoGroups

(***************************************************************************)
(* First come, first served, measured against the live list and not the    *)
(* run's snapshot: when a run is about to publish a group, everybody left  *)
(* out of it who waits at that moment joined (or re-joined) no earlier     *)
(* than each member, or has been waiting longer than the selection window. *)
(* Joins, re-joins and other runs may come between the read and this state.*)
(***************************************************************************)
NoOvertaking ==
  \A r \in Runs : run[r].pc = "publish" =>
    \A c \in Categories :
      \A m \in run[r].groups[c], u \in Waiting(waiting[c]) \ run[r].groups[c] :
        \/ waiting[c][u] >= run[r].seen[c][m]
        \/ waiting[c][u] < run[r].since[c]

(***************************************************************************)
(* How often one stay in a waiting list can be matched: publishing and     *)
(* removing are separate steps, so each run in flight may publish the same *)
(* player once, once more for every crash, and once more for every removal *)
(* that failed and left the player in the list.                            *)
(***************************************************************************)
MatchesPerStayBounded ==
  \A c \in Categories, u \in Users :
    served[c][u] <= Cardinality(Runs) * (1 + faults["crash"]) + faults["remove"]

(***************************************************************************)
(* A player who leaves a waiting list was named, during that stay, in a    *)
(* message stored on the topic - with exactly two exceptions: the producer *)
(* failed for a message that named the player, or the player entered the   *)
(* list while a run was still removing the group of an earlier stay.       *)
(***************************************************************************)
LeftUnmatched(c, u) ==
  waiting[c][u] # NotWaiting /\ waiting'[c][u] = NotWaiting /\ served[c][u] = 0

NoSilentRemoval ==
  [][\A c \in Categories, u \in Users : LeftUnmatched(c, u) => u \in lapsed[c]]_vars

(***************************************************************************)
(* Of two players who wait in the same category, at least one is           *)
(* eventually published in a match (UC-03 step 8: the scheduler pairs      *)
(* waiting players).  Checked with a window longer than the run of the     *)
(* clock and a producer that does not fail; reads, removals and the process*)
(* fail a bounded number of times.                                         *)
(***************************************************************************)
PairIsServed ==
  \A c \in Categories, u, v \in Users :
    u # v /\ waiting[c][u] # NotWaiting /\ waiting[c][v] # NotWaiting
      ~> served[c][u] > 0 \/ served[c][v] > 0
=============================================================================
