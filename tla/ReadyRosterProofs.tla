-------------------------- MODULE ReadyRosterProofs --------------------------
(***************************************************************************)
(* Theorems about ReadyRoster, for any finite set of two or more players,  *)
(* any number of connections per player, READYs of anybody and any faults. *)
(***************************************************************************)
EXTENDS ReadyRoster, FiniteSetTheorems, TLAPS

LEMMA StrikeType ==
  ASSUME faults \in [FaultKinds -> Nat], NEW k \in FaultKinds, Strike(k)
  PROVE  faults' \in [FaultKinds -> Nat]
BY DEF Strike

LEMMA PlayersAreCounted == Cardinality(Players) \in Nat
BY ReadyRosterAssumption, FS_CardinalityType

LEMMA PeopleAreFinite == IsFiniteSet(People)
BY ReadyRosterAssumption, FS_Union DEF People

LEMMA NewRosterType ==
  /\ NoRoster \in Rosters
  /\ Roster(DefaultExpected, {}) \in Rosters
  /\ Roster(Cardinality(Players), {}) \in Rosters
BY PlayersAreCounted DEF NoRoster, Roster, Rosters, DefaultExpected

LEMMA UpsertType ==
  ASSUME NEW seen \in Rosters, NEW p \in People
  PROVE  Upsert(seen, p) \in Rosters
BY NewRosterType DEF Upsert, Rosters

LEMMA IdleLoopType == IdleLoop \in LoopState
BY NewRosterType DEF IdleLoop, LoopState

(* A GET of the roster gives a roster. *)
LEMMA ReadRosterType ==
  ASSUME TypeOK, NEW seen, ReadRoster(seen)
  PROVE  seen \in Rosters /\ faults' \in [FaultKinds -> Nat]
BY NewRosterType, StrikeType DEF ReadRoster, TypeOK, FaultKinds

LEMMA RestartType ==
  ASSUME TypeOK, Restart, faults' \in [FaultKinds -> Nat]
  PROVE  TypeOK'
<1>1. initializer' \in InitializerState
  BY NewRosterType DEF Restart, InitializerState
<1>2. loop' \in [Loops -> LoopState]
  BY IdleLoopType DEF Restart
<1> QED BY <1>1, <1>2 DEF Restart, TypeOK

-----------------------------------------------------------------------------
(***************************************************************************)
(* Type correctness.                                                       *)
(***************************************************************************)
LEMMA TypeInit == Init => TypeOK
<1> SUFFICES ASSUME Init PROVE TypeOK
  OBVIOUS
<1>1. initializer \in InitializerState
  BY NewRosterType DEF Init, InitializerState
<1>2. loop \in [Loops -> LoopState]
  BY IdleLoopType DEF Init
<1> QED BY <1>1, <1>2, NewRosterType DEF Init, TypeOK, Absent

LEMMA TypeNext == TypeOK /\ [Next]_vars => TypeOK'
<1> SUFFICES ASSUME TypeOK, [Next]_vars PROVE TypeOK'
  OBVIOUS
<1>t. /\ roster \in Rosters
      /\ initializer \in InitializerState
      /\ loop \in [Loops -> LoopState]
      /\ faults \in [FaultKinds -> Nat]
  BY DEF TypeOK
<1>o. \A l \in Loops : Owner[l] \in People
  BY ReadyRosterAssumption
<1>1. CASE AnnounceGame
  BY <1>1 DEF AnnounceGame, TypeOK, InitializerState, history
<1>2. ASSUME NEW p \in Players, Notify(p) PROVE TypeOK'
  <2>1. faults' \in [FaultKinds -> Nat]
    BY <1>2, <1>t, StrikeType DEF Notify, FaultKinds
  <2>2. /\ toNotify' \subseteq Players
        /\ invited' \subseteq Players /\ unwritten' \subseteq Players
    BY <1>2 DEF Notify, StillToNotify, TypeOK
  <2> QED BY <1>2, <2>1, <2>2 DEF Notify, TypeOK
<1>3. ASSUME NEW p \in Players, Connect(p) PROVE TypeOK'
  BY <1>3 DEF Connect, TypeOK, history
<1>4. ASSUME NEW p \in Players, Disconnect(p) PROVE TypeOK'
  BY <1>4, StrikeType DEF Disconnect, TypeOK, FaultKinds, history
<1>5. CASE InitializerReads
  <2>1. PICK seen :
          /\ ReadRoster(seen)
          /\ \/ Restart
             \/ /\ initializer' = [pc |-> IF Full(seen) THEN "done" ELSE "write",
                                   seen |-> seen]
                /\ UNCHANGED <<roster, questions, consumed, connections, toNotify, loop,
                               tasks, history>>
    BY <1>5 DEF InitializerReads
  <2>2. seen \in Rosters /\ faults' \in [FaultKinds -> Nat]
    BY <2>1, ReadRosterType
  <2>3. CASE Restart
    BY <2>2, <2>3, RestartType
  <2>4. CASE ~Restart
    <3>1. initializer' \in InitializerState
      BY <2>1, <2>2, <2>4 DEF InitializerState
    <3> QED BY <2>1, <2>2, <2>4, <3>1 DEF TypeOK, history
  <2> QED BY <2>3, <2>4
<1>6. CASE InitializerWrites
  <2>1. roster' \in Rosters
    BY <1>6, <1>t, NewRosterType DEF InitializerWrites, InitializerState
  <2>2. faults' \in [FaultKinds -> Nat]
    BY <1>6, <1>t, StrikeType DEF InitializerWrites, FaultKinds
  <2> QED
    BY <1>6, <2>1, <2>2, NewRosterType DEF InitializerWrites, InitializerState, TypeOK, history
<1>7. ASSUME NEW l \in Loops, ReceiveReady(l) PROVE TypeOK'
  <2>1. PICK seen :
          /\ ReadRoster(seen)
          /\ \/ loop' = [loop EXCEPT ![l].pc = "stamp"] /\ started' = TRUE
             \/ UNCHANGED <<loop, started>>
             \/ /\ loop' = [loop EXCEPT ![l].pc = "write", ![l].seen = seen]
                /\ UNCHANGED started
    BY <1>7 DEF ReceiveReady
  <2>2. seen \in Rosters /\ faults' \in [FaultKinds -> Nat]
    BY <2>1, ReadRosterType
  <2>3. loop' \in [Loops -> LoopState]
    BY <1>t, <2>1, <2>2 DEF LoopState
  <2> QED BY <1>7, <1>o, <2>1, <2>2, <2>3 DEF ReceiveReady, TypeOK
<1>8. ASSUME NEW l \in Loops, WriteRoster(l) PROVE TypeOK'
  <2> DEFINE new == Upsert(loop[l].seen, Owner[l])
  <2>1. new \in Rosters
    BY <1>t, <1>o, UpsertType DEF LoopState
  <2>2. loop' \in [Loops -> LoopState]
    <3>1. [IdleLoop EXCEPT !.pc = IF Full(new) THEN "stamp" ELSE "idle"] \in LoopState
      BY IdleLoopType DEF LoopState
    <3> QED BY <1>8, <1>t, <3>1, IdleLoopType DEF WriteRoster
  <2>3. roster' \in Rosters /\ started' \in BOOLEAN
    <3>1. CASE roster' = new /\ started' = (started \/ Full(new))
      BY <2>1, <3>1
    <3>2. CASE UNCHANGED <<roster, started>>
      BY <3>2 DEF TypeOK
    <3> QED BY <1>8, <3>1, <3>2 DEF WriteRoster
  <2>4. faults' \in [FaultKinds -> Nat]
    BY <1>8, <1>t, StrikeType DEF WriteRoster, FaultKinds
  <2> QED BY <1>8, <2>2, <2>3, <2>4 DEF WriteRoster, TypeOK
<1>9. ASSUME NEW l \in Loops, ReadQuestions(l) PROVE TypeOK'
  <2>1. loop' \in [Loops -> LoopState]
    BY <1>9, <1>t DEF ReadQuestions, AfterRead, LoopState
  <2>2. faults' \in [FaultKinds -> Nat]
    BY <1>9, <1>t, StrikeType DEF ReadQuestions, FaultKinds
  <2> QED BY <1>9, <2>1, <2>2 DEF ReadQuestions, TypeOK
<1>10. ASSUME NEW l \in Loops, SaveDeadlines(l) PROVE TypeOK'
  <2>1. loop' \in [Loops -> LoopState]
    BY <1>10, <1>t DEF SaveDeadlines, LoopState
  <2>2. faults' \in [FaultKinds -> Nat]
    BY <1>10, <1>t, StrikeType DEF SaveDeadlines, FaultKinds
  <2> QED BY <1>10, <2>1, <2>2 DEF SaveDeadlines, TypeOK
<1>11. ASSUME NEW l \in Loops, FetchQuestions(l) PROVE TypeOK'
  <2>1. loop' \in [Loops -> LoopState]
    BY <1>11, <1>t DEF FetchQuestions, AfterNoQuestions, LoopState
  <2>2. faults' \in [FaultKinds -> Nat]
    BY <1>11, <1>t, StrikeType DEF FetchQuestions, FaultKinds
  <2>3. unstamped' \in BOOLEAN
    <3>1. CASE unstamped' = (unstamped \/ questions = "cached")
      BY <3>1
    <3>2. CASE UNCHANGED unstamped
      BY <3>2 DEF TypeOK
    <3> QED BY <1>11, <3>1, <3>2 DEF FetchQuestions
  <2> QED BY <1>11, <2>1, <2>2, <2>3 DEF FetchQuestions, TypeOK
<1>12. ASSUME NEW l \in Loops, NEW p \in Players, SendQuestions(l, p) PROVE TypeOK'
  <2>1. CASE Restart
    BY <1>12, <2>1, <1>t, RestartType DEF SendQuestions
  <2>2. CASE ~Restart
    <3>1. loop' \in [Loops -> LoopState]
      BY <1>12, <2>2, <1>t DEF SendQuestions, LoopState
    <3> QED BY <1>12, <2>2, <3>1 DEF SendQuestions, TypeOK, history
  <2> QED BY <2>1, <2>2
<1>13. ASSUME NEW l \in Loops, PublishTask(l) PROVE TypeOK'
  <2>1. tasks' \subseteq {"now", "final"}
    BY <1>13, <1>t DEF PublishTask, TypeOK, LoopState
  <2>2. loop' \in [Loops -> LoopState]
    BY <1>13, <1>t, IdleLoopType DEF PublishTask
  <2>3. faults' \in [FaultKinds -> Nat]
    BY <1>13, <1>t, StrikeType DEF PublishTask, FaultKinds
  <2> QED BY <1>13, <2>1, <2>2, <2>3 DEF PublishTask, TypeOK, history
<1>14. ASSUME NEW l \in Loops, ReplyError(l) PROVE TypeOK'
  <2>1. loop' \in [Loops -> LoopState]
    BY <1>14, <1>t, IdleLoopType DEF ReplyError, LoopState
  <2>2. faults' \in [FaultKinds -> Nat]
    BY <1>14, <1>t, StrikeType DEF ReplyError, FaultKinds
  <2> QED BY <1>14, <2>1, <2>2 DEF ReplyError, TypeOK, history
<1>15. CASE CacheQuestions
  BY <1>15 DEF CacheQuestions, TypeOK, history
<1>16. CASE Expire
  BY <1>16, StrikeType, NewRosterType DEF Expire, TypeOK, Absent, FaultKinds, history
<1>17. CASE Crash
  BY <1>17, <1>t, StrikeType, RestartType DEF Crash, FaultKinds
<1>18. CASE UNCHANGED vars
  BY <1>18 DEF vars, TypeOK, history
<1>19. CASE Recache
  <2>1. faults' \in [FaultKinds -> Nat]
    BY <1>19, <1>t, StrikeType DEF Recache, FaultKinds
  <2>2. CASE Restart
    BY <2>1, <2>2, RestartType
  <2>3. CASE ~Restart
    BY <1>19, <2>1, <2>3 DEF Recache, TypeOK, history
  <2> QED BY <2>2, <2>3
<1> QED
  BY <1>1, <1>2, <1>3, <1>4, <1>5, <1>6, <1>7, <1>8, <1>9, <1>10, <1>11, <1>12,
     <1>13, <1>15, <1>16, <1>17, <1>18, <1>19, <1>14 DEF Next, HandleReady

(* Every reachable state of the ready phase is of the declared types. *)
THEOREM TypeCorrect == Spec => []TypeOK
BY TypeInit, TypeNext, PTL DEF Spec

-----------------------------------------------------------------------------
(***************************************************************************)
(* Why two players must be ready.  Every copy of the roster, in Redis and  *)
(* in the hands of a goroutine, only names players who have sent READY, and*)
(* expects at least two.  A handler about to write has got a READY.        *)
(***************************************************************************)
Honest(r) ==
  /\ r.players \subseteq readied
  /\ r = NoRoster \/ r.expected >= 2

RosterInv ==
  /\ TypeOK
  /\ Honest(roster)
  /\ Honest(initializer.seen)
  /\ \A l \in Loops : Honest(loop[l].seen)
  /\ \A l \in Loops : loop[l].pc = "write" => Owner[l] \in readied
  /\ TwoReadyBeforeStart

LEMMA NewRosterHonest ==
  /\ Honest(NoRoster)
  /\ Honest(Roster(DefaultExpected, {}))
  /\ Honest(Roster(Cardinality(Players), {}))
BY ReadyRosterAssumption, PlayersAreCounted DEF Honest, NoRoster, Roster, DefaultExpected

LEMMA IdleLoopHonest == IdleLoop.seen = NoRoster /\ IdleLoop.pc = "idle"
BY DEF IdleLoop

LEMMA FullIsTwoReady ==
  ASSUME readied \subseteq People, NEW r \in Rosters, Honest(r), Full(r)
  PROVE  Cardinality(readied) >= 2
<1>1. IsFiniteSet(readied)
  BY PeopleAreFinite, FS_Subset
<1>2. /\ Cardinality(readied) \in Nat /\ Cardinality(r.players) \in Nat
      /\ Cardinality(r.players) <= Cardinality(readied)
  BY <1>1, FS_Subset, FS_CardinalityType DEF Honest
<1> QED BY <1>2 DEF Full, Honest, Rosters

LEMMA RosterInvInit == Init => RosterInv
BY TypeInit, NewRosterHonest, IdleLoopHonest DEF Init, RosterInv, TwoReadyBeforeStart

LEMMA RosterInvNext == RosterInv /\ [Next]_vars => RosterInv'
<1> SUFFICES ASSUME RosterInv, [Next]_vars PROVE RosterInv'
  OBVIOUS
<1>t. TypeOK /\ TypeOK'
  BY TypeNext DEF RosterInv
<1>l. /\ \A l \in Loops : loop[l] \in LoopState /\ loop'[l] \in LoopState
      /\ loop \in [Loops -> LoopState]
      /\ initializer \in InitializerState /\ initializer' \in InitializerState
  BY <1>t DEF TypeOK
<1>o. \A l \in Loops : Owner[l] \in People
  BY ReadyRosterAssumption
<1>r. readied \subseteq readied' /\ readied \subseteq People /\ readied' \subseteq People
  BY <1>t
  DEF TypeOK, Next, HandleReady, AnnounceGame, Notify, Connect, Disconnect,
      InitializerReads, InitializerWrites, ReceiveReady, WriteRoster, ReadQuestions,
      SaveDeadlines, ReplyError, FetchQuestions, SendQuestions, PublishTask,
      CacheQuestions, Recache, Expire, Crash, Restart, vars, history
<1>h. \A r \in Rosters : Honest(r) => Honest(r)'
  BY <1>r DEF Honest
<1>s. ASSUME UNCHANGED started PROVE TwoReadyBeforeStart'
  <2>1. IsFiniteSet(readied') /\ Cardinality(readied) <= Cardinality(readied')
    BY <1>r, PeopleAreFinite, FS_Subset
  <2>2. Cardinality(readied) \in Nat /\ Cardinality(readied') \in Nat
    BY <1>r, PeopleAreFinite, FS_Subset, FS_CardinalityType
  <2> QED BY <1>s, <2>1, <2>2 DEF TwoReadyBeforeStart, RosterInv
<1>q. ASSUME UNCHANGED started,
             roster' \in {roster, NoRoster},
             initializer'.seen \in {initializer.seen, NoRoster},
             \A l \in Loops : /\ loop'[l].seen \in {loop[l].seen, NoRoster}
                              /\ loop'[l].pc = "write" => loop[l].pc = "write"
      PROVE  RosterInv'
  <2>1. Honest(roster)' /\ Honest(initializer.seen)'
    BY <1>q, <1>r, NewRosterHonest DEF Honest, RosterInv
  <2>2. \A l \in Loops : Honest(loop[l].seen)'
    BY <1>q, <1>r, NewRosterHonest DEF Honest, RosterInv
  <2>3. \A l \in Loops : loop'[l].pc = "write" => Owner[l] \in readied'
    BY <1>q, <1>r DEF RosterInv
  <2> QED BY <1>q, <1>s, <1>t, <2>1, <2>2, <2>3 DEF RosterInv
<1>1. CASE AnnounceGame \/ CacheQuestions \/ Expire
  BY <1>1, <1>q, <1>l DEF AnnounceGame, CacheQuestions, Expire, InitializerState, history
<1>2. ASSUME NEW p \in Players, Notify(p) \/ Connect(p) \/ Disconnect(p) PROVE RosterInv'
  BY <1>2, <1>q DEF Notify, Connect, Disconnect, history
<1>3. ASSUME Restart PROVE RosterInv'
  BY <1>3, <1>q, IdleLoopHonest DEF Restart
<1>4. CASE InitializerReads
  <2>1. CASE ~Restart
    <3>1. PICK seen \in {roster, NoRoster} :
            initializer' = [pc |-> IF Full(seen) THEN "done" ELSE "write", seen |-> seen]
      BY <1>4, <2>1 DEF InitializerReads
    <3>2. UNCHANGED <<roster, loop, started, readied>>
      BY <1>4, <2>1 DEF InitializerReads, history
    <3>3. Honest(initializer.seen)'
      BY <3>1, <3>2, NewRosterHonest DEF Honest, RosterInv
    <3> QED BY <1>t, <1>s, <3>2, <3>3 DEF Honest, RosterInv
  <2> QED BY <2>1, <1>3
<1>5. CASE InitializerWrites
  <2>1. UNCHANGED <<loop, started, readied>>
    BY <1>5 DEF InitializerWrites, history
  <2>2. Honest(roster)'
    BY <1>5, <2>1, NewRosterHonest DEF InitializerWrites, Honest, RosterInv
  <2>3. Honest(initializer.seen)'
    BY <1>5, <2>1, NewRosterHonest DEF InitializerWrites, Honest, RosterInv
  <2> QED BY <1>t, <1>s, <2>1, <2>2, <2>3 DEF Honest, RosterInv
<1>6. ASSUME NEW l \in Loops, ReceiveReady(l) PROVE RosterInv'
  <2>1. PICK seen \in {roster, NoRoster} :
          \/ /\ Full(seen)
             /\ loop' = [loop EXCEPT ![l].pc = "stamp"]
             /\ started' = TRUE
          \/ UNCHANGED <<loop, started>>
          \/ /\ loop' = [loop EXCEPT ![l].pc = "write", ![l].seen = seen]
             /\ UNCHANGED started
    BY <1>6 DEF ReceiveReady
  <2>2. UNCHANGED <<roster, initializer>> /\ Owner[l] \in readied'
    BY <1>6 DEF ReceiveReady
  <2>3. seen \in Rosters /\ Honest(seen) /\ Honest(seen)'
    BY <1>t, <1>h, NewRosterHonest, NewRosterType DEF RosterInv, TypeOK
  <2>4. TwoReadyBeforeStart'
    <3>1. CASE Full(seen)
      <4>1. Cardinality(readied) >= 2
        BY <1>r, <2>3, <3>1, FullIsTwoReady
      <4>2. /\ IsFiniteSet(readied') /\ Cardinality(readied) <= Cardinality(readied')
            /\ Cardinality(readied) \in Nat /\ Cardinality(readied') \in Nat
        BY <1>r, PeopleAreFinite, FS_Subset, FS_CardinalityType
      <4> QED BY <4>1, <4>2 DEF TwoReadyBeforeStart
    <3>2. CASE UNCHANGED started
      BY <3>2, <1>s
    <3> QED BY <2>1, <3>1, <3>2
  <2>5. \A k \in Loops :
          /\ loop'[k].seen \in {loop[k].seen, seen}
          /\ loop'[k].pc = "write" => loop[k].pc = "write" \/ k = l
    BY <1>l, <2>1 DEF LoopState
  <2>6. \A k \in Loops : Honest(loop[k].seen)'
    BY <1>r, <2>3, <2>5 DEF Honest, RosterInv
  <2>7. \A k \in Loops : loop'[k].pc = "write" => Owner[k] \in readied'
    BY <1>r, <2>2, <2>5 DEF RosterInv
  <2> QED BY <1>t, <1>r, <2>2, <2>4, <2>6, <2>7 DEF Honest, RosterInv
<1>7. ASSUME NEW l \in Loops, WriteRoster(l) PROVE RosterInv'
  <2> DEFINE new == Upsert(loop[l].seen, Owner[l])
  <2>1. new \in Rosters
    BY <1>l, <1>o, UpsertType DEF LoopState
  <2>2. Honest(new)
    <3>1. Honest(loop[l].seen) /\ Owner[l] \in readied /\ loop[l].seen \in Rosters
      BY <1>7, <1>l DEF WriteRoster, RosterInv, LoopState
    <3> QED BY <3>1, NewRosterHonest DEF Upsert, Honest, Rosters
  <2>3. UNCHANGED <<initializer, readied>> /\ roster' \in {roster, new}
    BY <1>7 DEF WriteRoster
  <2>4. Honest(roster)'
    BY <2>2, <2>3 DEF Honest, RosterInv
  <2>5. TwoReadyBeforeStart'
    <3>1. Full(new) => Cardinality(readied) >= 2
      BY <1>r, <2>1, <2>2, FullIsTwoReady
    <3>2. started' => started \/ Full(new)
      BY <1>7 DEF WriteRoster
    <3> QED BY <2>3, <3>1, <3>2 DEF TwoReadyBeforeStart, RosterInv
  <2>6. \A k \in Loops :
          /\ loop'[k].seen \in {loop[k].seen, NoRoster}
          /\ loop'[k].pc = "write" => loop[k].pc = "write"
    <3>1. /\ [IdleLoop EXCEPT !.pc = IF Full(new) THEN "stamp" ELSE "idle"].seen = NoRoster
          /\ [IdleLoop EXCEPT !.pc = IF Full(new) THEN "stamp" ELSE "idle"].pc # "write"
      BY IdleLoopType, IdleLoopHonest DEF LoopState
    <3> QED BY <1>7, <1>l, <3>1, IdleLoopHonest DEF WriteRoster
  <2>7. \A k \in Loops : Honest(loop[k].seen)'
    BY <2>3, <2>6, NewRosterHonest DEF Honest, RosterInv
  <2>8. \A k \in Loops : loop'[k].pc = "write" => Owner[k] \in readied'
    BY <2>3, <2>6 DEF RosterInv
  <2> QED BY <1>t, <2>3, <2>4, <2>5, <2>7, <2>8 DEF Honest, RosterInv
<1>8. ASSUME NEW l \in Loops, ReadQuestions(l) \/ SaveDeadlines(l) \/ FetchQuestions(l)
      PROVE  RosterInv'
  <2>1. UNCHANGED <<roster, initializer, started>>
    BY <1>8 DEF ReadQuestions, SaveDeadlines, FetchQuestions
  <2>2. \A k \in Loops : /\ loop'[k].seen = loop[k].seen
                         /\ loop'[k].pc = "write" => loop[k].pc = "write"
    BY <1>8, <1>l DEF ReadQuestions, AfterRead, SaveDeadlines, FetchQuestions,
                      AfterNoQuestions, LoopState
  <2> QED BY <1>q, <2>1, <2>2
<1>9. ASSUME NEW l \in Loops, NEW p \in Players, SendQuestions(l, p) PROVE RosterInv'
  <2>1. CASE ~Restart
    <3>1. UNCHANGED <<roster, initializer, started>>
      BY <1>9, <2>1 DEF SendQuestions, history
    <3>2. \A k \in Loops : /\ loop'[k].seen = loop[k].seen
                           /\ loop'[k].pc = "write" => loop[k].pc = "write"
      BY <1>9, <2>1, <1>l DEF SendQuestions, LoopState
    <3> QED BY <1>q, <3>1, <3>2
  <2> QED BY <1>3, <2>1
<1>10. ASSUME NEW l \in Loops, PublishTask(l) PROVE RosterInv'
  BY <1>10, <1>q, <1>l, IdleLoopHonest DEF PublishTask, history
<1>11. ASSUME NEW l \in Loops, ReplyError(l) PROVE RosterInv'
  <2>1. UNCHANGED <<roster, initializer, started>>
    BY <1>11 DEF ReplyError, history
  <2>2. \A k \in Loops : /\ loop'[k].seen \in {loop[k].seen, NoRoster}
                         /\ loop'[k].pc = "write" => loop[k].pc = "write"
    BY <1>11, <1>l, IdleLoopHonest DEF ReplyError, LoopState
  <2> QED BY <1>q, <2>1, <2>2
<1>12. CASE Crash
  BY <1>12, <1>3 DEF Crash
<1>13. CASE UNCHANGED vars
  BY <1>13, <1>q DEF vars, history
<1>14. CASE Recache
  BY <1>14, <1>3, <1>q DEF Recache, history
<1> QED
  BY <1>1, <1>2, <1>4, <1>5, <1>6, <1>7, <1>8, <1>9, <1>10, <1>12, <1>13, <1>14, <1>11
  DEF Next, HandleReady

(***************************************************************************)
(* A game never starts before two users have sent READY for it, however    *)
(* many players and connections it has, whoever sends READY and whatever   *)
(* fails.                                                                  *)
(***************************************************************************)
THEOREM TwoReadyCorrect == Spec => []TwoReadyBeforeStart
<1>1. RosterInv => TwoReadyBeforeStart
  BY DEF RosterInv
<1> QED BY <1>1, RosterInvInit, RosterInvNext, PTL DEF Spec

(***************************************************************************)
(* In a game of two for which nobody else sends READY that is everybody.   *)
(* Otherwise it is not, and the code does start without the others.        *)
(***************************************************************************)
THEOREM EveryoneReadyCorrect ==
  ASSUME Cardinality(Players) = 2
  PROVE  Spec => []EveryoneReadyBeforeStart
<1>1. RosterInv => EveryoneReadyBeforeStart
  <2> SUFFICES ASSUME RosterInv, started, readied \subseteq Players
               PROVE  readied = Players
    BY DEF EveryoneReadyBeforeStart
  <2>1. Cardinality(readied) >= 2
    BY DEF RosterInv, TwoReadyBeforeStart
  <2>2. /\ Cardinality(readied) <= 2 /\ Cardinality(readied) \in Nat
        /\ Cardinality(readied) = 2 => readied = Players
    BY ReadyRosterAssumption, FS_Subset, FS_CardinalityType
  <2> QED BY <2>1, <2>2
<1> QED BY <1>1, RosterInvInit, RosterInvNext, PTL DEF Spec

-----------------------------------------------------------------------------
(***************************************************************************)
(* Faults, and the end of the process, are never forgotten.                *)
(***************************************************************************)
LEMMA StrikeGrows ==
  ASSUME faults \in [FaultKinds -> Nat], NEW k \in FaultKinds, Strike(k)
  PROVE  /\ \A j \in FaultKinds : faults[j] > 0 => faults'[j] > 0
         /\ faults'[k] > 0
BY DEF Strike

LEMMA FaultsStay ==
  ASSUME TypeOK, [Next]_vars
  PROVE  /\ \A j \in FaultKinds : faults[j] > 0 => faults'[j] > 0
         /\ died => died'
<1>t. faults \in [FaultKinds -> Nat]
  BY DEF TypeOK
<1>1. UNCHANGED faults \/ \E k \in FaultKinds : Strike(k)
  <2> DEFINE Ok == UNCHANGED faults \/ \E k \in FaultKinds : Strike(k)
  <2>1. ASSUME NEW k \in FaultKinds, UNCHANGED faults \/ Strike(k) PROVE Ok
    BY <2>1
  <2>2. \A k \in {"get", "set", "reply", "write", "task", "board", "drop", "expire",
              "crash"} : k \in FaultKinds
    BY DEF FaultKinds
  <2>3. ASSUME NEW l \in Loops, ReceiveReady(l) \/ HandleReady(l) PROVE Ok
    <3>1. ASSUME NEW p \in Players, SendQuestions(l, p) PROVE Ok
      BY <3>1 DEF SendQuestions
    <3>2. CASE ReceiveReady(l)
      BY <2>1, <2>2, <3>2 DEF ReceiveReady, ReadRoster
    <3>3. CASE WriteRoster(l) \/ SaveDeadlines(l)
      BY <2>1, <2>2, <3>3 DEF WriteRoster, SaveDeadlines
    <3>4. CASE ReadQuestions(l) \/ FetchQuestions(l)
      BY <2>1, <2>2, <3>4 DEF ReadQuestions, FetchQuestions
    <3>5. CASE ReplyError(l) \/ PublishTask(l)
      BY <2>1, <2>2, <3>5 DEF ReplyError, PublishTask
    <3> QED BY <2>3, <3>1, <3>2, <3>3, <3>4, <3>5 DEF HandleReady
  <2>4. CASE InitializerReads
    BY <2>1, <2>2, <2>4 DEF InitializerReads, ReadRoster
  <2>5. CASE InitializerWrites \/ Recache \/ Expire \/ Crash
    BY <2>1, <2>2, <2>5 DEF InitializerWrites, Recache, Expire, Crash
  <2>6. ASSUME NEW p \in Players, Notify(p) \/ Disconnect(p) PROVE Ok
    BY <2>1, <2>2, <2>6 DEF Notify, Disconnect
  <2> QED
    BY <2>3, <2>4, <2>5, <2>6
    DEF Next, AnnounceGame, Connect, CacheQuestions, vars
<1>2. \A j \in FaultKinds : faults[j] > 0 => faults'[j] > 0
  BY <1>1, <1>t, StrikeGrows
<1>3. died => died'
  BY DEF Next, HandleReady, AnnounceGame, Notify, Connect, Disconnect, InitializerReads,
         InitializerWrites, ReceiveReady, WriteRoster, ReadQuestions, SaveDeadlines,
         ReplyError, FetchQuestions, SendQuestions, PublishTask, CacheQuestions,
         Recache, Expire, Crash, Restart, vars, history
<1> QED BY <1>2, <1>3

-----------------------------------------------------------------------------
(***************************************************************************)
(* Why nobody gets unstamped questions: a handler that has them in hand has*)
(* read them from Redis, so the consumer has cached them and will not do so*)
(* again; and once stamped they stay so or expire.  A handler that missed  *)
(* stamping, or a completion task that caches them again, ends all that.   *)
(***************************************************************************)
Excused == missed \/ faults["board"] > 0

Stamped ==
  /\ consumed \/ questions = "none"
  /\ \A l \in Loops :
       /\ loop[l].pc \in {"save", "reply", "send"} => consumed
       /\ loop[l].pc \in {"reply", "send"} => questions \in {"stamped", "gone"}

DeadlineInv ==
  /\ TypeOK
  /\ Excused \/ Stamped
  /\ DeadlinesBeforeQuestions

LEMMA DeadlineInvInit == Init => DeadlineInv
BY TypeInit, IdleLoopHonest
DEF Init, DeadlineInv, Stamped, DeadlinesBeforeQuestions

LEMMA DeadlineInvNext == DeadlineInv /\ [Next]_vars => DeadlineInv'
<1> SUFFICES ASSUME DeadlineInv, [Next]_vars PROVE DeadlineInv'
  OBVIOUS
<1>t. TypeOK /\ TypeOK'
  BY TypeNext DEF DeadlineInv
<1>l. /\ \A l \in Loops : loop[l] \in LoopState
      /\ loop \in [Loops -> LoopState]
  BY <1>t DEF TypeOK
<1>m. missed => missed'
  BY DEF Next, HandleReady, AnnounceGame, Notify, Connect, Disconnect, InitializerReads,
         InitializerWrites, ReceiveReady, WriteRoster, ReadQuestions, SaveDeadlines,
         ReplyError, FetchQuestions, SendQuestions, PublishTask, CacheQuestions,
         Recache, Expire, Crash, Restart, vars, history
<1>x. Excused => Excused'
  <2>1. faults["board"] > 0 => faults'["board"] > 0
    BY <1>t, FaultsStay DEF FaultKinds
  <2> QED BY <1>m, <2>1 DEF Excused
<1>u. ASSUME Excused' PROVE DeadlineInv'
  BY <1>u, <1>t DEF DeadlineInv, Excused, DeadlinesBeforeQuestions
<1>s. ASSUME UNCHANGED unstamped, Stamped => Stamped' PROVE DeadlineInv'
  <2>1. CASE Excused
    BY <2>1, <1>x, <1>u
  <2>2. CASE ~Excused
    <3>1. Stamped' /\ ~unstamped'
      BY <1>s, <2>2 DEF DeadlineInv, Excused, DeadlinesBeforeQuestions
    <3> QED BY <1>t, <3>1 DEF DeadlineInv, DeadlinesBeforeQuestions
  <2> QED BY <2>1, <2>2
<1>q. ASSUME UNCHANGED <<questions, consumed, unstamped>>,
             \A l \in Loops : loop'[l].pc \in {loop[l].pc, "idle", "write", "stamp",
                                               "deliver", "task"}
      PROVE  DeadlineInv'
  <2>1. Stamped => Stamped'
    BY <1>q DEF Stamped
  <2> QED BY <1>q, <1>s, <2>1
<1>1. CASE AnnounceGame \/ InitializerWrites
  BY <1>1, <1>q DEF AnnounceGame, InitializerWrites, history
<1>2. ASSUME NEW p \in Players, Notify(p) \/ Connect(p) \/ Disconnect(p) PROVE DeadlineInv'
  BY <1>2, <1>q DEF Notify, Connect, Disconnect, history
<1>3. ASSUME Restart PROVE DeadlineInv'
  BY <1>3, <1>q, IdleLoopHonest DEF Restart
<1>4. CASE InitializerReads
  BY <1>4, <1>3, <1>q DEF InitializerReads, history
<1>5. ASSUME NEW l \in Loops, ReceiveReady(l) PROVE DeadlineInv'
  <2>1. UNCHANGED <<questions, consumed, unstamped>>
    BY <1>5 DEF ReceiveReady
  <2>2. \A k \in Loops : loop'[k].pc \in {loop[k].pc, "stamp", "write"}
    BY <1>5, <1>l DEF ReceiveReady, LoopState
  <2> QED BY <1>q, <2>1, <2>2
<1>6. ASSUME NEW l \in Loops, WriteRoster(l) PROVE DeadlineInv'
  <2>1. UNCHANGED <<questions, consumed, unstamped>>
    BY <1>6 DEF WriteRoster
  <2>2. \A k \in Loops : loop'[k].pc \in {loop[k].pc, "stamp", "idle"}
    <3>1. \A b \in BOOLEAN :
            [IdleLoop EXCEPT !.pc = IF b THEN "stamp" ELSE "idle"].pc \in {"stamp", "idle"}
      BY IdleLoopType DEF LoopState
    <3> QED BY <1>6, <1>l, <3>1, IdleLoopHonest DEF WriteRoster
  <2> QED BY <1>q, <2>1, <2>2
<1>7. ASSUME NEW l \in Loops, ReadQuestions(l) PROVE DeadlineInv'
  <2>1. CASE ~missed'
    <3>1. UNCHANGED <<questions, consumed, unstamped>> /\ questions # "none"
      BY <1>7, <2>1 DEF ReadQuestions, Absent
    <3>2. \A k \in Loops : loop'[k].pc = "save" \/ loop'[k].pc = loop[k].pc
      BY <1>7, <2>1, <1>l DEF ReadQuestions, AfterRead, LoopState
    <3>3. Stamped => Stamped'
      BY <3>1, <3>2 DEF Stamped
    <3> QED BY <1>s, <3>1, <3>3
  <2>2. CASE missed'
    BY <2>2, <1>u DEF Excused
  <2> QED BY <2>1, <2>2
<1>8. ASSUME NEW l \in Loops, SaveDeadlines(l) PROVE DeadlineInv'
  <2>1. CASE questions' = "stamped" /\ UNCHANGED missed
    <3>1. UNCHANGED <<consumed, unstamped>> /\ loop[l].pc = "save"
      BY <1>8 DEF SaveDeadlines
    <3>2. \A k \in Loops \ {l} : loop'[k] = loop[k]
      BY <1>8, <1>l DEF SaveDeadlines
    <3>3. Stamped => Stamped'
      BY <2>1, <3>1, <3>2 DEF Stamped
    <3> QED BY <1>s, <3>1, <3>3
  <2>2. CASE missed'
    BY <2>2, <1>u DEF Excused
  <2> QED BY <1>8, <2>1, <2>2 DEF SaveDeadlines
<1>9. ASSUME NEW l \in Loops, FetchQuestions(l) PROVE DeadlineInv'
  <2>1. UNCHANGED <<questions, consumed, missed>> /\ loop[l].pc = "send"
    BY <1>9 DEF FetchQuestions
  <2>2. \A k \in Loops : loop'[k].pc \in {loop[k].pc, "deliver", "task"}
    BY <1>9, <1>l DEF FetchQuestions, AfterNoQuestions, LoopState
  <2>3. CASE Excused
    BY <2>3, <1>x, <1>u
  <2>4. CASE ~Excused
    <3>1. questions # "cached"
      BY <2>1, <2>4 DEF DeadlineInv, Stamped
    <3>2. UNCHANGED unstamped
      BY <1>9, <1>t, <3>1 DEF FetchQuestions, TypeOK
    <3> QED BY <1>q, <2>1, <2>2, <3>2
  <2> QED BY <2>3, <2>4
<1>10. ASSUME NEW l \in Loops, NEW p \in Players, SendQuestions(l, p) PROVE DeadlineInv'
  <2>1. CASE ~Restart
    <3>1. UNCHANGED <<questions, consumed, unstamped>>
      BY <1>10, <2>1 DEF SendQuestions, history
    <3>2. \A k \in Loops : loop'[k].pc \in {loop[k].pc, "task"}
      BY <1>10, <2>1, <1>l DEF SendQuestions, LoopState
    <3> QED BY <1>q, <3>1, <3>2
  <2> QED BY <1>3, <2>1
<1>11. ASSUME NEW l \in Loops, PublishTask(l) PROVE DeadlineInv'
  BY <1>11, <1>q, <1>l, IdleLoopHonest DEF PublishTask, history
<1>12. ASSUME NEW l \in Loops, ReplyError(l) PROVE DeadlineInv'
  <2>1. UNCHANGED <<questions, consumed, unstamped>> /\ loop[l].pc = "reply"
    BY <1>12 DEF ReplyError, history
  <2>2. \A k \in Loops \ {l} : loop'[k] = loop[k]
    BY <1>12, <1>l DEF ReplyError
  <2>3. Stamped => Stamped'
    BY <2>1, <2>2 DEF Stamped
  <2> QED BY <1>s, <2>1, <2>3
<1>13. CASE CacheQuestions
  <2>1. /\ ~consumed /\ consumed'
        /\ UNCHANGED <<loop, unstamped>>
    BY <1>13 DEF CacheQuestions, history
  <2>2. Stamped => Stamped'
    BY <2>1 DEF Stamped
  <2> QED BY <1>s, <2>1, <2>2
<1>14. CASE Recache
  <2>1. faults'["board"] > 0
    BY <1>14, <1>t, StrikeGrows DEF Recache, TypeOK, FaultKinds
  <2> QED BY <2>1, <1>u DEF Excused
<1>15. CASE Expire
  <2>1. UNCHANGED <<consumed, loop, unstamped>>
    BY <1>15 DEF Expire, history
  <2>2. questions' = questions \/ (questions # "none" /\ questions' = "gone")
    BY <1>15 DEF Expire, Absent
  <2>3. Stamped => Stamped'
    BY <2>1, <2>2 DEF Stamped
  <2> QED BY <1>s, <2>1, <2>3
<1>16. CASE Crash
  BY <1>16, <1>3 DEF Crash
<1>17. CASE UNCHANGED vars
  BY <1>17, <1>q DEF vars, history
<1> QED
  BY <1>1, <1>2, <1>4, <1>5, <1>6, <1>7, <1>8, <1>9, <1>10, <1>11, <1>13, <1>14, <1>15,
     <1>16, <1>17, <1>12
  DEF Next, HandleReady

(***************************************************************************)
(* No handler gets questions without deadlines to send, unless one failed  *)
(* to stamp them or a completion task cached them again.                   *)
(***************************************************************************)
THEOREM DeadlinesCorrect == Spec => []DeadlinesBeforeQuestions
<1>1. DeadlineInv => DeadlinesBeforeQuestions
  BY DEF DeadlineInv
<1> QED BY <1>1, DeadlineInvInit, DeadlineInvNext, PTL DEF Spec

-----------------------------------------------------------------------------
(***************************************************************************)
(* Why no start is forgotten: a read loop that was told to start leaves the*)
(* way to the completion task only by enqueuing it, by failing to, by not  *)
(* being able to tell its player, or with the process.                     *)
(***************************************************************************)
GaveUp == faults["task"] + faults["reply"] > 0 \/ died

LEMMA StrikeGivesUp ==
  ASSUME TypeOK, NEW k \in {"task", "reply"}, Strike(k) PROVE GaveUp'
<1>1. k \in FaultKinds /\ faults \in [FaultKinds -> Nat]
  BY DEF FaultKinds, TypeOK
<1>2. faults' \in [FaultKinds -> Nat] /\ faults'[k] > 0
  BY <1>1, StrikeType, StrikeGrows
<1>3. faults'["task"] \in Nat /\ faults'["reply"] \in Nat
  BY <1>2 DEF FaultKinds
<1> QED BY <1>2, <1>3 DEF GaveUp

LEMMA GaveUpStays ==
  ASSUME TypeOK, [Next]_vars, GaveUp PROVE GaveUp'
<1>1. faults \in [FaultKinds -> Nat] /\ faults' \in [FaultKinds -> Nat]
  BY TypeNext DEF TypeOK
<1>2. faults["task"] > 0 \/ faults["reply"] > 0 \/ died
  BY <1>1 DEF GaveUp, FaultKinds
<1>3. faults'["task"] > 0 \/ faults'["reply"] > 0 \/ died'
  BY <1>2, FaultsStay DEF FaultKinds
<1> QED BY <1>1, <1>3 DEF GaveUp, FaultKinds

LEMMA StartedIsInHandNext ==
  TypeOK /\ StartedIsInHand /\ [Next]_vars => StartedIsInHand'
<1> SUFFICES ASSUME TypeOK, StartedIsInHand, [Next]_vars
             PROVE  StartedIsInHand'
  OBVIOUS
<1>l. /\ \A l \in Loops : loop[l] \in LoopState
      /\ loop \in [Loops -> LoopState]
  BY DEF TypeOK
<1>g. GaveUp => GaveUp'
  BY GaveUpStays
<1>q. ASSUME UNCHANGED started, tasks \subseteq tasks',
             \A l \in Loops : Starting(l) => Starting(l)'
      PROVE  StartedIsInHand'
  BY <1>q, <1>g DEF StartedIsInHand, GaveUp
<1>u. ASSUME GaveUp' PROVE StartedIsInHand'
  BY <1>u DEF StartedIsInHand, GaveUp
<1>m. ASSUME NEW l \in Loops, UNCHANGED <<started, tasks>>,
             \A k \in Loops \ {l} : loop'[k] = loop[k],
             Starting(l) => Starting(l)'
      PROVE  StartedIsInHand'
  BY <1>m, <1>q DEF Starting
<1>1. CASE AnnounceGame \/ InitializerWrites \/ CacheQuestions \/ Expire
  BY <1>1, <1>q
  DEF AnnounceGame, InitializerWrites, CacheQuestions, Expire, Starting, history
<1>2. ASSUME NEW p \in Players, Notify(p) \/ Connect(p) \/ Disconnect(p)
      PROVE  StartedIsInHand'
  BY <1>2, <1>q DEF Notify, Connect, Disconnect, Starting, history
<1>3. ASSUME Restart PROVE StartedIsInHand'
  BY <1>3, <1>u DEF Restart, GaveUp
<1>4. CASE InitializerReads
  BY <1>4, <1>3, <1>q DEF InitializerReads, Starting, history
<1>5. ASSUME NEW l \in Loops, ReceiveReady(l) PROVE StartedIsInHand'
  <2>1. CASE loop' = [loop EXCEPT ![l].pc = "stamp"]
    <3>1. Starting(l)'
      BY <2>1, <1>l DEF Starting, LoopState
    <3> QED BY <3>1 DEF StartedIsInHand
  <2>2. CASE UNCHANGED started
    <3>1. ~Starting(l) /\ UNCHANGED tasks
      BY <1>5 DEF ReceiveReady, Starting
    <3>2. \A k \in Loops \ {l} : loop'[k] = loop[k]
      BY <1>5, <1>l DEF ReceiveReady
    <3> QED BY <1>m, <2>2, <3>1, <3>2
  <2> QED BY <1>5, <2>1, <2>2 DEF ReceiveReady
<1>6. ASSUME NEW l \in Loops, WriteRoster(l) PROVE StartedIsInHand'
  <2> DEFINE new == Upsert(loop[l].seen, Owner[l])
  <2>1. CASE Full(new) /\ loop' = [loop EXCEPT ![l] = [IdleLoop EXCEPT !.pc = "stamp"]]
    <3>1. [IdleLoop EXCEPT !.pc = "stamp"].pc = "stamp"
      BY IdleLoopType DEF LoopState
    <3>2. Starting(l)'
      BY <2>1, <3>1, <1>l DEF Starting
    <3> QED BY <3>2 DEF StartedIsInHand
  <2>2. CASE started' = started
    <3>1. ~Starting(l) /\ UNCHANGED tasks
      BY <1>6 DEF WriteRoster, Starting
    <3>2. \A k \in Loops \ {l} : loop'[k] = loop[k]
      BY <1>6, <1>l DEF WriteRoster
    <3> QED BY <1>m, <2>2, <3>1, <3>2
  <2>3. CASE /\ ~Full(new)
             /\ started' = (started \/ Full(new))
    <3>1. started' = started
      BY <2>3 DEF TypeOK
    <3> QED BY <2>2, <3>1
  <2>4. \/ /\ loop' = [loop EXCEPT ![l] = [IdleLoop EXCEPT
                         !.pc = IF Full(new) THEN "stamp" ELSE "idle"]]
           /\ started' = (started \/ Full(new))
        \/ started' = started
    BY <1>6 DEF WriteRoster
  <2> QED BY <2>1, <2>2, <2>3, <2>4
<1>7. ASSUME NEW l \in Loops, ReadQuestions(l) PROVE StartedIsInHand'
  <2>1. Starting(l)'
    BY <1>7, <1>l DEF ReadQuestions, AfterRead, Starting, LoopState
  <2>2. \A k \in Loops \ {l} : loop'[k] = loop[k]
    BY <1>7, <1>l DEF ReadQuestions
  <2> QED BY <1>m, <1>7, <2>1, <2>2 DEF ReadQuestions
<1>8. ASSUME NEW l \in Loops, SaveDeadlines(l) PROVE StartedIsInHand'
  <2>1. Starting(l)'
    BY <1>8, <1>l DEF SaveDeadlines, Starting, LoopState
  <2>2. \A k \in Loops \ {l} : loop'[k] = loop[k]
    BY <1>8, <1>l DEF SaveDeadlines
  <2> QED BY <1>m, <1>8, <2>1, <2>2 DEF SaveDeadlines
<1>9. ASSUME NEW l \in Loops, ReplyError(l) PROVE StartedIsInHand'
  <2>1. CASE Strike("reply")
    BY <2>1, <1>u, StrikeGivesUp
  <2>2. CASE loop' = [loop EXCEPT ![l].pc = "send"]
    <3>1. Starting(l)'
      BY <2>2, <1>l DEF Starting, LoopState
    <3>2. \A k \in Loops \ {l} : loop'[k] = loop[k]
      BY <2>2, <1>l
    <3> QED BY <1>m, <1>9, <3>1, <3>2 DEF ReplyError, history
  <2> QED BY <1>9, <2>1, <2>2 DEF ReplyError
<1>10. ASSUME NEW l \in Loops, FetchQuestions(l) PROVE StartedIsInHand'
  <2>1. Starting(l)'
    BY <1>10, <1>l DEF FetchQuestions, AfterNoQuestions, Starting, LoopState
  <2>2. \A k \in Loops \ {l} : loop'[k] = loop[k]
    BY <1>10, <1>l DEF FetchQuestions
  <2> QED BY <1>m, <1>10, <2>1, <2>2 DEF FetchQuestions
<1>11. ASSUME NEW l \in Loops, NEW p \in Players, SendQuestions(l, p)
       PROVE  StartedIsInHand'
  <2>1. CASE ~Restart
    <3>1. Starting(l)'
      BY <1>11, <2>1, <1>l DEF SendQuestions, Starting, LoopState
    <3>2. \A k \in Loops \ {l} : loop'[k] = loop[k]
      BY <1>11, <2>1, <1>l DEF SendQuestions
    <3> QED BY <1>m, <1>11, <2>1, <3>1, <3>2 DEF SendQuestions, history
  <2> QED BY <1>3, <2>1
<1>12. ASSUME NEW l \in Loops, PublishTask(l) PROVE StartedIsInHand'
  <2>1. CASE Strike("task")
    BY <2>1, <1>u, StrikeGivesUp
  <2>2. CASE tasks' = tasks \cup {loop[l].delay}
    BY <2>2 DEF StartedIsInHand
  <2> QED BY <1>12, <2>1, <2>2 DEF PublishTask
<1>13. CASE Crash
  BY <1>13, <1>3 DEF Crash
<1>14. CASE UNCHANGED vars
  BY <1>14, <1>q DEF vars, Starting, history
<1>15. CASE Recache
  BY <1>15, <1>3, <1>q DEF Recache, Starting, history
<1> QED
  BY <1>1, <1>2, <1>4, <1>5, <1>6, <1>7, <1>8, <1>9, <1>10, <1>11, <1>12, <1>13,
     <1>14, <1>15
  DEF Next, HandleReady

(***************************************************************************)
(* For any number of players, connections and faults, a game that a caller *)
(* was told to start is on its way to its completion task or has one.      *)
(***************************************************************************)
THEOREM StartedIsInHandCorrect == Spec => []StartedIsInHand
<1>1. Init => StartedIsInHand
  BY DEF Init, StartedIsInHand
<1> QED
  BY <1>1, TypeInit, TypeNext, StartedIsInHandNext, PTL DEF Spec
=============================================================================
