-------------------------- MODULE CompletionProofs --------------------------
(***************************************************************************)
(* Theorems about Completion, for every number of players, connections and *)
(* tasks, any points, number of retries and fault budget.                  *)
(***************************************************************************)
EXTENDS Completion, TLAPS

LEMMA DueTaskType == DueTask \in TaskState
BY DEF DueTask, TaskState

LEMMA FailedType ==
  ASSUME NEW s \in TaskState
  PROVE  /\ Failed(s) \in TaskState
         /\ Failed(s).pc \in {"due", "archived"}
<1> USE DEF DueTask, TaskState
<1>1. s.retried \in Nat /\ s.retried + 1 \in Nat
  OBVIOUS
<1>2. /\ [DueTask EXCEPT !.retried = s.retried + 1] \in TaskState
      /\ [DueTask EXCEPT !.retried = s.retried + 1].pc = "due"
  BY <1>1
<1>3. /\ [DueTask EXCEPT !.pc = "archived", !.retried = s.retried] \in TaskState
      /\ [DueTask EXCEPT !.pc = "archived", !.retried = s.retried].pc = "archived"
  BY <1>1
<1> QED BY <1>2, <1>3 DEF Failed

LEMMA NextPlayerType ==
  ASSUME NEW s \in TaskState
  PROVE  /\ NextPlayer(s) \in TaskState
         /\ NextPlayer(s).pc = "pick"
         /\ NextPlayer(s).left = s.left \ {s.to}
BY DEF NextPlayer, TaskState

LEMMA StrikeType ==
  ASSUME faults \in [FaultKinds -> Nat], NEW kind \in FaultKinds, Strike(kind)
  PROVE  faults' \in [FaultKinds -> Nat]
BY DEF Strike

(***************************************************************************)
(* Type correctness of the sessions and of the tasks.                      *)
(***************************************************************************)
LEMMA SessionTypeNext ==
  ASSUME SessionTypeOK, SessionStep
  PROVE  SessionTypeOK'
<1> USE SessionsAssumption DEF SessionTypeOK, SessionStates
<1>1. ASSUME NEW u \in Players, NEW k \in Conns, Upgrade(u, k)
      PROVE  SessionTypeOK'
  BY <1>1 DEF Upgrade
<1>2. ASSUME NEW k \in Conns, StoreConnection(k)
      PROVE  SessionTypeOK'
  BY <1>2 DEF StoreConnection
<1>3. ASSUME NEW k \in Conns, Greet(k)
      PROVE  SessionTypeOK'
  BY <1>3 DEF Greet
<1>4. ASSUME NEW k \in Conns, ReadFails(k)
      PROVE  SessionTypeOK'
  BY <1>4 DEF ReadFails
<1>5. ASSUME NEW k \in Conns, CleanUp(k)
      PROVE  SessionTypeOK'
  BY <1>5 DEF CleanUp, DeleteEntry
<1>6. ASSUME NEW k \in Conns, Hangup(k)
      PROVE  SessionTypeOK'
  BY <1>6 DEF Hangup
<1> QED
  BY <1>1, <1>2, <1>3, <1>4, <1>5, <1>6 DEF SessionStep

LEMMA LoseSessionsType ==
  ASSUME SessionTypeOK, LoseSessions
  PROVE  SessionTypeOK'
BY DEF LoseSessions, SessionTypeOK, SessionStates

LEMMA TypeInit == Init => TypeOK
BY DueTaskType, SessionsAssumption
   DEF Init, SessionInit, TypeOK, SessionTypeOK, SessionStates, FaultKinds, Serving, DueTask

(***************************************************************************)
(* A task's step replaces its state by one of the right type.              *)
(***************************************************************************)
WellFormed(s) ==
  /\ s \in TaskState
  /\ Serving(s) => s.to \in Players /\ s.conn \in Conns

LEMMA TaskStepType ==
  ASSUME TypeOK, NEW t \in Tasks, NEW s, WellFormed(s), task' = [task EXCEPT ![t] = s]
  PROVE  /\ task' \in [Tasks -> TaskState]
         /\ \A r \in Tasks : Serving(task'[r]) => task'[r].to \in Players /\ task'[r].conn \in Conns
BY DEF TypeOK, WellFormed

(***************************************************************************)
(* What each step of a task makes of its state.                            *)
(***************************************************************************)
LEMMA BeginEffect ==
  ASSUME TypeOK, NEW t \in Tasks, NEW event \in {"standings", "error"}, Begin(t, event)
  PROVE  \E s : /\ WellFormed(s) /\ task' = [task EXCEPT ![t] = s]
                /\ s.pc = "pick" /\ s.left = Players
<1> DEFINE s == [task[t] EXCEPT !.pc = "pick", !.event = event, !.left = Players]
<1>1. task[t] \in TaskState
  BY DEF TypeOK
<1>2. s \in TaskState /\ s.pc = "pick" /\ s.left = Players
  BY <1>1 DEF TaskState
<1>3. task' = [task EXCEPT ![t] = s]
  BY DEF Begin, TypeOK
<1> QED BY <1>2, <1>3 DEF WellFormed, Serving

LEMMA FailEffect ==
  ASSUME TypeOK, NEW t \in Tasks, Fail(t)
  PROVE  \E s : /\ WellFormed(s) /\ task' = [task EXCEPT ![t] = s]
                /\ s.pc \in {"due", "archived"}
<1>1. task[t] \in TaskState
  BY DEF TypeOK
<1>2. WellFormed(Failed(task[t])) /\ Failed(task[t]).pc \in {"due", "archived"}
  BY <1>1, FailedType DEF WellFormed, Serving
<1> QED BY <1>2 DEF Fail, TypeOK

LEMMA LookupEffect ==
  ASSUME TypeOK, NEW t \in Tasks, Lookup(t)
  PROVE  \E s : /\ WellFormed(s) /\ task' = [task EXCEPT ![t] = s]
                /\ \/ s.pc \in {"due", "archived"}
                   \/ s.pc = "done" /\ task[t].left = {}
                   \/ /\ s.pc = "write"
                      /\ s.to \in task[t].left
                      /\ s.conn = connections[s.to] /\ s.conn # NoConn
                      /\ s.left = task[t].left
<1>1. task[t] \in TaskState
  BY DEF TypeOK
<1>2. CASE /\ task[t].left = {}
           /\ task' = [task EXCEPT ![t].pc = "done"]
  <2> DEFINE s == [task[t] EXCEPT !.pc = "done"]
  <2>1. WellFormed(s) /\ s.pc = "done"
    BY <1>1 DEF WellFormed, Serving, TaskState
  <2>2. task' = [task EXCEPT ![t] = s]
    BY <1>2 DEF TypeOK
  <2> QED BY <1>2, <2>1, <2>2
<1>3. ASSUME NEW u \in Recipients(task[t]), connections[u] # NoConn,
             task' = [task EXCEPT ![t].pc = "write", ![t].to = u, ![t].conn = connections[u]]
      PROVE  \E s : /\ WellFormed(s) /\ task' = [task EXCEPT ![t] = s]
                    /\ s.pc = "write" /\ s.to \in task[t].left
                    /\ s.conn = connections[s.to] /\ s.conn # NoConn
                    /\ s.left = task[t].left
  <2> DEFINE s == [task[t] EXCEPT !.pc = "write", !.to = u, !.conn = connections[u]]
  <2>1. u \in task[t].left /\ u \in Players
    BY <1>1 DEF Recipients, Leading, TaskState
  <2>2. connections[u] \in Conns
    BY <1>3, <2>1 DEF TypeOK, SessionTypeOK
  <2>3. /\ s \in TaskState /\ s.pc = "write" /\ s.to = u
        /\ s.conn = connections[u] /\ s.left = task[t].left
    BY <1>1, <2>1, <2>2 DEF TaskState
  <2>4. task' = [task EXCEPT ![t] = s]
    BY <1>3 DEF TypeOK
  <2> QED BY <1>3, <2>1, <2>2, <2>3, <2>4 DEF WellFormed, Serving
<1> QED BY <1>2, <1>3, FailEffect DEF Lookup

LEMMA ServedEffect ==
  ASSUME TypeOK, NEW t \in Tasks, task' = [task EXCEPT ![t] = NextPlayer(@)]
  PROVE  \E s : /\ WellFormed(s) /\ task' = [task EXCEPT ![t] = s]
                /\ s.pc = "pick" /\ s.left = task[t].left \ {task[t].to}
<1>1. task[t] \in TaskState
  BY DEF TypeOK
<1> QED BY <1>1, NextPlayerType DEF WellFormed, Serving, TypeOK

LEMMA AdvanceEffect ==
  ASSUME TypeOK, NEW t \in Tasks, Serving(task[t]), NEW pc \in {"delete", "hangup"},
         task' = [task EXCEPT ![t].pc = pc]
  PROVE  \E s : /\ WellFormed(s) /\ task' = [task EXCEPT ![t] = s]
                /\ s.pc = pc /\ s.to = task[t].to /\ s.conn = task[t].conn
                /\ s.left = task[t].left
<1> DEFINE s == [task[t] EXCEPT !.pc = pc]
<1>1. task[t] \in TaskState /\ task[t].to \in Players /\ task[t].conn \in Conns
  BY DEF TypeOK
<1>2. /\ s \in TaskState /\ s.pc = pc /\ s.to = task[t].to
      /\ s.conn = task[t].conn /\ s.left = task[t].left
  BY <1>1 DEF TaskState
<1>3. task' = [task EXCEPT ![t] = s]
  BY DEF TypeOK
<1> QED BY <1>1, <1>2, <1>3 DEF WellFormed

-----------------------------------------------------------------------------
LEMMA TypeNext == TypeOK /\ [Next]_vars => TypeOK'
<1> SUFFICES ASSUME TypeOK, [Next]_vars PROVE TypeOK'
  OBVIOUS
<1>1. CASE SessionStep /\ UNCHANGED <<task, told, sent, faults>>
  BY <1>1, SessionTypeNext DEF TypeOK
<1>a. ASSUME NEW t \in Tasks, NEW s, WellFormed(s), task' = [task EXCEPT ![t] = s],
             SessionTypeOK',
             told' \in [Tasks -> SUBSET Players], sent' \in [Conns -> [Tasks -> Nat]],
             faults' \in [FaultKinds -> Nat]
      PROVE  TypeOK'
  BY <1>a, TaskStepType DEF TypeOK
<1>b. UNCHANGED sessionVars => SessionTypeOK'
  BY DEF TypeOK, SessionTypeOK, sessionVars
<1>2. ASSUME NEW t \in Tasks, BeginAttempt(t)
      PROVE  TypeOK'
  <2>2. faults' \in [FaultKinds -> Nat]
    BY <1>2, StrikeType DEF BeginAttempt, TypeOK, FaultKinds
  <2>3. PICK s : WellFormed(s) /\ task' = [task EXCEPT ![t] = s]
    BY <1>2, BeginEffect, FailEffect DEF BeginAttempt
  <2>4. /\ told' \in [Tasks -> SUBSET Players]
        /\ sent' \in [Conns -> [Tasks -> Nat]]
    BY <1>2 DEF BeginAttempt, TypeOK
  <2> QED BY <1>2, <1>a, <1>b, <2>2, <2>3, <2>4 DEF BeginAttempt
<1>3. ASSUME NEW t \in Tasks, Lookup(t)
      PROVE  TypeOK'
  BY <1>3, <1>a, <1>b, LookupEffect DEF Lookup, TypeOK
<1>4. ASSUME NEW t \in Tasks, Write(t)
      PROVE  TypeOK'
  <2>1. Serving(task[t]) /\ task[t].to \in Players
    BY <1>4 DEF Write, Serving, TypeOK
  <2>2. PICK s : WellFormed(s) /\ task' = [task EXCEPT ![t] = s]
    BY <1>4, <2>1, AdvanceEffect, ServedEffect DEF Write
  <2>3. told' \in [Tasks -> SUBSET Players]
    <3>1. told' = [told EXCEPT ![t] = @ \cup {task[t].to}]
      BY <1>4 DEF Write
    <3>2. told \in [Tasks -> SUBSET Players]
      BY DEF TypeOK
    <3> QED BY <2>1, <3>1, <3>2
  <2>4. sent' \in [Conns -> [Tasks -> Nat]]
    <3> DEFINE k == task[t].conn
    <3>1. sent' = sent \/ sent' = [sent EXCEPT ![k][t] = @ + 1]
      BY <1>4 DEF Write
    <3>2. sent \in [Conns -> [Tasks -> Nat]]
      BY DEF TypeOK
    <3> HIDE DEF k
    <3> QED BY <3>1, <3>2
  <2> QED BY <1>4, <1>a, <1>b, <2>2, <2>3, <2>4 DEF Write, TypeOK
<1>5. ASSUME NEW t \in Tasks, WriteFails(t)
      PROVE  TypeOK'
  BY <1>5, <1>a, <1>b, FailEffect DEF WriteFails, TypeOK
<1>6. ASSUME NEW t \in Tasks, DeleteRecipient(t)
      PROVE  TypeOK'
  <2>1. Serving(task[t])
    BY <1>6 DEF DeleteRecipient, Serving
  <2>2. PICK s : WellFormed(s) /\ task' = [task EXCEPT ![t] = s]
    BY <1>6, <2>1, AdvanceEffect DEF DeleteRecipient
  <2>3. SessionTypeOK'
    BY <1>6 DEF DeleteRecipient, DeleteEntry, TypeOK, SessionTypeOK
  <2> QED BY <1>6, <1>a, <2>2, <2>3 DEF DeleteRecipient, TypeOK
<1>7. ASSUME NEW t \in Tasks, CloseRecipient(t)
      PROVE  TypeOK'
  <2>1. PICK s : WellFormed(s) /\ task' = [task EXCEPT ![t] = s]
    BY <1>7, ServedEffect DEF CloseRecipient
  <2>2. SessionTypeOK'
    BY <1>7 DEF CloseRecipient, TypeOK, SessionTypeOK
  <2> QED BY <1>7, <1>a, <2>1, <2>2 DEF CloseRecipient, TypeOK
<1>8. CASE Crash
  <2>1. \A t \in Tasks : /\ task'[t] \in {Failed(task[t]), task[t]}
                         /\ ~ Serving(task'[t])
                         /\ task'[t] \in TaskState
    <3> SUFFICES ASSUME NEW t \in Tasks
                 PROVE  /\ task'[t] \in {Failed(task[t]), task[t]}
                        /\ ~ Serving(task'[t])
                        /\ task'[t] \in TaskState
      OBVIOUS
    <3>1. task[t] \in TaskState
      BY DEF TypeOK
    <3>2. task'[t] = IF Running(task[t]) THEN Failed(task[t]) ELSE task[t]
      BY <1>8 DEF Crash
    <3> QED BY <3>1, <3>2, FailedType DEF Running, Serving
  <2>2. faults' \in [FaultKinds -> Nat]
    BY <1>8, StrikeType DEF Crash, TypeOK, FaultKinds
  <2>3. task' \in [Tasks -> TaskState]
    BY <1>8, <2>1 DEF Crash
  <2> QED BY <1>8, <2>1, <2>2, <2>3, LoseSessionsType DEF Crash, TypeOK
<1>9. CASE UNCHANGED vars
  BY <1>9, <1>b DEF vars, TypeOK
<1> QED
  BY <1>1, <1>2, <1>3, <1>4, <1>5, <1>6, <1>7, <1>8, <1>9 DEF Next, TaskStep

(***************************************************************************)
(* The sessions, the connection map and the completion tasks keep their    *)
(* types, and a task that serves a player knows who and over what.         *)
(***************************************************************************)
THEOREM TypeCorrect == Spec => []TypeOK
BY TypeInit, TypeNext, PTL DEF Spec

-----------------------------------------------------------------------------
(***************************************************************************)
(* An attempt has told everybody it has struck off its list, and the       *)
(* player it is about to strike off.                                       *)
(***************************************************************************)
ToldInv ==
  \A t \in Tasks :
    /\ task[t].pc \in {"pick", "write", "delete", "hangup"} => Players \ task[t].left \subseteq told[t]
    /\ task[t].pc \in {"delete", "hangup"} => task[t].to \in told[t]
    /\ task[t].pc = "done" => told[t] = Players

LEMMA ToldNext == TypeOK /\ ToldInv /\ [Next]_vars => ToldInv'
<1> SUFFICES ASSUME TypeOK, ToldInv, [Next]_vars PROVE ToldInv'
  OBVIOUS
<1>t. \A t \in Tasks : task[t].left \subseteq Players /\ told[t] \subseteq Players
  BY DEF TypeOK, TaskState
<1>a. ASSUME NEW t \in Tasks, NEW s, task' = [task EXCEPT ![t] = s],
             \A r \in Tasks \ {t} : told'[r] = told[r]
      PROVE  /\ task'[t] = s
             /\ \A r \in Tasks \ {t} : task'[r] = task[r] /\ told'[r] = told[r]
  BY <1>a DEF TypeOK
<1>1. ASSUME NEW t \in Tasks, BeginAttempt(t)
      PROVE  ToldInv'
  <2>1. PICK s : /\ task' = [task EXCEPT ![t] = s]
                 /\ \/ s.pc = "pick" /\ s.left = Players
                    \/ s.pc \in {"due", "archived"}
    <3>1. ASSUME NEW event \in {"standings", "error"}, Begin(t, event)
          PROVE  \E s : task' = [task EXCEPT ![t] = s] /\ s.pc = "pick" /\ s.left = Players
      BY <3>1, BeginEffect
    <3>2. ASSUME Fail(t)
          PROVE  \E s : task' = [task EXCEPT ![t] = s] /\ s.pc \in {"due", "archived"}
      BY <3>2, FailEffect
    <3>3. Begin(t, "standings") \/ Begin(t, "error") \/ Fail(t)
      BY <1>1 DEF BeginAttempt
    <3> QED BY <3>1, <3>2, <3>3
  <2>2. \A r \in Tasks \ {t} : told'[r] = told[r]
    BY <1>1 DEF BeginAttempt, TypeOK
  <2>3. /\ s.pc \notin {"write", "delete", "hangup", "done"}
        /\ s.pc = "pick" => Players \ s.left = {}
    BY <2>1
  <2>4. task'[t] = s /\ \A r \in Tasks \ {t} : task'[r] = task[r]
    BY <2>1 DEF TypeOK
  <2> QED BY <2>2, <2>3, <2>4 DEF ToldInv
<1>2. ASSUME NEW t \in Tasks, Lookup(t)
      PROVE  ToldInv'
  <2>1. PICK s : /\ task' = [task EXCEPT ![t] = s]
                 /\ \/ s.pc \in {"due", "archived"}
                    \/ s.pc = "done" /\ task[t].left = {}
                    \/ s.pc = "write" /\ s.left = task[t].left
    BY <1>2, LookupEffect
  <2>2. told' = told /\ task[t].pc = "pick"
    BY <1>2 DEF Lookup
  <2>3. s.pc = "done" => told[t] = Players
    BY <1>t, <2>1, <2>2 DEF ToldInv
  <2> QED BY <1>a, <2>1, <2>2, <2>3 DEF ToldInv
<1>3. ASSUME NEW t \in Tasks, Write(t)
      PROVE  ToldInv'
  <2>1. Serving(task[t]) /\ task[t].pc = "write"
    BY <1>3 DEF Write, Serving
  <2>2. PICK s : /\ task' = [task EXCEPT ![t] = s]
                 /\ \/ /\ s.pc = "delete" /\ s.to = task[t].to
                       /\ s.left = task[t].left
                    \/ s.pc = "pick" /\ s.left = task[t].left \ {task[t].to}
    BY <1>3, <2>1, AdvanceEffect, ServedEffect DEF Write
  <2>3. /\ told'[t] = told[t] \cup {task[t].to}
        /\ \A r \in Tasks \ {t} : told'[r] = told[r]
    BY <1>3 DEF Write, TypeOK
  <2> QED BY <1>a, <2>1, <2>2, <2>3 DEF ToldInv
<1>4. ASSUME NEW t \in Tasks, WriteFails(t)
      PROVE  ToldInv'
  BY <1>4, <1>a, FailEffect DEF WriteFails, ToldInv
<1>5. ASSUME NEW t \in Tasks, DeleteRecipient(t)
      PROVE  ToldInv'
  <2>1. Serving(task[t]) /\ task[t].pc = "delete" /\ told' = told
    BY <1>5 DEF DeleteRecipient, Serving
  <2>2. PICK s : /\ task' = [task EXCEPT ![t] = s]
                 /\ s.pc = "hangup" /\ s.to = task[t].to /\ s.left = task[t].left
    BY <1>5, <2>1, AdvanceEffect DEF DeleteRecipient
  <2> QED BY <1>a, <2>1, <2>2 DEF ToldInv
<1>6. ASSUME NEW t \in Tasks, CloseRecipient(t)
      PROVE  ToldInv'
  <2>1. PICK s : /\ task' = [task EXCEPT ![t] = s]
                 /\ s.pc = "pick" /\ s.left = task[t].left \ {task[t].to}
    BY <1>6, ServedEffect DEF CloseRecipient
  <2>2. told' = told /\ task[t].pc = "hangup"
    BY <1>6 DEF CloseRecipient
  <2> QED BY <1>a, <2>1, <2>2 DEF ToldInv
<1>7. CASE Crash
  <2>1. \A t \in Tasks : task'[t] = task[t] \/ task'[t].pc \in {"due", "archived"}
    BY <1>7, FailedType DEF Crash, TypeOK
  <2> QED BY <1>7, <2>1 DEF Crash, ToldInv
<1>8. CASE UNCHANGED <<task, told>>
  BY <1>8 DEF ToldInv
<1> QED
  BY <1>1, <1>2, <1>3, <1>4, <1>5, <1>6, <1>7, <1>8 DEF Next, TaskStep, vars

(***************************************************************************)
(* A task is done only if its last attempt has reached every player.       *)
(***************************************************************************)
THEOREM DoneMeansToldCorrect == Spec => []DoneMeansTold
<1>1. Init => ToldInv
  BY DEF Init, ToldInv, DueTask
<1>2. TypeOK /\ [Next]_vars => TypeOK'
  BY TypeNext
<1>3. ToldInv => DoneMeansTold
  BY DEF ToldInv, DoneMeansTold
<1> QED BY <1>1, <1>2, <1>3, TypeInit, ToldNext, PTL DEF Spec

-----------------------------------------------------------------------------
(***************************************************************************)
(* The strengthening behind StandingsOncePerTask and HungUpAfterStandings: *)
(* entries belong to their users and were stored, once; and a connection   *)
(* a task has sent the standings over is out of the map, for good, or just *)
(* about to be taken out by that task.                                     *)
(***************************************************************************)
EntriesOwned ==
  \A u \in Players : connections[u] # NoConn =>
    owner[connections[u]] = u /\ Stored(connections[u])

ServedOwned ==
  \A t \in Tasks : Serving(task[t]) =>
    owner[task[t].conn] = task[t].to /\ Stored(task[t].conn)

SentOnce(k, t) ==
  /\ sent[k][t] <= 1
  /\ sent[k][t] = 1 =>
       /\ Stored(k)
       /\ task[t].pc = "write" => task[t].conn # k
       /\ \/ \A u \in Players : connections[u] # k
          \/ task[t].pc = "delete" /\ task[t].conn = k

ServedSent ==
  \A t \in Tasks : task[t].pc \in {"delete", "hangup"} => sent[task[t].conn][t] = 1

SentInv ==
  /\ EntriesOwned
  /\ ServedOwned
  /\ \A k \in Conns, t \in Tasks : SentOnce(k, t)
  /\ ServedSent

(***************************************************************************)
(* A step of the sessions, or their loss, keeps owners and stored          *)
(* connections as they are; it may store a connection that was not before. *)
(***************************************************************************)
LEMMA SessionKeeps ==
  ASSUME TypeOK, SessionStep \/ LoseSessions
  PROVE  /\ \A k \in Conns : Stored(k) => Stored(k)' /\ owner'[k] = owner[k]
         /\ \A u \in Players :
              \/ connections'[u] = NoConn
              \/ connections'[u] = connections[u]
              \/ \E k \in Conns : /\ session[k] = "upgraded" /\ Stored(k)'
                                  /\ connections'[u] = k /\ owner'[k] = u
<1> USE DEF TypeOK, SessionTypeOK, Stored
<1>1. ASSUME NEW u \in Players, NEW k \in Conns, Upgrade(u, k)
      PROVE  /\ connections' = connections
             /\ \A j \in Conns : j # k => session'[j] = session[j] /\ owner'[j] = owner[j]
             /\ session[k] = "unused"
  BY <1>1 DEF Upgrade
<1>2. ASSUME NEW k \in Conns, StoreConnection(k)
      PROVE  /\ owner' = owner /\ session[k] = "upgraded"
             /\ session' = [session EXCEPT ![k] = "stored"]
             /\ connections' = [connections EXCEPT ![owner[k]] = k]
             /\ owner[k] \in Players
  BY <1>2 DEF StoreConnection
<1>3. ASSUME NEW k \in Conns, Greet(k) \/ ReadFails(k) \/ Hangup(k)
      PROVE  /\ connections' = connections /\ owner' = owner
             /\ \A j \in Conns : Stored(j) => Stored(j)'
  BY <1>3 DEF Greet, ReadFails, Hangup
<1>4. ASSUME NEW k \in Conns, CleanUp(k)
      PROVE  /\ connections' = [connections EXCEPT ![owner[k]] = NoConn] /\ owner' = owner
             /\ \A j \in Conns : Stored(j) => Stored(j)'
  BY <1>4 DEF CleanUp, DeleteEntry
<1>5. CASE LoseSessions
  BY <1>5 DEF LoseSessions
<1>6. CASE SessionStep
  BY <1>1, <1>2, <1>3, <1>4, <1>6 DEF SessionStep
<1> QED BY <1>5, <1>6

(* The part of SentInv about the map and what tasks know of it. *)
LEMMA OwnedKept ==
  ASSUME TypeOK, SentInv, SessionStep \/ LoseSessions,
         \A t \in Tasks : task'[t] = task[t] \/ ~ Serving(task'[t])
  PROVE  EntriesOwned' /\ ServedOwned'
<1>1. EntriesOwned'
  <2> SUFFICES ASSUME NEW u \in Players, connections'[u] # NoConn
               PROVE  /\ owner'[connections'[u]] = u
                      /\ session'[connections'[u]] \notin {"unused", "upgraded"}
    BY DEF EntriesOwned, Stored
  <2>1. CASE connections'[u] = connections[u]
    <3>1. connections[u] \in Conns /\ owner[connections[u]] = u /\ Stored(connections[u])
      BY <2>1 DEF TypeOK, SessionTypeOK, SentInv, EntriesOwned
    <3>2. /\ owner'[connections[u]] = owner[connections[u]]
          /\ session'[connections[u]] \notin {"unused", "upgraded"}
      BY <3>1, SessionKeeps DEF Stored
    <3> QED BY <2>1, <3>1, <3>2 DEF Stored
  <2>2. CASE \E k \in Conns : Stored(k)' /\ connections'[u] = k /\ owner'[k] = u
    BY <2>2 DEF Stored
  <2> QED BY <2>1, <2>2, SessionKeeps
<1>2. ServedOwned'
  <2> SUFFICES ASSUME NEW t \in Tasks, Serving(task'[t])
               PROVE  /\ owner'[task'[t].conn] = task'[t].to
                      /\ session'[task'[t].conn] \notin {"unused", "upgraded"}
    BY DEF ServedOwned, Stored, Serving
  <2>1. task'[t] = task[t]
    OBVIOUS
  <2>2. task[t].conn \in Conns /\ owner[task[t].conn] = task[t].to /\ Stored(task[t].conn)
    BY <2>1 DEF TypeOK, SentInv, ServedOwned
  <2>3. owner'[task[t].conn] = owner[task[t].conn]
        /\ session'[task[t].conn] \notin {"unused", "upgraded"}
    BY <2>2, SessionKeeps DEF Stored
  <2> QED BY <2>1, <2>2, <2>3
<1> QED BY <1>1, <1>2

LEMMA SentNext == TypeOK /\ SentInv /\ [Next]_vars => SentInv'
<1> SUFFICES ASSUME TypeOK, SentInv, [Next]_vars PROVE SentInv'
  OBVIOUS
<1>t. /\ \A t \in Tasks : Serving(task[t]) => task[t].to \in Players /\ task[t].conn \in Conns
      /\ \A k \in Conns, t \in Tasks : sent[k][t] \in Nat
      /\ \A u \in Players : connections[u] \in Conns \cup {NoConn}
      /\ NoConn \notin Conns
  BY SessionsAssumption DEF TypeOK, SessionTypeOK
<1>i. EntriesOwned /\ ServedOwned /\ ServedSent /\ \A k \in Conns, t \in Tasks : SentOnce(k, t)
  BY DEF SentInv
<1>a. ASSUME NEW t \in Tasks, NEW s, task' = [task EXCEPT ![t] = s]
      PROVE  task'[t] = s /\ \A r \in Tasks \ {t} : task'[r] = task[r]
  BY <1>a DEF TypeOK
(* A step of the sessions or their loss. *)
<1>1. ASSUME SessionStep \/ LoseSessions, sent' = sent,
             \A t \in Tasks : \/ task'[t] = task[t] /\ SessionStep
                              \/ /\ task'[t].pc \in {"due", "done", "archived"}
                                 /\ LoseSessions
      PROVE  SentInv'
  <2>1. EntriesOwned' /\ ServedOwned'
    BY <1>1, OwnedKept DEF Serving
  <2>2. ServedSent'
    BY <1>1, <1>i DEF ServedSent
  <2>3. ASSUME NEW k \in Conns, NEW t \in Tasks PROVE SentOnce(k, t)'
    <3>1. SentOnce(k, t)
      BY <1>i
    <3>2. CASE sent[k][t] # 1
      BY <1>1, <3>1, <3>2 DEF SentOnce
    <3>3. CASE sent[k][t] = 1
      <4>1. Stored(k) /\ session'[k] \notin {"unused", "upgraded"}
        BY <1>1, <3>1, <3>3, SessionKeeps DEF SentOnce, Stored
      <4>2. CASE \A u \in Players : connections[u] # k
        <5>1. \A u \in Players : connections'[u] # k
          BY <1>1, <1>t, <4>1, <4>2, SessionKeeps DEF Stored
        <5> QED BY <1>1, <3>1, <3>3, <4>1, <5>1 DEF SentOnce, Stored
      <4>3. CASE task[t].pc = "delete" /\ task[t].conn = k
        <5>1. CASE task'[t] = task[t]
          BY <1>1, <3>1, <4>1, <4>3, <5>1 DEF SentOnce, Stored
        <5>2. CASE LoseSessions
          <6>1. \A u \in Players : connections'[u] # k
            BY <1>t, <5>2 DEF LoseSessions
          <6>2. task'[t].pc # "write"
            BY <1>1, <4>3
          <6>3. sent'[k][t] <= 1
            BY <1>1, <3>1 DEF SentOnce
          <6> QED BY <4>1, <6>1, <6>2, <6>3 DEF SentOnce, Stored
        <5> QED BY <1>1, <5>1, <5>2
      <4> QED BY <3>1, <3>3, <4>2, <4>3 DEF SentOnce
    <3> QED BY <3>2, <3>3
  <2> QED BY <2>1, <2>2, <2>3 DEF SentInv
(* A step of a task: entries only go, sessions stay, and the task's new    *)
(* state is spelled out.                                                   *)
<1>b. ASSUME NEW t \in Tasks, NEW s, task' = [task EXCEPT ![t] = s],
             UNCHANGED <<owner, session>>,
             \A u \in Players : connections'[u] \in {connections[u], NoConn},
             Serving(s) => owner[s.conn] = s.to /\ Stored(s.conn)
      PROVE  EntriesOwned' /\ ServedOwned'
  <2>1. task'[t] = s /\ \A r \in Tasks \ {t} : task'[r] = task[r]
    BY <1>a, <1>b
  <2>2. EntriesOwned'
    BY <1>b, <1>i DEF EntriesOwned, Stored
  <2>3. ServedOwned'
    BY <1>b, <1>i, <2>1 DEF ServedOwned, Stored, Serving
  <2> QED BY <2>2, <2>3
<1>c. ASSUME NEW t \in Tasks, NEW s, task' = [task EXCEPT ![t] = s],
             UNCHANGED <<connections, owner, session, sent>>,
             task[t].pc # "delete", s.pc \notin {"write", "delete", "hangup"}
      PROVE  SentInv'
  <2>1. task'[t] = s /\ \A r \in Tasks \ {t} : task'[r] = task[r]
    BY <1>a, <1>c
  <2>2. EntriesOwned' /\ ServedOwned'
    BY <1>b, <1>c DEF Serving
  <2>3. ServedSent'
    BY <1>c, <1>i, <2>1 DEF ServedSent
  <2>4. ASSUME NEW k \in Conns, NEW r \in Tasks PROVE SentOnce(k, r)'
    <3>1. SentOnce(k, r)
      BY <1>i
    <3>2. CASE r = t
      BY <1>c, <2>1, <3>1, <3>2 DEF SentOnce, Stored
    <3>3. CASE r # t
      <4>1. task'[r] = task[r]
        BY <2>1, <3>3
      <4> QED BY <1>c, <3>1, <4>1 DEF SentOnce, Stored
    <3> QED BY <3>2, <3>3
  <2> QED BY <2>2, <2>3, <2>4 DEF SentInv
<1>2. ASSUME NEW t \in Tasks, BeginAttempt(t)
      PROVE  SentInv'
  <2>1. PICK s : task' = [task EXCEPT ![t] = s] /\ s.pc \in {"pick", "due", "archived"}
    <3>1. ASSUME NEW event \in {"standings", "error"}, Begin(t, event)
          PROVE  \E s : task' = [task EXCEPT ![t] = s] /\ s.pc = "pick"
      BY <3>1, BeginEffect
    <3>2. ASSUME Fail(t)
          PROVE  \E s : task' = [task EXCEPT ![t] = s] /\ s.pc \in {"due", "archived"}
      BY <3>2, FailEffect
    <3>3. Begin(t, "standings") \/ Begin(t, "error") \/ Fail(t)
      BY <1>2 DEF BeginAttempt
    <3> QED BY <3>1, <3>2, <3>3
  <2> QED BY <1>2, <1>c, <2>1 DEF BeginAttempt, sessionVars
<1>3. ASSUME NEW t \in Tasks, Lookup(t)
      PROVE  SentInv'
  <2>1. PICK s : /\ task' = [task EXCEPT ![t] = s]
                 /\ \/ s.pc \in {"due", "archived", "done"}
                    \/ /\ s.pc = "write" /\ s.to \in Players
                       /\ s.conn = connections[s.to] /\ s.conn # NoConn
    <3>1. task[t].left \subseteq Players
      BY DEF TypeOK, TaskState
    <3> QED BY <1>3, <3>1, LookupEffect
  <2>2. UNCHANGED <<connections, owner, session, sent>> /\ task[t].pc = "pick"
    BY <1>3 DEF Lookup, sessionVars
  <2>3. CASE s.pc \in {"due", "archived", "done"}
    BY <1>c, <2>1, <2>2, <2>3
  <2>4. CASE s.pc = "write"
    <3>1. /\ s.to \in Players
          /\ s.conn = connections[s.to] /\ s.conn # NoConn /\ s.conn \in Conns
      BY <1>t, <2>1, <2>4
    <3>2. owner[s.conn] = s.to /\ Stored(s.conn)
      BY <1>i, <3>1 DEF EntriesOwned
    <3>3. EntriesOwned' /\ ServedOwned'
      BY <1>b, <2>1, <2>2, <3>2
    <3>4. task'[t] = s /\ \A r \in Tasks \ {t} : task'[r] = task[r]
      BY <1>a, <2>1
    <3>5. ServedSent'
      BY <1>i, <2>2, <2>4, <3>4 DEF ServedSent
    <3>6. ASSUME NEW k \in Conns, NEW r \in Tasks PROVE SentOnce(k, r)'
      <4>1. SentOnce(k, r)
        BY <1>i
      <4>2. CASE r = t
        <5>1. sent[k][t] = 1 => s.conn # k
          BY <2>2, <3>1, <4>1, <4>2 DEF SentOnce
        <5> QED BY <2>2, <2>4, <3>4, <4>1, <4>2, <5>1 DEF SentOnce, Stored
      <4>3. CASE r # t
        <5>1. task'[r] = task[r]
          BY <3>4, <4>3
        <5> QED BY <2>2, <4>1, <5>1 DEF SentOnce, Stored
      <4> QED BY <4>2, <4>3
    <3> QED BY <3>3, <3>5, <3>6 DEF SentInv
  <2> QED BY <2>1, <2>3, <2>4
<1>4. ASSUME NEW t \in Tasks, Write(t)
      PROVE  SentInv'
  <2> DEFINE k0 == task[t].conn
  <2>1. /\ Serving(task[t]) /\ task[t].pc = "write" /\ k0 \in Conns
        /\ owner[k0] = task[t].to /\ Stored(k0)
    BY <1>4, <1>i, <1>t DEF Write, Serving, ServedOwned
  <2>2. UNCHANGED <<connections, owner, session>>
    BY <1>4 DEF Write, sessionVars
  <2>3. CASE sent' = sent /\ task' = [task EXCEPT ![t] = NextPlayer(@)]
    BY <1>c, <2>1, <2>2, <2>3, ServedEffect
  <2>4. CASE /\ sent' = [sent EXCEPT ![k0][t] = @ + 1]
             /\ task' = [task EXCEPT ![t].pc = "delete"]
    <3>1. PICK s : /\ task' = [task EXCEPT ![t] = s]
                   /\ s.pc = "delete" /\ s.to = task[t].to /\ s.conn = k0
      BY <2>1, <2>4, AdvanceEffect
    <3>2. EntriesOwned' /\ ServedOwned'
      BY <1>b, <2>1, <2>2, <3>1
    <3>3. task'[t] = s /\ \A r \in Tasks \ {t} : task'[r] = task[r]
      BY <1>a, <3>1
    <3>4. sent[k0][t] = 0
      <4>1. SentOnce(k0, t) /\ sent[k0][t] \in Nat
        BY <1>i, <1>t, <2>1
      <4> QED BY <2>1, <4>1 DEF SentOnce
    <3>5. /\ sent'[k0][t] = 1
          /\ \A k \in Conns, r \in Tasks : k # k0 \/ r # t => sent'[k][r] = sent[k][r]
      BY <2>1, <2>4, <3>4 DEF TypeOK
    <3>6. ServedSent'
      BY <1>i, <1>t, <3>1, <3>3, <3>5 DEF ServedSent, Serving
    <3>7. ASSUME NEW k \in Conns, NEW r \in Tasks PROVE SentOnce(k, r)'
      <4>1. SentOnce(k, r)
        BY <1>i
      <4>2. CASE r = t /\ k = k0
        BY <2>1, <2>2, <3>1, <3>3, <3>5, <4>2 DEF SentOnce, Stored
      <4>3. CASE r = t /\ k # k0
        BY <2>1, <2>2, <3>1, <3>3, <3>5, <4>1, <4>3 DEF SentOnce, Stored
      <4>4. CASE r # t
        <5>1. task'[r] = task[r] /\ sent'[k][r] = sent[k][r]
          BY <3>3, <3>5, <4>4
        <5> QED BY <2>2, <4>1, <5>1 DEF SentOnce, Stored
      <4> QED BY <4>2, <4>3, <4>4
    <3> QED BY <3>2, <3>6, <3>7 DEF SentInv
  <2> QED BY <1>4, <2>3, <2>4 DEF Write
<1>5. ASSUME NEW t \in Tasks, WriteFails(t)
      PROVE  SentInv'
  <2>1. UNCHANGED <<connections, owner, session, sent>> /\ task[t].pc = "write"
    BY <1>5 DEF WriteFails, sessionVars
  <2> QED BY <1>5, <1>c, <2>1, FailEffect DEF WriteFails
<1>6. ASSUME NEW t \in Tasks, DeleteRecipient(t)
      PROVE  SentInv'
  <2> DEFINE k0 == task[t].conn
             u0 == task[t].to
  <2>1. /\ Serving(task[t]) /\ task[t].pc = "delete" /\ k0 \in Conns /\ u0 \in Players
        /\ owner[k0] = u0 /\ Stored(k0)
    BY <1>6, <1>i, <1>t DEF DeleteRecipient, Serving, ServedOwned
  <2>2. /\ UNCHANGED <<owner, session, sent>>
        /\ connections' = [connections EXCEPT ![u0] = NoConn]
        /\ task' = [task EXCEPT ![t].pc = "hangup"]
    BY <1>6 DEF DeleteRecipient, DeleteEntry
  <2>3. PICK s : /\ task' = [task EXCEPT ![t] = s]
                 /\ s.pc = "hangup" /\ s.to = u0 /\ s.conn = k0
    BY <2>1, <2>2, AdvanceEffect
  <2>4. \A u \in Players : connections'[u] \in {connections[u], NoConn}
    BY <2>2 DEF TypeOK, SessionTypeOK
  <2>5. EntriesOwned' /\ ServedOwned'
    BY <1>b, <2>1, <2>2, <2>3, <2>4
  <2>6. task'[t] = s /\ \A r \in Tasks \ {t} : task'[r] = task[r]
    BY <1>a, <2>3
  <2>7. ServedSent'
    BY <1>i, <2>1, <2>2, <2>3, <2>6 DEF ServedSent
  <2>8. \A u \in Players : connections'[u] # k0
    BY <1>i, <1>t, <2>1, <2>2, <2>4 DEF EntriesOwned, TypeOK, SessionTypeOK
  <2>9. ASSUME NEW k \in Conns, NEW r \in Tasks PROVE SentOnce(k, r)'
    <3>1. SentOnce(k, r)
      BY <1>i
    <3>2. (\A u \in Players : connections[u] # k) => \A u \in Players : connections'[u] # k
      BY <1>t, <2>4
    <3>3. CASE r = t /\ k = k0
      BY <2>1, <2>2, <2>3, <2>6, <2>8, <3>1, <3>3 DEF SentOnce, Stored
    <3>4. CASE r = t /\ k # k0
      BY <2>1, <2>2, <2>3, <2>6, <3>1, <3>2, <3>4 DEF SentOnce, Stored
    <3>5. CASE r # t
      <4>1. task'[r] = task[r]
        BY <2>6, <3>5
      <4> QED BY <2>2, <3>1, <3>2, <4>1 DEF SentOnce, Stored
    <3> QED BY <3>3, <3>4, <3>5
  <2> QED BY <2>5, <2>7, <2>9 DEF SentInv
<1>7. ASSUME NEW t \in Tasks, CloseRecipient(t)
      PROVE  SentInv'
  <2>1. UNCHANGED <<connections, owner, session, sent>> /\ task[t].pc = "hangup"
    BY <1>7 DEF CloseRecipient
  <2> QED BY <1>7, <1>c, <2>1, ServedEffect DEF CloseRecipient
<1>8. CASE Crash
  <2>1. \A t \in Tasks : task'[t].pc \in {"due", "done", "archived"}
    BY <1>8, FailedType DEF Crash, Running, TypeOK, TaskState
  <2> QED BY <1>1, <1>8, <2>1 DEF Crash
<1>9. CASE SessionStep /\ UNCHANGED <<task, told, sent, faults>>
  BY <1>1, <1>9
<1>10. CASE UNCHANGED vars
  <2>1. UNCHANGED <<connections, owner, session, task, sent>>
    BY <1>10 DEF vars, sessionVars
  <2> QED BY <2>1 DEF SentInv, EntriesOwned, ServedOwned, SentOnce, ServedSent, Stored, Serving
<1> QED
  BY <1>2, <1>3, <1>4, <1>5, <1>6, <1>7, <1>8, <1>9, <1>10 DEF Next, TaskStep

LEMMA SentInit == Init => SentInv
BY DEF Init, SessionInit, SentInv, EntriesOwned, ServedOwned, SentOnce, ServedSent,
       DueTask, Serving

(* The invariant behind the two theorems below. *)
LEMMA SentInvariant == Spec => [](TypeOK /\ SentInv)
BY TypeInit, TypeNext, SentInit, SentNext, PTL DEF Spec

(***************************************************************************)
(* No task sends the standings twice over the same connection.             *)
(***************************************************************************)
THEOREM StandingsOncePerTaskCorrect == Spec => []StandingsOncePerTask
<1>1. SentInv => StandingsOncePerTask
  BY DEF SentInv, SentOnce, StandingsOncePerTask
<1> QED BY <1>1, SentInvariant, PTL

(***************************************************************************)
(* A living process only hangs up on peers that are gone or were sent the  *)
(* standings.                                                              *)
(***************************************************************************)
THEOREM HungUpAfterStandingsCorrect == Spec => HungUpAfterStandings
<1>1. TypeOK /\ SentInv /\ [Next]_vars =>
        [\A k \in open \ open' :
           faults'["crash"] > faults["crash"] \/ k \in gone \/ WasSent(k)]_vars
  <2> SUFFICES ASSUME TypeOK, SentInv, Next, NEW k \in open \ open'
               PROVE  faults'["crash"] > faults["crash"] \/ k \in gone \/ WasSent(k)
    OBVIOUS
  <2>1. CASE SessionStep
    BY <2>1 DEF SessionStep, Upgrade, StoreConnection, Greet, ReadFails, CleanUp, Hangup
  <2>2. ASSUME NEW t \in Tasks, CloseRecipient(t)
        PROVE  WasSent(k)
    <3>1. k = task[t].conn /\ task[t].pc = "hangup"
      BY <2>2 DEF CloseRecipient
    <3> QED BY <3>1 DEF SentInv, ServedSent, WasSent
  <2>3. ASSUME NEW t \in Tasks, \/ BeginAttempt(t) \/ Lookup(t) \/ Write(t)
                                \/ WriteFails(t) \/ DeleteRecipient(t)
        PROVE  FALSE
    BY <2>3 DEF BeginAttempt, Lookup, Write, WriteFails, DeleteRecipient, sessionVars
  <2>4. CASE Crash
    BY <2>4 DEF Crash, Strike, TypeOK, FaultKinds
  <2> QED BY <2>1, <2>2, <2>3, <2>4 DEF Next, TaskStep
<1> QED BY <1>1, SentInvariant, PTL DEF Spec, HungUpAfterStandings

-----------------------------------------------------------------------------
(***************************************************************************)
(* The map and the connections.  A connection is open until its read loop  *)
(* has ended, unless a task hung it up, and then it is out of the map.     *)
(***************************************************************************)
OpenSessions ==
  \A k \in Conns :
    /\ session[k] = "unused" => owner[k] = Nobody /\ k \notin open
    /\ session[k] = "upgraded" => k \in open
    /\ session[k] \in {"closing", "done"} => k \notin open

EntryInv ==
  /\ OpenSessions
  /\ ClosedEntryIsLeaving
  /\ OpenIsListed

LEMMA EntryInit == Init => EntryInv
BY DEF Init, SessionInit, EntryInv, OpenSessions, ClosedEntryIsLeaving, OpenIsListed

(* A task that is about to hang up has taken the connection out of the map.*)
LEMMA HangupUnlisted ==
  ASSUME TypeOK, SentInv, NEW t \in Tasks, task[t].pc = "hangup"
  PROVE  /\ task[t].conn \in Conns /\ Stored(task[t].conn)
         /\ \A u \in Players : connections[u] # task[t].conn
<1>1. task[t].conn \in Conns /\ Stored(task[t].conn)
  BY DEF TypeOK, SentInv, ServedOwned, Serving
<1>2. sent[task[t].conn][t] = 1 /\ SentOnce(task[t].conn, t)
  BY <1>1 DEF SentInv, ServedSent
<1> QED BY <1>1, <1>2 DEF SentOnce

LEMMA OpenSessionsNext ==
  ASSUME TypeOK, SentInv, OpenSessions, [Next]_vars
  PROVE  OpenSessions'
<1>1. ASSUME NEW u \in Players, NEW k \in Conns, Upgrade(u, k) PROVE OpenSessions'
  BY <1>1 DEF Upgrade, OpenSessions, TypeOK, SessionTypeOK
<1>2. ASSUME NEW k \in Conns, StoreConnection(k) \/ Greet(k) PROVE OpenSessions'
  BY <1>2 DEF StoreConnection, Greet, OpenSessions, TypeOK, SessionTypeOK
<1>3. ASSUME NEW k \in Conns, ReadFails(k) \/ CleanUp(k) PROVE OpenSessions'
  BY <1>3 DEF ReadFails, CleanUp, OpenSessions, TypeOK, SessionTypeOK
<1>4. ASSUME NEW k \in Conns, Hangup(k) PROVE OpenSessions'
  BY <1>4 DEF Hangup, OpenSessions
<1>5. ASSUME NEW t \in Tasks, CloseRecipient(t) PROVE OpenSessions'
  <2>1. task[t].conn \in Conns /\ Stored(task[t].conn)
    BY <1>5, HangupUnlisted DEF CloseRecipient
  <2>2. open' = open \ {task[t].conn} /\ UNCHANGED <<owner, session>>
    BY <1>5 DEF CloseRecipient
  <2> QED BY <2>1, <2>2 DEF OpenSessions, Stored
<1>6. ASSUME NEW t \in Tasks, \/ BeginAttempt(t) \/ Lookup(t) \/ Write(t)
                              \/ WriteFails(t) \/ DeleteRecipient(t)
      PROVE  OpenSessions'
  BY <1>6 DEF BeginAttempt, Lookup, Write, WriteFails, DeleteRecipient, sessionVars, OpenSessions
<1>7. CASE Crash
  BY <1>7 DEF Crash, LoseSessions, OpenSessions
<1>8. CASE UNCHANGED vars
  BY <1>8 DEF vars, sessionVars, OpenSessions
<1> QED BY <1>1, <1>2, <1>3, <1>4, <1>5, <1>6, <1>7, <1>8 DEF Next, SessionStep, TaskStep

LEMMA ClosedEntryNext ==
  ASSUME TypeOK, SentInv, EntryInv, [Next]_vars
  PROVE  ClosedEntryIsLeaving'
<1>t. /\ connections \in [Players -> Conns \cup {NoConn}]
      /\ session \in [Conns -> SessionStates]
      /\ NoConn \notin Conns
  BY SessionsAssumption DEF TypeOK, SessionTypeOK
<1>i. /\ \A u \in Players : connections[u] # NoConn /\ connections[u] \notin open
                              => session[connections[u]] = "closing"
      /\ \A u \in Players : connections[u] # NoConn => owner[connections[u]] = u
      /\ OpenSessions
  BY DEF EntryInv, ClosedEntryIsLeaving, SentInv, EntriesOwned
<1> SUFFICES ASSUME NEW u \in Players, connections'[u] # NoConn, connections'[u] \notin open'
             PROVE  session'[connections'[u]] = "closing"
  BY DEF ClosedEntryIsLeaving
<1>1. ASSUME NEW v \in Players, NEW k \in Conns, Upgrade(v, k)
      PROVE  session'[connections'[u]] = "closing"
  BY <1>1, <1>i, <1>t DEF Upgrade
<1>2. ASSUME NEW k \in Conns, StoreConnection(k)
      PROVE  session'[connections'[u]] = "closing"
  <2>1. k \in open
    BY <1>2, <1>i DEF StoreConnection, OpenSessions
  <2>2. connections'[u] # k /\ connections'[u] = connections[u]
    BY <1>2, <1>t, <2>1 DEF StoreConnection
  <2> QED BY <1>2, <1>i, <1>t, <2>2 DEF StoreConnection
<1>3. ASSUME NEW k \in Conns, Greet(k) PROVE session'[connections'[u]] = "closing"
  BY <1>3, <1>i, <1>t DEF Greet
<1>4. ASSUME NEW k \in Conns, ReadFails(k) PROVE session'[connections'[u]] = "closing"
  BY <1>4, <1>i, <1>t DEF ReadFails
<1>5. ASSUME NEW k \in Conns, CleanUp(k) PROVE session'[connections'[u]] = "closing"
  <2>1. owner[k] # u
    BY <1>5, <1>t DEF CleanUp, DeleteEntry
  <2>2. connections'[u] = connections[u] /\ connections[u] # k
    BY <1>5, <1>i, <1>t, <2>1 DEF CleanUp, DeleteEntry
  <2> QED BY <1>5, <1>i, <1>t, <2>2 DEF CleanUp
<1>6. ASSUME NEW k \in Conns, Hangup(k) PROVE session'[connections'[u]] = "closing"
  BY <1>6, <1>i DEF Hangup
<1>7. ASSUME NEW t \in Tasks, CloseRecipient(t) PROVE session'[connections'[u]] = "closing"
  <2>1. connections[u] # task[t].conn
    BY <1>7, HangupUnlisted DEF CloseRecipient
  <2>2. open' = open \ {task[t].conn} /\ UNCHANGED <<connections, session>>
    BY <1>7 DEF CloseRecipient
  <2> QED BY <1>i, <2>1, <2>2
<1>8. ASSUME NEW t \in Tasks, DeleteRecipient(t) PROVE session'[connections'[u]] = "closing"
  <2>1. connections'[u] = connections[u]
    BY <1>8, <1>t DEF DeleteRecipient, DeleteEntry
  <2> QED BY <1>8, <1>i, <2>1 DEF DeleteRecipient
<1>9. ASSUME NEW t \in Tasks, BeginAttempt(t) \/ Lookup(t) \/ Write(t) \/ WriteFails(t)
      PROVE  session'[connections'[u]] = "closing"
  BY <1>9, <1>i DEF BeginAttempt, Lookup, Write, WriteFails, sessionVars
<1>10. CASE Crash
  BY <1>10 DEF Crash, LoseSessions
<1>11. CASE UNCHANGED vars
  BY <1>11, <1>i DEF vars, sessionVars
<1> QED
  BY <1>1, <1>2, <1>3, <1>4, <1>5, <1>6, <1>7, <1>8, <1>9, <1>10, <1>11
  DEF Next, SessionStep, TaskStep

(***************************************************************************)
(* An open connection that is stored stays accounted for: its entry only   *)
(* goes to another stored connection of the player, with another one, or   *)
(* after the standings.                                                    *)
(***************************************************************************)
Replaced(k) == \E j \in Conns \ {k} : Stored(j) /\ owner[j] = owner[k]

LEMMA ReplacedStays ==
  ASSUME TypeOK, NEW k \in Conns, Replaced(k), Stored(k), SessionStep
  PROVE  Replaced(k)'
BY SessionKeeps DEF Replaced

LEMMA OpenIsListedNext ==
  ASSUME TypeOK, SentInv, EntryInv, [Next]_vars
  PROVE  OpenIsListed'
<1>t. /\ connections \in [Players -> Conns \cup {NoConn}]
      /\ session \in [Conns -> SessionStates]
      /\ owner \in [Conns -> Players \cup {Nobody}]
      /\ NoConn \notin Conns /\ open \subseteq Conns
      /\ \A k \in Conns : session[k] # "unused" => owner[k] \in Players
      /\ \A k \in Conns, t \in Tasks : sent[k][t] \in Nat
  BY SessionsAssumption DEF TypeOK, SessionTypeOK
<1>i. /\ \A k \in open : Stored(k) => connections[owner[k]] = k \/ WasSent(k) \/ Replaced(k)
      /\ OpenSessions
  BY DEF EntryInv, OpenIsListed, Replaced
<1> SUFFICES ASSUME NEW k \in open', Stored(k)', (connections[owner[k]] # k)'
             PROVE  WasSent(k)' \/ Replaced(k)'
  BY DEF OpenIsListed, Replaced
<1>q. ASSUME k \in open, UNCHANGED <<connections, owner, session, sent>>
      PROVE  WasSent(k)' \/ Replaced(k)'
  BY <1>q, <1>i DEF Stored, WasSent, Replaced
<1>s. ASSUME SessionStep, UNCHANGED sent, k \in open, Stored(k),
             connections[owner[k]] # k
      PROVE  WasSent(k)' \/ Replaced(k)'
  BY <1>s, <1>i, <1>t, ReplacedStays DEF WasSent
<1>1. ASSUME NEW u \in Players, NEW j \in Conns, Upgrade(u, j), UNCHANGED sent
      PROVE  WasSent(k)' \/ Replaced(k)'
  <2>1. k # j
    BY <1>1, <1>t DEF Upgrade, Stored
  <2>2. k \in open /\ Stored(k) /\ connections[owner[k]] # k
    BY <1>1, <1>t, <2>1 DEF Upgrade, Stored
  <2>3. SessionStep
    BY <1>1 DEF SessionStep
  <2> QED BY <1>1, <1>s, <2>2, <2>3
<1>2. ASSUME NEW j \in Conns, StoreConnection(j), UNCHANGED sent
      PROVE  WasSent(k)' \/ Replaced(k)'
  <2>1. /\ SessionStep /\ k \in open /\ UNCHANGED owner
        /\ connections' = [connections EXCEPT ![owner[j]] = j]
        /\ owner[j] \in Players
    BY <1>2, <1>t DEF StoreConnection, SessionStep
  <2>2. k # j /\ Stored(k) /\ Stored(j)'
    BY <1>2, <1>t, <2>1 DEF StoreConnection, Stored
  <2>3. CASE owner[j] = owner[k]
    BY <1>t, <2>1, <2>2, <2>3 DEF Replaced
  <2>4. CASE owner[j] # owner[k]
    <3>1. connections'[owner[k]] = connections[owner[k]]
      BY <1>t, <2>1, <2>4
    <3> QED BY <1>2, <1>s, <2>1, <2>2, <3>1
  <2> QED BY <2>3, <2>4
<1>3. ASSUME NEW j \in Conns, CleanUp(j), UNCHANGED sent
      PROVE  WasSent(k)' \/ Replaced(k)'
  <2>1. /\ SessionStep /\ k \in open /\ UNCHANGED owner /\ owner[j] \in Players
        /\ connections' = [connections EXCEPT ![owner[j]] = NoConn]
        /\ Stored(j) /\ Stored(j)'
    BY <1>3, <1>t DEF CleanUp, DeleteEntry, SessionStep, Stored
  <2>2. k # j /\ Stored(k)
    BY <1>3, <1>i, <1>t, <2>1 DEF CleanUp, OpenSessions, Stored
  <2>3. CASE owner[j] = owner[k]
    BY <1>t, <2>1, <2>2, <2>3 DEF Replaced
  <2>4. CASE owner[j] # owner[k]
    <3>1. connections'[owner[k]] = connections[owner[k]]
      BY <1>t, <2>1, <2>4
    <3> QED BY <1>3, <1>s, <2>1, <2>2, <3>1
  <2> QED BY <2>3, <2>4
<1>4. ASSUME NEW j \in Conns, Greet(j) \/ ReadFails(j) \/ Hangup(j), UNCHANGED sent
      PROVE  WasSent(k)' \/ Replaced(k)'
  <2>1. /\ SessionStep /\ k \in open /\ UNCHANGED <<owner, connections>> /\ Stored(k)
    BY <1>4, <1>t DEF Greet, ReadFails, Hangup, SessionStep, Stored
  <2> QED BY <1>4, <1>s, <2>1
<1>5. ASSUME NEW t \in Tasks, DeleteRecipient(t) PROVE WasSent(k)' \/ Replaced(k)'
  <2> DEFINE k0 == task[t].conn
             u0 == task[t].to
  <2>1. /\ k0 \in Conns /\ u0 \in Players /\ owner[k0] = u0 /\ Stored(k0)
        /\ sent[k0][t] = 1
    BY <1>5 DEF DeleteRecipient, TypeOK, Serving, SentInv, ServedOwned, ServedSent
  <2>2. /\ UNCHANGED <<owner, session, open, sent>>
        /\ connections' = [connections EXCEPT ![u0] = NoConn]
    BY <1>5 DEF DeleteRecipient, DeleteEntry
  <2>3. CASE k = k0
    BY <2>1, <2>2, <2>3 DEF WasSent
  <2>4. CASE k # k0 /\ owner[k] = u0
    BY <2>1, <2>2, <2>4 DEF Replaced, Stored
  <2>5. CASE owner[k] # u0
    <3>1. connections'[owner[k]] = connections[owner[k]]
      BY <1>t, <2>2, <2>5
    <3> QED BY <1>i, <2>2, <3>1 DEF Stored, WasSent, Replaced
  <2> QED BY <2>3, <2>4, <2>5
<1>6. ASSUME NEW t \in Tasks, BeginAttempt(t) \/ Lookup(t) \/ WriteFails(t) \/ CloseRecipient(t)
      PROVE  WasSent(k)' \/ Replaced(k)'
  <2>1. k \in open /\ UNCHANGED <<connections, owner, session, sent>>
    BY <1>6 DEF BeginAttempt, Lookup, WriteFails, CloseRecipient, sessionVars
  <2> QED BY <1>q, <2>1
<1>7. ASSUME NEW t \in Tasks, Write(t) PROVE WasSent(k)' \/ Replaced(k)'
  <2>1. k \in open /\ k \in Conns /\ UNCHANGED <<connections, owner, session>>
    BY <1>7, <1>t DEF Write, sessionVars
  <2>2. WasSent(k) => WasSent(k)'
    <3> SUFFICES ASSUME NEW r \in Tasks, sent[k][r] > 0
                 PROVE  sent'[k][r] > 0
      BY DEF WasSent
    <3>1. CASE sent' = sent
      BY <3>1
    <3>2. CASE sent' = [sent EXCEPT ![task[t].conn][t] = @ + 1]
      <4>1. sent[k] \in [Tasks -> Nat] /\ sent[k][r] \in Nat
        BY <2>1 DEF TypeOK
      <4>2. sent'[k][r] \in {sent[k][r], sent[k][r] + 1}
        BY <2>1, <3>2, <4>1 DEF TypeOK
      <4> QED BY <4>1, <4>2
    <3> QED BY <1>7, <3>1, <3>2 DEF Write
  <2> QED BY <1>i, <2>1, <2>2 DEF Stored, Replaced
<1>8. CASE Crash
  BY <1>8 DEF Crash, LoseSessions
<1>9. CASE UNCHANGED vars
  BY <1>9, <1>q DEF vars, sessionVars
<1> QED
  BY <1>1, <1>2, <1>3, <1>4, <1>5, <1>6, <1>7, <1>8, <1>9 DEF Next, SessionStep, TaskStep

LEMMA EntryInvariant == Spec => [](TypeOK /\ SentInv /\ EntryInv)
<1>1. TypeOK /\ SentInv /\ EntryInv /\ [Next]_vars => EntryInv'
  <2> SUFFICES ASSUME TypeOK, SentInv, EntryInv, [Next]_vars PROVE EntryInv'
    OBVIOUS
  <2>1. OpenSessions'
    BY OpenSessionsNext DEF EntryInv
  <2> QED BY <2>1, ClosedEntryNext, OpenIsListedNext DEF EntryInv
<1> QED BY <1>1, EntryInit, SentInvariant, PTL DEF Spec

(***************************************************************************)
(* A closed connection is only in the map while its read loop is leaving;  *)
(* an open one is in the map, or was sent the standings, or another one of *)
(* its player was stored.                                                  *)
(***************************************************************************)
THEOREM MapIsCurrentCorrect == Spec => []MapIsCurrent
<1>1. EntryInv => MapIsCurrent
  BY DEF EntryInv, MapIsCurrent
<1> QED BY <1>1, EntryInvariant, PTL

-----------------------------------------------------------------------------
(***************************************************************************)
(* Completion implements the farewell.                                     *)
(***************************************************************************)
PartingInv ==
  /\ TypeOK
  /\ ToldInv
  /\ SentInv
  /\ EntryInv

LEMMA PartingInvariant == Spec => []PartingInv
<1>1. Init => ToldInv
  BY DEF Init, ToldInv, DueTask
<1>2. Spec => []ToldInv
  BY <1>1, TypeInit, TypeNext, ToldNext, PTL DEF Spec
<1> QED BY <1>2, EntryInvariant, PTL DEF PartingInv

LEMMA PartingInit == Init => Parting!FarewellInit
<1> SUFFICES ASSUME Init PROVE Parting!FarewellInit
  OBVIOUS
<1>1. {t \in Tasks : task[t].pc = "done"} = {}
  BY DEF Init, DueTask
<1>2. faults["crash"] = 0
  BY DEF Init, FaultKinds
<1> QED BY <1>1, <1>2 DEF Init, SessionInit, Parting!FarewellInit

Done == {t \in Tasks : task[t].pc = "done"}

(* Only the last look-up of an attempt finishes a task. *)
LEMMA SameDone ==
  ASSUME TypeOK, NEW t \in Tasks, NEW s, task' = [task EXCEPT ![t] = s],
         task[t].pc # "done", s.pc # "done"
  PROVE  Done' = Done
BY DEF Done, TypeOK

LEMMA SameCrashes ==
  ASSUME TypeOK, NEW kind \in FaultKinds, kind # "crash", Strike(kind)
  PROVE  faults'["crash"] = faults["crash"]
BY DEF Strike, TypeOK, FaultKinds

LEMMA PartingStutter ==
  ASSUME UNCHANGED <<owner, open, gone, told, sent>>, Done' = Done,
         faults'["crash"] = faults["crash"]
  PROVE  UNCHANGED Parting!farewellVars
BY DEF Parting!farewellVars, Done

LEMMA SessionParts ==
  ASSUME PartingInv, SessionStep, UNCHANGED <<task, told, sent, faults>>
  PROVE  [Parting!FarewellNext]_Parting!farewellVars
<1>d. Done' = Done /\ faults'["crash"] = faults["crash"]
  BY DEF Done
<1>1. ASSUME NEW u \in Players, NEW k \in Conns, Upgrade(u, k)
      PROVE  Parting!FarewellNext
  <2>1. owner[k] = Nobody
    BY <1>1 DEF Upgrade, PartingInv, EntryInv, OpenSessions
  <2>2. Parting!Dial(u, k)
    BY <1>1, <1>d, <2>1 DEF Upgrade, Done, Parting!Dial
  <2> QED BY <2>2 DEF Parting!FarewellNext
<1>2. ASSUME NEW k \in Conns, StoreConnection(k) \/ Greet(k) \/ CleanUp(k)
      PROVE  UNCHANGED Parting!farewellVars
  BY <1>2, <1>d, PartingStutter DEF StoreConnection, Greet, CleanUp
<1>3. ASSUME NEW k \in Conns, ReadFails(k)
      PROVE  [Parting!FarewellNext]_Parting!farewellVars
  <2>1. CASE k \in gone
    <3>1. Parting!HangUp(k)
      BY <1>3, <1>d, <2>1 DEF ReadFails, Done, Parting!HangUp
    <3> QED BY <3>1 DEF Parting!FarewellNext
  <2>2. CASE k \notin open
    <3>1. UNCHANGED <<owner, open, gone>>
      BY <1>3, <2>2 DEF ReadFails
    <3> QED BY <1>d, <3>1, PartingStutter
  <2> QED BY <1>3, <2>1, <2>2 DEF ReadFails
<1>4. ASSUME NEW k \in Conns, Hangup(k)
      PROVE  Parting!FarewellNext
  <2>1. Parting!Leave(k)
    BY <1>4, <1>d DEF Hangup, Done, Parting!Leave
  <2> QED BY <2>1 DEF Parting!FarewellNext
<1> QED BY <1>1, <1>2, <1>3, <1>4 DEF SessionStep

LEMMA BeginParts ==
  ASSUME PartingInv, NEW t \in Tasks, BeginAttempt(t)
  PROVE  [Parting!FarewellNext]_Parting!farewellVars
<1>t. TypeOK
  BY DEF PartingInv
<1>1. PICK s : task' = [task EXCEPT ![t] = s] /\ s.pc # "done"
  <2>1. ASSUME NEW event \in {"standings", "error"}, Begin(t, event)
        PROVE  \E s : task' = [task EXCEPT ![t] = s] /\ s.pc # "done"
    <3>1. \E s : task' = [task EXCEPT ![t] = s] /\ s.pc = "pick"
      BY <1>t, <2>1, BeginEffect
    <3> QED BY <3>1
  <2>2. ASSUME Fail(t)
        PROVE  \E s : task' = [task EXCEPT ![t] = s] /\ s.pc # "done"
    <3>1. \E s : task' = [task EXCEPT ![t] = s] /\ s.pc \in {"due", "archived"}
      BY <1>t, <2>2, FailEffect
    <3> QED BY <3>1
  <2>3. Begin(t, "standings") \/ Begin(t, "error") \/ Fail(t)
    BY DEF BeginAttempt
  <2> QED BY <2>1, <2>2, <2>3
<1>2. task[t].pc = "due"
  BY DEF BeginAttempt
<1>3. Done' = Done /\ t \notin Done
  <2>1. t \notin Done
    BY <1>2 DEF Done
  <2> QED BY <1>t, <1>1, <1>2, <2>1, SameDone
<1>4. faults'["crash"] = faults["crash"]
  BY <1>t, SameCrashes DEF BeginAttempt, FaultKinds
<1>5. Parting!Attempt(t)
  BY <1>3, <1>4 DEF BeginAttempt, sessionVars, Done, Parting!Attempt
<1> QED BY <1>5 DEF Parting!FarewellNext

LEMMA LookupParts ==
  ASSUME PartingInv, NEW t \in Tasks, Lookup(t)
  PROVE  [Parting!FarewellNext]_Parting!farewellVars
<1>t. TypeOK
  BY DEF PartingInv
<1>u. /\ UNCHANGED <<owner, open, gone, told, sent, faults>> /\ task[t].pc = "pick"
  BY DEF Lookup, sessionVars
<1>1. PICK s : /\ task' = [task EXCEPT ![t] = s]
               /\ s.pc = "done" => task[t].left = {}
  <2>1. PICK s : /\ task' = [task EXCEPT ![t] = s]
                 /\ \/ s.pc \in {"due", "archived"}
                    \/ s.pc = "done" /\ task[t].left = {}
                    \/ s.pc = "write"
    BY <1>t, LookupEffect
  <2> QED BY <2>1
<1>2. CASE s.pc = "done"
  <2>1. told[t] = Players
    <3>1. Players \ task[t].left \subseteq told[t] /\ told[t] \subseteq Players
      BY <1>t, <1>u DEF PartingInv, ToldInv, TypeOK
    <3> QED BY <1>1, <1>2, <3>1
  <2>2. Done' = Done \cup {t}
    BY <1>t, <1>1, <1>2 DEF Done, TypeOK
  <2>3. Parting!Finish(t)
    BY <1>u, <2>1, <2>2 DEF Done, Parting!Finish
  <2> QED BY <2>3 DEF Parting!FarewellNext
<1>3. CASE s.pc # "done"
  <2>1. Done' = Done
    BY <1>t, <1>u, <1>1, <1>3, SameDone
  <2> QED BY <1>u, <2>1, PartingStutter
<1> QED BY <1>2, <1>3

LEMMA WriteParts ==
  ASSUME PartingInv, NEW t \in Tasks, Write(t)
  PROVE  [Parting!FarewellNext]_Parting!farewellVars
<1> DEFINE k == task[t].conn
<1>t. TypeOK /\ SentInv
  BY DEF PartingInv
<1>1. /\ task[t].pc = "write" /\ Serving(task[t]) /\ k \in open /\ k \in Conns
      /\ UNCHANGED <<owner, open, gone, faults>>
  BY <1>t DEF Write, Serving, sessionVars, TypeOK
<1>2. owner[k] = task[t].to
  BY <1>t, <1>1 DEF SentInv, ServedOwned
<1>3. told' = [told EXCEPT ![t] = @ \cup {owner[k]}]
  BY <1>2 DEF Write
<1>4. Done' = Done /\ t \notin Done
  <2>1. PICK s : task' = [task EXCEPT ![t] = s] /\ s.pc \in {"delete", "pick"}
    BY <1>t, <1>1, AdvanceEffect, ServedEffect DEF Write
  <2>2. t \notin Done
    BY <1>1 DEF Done
  <2> QED BY <1>t, <1>1, <2>1, <2>2, SameDone
<1>5. (sent[k][t] = 0 /\ sent' = [sent EXCEPT ![k][t] = 1]) \/ UNCHANGED sent
  <2>1. CASE UNCHANGED sent
    BY <2>1
  <2>2. CASE sent' = [sent EXCEPT ![k][t] = @ + 1]
    <3>1. SentOnce(k, t) /\ sent[k][t] \in Nat
      BY <1>t, <1>1 DEF SentInv, TypeOK
    <3>2. sent[k][t] = 0
      BY <1>1, <3>1 DEF SentOnce
    <3> QED BY <2>2, <3>2
  <2> QED BY <2>1, <2>2 DEF Write
<1>6. Parting!Tell(t, k)
  BY <1>1, <1>3, <1>4, <1>5 DEF Done, Parting!Tell
<1> QED BY <1>1, <1>6 DEF Parting!FarewellNext

LEMMA LeaveParts ==
  ASSUME PartingInv, NEW t \in Tasks, WriteFails(t) \/ DeleteRecipient(t) \/ CloseRecipient(t)
  PROVE  [Parting!FarewellNext]_Parting!farewellVars
<1>t. TypeOK
  BY DEF PartingInv
<1>1. UNCHANGED <<owner, gone, told, sent, faults>> /\ Serving(task[t])
  BY DEF WriteFails, DeleteRecipient, CloseRecipient, sessionVars, Serving
<1>2. Done' = Done
  <2>1. PICK s : task' = [task EXCEPT ![t] = s] /\ s.pc \in {"due", "archived", "hangup", "pick"}
    BY <1>t, <1>1, FailEffect, AdvanceEffect, ServedEffect
    DEF WriteFails, DeleteRecipient, CloseRecipient
  <2>2. task[t].pc # "done"
    BY <1>1 DEF Serving
  <2> QED BY <1>t, <2>1, <2>2, SameDone
<1>3. CASE open' = open
  BY <1>1, <1>2, <1>3, PartingStutter
<1>4. CASE CloseRecipient(t)
  <2>1. task[t].conn \in Conns /\ sent[task[t].conn][t] = 1
    BY <1>t, <1>4 DEF CloseRecipient, TypeOK, Serving, PartingInv, SentInv, ServedSent
  <2>2. Parting!HangUp(task[t].conn)
    BY <1>1, <1>2, <1>4, <2>1 DEF CloseRecipient, Done, Parting!HangUp
  <2> QED BY <2>1, <2>2 DEF Parting!FarewellNext
<1> QED BY <1>3, <1>4 DEF WriteFails, DeleteRecipient, sessionVars

LEMMA CrashParts ==
  ASSUME PartingInv, Crash
  PROVE  Parting!FarewellNext
<1>1. Done' = Done
  <2>1. ASSUME NEW t \in Tasks PROVE task'[t].pc = "done" <=> task[t].pc = "done"
    <3>1. task[t] \in TaskState
      BY DEF PartingInv, TypeOK
    <3>2. task'[t] = IF Running(task[t]) THEN Failed(task[t]) ELSE task[t]
      BY DEF Crash
    <3>3. Failed(task[t]).pc # "done"
      BY <3>1, FailedType
    <3> QED BY <3>2, <3>3 DEF Running
  <2> QED BY <2>1 DEF Done
<1>2. faults'["crash"] = faults["crash"] + 1
  BY DEF Crash, Strike, PartingInv, TypeOK, FaultKinds
<1>3. Parting!BreakDown
  BY <1>1, <1>2 DEF Crash, LoseSessions, Done, Parting!BreakDown
<1> QED BY <1>3 DEF Parting!FarewellNext

(***************************************************************************)
(* However look-ups, writes, deletions and hang-ups of several tasks and   *)
(* sessions interleave, completing a game is the farewell Farewell states. *)
(***************************************************************************)
THEOREM Refinement == Spec => ImplementsFarewell
<1>1. PartingInv /\ [Next]_vars => [Parting!FarewellNext]_Parting!farewellVars
  <2> SUFFICES ASSUME PartingInv, [Next]_vars
               PROVE  [Parting!FarewellNext]_Parting!farewellVars
    OBVIOUS
  <2>1. CASE UNCHANGED vars
    <3>1. Done' = Done
      BY <2>1 DEF vars, Done
    <3> QED BY <2>1, <3>1, PartingStutter DEF vars, sessionVars
  <2>2. ASSUME NEW t \in Tasks, TaskStep(t)
        PROVE  [Parting!FarewellNext]_Parting!farewellVars
    BY <2>2, BeginParts, LookupParts, WriteParts, LeaveParts DEF TaskStep
  <2> QED BY <2>1, <2>2, SessionParts, CrashParts DEF Next
<1> QED BY <1>1, PartingInit, PartingInvariant, PTL
        DEF Spec, ImplementsFarewell, Parting!FarewellSpec
=============================================================================
