----------------------------- MODULE Completion -----------------------------
(***************************************************************************)
(* Completing a game in the Game Service: the asynq task "game:completed"  *)
(* ranks the players, and sends the standings to one after another over    *)
(* whatever connection the map holds for them; whoever was sent them is    *)
(* deleted from the map and hung up.  If the standings cannot be had, the  *)
(* players are sent an error instead and stay connected.                   *)
(*                                                                         *)
(* asynq runs a task that fails, or panics, again, up to MaxRetry times,   *)
(* from the beginning: the players served by the failed attempt are not in *)
(* the map any more.  A game that was started more than once has a task    *)
(* for each start, and the worker runs several at a time.                  *)
(*                                                                         *)
(* Abstracted: the answers behind the standings; the copy of the questions *)
(* GetGame puts back into Redis; the order in which the error goes round.  *)
(***************************************************************************)
EXTENDS Sessions

CONSTANTS
  Tasks,     \* completion tasks of the game
  Points,    \* what the stored answers of each player add up to
  MaxRetry,  \* taskqueue.MaxRetry
  MaxFaults  \* bound: how often each kind of fault may strike

(***************************************************************************)
(* "board": GetLeaderBoard fails;  "game": then GetGame fails too;         *)
(* "crash": the process dies and is restarted.                             *)
(***************************************************************************)
FaultKinds == {"board", "game", "crash"}

ASSUME CompletionAssumption ==
  /\ Points \in [Players -> Nat]
  /\ MaxRetry \in Nat
  /\ MaxFaults \in [FaultKinds -> Nat]

VARIABLES
  task,      \* asynq's state of each task, and the attempt under way
  told,      \* history: who was written to in the current or last attempt
  sent,      \* history: sent[k][t], how often t wrote the standings to k
  faults     \* history: faults so far, by kind

vars == <<sessionVars, task, told, sent, faults>>

TaskState ==
  [pc      : {"due", "pick", "write", "delete", "hangup", "done", "archived"},
   retried : Nat,
   event   : {"standings", "error"},
   left    : SUBSET Players,
   to      : Players \cup {Nobody},
   conn    : Conns \cup {NoConn}]

(* While a player is served, the task knows who, and over which connection. *)
Serving(s) == s.pc \in {"write", "delete", "hangup"}

TypeOK ==
  /\ SessionTypeOK
  /\ task \in [Tasks -> TaskState]
  /\ \A t \in Tasks : Serving(task[t]) => task[t].to \in Players /\ task[t].conn \in Conns
  /\ told \in [Tasks -> SUBSET Players]
  /\ sent \in [Conns -> [Tasks -> Nat]]
  /\ faults \in [FaultKinds -> Nat]

DueTask ==
  [pc |-> "due", retried |-> 0, event |-> "standings",
   left |-> {}, to |-> Nobody, conn |-> NoConn]

Init ==
  /\ SessionInit
  /\ task = [t \in Tasks |-> DueTask]
  /\ told = [t \in Tasks |-> {}]
  /\ sent = [k \in Conns |-> [t \in Tasks |-> 0]]
  /\ faults = [kind \in FaultKinds |-> 0]

Strike(kind) ==
  /\ faults[kind] < MaxFaults[kind]
  /\ faults' = [faults EXCEPT ![kind] = @ + 1]

-----------------------------------------------------------------------------
(* ProcessGameCompletion *)

(***************************************************************************)
(* An attempt failed: asynq queues the task again, or archives it.         *)
(***************************************************************************)
Failed(s) ==
  IF s.retried < MaxRetry
  THEN [DueTask EXCEPT !.retried = s.retried + 1]
  ELSE [DueTask EXCEPT !.pc = "archived", !.retried = s.retried]

Fail(t) == task' = [task EXCEPT ![t] = Failed(@)]

(***************************************************************************)
(* Either everybody is to be sent the standings, or, when these cannot be  *)
(* had, the error, or, when the players cannot be had, the attempt fails.  *)
(***************************************************************************)
Begin(t, event) ==
  task' = [task EXCEPT ![t].pc = "pick", ![t].event = event, ![t].left = Players]

BeginAttempt(t) ==
  /\ task[t].pc = "due"
  /\ told' = [told EXCEPT ![t] = {}]
  /\ \/ Begin(t, "standings") /\ UNCHANGED faults
     \/ Begin(t, "error") /\ Strike("board")
     \/ Fail(t) /\ Strike("game")
  /\ UNCHANGED <<sessionVars, sent>>

(***************************************************************************)
(* GetLeaderBoard's order: by points, equal points in any order.           *)
(***************************************************************************)
Leading(left) == {u \in left : \A v \in left : Points[u] >= Points[v]}

Recipients(s) == IF s.event = "standings" THEN Leading(s.left) ELSE s.left

(***************************************************************************)
(* The next player's connection, read under the lock.  A player who has    *)
(* none is a write to a nil connection: asynq takes the panic for a failed *)
(* attempt.  After the last player the task is done, even if all it sent   *)
(* was the error: the err returned at the end is a nil one.                *)
(***************************************************************************)
Lookup(t) ==
  /\ task[t].pc = "pick"
  /\ \/ /\ task[t].left = {}
        /\ task' = [task EXCEPT ![t].pc = "done"]
     \/ \E u \in Recipients(task[t]) :
          IF connections[u] = NoConn
          THEN Fail(t)
          ELSE task' = [task EXCEPT ![t].pc = "write",
                                    ![t].to = u,
                                    ![t].conn = connections[u]]
  /\ UNCHANGED <<sessionVars, told, sent, faults>>

(***************************************************************************)
(* WriteServerData to the connection read before, which somebody may have  *)
(* closed since; a write to a lost peer may or may not fail.               *)
(***************************************************************************)
NextPlayer(s) ==
  [s EXCEPT !.pc = "pick", !.left = @ \ {s.to}, !.to = Nobody, !.conn = NoConn]

Write(t) ==
  LET k == task[t].conn
  IN
  /\ task[t].pc = "write"
  /\ k \in open
  /\ told' = [told EXCEPT ![t] = @ \cup {task[t].to}]
  /\ \/ /\ task[t].event = "standings"
        /\ sent' = [sent EXCEPT ![k][t] = @ + 1]
        /\ task' = [task EXCEPT ![t].pc = "delete"]
     \/ /\ task[t].event = "error"
        /\ task' = [task EXCEPT ![t] = NextPlayer(@)]
        /\ UNCHANGED sent
  /\ UNCHANGED <<sessionVars, faults>>

WriteFails_Deletes(t) ==
  /\ task[t].pc = "write"
  /\ task[t].conn \notin open \ gone
  /\ Fail(t)
  /\ DeleteEntry(task[t].to)
  /\ UNCHANGED <<owner, session, open, gone, told, sent, faults>>
WriteFails(t) ==
  /\ task[t].pc = "write"
  /\ task[t].conn \notin open \ gone
  /\ Fail(t)
  /\ UNCHANGED <<sessionVars, told, sent, faults>>

(* The entry goes, also if the player has dialled again since the lookup. *)
DeleteRecipient(t) ==
  /\ task[t].pc = "delete"
  /\ DeleteEntry(task[t].to)
  /\ task' = [task EXCEPT ![t].pc = "hangup"]
  /\ UNCHANGED <<owner, session, open, gone, told, sent, faults>>

(* The connection that is closed is the one that was written to. *)
CloseRecipient_Current(t) ==
  /\ task[t].pc = "hangup"
  /\ open' = open \ {connections[task[t].to]}
  /\ task' = [task EXCEPT ![t] = NextPlayer(@)]
  /\ UNCHANGED <<connections, owner, session, gone, told, sent, faults>>
CloseRecipient(t) ==
  /\ task[t].pc = "hangup"
  /\ open' = open \ {task[t].conn}
  /\ task' = [task EXCEPT ![t] = NextPlayer(@)]
  /\ UNCHANGED <<connections, owner, session, gone, told, sent, faults>>

TaskStep(t) ==
  \/ BeginAttempt(t)
  \/ Lookup(t)
  \/ Write(t)
  \/ WriteFails(t)
  \/ DeleteRecipient(t)
  \/ CloseRecipient(t)

-----------------------------------------------------------------------------
(***************************************************************************)
(* The process dies.  asynq finds the lease of a task that was being run   *)
(* expired, and treats it like a failed attempt.                           *)
(***************************************************************************)
Running(s) == s.pc \notin {"due", "done", "archived"}

Crash ==
  /\ Strike("crash")
  /\ LoseSessions
  /\ task' = [t \in Tasks |-> IF Running(task[t]) THEN Failed(task[t]) ELSE task[t]]
  /\ UNCHANGED <<told, sent>>

Next ==
  \/ SessionStep /\ UNCHANGED <<task, told, sent, faults>>
  \/ \E t \in Tasks : TaskStep(t)
  \/ Crash

Spec == Init /\ [][Next]_vars

-----------------------------------------------------------------------------
(* Properties *)

(***************************************************************************)
(* A task is only taken as done if one attempt reached every player of the *)
(* game, with the standings or the error; an attempt that lost a player    *)
(* half way is never the last word unless the retries are used up.         *)
(***************************************************************************)
DoneMeansTold ==
  \A t \in Tasks : task[t].pc = "done" => told[t] = Players

(***************************************************************************)
(* However tasks are retried and overlap, and whoever dials again, no task *)
(* sends the standings twice over the same connection.                     *)
(***************************************************************************)
StandingsOncePerTask ==
  \A k \in Conns, t \in Tasks : sent[k][t] <= 1

(***************************************************************************)
(* As long as the process lives, it only hangs up on a peer that is gone   *)
(* or that was sent the standings before, whoever else dials, is cleaned   *)
(* up or is sent standings at the same time.                               *)
(***************************************************************************)
WasSent(k) == \E t \in Tasks : sent[k][t] > 0

HungUpAfterStandings ==
  [][\A k \in open \ open' :
       faults'["crash"] > faults["crash"] \/ k \in gone \/ WasSent(k)]_vars

(* The connection has been in the map. *)
Stored(k) == session[k] \notin {"unused", "upgraded"}

(***************************************************************************)
(* However greetings, clean-ups, standings and new connections interleave, *)
(* the map holds a closed connection only until that connection's own read *)
(* loop deletes the entry, so that no task is left to fail on it for ever. *)
(***************************************************************************)
ClosedEntryIsLeaving ==
  \A u \in Players :
    LET k == connections[u]
    IN  k # NoConn /\ k \notin open => session[k] = "closing"

(***************************************************************************)
(* A connection that the server has not closed ("open"; its peer may have  *)
(* left) is missing from the map only if it was sent the standings, or its *)
(* player has had another one, which replaces it, or takes its entry away  *)
(* when it ends.                                                           *)
(***************************************************************************)
OpenIsListed ==
  \A k \in open :
    Stored(k) /\ connections[owner[k]] # k =>
      \/ WasSent(k)
      \/ \E j \in Conns \ {k} : Stored(j) /\ owner[j] = owner[k]

(***************************************************************************)
(* The map lists the connections the server has not closed, whatever dials,*)
(* hangs up, is served, is cleaned up and fails at the same time: none of  *)
(* them is forgotten, and none that is closed stays.  It is not a list of  *)
(* the players who are there: an entry whose greeting failed               *)
(* (websocket_handler.go:79) has no read loop and is never taken out.      *)
(***************************************************************************)
MapIsCurrent == ClosedEntryIsLeaving /\ OpenIsListed

Parting == INSTANCE Farewell WITH
  dialler  <- owner,
  lines    <- open,
  finished <- {t \in Tasks : task[t].pc = "done"},
  deaths   <- faults["crash"]

(***************************************************************************)
(* Looking a connection up, writing to it, deleting whatever the map holds *)
(* by then and closing what was written to, with other tasks, new          *)
(* connections, clean-ups and restarts in between, is a farewell to each   *)
(* player on a line of their own.                                          *)
(***************************************************************************)
ImplementsFarewell == Parting!FarewellSpec
=============================================================================
