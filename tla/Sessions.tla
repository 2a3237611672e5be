------------------------------ MODULE Sessions ------------------------------
(***************************************************************************)
(* The WebSocket sessions of the Game Service and its connection map.      *)
(*                                                                         *)
(* ProcessGame upgrades a request, stores the connection under the user's  *)
(* id (replacing whatever was there), greets the user, and starts a        *)
(* goroutine that reads the connection until a read fails; then it closes  *)
(* the connection and deletes the user's entry - whichever connection the  *)
(* entry holds by then.  One user may dial again while an old session is   *)
(* still being cleaned up, and each step under the mutex is one step here. *)
(*                                                                         *)
(* Abstracted: what is read (the handlers of the messages are the modules  *)
(* ReadyRoster and Answers), the player's status and the categories.       *)
(***************************************************************************)
EXTENDS Integers, FiniteSets

CONSTANTS
  Players,  \* users
  Conns,    \* bound: the connections that are ever dialled
  NoConn,   \* no entry in the connection map
  Nobody    \* no user

ASSUME SessionsAssumption ==
  /\ NoConn \notin Conns
  /\ Nobody \notin Players

VARIABLES
  connections,  \* the connection map: user -> connection, NoConn if absent
  owner,        \* the user who dialled a connection
  session,      \* where ProcessGame or the read loop of a connection is
  open,         \* connections not closed by the server
  gone          \* connections whose other end is gone

sessionVars == <<connections, owner, session, open, gone>>

SessionStates ==
  {"unused", "upgraded", "stored", "reading", "closing", "done", "abandoned"}

SessionTypeOK ==
  /\ connections \in [Players -> Conns \cup {NoConn}]
  /\ owner \in [Conns -> Players \cup {Nobody}]
  /\ session \in [Conns -> SessionStates]
  /\ \A k \in Conns : session[k] # "unused" => owner[k] \in Players
  /\ open \subseteq Conns
  /\ gone \subseteq Conns

SessionInit ==
  /\ connections = [u \in Players |-> NoConn]
  /\ owner = [k \in Conns |-> Nobody]
  /\ session = [k \in Conns |-> "unused"]
  /\ open = {}
  /\ gone = {}

(* delete(svc.connections, u): the key goes, whatever connection it holds. *)
DeleteEntry(u) == connections' = [connections EXCEPT ![u] = NoConn]

-----------------------------------------------------------------------------
(* ProcessGame *)

Upgrade(u, k) ==
  /\ session[k] = "unused"
  /\ session' = [session EXCEPT ![k] = "upgraded"]
  /\ owner' = [owner EXCEPT ![k] = u]
  /\ open' = open \cup {k}
  /\ UNCHANGED <<connections, gone>>

StoreConnection(k) ==
  /\ session[k] = "upgraded"
  /\ session' = [session EXCEPT ![k] = "stored"]
  /\ connections' = [connections EXCEPT ![owner[k]] = k]
  /\ UNCHANGED <<owner, open, gone>>

(***************************************************************************)
(* A user whose status is not known is sent the categories, on whatever    *)
(* connection the map holds by now.  A failing write ends ProcessGame, and *)
(* so does an entry that is gone (the handler panics): no read loop is     *)
(* started then, and nobody closes the connection or deletes its entry.    *)
(***************************************************************************)
Greet(k) ==
  /\ session[k] = "stored"
  /\ \/ session' = [session EXCEPT ![k] = "reading"]
     \/ /\ connections[owner[k]] \notin open \ gone
        /\ session' = [session EXCEPT ![k] = "abandoned"]
  /\ UNCHANGED <<connections, owner, open, gone>>

(***************************************************************************)
(* The read loop ends when a read fails.  Its deferred function closes the *)
(* connection and then takes the lock to delete the user's entry.          *)
(***************************************************************************)
ReadFails(k) ==
  /\ session[k] = "reading"
  /\ k \in gone \/ k \notin open
  /\ session' = [session EXCEPT ![k] = "closing"]
  /\ open' = open \ {k}
  /\ UNCHANGED <<connections, owner, gone>>

CleanUp(k) ==
  /\ session[k] = "closing"
  /\ session' = [session EXCEPT ![k] = "done"]
  /\ DeleteEntry(owner[k])
  /\ UNCHANGED <<owner, open, gone>>

-----------------------------------------------------------------------------
(* Environment *)

(* The other end closes the connection, or the network loses it. *)
Hangup(k) ==
  /\ k \in open \ gone
  /\ gone' = gone \cup {k}
  /\ UNCHANGED <<connections, owner, session, open>>

(* The process dies: the map is lost and every connection with it. *)
LoseSessions ==
  /\ connections' = [u \in Players |-> NoConn]
  /\ session' = [k \in Conns |-> IF session[k] = "unused" THEN "unused" ELSE "done"]
  /\ open' = {}
  /\ UNCHANGED <<owner, gone>>

SessionStep ==
  \/ \E u \in Players, k \in Conns : Upgrade(u, k)
  \/ \E k \in Conns :
       \/ StoreConnection(k)
       \/ Greet(k)
       \/ ReadFails(k)
       \/ CleanUp(k)
       \/ Hangup(k)
=============================================================================
