------------------------------- MODULE Farewell -------------------------------
(***************************************************************************)
(* What completing a game promises those who are connected, without a map  *)
(* of connections, look-ups, retries in stages or read loops: each task    *)
(* speaks to a player on a line the player dialled, gives the standings on *)
(* a line at most once, and is finished when one attempt has reached every *)
(* player; a line is only hung up on somebody who has heard the standings, *)
(* or is gone.                                                             *)
(***************************************************************************)
EXTENDS Integers

CONSTANTS Players, Conns, Tasks, Nobody

VARIABLES
  dialler,   \* who dialled a line, Nobody if it is not used yet
  lines,     \* the lines that are open
  gone,      \* the lines with nobody at the other end any more
  told,      \* told[t]: the players reached in the current attempt of t
  sent,      \* sent[k][t]: how often t gave the standings on k
  finished,  \* the tasks that count as done
  deaths     \* how often the exchange broke down, with all its lines

farewellVars == <<dialler, lines, gone, told, sent, finished, deaths>>

FarewellInit ==
  /\ dialler = [k \in Conns |-> Nobody]
  /\ lines = {}
  /\ gone = {}
  /\ told = [t \in Tasks |-> {}]
  /\ sent = [k \in Conns |-> [t \in Tasks |-> 0]]
  /\ finished = {}
  /\ deaths = 0

Dial(u, k) ==
  /\ dialler[k] = Nobody
  /\ dialler' = [dialler EXCEPT ![k] = u]
  /\ lines' = lines \cup {k}
  /\ UNCHANGED <<gone, told, sent, finished, deaths>>

Leave(k) ==
  /\ k \in lines
  /\ gone' = gone \cup {k}
  /\ UNCHANGED <<dialler, lines, told, sent, finished, deaths>>

Attempt(t) ==
  /\ t \notin finished
  /\ told' = [told EXCEPT ![t] = {}]
  /\ UNCHANGED <<dialler, lines, gone, sent, finished, deaths>>

(* The standings, once, or else a word that there are none. *)
Tell(t, k) ==
  /\ t \notin finished
  /\ k \in lines
  /\ told' = [told EXCEPT ![t] = @ \cup {dialler[k]}]
  /\ \/ sent[k][t] = 0 /\ sent' = [sent EXCEPT ![k][t] = 1]
     \/ UNCHANGED sent
  /\ UNCHANGED <<dialler, lines, gone, finished, deaths>>

Finish(t) ==
  /\ told[t] = Players
  /\ finished' = finished \cup {t}
  /\ UNCHANGED <<dialler, lines, gone, told, sent, deaths>>

HangUp(k) ==
  /\ k \in gone \/ \E t \in Tasks : sent[k][t] > 0
  /\ lines' = lines \ {k}
  /\ UNCHANGED <<dialler, gone, told, sent, finished, deaths>>

BreakDown ==
  /\ lines' = {}
  /\ deaths' = deaths + 1
  /\ UNCHANGED <<dialler, gone, told, sent, finished>>

FarewellNext ==
  \/ \E u \in Players, k \in Conns : Dial(u, k)
  \/ \E k \in Conns : Leave(k) \/ HangUp(k)
  \/ \E t \in Tasks : Attempt(t) \/ Finish(t)
  \/ \E t \in Tasks, k \in Conns : Tell(t, k)
  \/ BreakDown

FarewellSpec == FarewellInit /\ [][FarewellNext]_farewellVars
=============================================================================
