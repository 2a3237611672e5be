----------------------------- MODULE ReadyRoster -----------------------------
(***************************************************************************)
(* The ready phase of one game in the Game Service, from MATCH_CREATED to  *)
(* the questions being sent and the completion task enqueued.              *)
(*                                                                         *)
(* The roster is one Redis key, game_game_status_<gameId>, holding how many*)
(* players are expected and which of them are ready.  UpsertReadyPlayer    *)
(* GETs it, changes the copy and SETs it back, with nothing to keep two of *)
(* its callers apart: the goroutine the match consumer starts to create the*)
(* roster, and the read loops of the players' WebSocket connections.  The  *)
(* caller that is told the game is ready stamps the answer deadlines on the*)
(* cached questions, sends them and enqueues the completion task.          *)
(*                                                                         *)
(* A player may have several connections (a reconnect does not stop the    *)
(* read loop of the old one), and may send READY at any time and again; so *)
(* may any other user, of whom the code asks no more than the game's id.   *)
(* A completion task that cannot make the leader board reads the game, and *)
(* a goroutine of that caches its questions again, without deadlines.      *)
(* Abstracted: the questions themselves, the values of the deadlines, the  *)
(* other replies, whose failure has no effect.                             *)
(***************************************************************************)
EXTENDS Integers, FiniteSets

CONSTANTS
  Players,    \* the players of the game
  Outsiders,  \* other users who may send READY for it
  Loops,      \* connection read loops
  Owner,      \* Owner[l]: the player on the other end of l
  MaxFaults,  \* bound: how often each kind of fault may strike
  MaxKinds    \* bound: how many kinds of them in one behaviour

(***************************************************************************)
(* "get", "set": the Redis call fails;  "reply": an error cannot be written*)
(* to its sender;  "write": MATCH_CREATED cannot be written to a player;   *)
(* "task": the task is not enqueued;  "board": the leader board cannot be  *)
(* made;  "drop": a connection is lost;  "expire": a key outlives its TTL; *)
(* "crash": the process dies and is restarted.                             *)
(***************************************************************************)
FaultKinds ==
  {"get", "set", "reply", "write", "task", "board", "drop", "expire", "crash"}

People == Players \cup Outsiders

(* UpsertReadyPlayer's, when it gets no number of players. *)
DefaultExpected_Unset == -1
DefaultExpected == 2

ASSUME ReadyRosterAssumption ==
  /\ IsFiniteSet(Players) /\ IsFiniteSet(Outsiders)
  /\ Cardinality(Players) >= DefaultExpected
  /\ Owner \in [Loops -> People]
  /\ MaxFaults \in [FaultKinds -> Nat]
  /\ MaxKinds \in Nat

VARIABLES
  roster,       \* Redis: the roster, NoRoster if the key is absent
  questions,    \* Redis: game_questions_<gameId>
  consumed,     \* the question consumer has cached the questions
  connections,  \* players with an entry in the connections map
  initializer,  \* the goroutine that creates the roster
  toNotify,     \* players the consumer has still to send MATCH_CREATED to
  loop,         \* local state of each read loop
  tasks,        \* delays of the completion tasks enqueued so far
  invited,      \* history: players to whom MATCH_CREATED was written
  unwritten,    \* history: players to whom it could not be
  readied,      \* history: users who have sent READY
  unstamped,    \* history: a caller got questions without deadlines to send
  started,      \* history: a caller was told that the game is ready
  missed,       \* history: a caller told so could not stamp the deadlines
  died,         \* history: the process has died
  faults        \* history: faults so far, by kind

history == <<invited, unwritten, readied, unstamped, started, missed, died>>
vars == <<roster, questions, consumed, connections, initializer, toNotify, loop, tasks,
          history, faults>>

(* Not cached yet, or cached and expired. *)
Absent == {"none", "gone"}

Roster(expected, players) == [expected |-> expected, players |-> players]
NoRoster == Roster(0, {})
Rosters == [expected : Nat, players : SUBSET People]

InitializerState == [pc : {"unborn", "read", "write", "done"}, seen : Rosters]

LoopState ==
  [pc    : {"idle", "write", "stamp", "save", "reply", "send", "deliver", "task"},
   seen  : Rosters,                \* the copy of the roster
   todo  : SUBSET Players,         \* players the questions are still to go to
   delay : {"now", "final"}]       \* when the completion task is due

TypeOK ==
  /\ roster \in Rosters
  /\ questions \in Absent \cup {"cached", "stamped"}
  /\ consumed \in BOOLEAN
  /\ connections \subseteq Players
  /\ initializer \in InitializerState
  /\ toNotify \subseteq Players
  /\ loop \in [Loops -> LoopState]
  /\ tasks \subseteq {"now", "final"}
  /\ invited \subseteq Players /\ unwritten \subseteq Players
  /\ readied \subseteq People
  /\ unstamped \in BOOLEAN
  /\ started \in BOOLEAN
  /\ missed \in BOOLEAN
  /\ died \in BOOLEAN
  /\ faults \in [FaultKinds -> Nat]

IdleLoop == [pc |-> "idle", seen |-> NoRoster, todo |-> {}, delay |-> "now"]

Init ==
  /\ roster = NoRoster
  /\ questions = "none"
  /\ consumed = FALSE
  /\ connections = Players
  /\ initializer = [pc |-> "unborn", seen |-> NoRoster]
  /\ toNotify = {}
  /\ loop = [l \in Loops |-> IdleLoop]
  /\ tasks = {}
  /\ invited = {} /\ unwritten = {}
  /\ readied = {}
  /\ unstamped = FALSE
  /\ started = FALSE
  /\ missed = FALSE
  /\ died = FALSE
  /\ faults = [k \in FaultKinds |-> 0]

Strike(kind) ==
  /\ faults[kind] < MaxFaults[kind]
  /\ Cardinality({k \in FaultKinds : faults[k] > 0} \cup {kind}) <= MaxKinds
  /\ faults' = [faults EXCEPT ![kind] = @ + 1]

(***************************************************************************)
(* The process dies and comes back: Redis keeps its data, every goroutine  *)
(* and connection is gone.  A goroutine that panics does the same, nothing *)
(* recovers it.                                                            *)
(***************************************************************************)
Restart ==
  /\ connections' = {}
  /\ initializer' = [pc |-> "done", seen |-> NoRoster]
  /\ toNotify' = {}
  /\ loop' = [l \in Loops |-> IdleLoop]
  /\ died' = TRUE
  /\ UNCHANGED <<roster, questions, consumed, tasks>>
  /\ UNCHANGED <<invited, unwritten, readied, unstamped, started, missed>>

(* A GET of the roster; any error is taken for a missing key. *)
ReadRoster(seen) ==
  \/ seen = roster /\ UNCHANGED faults
  \/ seen = NoRoster /\ Strike("get")

Full_OneShort(r) == r # NoRoster /\ Cardinality(r.players) + 1 >= r.expected
Full(r) == r # NoRoster /\ Cardinality(r.players) = r.expected

-----------------------------------------------------------------------------
(* The match consumer *)

(* go saveGameStatus(gameId, nil, &numberOfPlayers), then writeMessage. *)
AnnounceGame ==
  /\ initializer.pc = "unborn"
  /\ initializer' = [initializer EXCEPT !.pc = "read"]
  /\ toNotify' = Players
  /\ UNCHANGED <<roster, questions, consumed, connections, loop, tasks, history, faults>>

(***************************************************************************)
(* writeMessage returns at the first player who has no connection; a failed*)
(* write is logged and the next player is told.                            *)
(***************************************************************************)
StillToNotify_None(p) == {}
StillToNotify(p) == toNotify \ {p}

Notify(p) ==
  /\ p \in toNotify
  /\ \/ /\ p \in connections
        /\ invited' = invited \cup {p}
        /\ toNotify' = StillToNotify(p)
        /\ UNCHANGED <<unwritten, faults>>
     \/ /\ p \in connections /\ Strike("write")
        /\ unwritten' = unwritten \cup {p}
        /\ toNotify' = StillToNotify(p)
        /\ UNCHANGED invited
     \/ /\ p \notin connections
        /\ toNotify' = {}
        /\ UNCHANGED <<invited, unwritten, faults>>
  /\ UNCHANGED <<roster, questions, consumed, connections, initializer, loop, tasks>>
  /\ UNCHANGED <<readied, unstamped, started, missed, died>>

(***************************************************************************)
(* UpsertReadyPlayer without a player.  On a roster that has ready players *)
(* but is not full it dereferences the nil player id and panics.           *)
(***************************************************************************)
InitializerReads ==
  /\ initializer.pc = "read"
  /\ \E seen \in {roster, NoRoster} :
       /\ ReadRoster(seen)
       /\ IF ~Full(seen) /\ seen.players # {}
          THEN Restart
          ELSE /\ initializer' = [pc |-> IF Full(seen) THEN "done" ELSE "write",
                                  seen |-> seen]
               /\ UNCHANGED <<roster, questions, consumed, connections, toNotify,
                              loop, tasks, history>>

(***************************************************************************)
(* A missing roster is created with the number of players of the match; an *)
(* existing one (with the default number) is written back as it was.       *)
(***************************************************************************)
InitializerWrites ==
  LET fresh == Roster(Cardinality(Players), {})
  IN
  /\ initializer.pc = "write"
  /\ \/ /\ roster' = IF initializer.seen = NoRoster THEN fresh ELSE initializer.seen
        /\ UNCHANGED faults
     \/ /\ Strike("set")
        /\ UNCHANGED roster
  /\ initializer' = [pc |-> "done", seen |-> NoRoster]
  /\ UNCHANGED <<questions, consumed, connections, toNotify, loop, tasks, history>>

-----------------------------------------------------------------------------
(* READY *)

(***************************************************************************)
(* The GET of UpsertReadyPlayer.  The code takes any user's READY for any  *)
(* game id.  A full roster says "ready" at once, to anybody; a user already*)
(* in it gets an error.                                                    *)
(***************************************************************************)
ReceiveReady(l) ==
  /\ loop[l].pc = "idle"
  /\ readied' = readied \cup {Owner[l]}
  /\ \E seen \in {roster, NoRoster} :
       /\ ReadRoster(seen)
       /\ \/ /\ Full(seen)
             /\ loop' = [loop EXCEPT ![l].pc = "stamp"]
             /\ started' = TRUE
          \/ /\ ~Full(seen)
             /\ Owner[l] \in seen.players
             /\ UNCHANGED <<loop, started>>
          \/ /\ ~Full(seen)
             /\ Owner[l] \notin seen.players
             /\ loop' = [loop EXCEPT ![l].pc = "write", ![l].seen = seen]
             /\ UNCHANGED started
  /\ UNCHANGED <<roster, questions, consumed, connections, initializer, toNotify, tasks>>
  /\ UNCHANGED <<invited, unwritten, unstamped, missed, died>>

(***************************************************************************)
(* The SET.  When the key was missing a default roster is created and the  *)
(* sender is not put in it; otherwise the sender joins the copy that was   *)
(* read, whatever has been written since.                                  *)
(***************************************************************************)
Upsert(seen, p) ==
  IF seen = NoRoster
  THEN Roster(DefaultExpected, {})
  ELSE [seen EXCEPT !.players = @ \cup {p}]

WriteRoster(l) ==
  LET new == Upsert(loop[l].seen, Owner[l])
  IN
  /\ loop[l].pc = "write"
  /\ \/ /\ roster' = new
        /\ loop' = [loop EXCEPT ![l] = [IdleLoop EXCEPT
                      !.pc = IF Full(new) THEN "stamp" ELSE "idle"]]
        /\ started' = (started \/ Full(new))
        /\ UNCHANGED faults
     \/ /\ Strike("set")
        /\ loop' = [loop EXCEPT ![l] = IdleLoop]
        /\ UNCHANGED <<roster, started>>
  /\ UNCHANGED <<questions, consumed, connections, initializer, toNotify, tasks>>
  /\ UNCHANGED <<invited, unwritten, readied, unstamped, missed, died>>

-----------------------------------------------------------------------------
(* Starting the game *)

(***************************************************************************)
(* SetValidAnswerTimeForQuestions: GET the questions, then SET them with   *)
(* their deadlines.  If either fails the sender is told, the delay is zero *)
(* and the handler goes on all the same; it gives up only when it cannot   *)
(* tell the sender.                                                        *)
(***************************************************************************)
AfterRead_SendsFirst == "send"
AfterRead == "save"

ReadQuestions(l) ==
  /\ loop[l].pc = "stamp"
  /\ \/ /\ questions \notin Absent
        /\ loop' = [loop EXCEPT ![l].pc = AfterRead]
        /\ UNCHANGED <<missed, faults>>
     \/ /\ IF questions \in Absent THEN UNCHANGED faults ELSE Strike("get")
        /\ loop' = [loop EXCEPT ![l].pc = "reply"]
        /\ missed' = TRUE
  /\ UNCHANGED <<roster, questions, consumed, connections, initializer, toNotify, tasks>>
  /\ UNCHANGED <<invited, unwritten, readied, unstamped, started, died>>

SaveDeadlines(l) ==
  /\ loop[l].pc = "save"
  /\ \/ /\ questions' = "stamped"
        /\ loop' = [loop EXCEPT ![l].pc = "send", ![l].delay = "final"]
        /\ UNCHANGED <<missed, faults>>
     \/ /\ Strike("set")
        /\ loop' = [loop EXCEPT ![l].pc = "reply"]
        /\ missed' = TRUE
        /\ UNCHANGED questions
  /\ UNCHANGED <<roster, consumed, connections, initializer, toNotify, tasks>>
  /\ UNCHANGED <<invited, unwritten, readied, unstamped, started, died>>

ReplyError(l) ==
  /\ loop[l].pc = "reply"
  /\ \/ /\ loop' = [loop EXCEPT ![l].pc = "send"]
        /\ UNCHANGED faults
     \/ /\ Strike("reply")
        /\ loop' = [loop EXCEPT ![l] = IdleLoop]
  /\ UNCHANGED <<roster, questions, consumed, connections, initializer, toNotify, tasks, history>>

(***************************************************************************)
(* sendQuestionToPlayer GETs the questions again.  If that fails none is   *)
(* sent, and its error is overwritten before anybody looks at it.          *)
(***************************************************************************)
AfterNoQuestions_Returns == "idle"
AfterNoQuestions == "task"

FetchQuestions(l) ==
  /\ loop[l].pc = "send"
  /\ \/ /\ questions \notin Absent
        /\ loop' = [loop EXCEPT ![l].pc = "deliver", ![l].todo = Players]
        /\ unstamped' = (unstamped \/ questions = "cached")
        /\ UNCHANGED faults
     \/ /\ IF questions \in Absent THEN UNCHANGED faults ELSE Strike("get")
        /\ loop' = [loop EXCEPT ![l].pc = AfterNoQuestions]
        /\ UNCHANGED unstamped
  /\ UNCHANGED <<roster, questions, consumed, connections, initializer, toNotify, tasks>>
  /\ UNCHANGED <<invited, unwritten, readied, started, missed, died>>

(***************************************************************************)
(* Whether the write reaches the player is ignored, but a player without a *)
(* connection is a write to a nil net.Conn: a panic.                       *)
(***************************************************************************)
SendQuestions(l, p) ==
  LET left == loop[l].todo \ {p}
  IN
  /\ loop[l].pc = "deliver"
  /\ p \in loop[l].todo
  /\ IF p \in connections
     THEN /\ loop' = [loop EXCEPT ![l].todo = left,
                                  ![l].pc = IF left = {} THEN "task" ELSE @]
          /\ UNCHANGED <<roster, questions, consumed, connections, initializer,
                         toNotify, tasks, history>>
     ELSE Restart
  /\ UNCHANGED faults

PublishTask(l) ==
  /\ loop[l].pc = "task"
  /\ \/ tasks' = tasks \cup {loop[l].delay} /\ UNCHANGED faults
     \/ Strike("task") /\ UNCHANGED tasks
  /\ loop' = [loop EXCEPT ![l] = IdleLoop]
  /\ UNCHANGED <<roster, questions, consumed, connections, initializer, toNotify, history>>

-----------------------------------------------------------------------------
(* Around the handlers *)

(* The question consumer caches the questions; their deadlines are zero. *)
CacheQuestions ==
  /\ ~consumed
  /\ consumed' = TRUE
  /\ questions' = "cached"
  /\ UNCHANGED <<roster, connections, initializer, toNotify, loop, tasks, history, faults>>

(***************************************************************************)
(* GetGame, of a completion task without a leader board: its goroutine SETs*)
(* the questions of the game's document, which have no deadlines, unless   *)
(* that fails, or panics when the document has no questions.               *)
(***************************************************************************)
Recache ==
  /\ tasks # {}
  /\ Strike("board")
  /\ \/ /\ questions' \in {questions, "cached"}
        /\ UNCHANGED <<roster, consumed, connections, initializer, toNotify, loop, tasks,
                       history>>
     \/ Restart

Expire ==
  /\ Strike("expire")
  /\ \/ roster' = NoRoster /\ UNCHANGED questions
     \/ /\ questions \notin Absent
        /\ questions' = "gone"
        /\ UNCHANGED roster
  /\ UNCHANGED <<consumed, connections, initializer, toNotify, loop, tasks, history>>

Connect(p) ==
  /\ p \notin connections
  /\ connections' = connections \cup {p}
  /\ UNCHANGED <<roster, questions, consumed, initializer, toNotify, loop, tasks, history, faults>>

Disconnect(p) ==
  /\ p \in connections
  /\ Strike("drop")
  /\ connections' = connections \ {p}
  /\ UNCHANGED <<roster, questions, consumed, initializer, toNotify, loop, tasks, history>>

Crash == Strike("crash") /\ Restart

HandleReady(l) ==
  \/ WriteRoster(l)
  \/ ReadQuestions(l)
  \/ SaveDeadlines(l)
  \/ ReplyError(l)
  \/ FetchQuestions(l)
  \/ \E p \in Players : SendQuestions(l, p)
  \/ PublishTask(l)

Next ==
  \/ AnnounceGame
  \/ \E p \in Players : Notify(p) \/ Connect(p) \/ Disconnect(p)
  \/ InitializerReads
  \/ InitializerWrites
  \/ \E l \in Loops : ReceiveReady(l) \/ HandleReady(l)
  \/ CacheQuestions
  \/ Recache
  \/ Expire
  \/ Crash

Spec == Init /\ [][Next]_vars

(* A handler that has begun goes on, and so does the consumer; players owe nothing. *)
FairSpec ==
  /\ Spec
  /\ \A l \in Loops : WF_vars(HandleReady(l))
  /\ WF_vars(\E p \in Players : Notify(p))

-----------------------------------------------------------------------------
(* Properties *)

(***************************************************************************)
(* The game never starts before two users have sent READY for it, whichever*)
(* READYs overlap, get lost or meet a roster that is not there yet, and    *)
(* however often the process restarts.                                     *)
(***************************************************************************)
TwoReadyBeforeStart == started => Cardinality(readied) >= 2

(***************************************************************************)
(* "the game starts only after every player's READY state is persisted"    *)
(* (docs/context/07-known-issues.md:44), as far as only its players send   *)
(* READY: anybody else's counts as well.  Holds for a game of two.  In a   *)
(* larger one, a READY that overtakes the roster's creation makes a roster *)
(* of two, and the others are not waited for.                              *)
(***************************************************************************)
EveryoneReadyBeforeStart ==
  started /\ readied \subseteq Players => readied = Players

(***************************************************************************)
(* Players are only sent questions whose deadlines have been stamped (Flow *)
(* 7, step 2a before 2b).  The handler that starts the game goes on when it*)
(* cannot stamp them, and a completion task that fails to make the leader  *)
(* board caches them without; no other handler's stamping, sending or      *)
(* restarting undoes it.                                                   *)
(***************************************************************************)
DeadlinesBeforeQuestions == unstamped => missed \/ faults["board"] > 0

(* The loop was told that the game is ready and has not finished starting it. *)
Starting(l) == loop[l].pc \in {"stamp", "save", "reply", "send", "deliver", "task"}

(***************************************************************************)
(* No start is forgotten: some read loop is still on its way to enqueue the*)
(* completion task, or one is enqueued, also when another loop that was    *)
(* told to start the game gives up.                                        *)
(***************************************************************************)
StartedIsInHand ==
  started =>
    \/ \E l \in Loops : Starting(l)
    \/ tasks # {}
    \/ faults["task"] + faults["reply"] > 0 \/ died

(***************************************************************************)
(* A game that was started gets a completion task, even when its questions *)
(* could be neither stamped nor sent, unless enqueuing itself fails, the   *)
(* sender cannot be told of the failed stamping, or the process dies.      *)
(***************************************************************************)
StartedIsScheduled ==
  started ~> tasks # {} \/ faults["task"] + faults["reply"] > 0 \/ died

(***************************************************************************)
(* A game that is announced is announced to all of its players: the loop   *)
(* writes MATCH_CREATED, which tells the game's id, to each of them, also  *)
(* after a write to one has failed.  Only a player whose connection is     *)
(* lost, and who then ends the loop for those after, or the end of the     *)
(* process, leaves anybody out.                                            *)
(***************************************************************************)
AnnouncedToAll ==
  initializer.pc # "unborn" ~>
    invited \cup unwritten = Players \/ faults["drop"] > 0 \/ died
=============================================================================
