# BrainBlitz in TLA+

Specifications, model-checking configurations and machine-checked proofs for
BrainBlitz, a real-time quiz game written in Go: players connect over a
WebSocket, are matched by category, get the same ten questions and are ranked by
what they answer in time. The modules are written from the code under `src/`;
paths below are relative to it. `PROJECT.json` maps every definition to the lines
it models.

Contents: 1 the system, 2 the modules, 3 the runs, 4 fairness, 5 the proofs,
6 where code and documentation disagree, 7 what is abstracted or missing, 8 the
plan.

## 1. The system

Five services that share nothing but Kafka topics, plus the stores each of them
owns.

    player --WebSocket--> Game --join request--> Kafka --> Match
    Match --matched users--> Kafka --> Game, Question
    Question --questions--> Kafka --> Game
    Game --delayed task--> Asynq (Redis) --> Game
    User, Game --HTTP/gRPC--> Auth

| Component | State | Operations | Talks to |
|---|---|---|---|
| Match Service, `services/match_app` | one Redis sorted set of waiting players per category | join (Kafka consumer and HTTP), a scheduler run every 15 s: read the lists, group, publish, remove | Game and Question through `matchMaking_v1_matchUsers` |
| Game Service: set-up, `match_consumer.go`, `question_consumer.go`, `repository/game.go` | MongoDB game documents; Redis questions under the match id and under the game id | create the games of a message, save the questions of a match, announce | the two consumers share both stores |
| Game Service: ready phase, `game_lifecycle.go`, `websocket_handler.go`, `answer_processor.go` | Redis roster of a game; map of connections | create the roster, MATCH_CREATED, READY, stamp deadlines, send questions, enqueue the completion | read loops, match consumer, Asynq |
| Game Service: answers and scores | Redis questions with deadlines; MongoDB `player_answers` | grade, check for an earlier answer, insert; leader board | read loops, completion task |
| Game Service: connections | `connections` map under a lock | upgrade, read loop, clean-up | every sender of messages |
| Game Service: completion, `game_completion.go`, `task-worker.go` | none of its own | send the standings, close and forget the connections, retried up to 3 times | Asynq, MongoDB |
| Game Service: player status | Redis `game_user_status` per player | INITIALIZED, PENDING | written by racing goroutines |
| Question Service, `services/question_app` | PostgreSQL questions (read only) | per matched group: query by category, publish | Kafka |
| User Service, `services/user_app` | PostgreSQL users | sign up, log in, profile | Auth |
| Auth Service, `services/auth_app` | none | create and validate JWTs | - |
| Adapters, `adapter/` | Kafka readers, Redis client, Asynq client, WebSocket, Auth client | - | - |
| Process of each service, `cmd/*/main.go`, `*/app.go`, `pkg` | connections to the stores, the goroutines of `startServers`, what they have in hand | load the configuration, connect, migrate, serve, shut down on a signal | all of the above |
| Delivery, contracts | - | binding, generated code | - |

What is hard in it:

- *Nothing serialises.* gocron starts every scheduler run in a new goroutine
  and does not wait for the last one (`match_app/service/scheduler.go:35`); the
  roster is changed by GET, modify, SET from many goroutines
  (`game_app/repository/game.go:209-261`); an answer is looked up and inserted in
  two steps (`game.go:373-392`); the two Kafka consumers of the Game Service
  update two stores in opposite orders.
- *Failures are swallowed.* Most errors are logged and the code goes on: a
  producer error does not stop the removal of the players, a failed read is an
  empty list, an unreadable roster is a missing one, a failed look-up means "not
  answered yet".
- *Panics.* Goroutines without `recover` dereference a nil player id
  (`game.go:241`), a nil error (`game.go:145`) and a nil connection
  (`answer_processor.go:52`). Any of them ends the process.
- *Restart loses messages.* Consumers read from the newest offset and keep
  none (`adapter/broker/kafka-broker.go:79`).
- *Time.* Deadlines are set when the game is started, again at every further
  start, and compared with a time taken before they are read; a leader board that
  fails puts the questions back without any (`game.go:94`).
- *Shutting down.* Of what a process has in hand some is waited for with a limit
  (requests), some without one (gRPC calls, scheduled runs), some is put back
  (tasks) and some is cut off (Kafka messages, websockets). The task worker is
  stopped by the signal itself and by nothing else (`adapter/task-queue/asynq.go:116`).

What would make each component correct is stated in section 2 with its module;
the hazards, each at its line, are in `PROJECT.json`.

## 2. The modules

| Module | What it is |
|---|---|
| `MatchMaking` | the Match Service: joins, overlapping scheduler runs, faults |
| `MatchPool` | abstract: players enter a pool, groups leave it atomically; strict, or allowed to lose groups or to match again |
| `MatchMakingPool` | the refinement mapping from `MatchMaking` to `MatchPool` |
| `Joining` | join requests, replies, scheduler runs and player status, over both services |
| `GameSetup` | creating games and storing their questions |
| `QuestionService` | `GameSetup` with the service that sends the questions |
| `ReadyRoster` | from MATCH_CREATED to the questions and the completion task |
| `Answers` | deadlines, grading, the duplicate check, when completion is due |
| `Sessions` | WebSocket sessions and the connection map |
| `Completion` | `Sessions` with the completion tasks that use the map |
| `Accounts` | User Service, Auth Service, tokens |
| `Lifecycle` | the process of any of the five services, from `main` to its exit |
| `Quiz` | abstract: an answer sheet written in ink and a ranking of it; implemented by `Answers` |
| `Farewell` | abstract: standings told over lines that are then hung up; implemented by `Completion` |
| `Directory` | abstract: accounts that are registered and logged in to in one step; implemented by `Accounts` |
| `MC*` | the instances for TLC |
| `*Proofs` | theorems and proofs |

The models are the successive phases of one game and meet at Kafka messages and
Redis keys: a player of `Joining.requests` enters the list that is `waiting` in `Joining` and `MatchMaking`;
`MatchMaking.topic` is `QuestionService.asked` and `GameSetup.matchMessage`;
`GameSetup.announced` is the step `ReadyRoster.AnnounceGame`, the key in
`GameSetup.byGame` is `ReadyRoster.questions`, a stamped `questions` is
`Answers.deadline`, and a task of `Answers.due` is one of `Completion.task`. Each is
explored under everything its neighbours can do to it (a game may be started several
times and so have several completion tasks, for example).

Two modules compose two components instead: `QuestionService` puts the sender in the
place of the questions that `GameSetup` lets come "at any time or never" (their theorems
are together in `SetupProofs`), and `Completion` runs its tasks on the sessions of
`Sessions`, which come and go at the same time. `Joining` has scheduler runs of its own:
they read, publish and remove in the steps of `MatchMaking`, but form any allowed group,
because scores and windows do not matter to what a player was told. `Lifecycle` is the frame around all of them: the crash or restart
that each of them allows at any moment is, there, a process that ends.

In all of them a *step* is one call to a store, a broker or a connection, together
with the local computation up to the next one; between two steps every other
goroutine may run. The local state of a goroutine between two steps is a record
with a `pc`. Each kind of failure is a fault that may strike at most
`MaxFaults[kind]` times (in `QuestionService`, `Joining` and `Accounts`: each kind
once), in some modules of at most a bounded number of kinds (`MaxKinds`), and a *history* variable is only read by
properties and by the bounds.

### MatchMaking

`waiting[c][u]` is the score of `u` in the sorted set of `c` (0 if absent), `run[r]`
a scheduler run. `AddToWaitingList` is the ZADD of both entry points;
`StartRun`, `GetWaitingListByCategory` (one ZRANGEBYSCORE over
`[now - Window, now]` per category, in order), `FormGroups` (sort, group by
category, cut to an even number), `Publish` and one `RemoveWaitingMember` per
player are `MatchWaitUsers`. Equal scores are ordered arbitrarily because
`sort.Slice` is not stable. `Publish` has four outcomes: acknowledged, or an error
with the message stored or not.

- `GroupsAreEven` (theorem only): nobody is matched alone.
- `NoOvertaking`: when a run is about to publish, everybody left out joined no
  earlier than each member of the group, or has waited longer than the window,
  measured against the list as it is *then*.
- `MatchesPerStayBounded`: how often one stay in a list can be matched: once per
  run in flight, once more per crash and per failed removal. The bound is tight.
- `NoSilentRemoval`: whoever leaves a list unmatched was named in a message the producer
  could not publish, or joined while a run was still removing the group of an earlier stay
  (`lapsed`). Nothing else takes a player out silently, with any number of runs and any
  faults. The documentation knows neither exception (6).
- `ImplementsMatchPool`: read, publish and remove in separate steps look like one atomic
  step on a pool of players. A player is in the pool from joining until the producer has
  answered for the message that names them; removals change nothing, and a crash or a failed
  removal puts players back. Where runs can overlap, as with gocron they can, a group may
  hold players who have left the pool before (`Overlapping`, `former`), but never one who
  was not in it; where the producer can fail, a group may be lost (`Lossy`). With one run
  and a producer that works the pool is strict.
- `PairIsServed`: of two players who wait, one is eventually matched (with one run at a
  time and a producer that works).

### Joining

`loop[p]` is the read loop of `p` inside ADD_TO_WAITING_LIST: `ReceiveAdd` (reply
for an unknown category, which then goes on like any other, and the goroutine that
writes INITIALIZED), `PublishRequest`, `Confirm`. `requests` and `matches` are the
two topics as far as they are unread, `ConsumeJoinMatchQueueRequest` and
`AddToWaitingList` (the HTTP endpoint) the two ways into the list.
`GetWaitingListByCategory`, `PublishFinalUsers` and one `RemoveWaitingMember` per player
are a scheduler run, of which several overlap; joins come in between, and a restart of the
Match Service may come after any of them. `ConsumeMatchCreated` is what the match consumer
does to the players' status. `writers[p][s]` counts the goroutines about to write
status `s`, which nothing orders.

- `ToldIsKept`: who was told to have been added is in the queue, in the list, or
  matched since asking, although the reply is sent before the Match Service has seen
  the request. What can make it untrue is a producer error of either service, a
  failed ZADD, a restart of the Match Service - and, without any failure, asking while a
  run that has published the player is still removing (`raced`).
- `MatchedAsAsked`: each time a player asks for a category, at most as many matches follow
  as runs can be in flight, and one more for a failing ZREM and one per run for a restart.
- `MatchedIsInHand`: whoever was matched is in an unread match message, has a goroutine
  about to write PENDING, or has a status, whichever way they joined.
- `ToldIsListed`, `MatchedIsPending`: promises that are eventually kept.

### GameSetup

`creator` and `saver` are the two consumers, `game[m]` the document, `byMatch` and
`byGame` the two Redis keys. `StashByMatchId` includes the panic of
`game.go:145`, which loses what both consumers have in hand
(`LoseEverything`). A call that reports an error may have been carried out: an insertion
(`unanswered`) or an update.

- `QuestionsKept`: handled questions are in the document or under the match id,
  unless an update *and* a SET failed.
- `GameFirstIsComplete`: if the document was there first, both the document and the
  cache under the game id are complete, unless the look-up or a SET failed.
- `CachedGamesExist` (theorem only): the stray key written after a miss never passes for a
  game's.
- `CreatedIsInHand`, `CreatedIsAnnounced`: a created game is announced or held by the
  consumer, and is announced in the end, whatever happens to the other matches of the
  message, unless the process died or the insertion was stored and answered with an error.

### QuestionService

`asker` is the consumer of the Question Service, `content[m]` how many questions were
published for `m`. One time-out covers all the queries of a message (`TimeOut`); a
query that fails, or whose rows end early, is followed by publishing what there is
(`GetRandomQuestions`, `PublishList`), so that a match can get an empty list.

- `ShortOnlyByFault`: a game has as many questions as asked for, or as there are,
  unless a query failed, rows ended early or the time-out struck.
- `MatchIsInHand`, `EveryMatchIsAnswered`: one match's failed query does not cost the
  others theirs: each stays with the consumer until its questions are published.

### ReadyRoster

`roster` is the Redis key, `initializer` the goroutine that creates it, `loop[l]`
the read loop of a connection, with the copy of the roster it holds. READY is taken from any
connected user, of the game or not (`Outsiders`): the handler never asks whose game it is.
`ReceiveReady`/`WriteRoster` are the GET and SET of `UpsertReadyPlayer`, then
`ReadQuestions`, `SaveDeadlines`, `ReplyError`, `FetchQuestions`, `SendQuestions`
(one step per player) and `PublishTask` are the rest of the READY handler.
`Restart` is the end of the process, by a crash or by one of the panics. `CacheQuestions` is
the question consumer, `Recache` the goroutine of `GetGame` that puts the questions back
without deadlines when a completion task has no leader board.

- `TwoReadyBeforeStart`: no game starts before two users have sent READY for it, whoever
  they are.
- `EveryoneReadyBeforeStart`: where only its players send READY, a game starts with all of
  them ready. Proved for a game of two, and violated by a game of four (6).
- `DeadlinesBeforeQuestions`: nobody is sent unstamped questions unless a starting
  handler could not stamp them, or a leader board failed and the questions were put back.
- `StartedIsInHand`, `StartedIsScheduled`: a started game has a completion task or a
  handler on the way to enqueue one, and gets one in the end, unless enqueuing fails, the
  sender cannot be told of an error, or the process dies.
- `AnnouncedToAll`: MATCH_CREATED (`Notify`, one player at a time) is written to every
  player of an announced game, or was tried (`unwritten`; the failure is logged and the loop
  goes on), unless one has lost the connection, which ends the loop, or the process dies.

### Answers

`deadline[q]` is the copy in Redis, `loop[l]` an answer in hand, `stored[p][q]` the
inserted answers, `due` the times of the completion tasks. A start reads the questions and
stamps its copy (`StampDeadlines`), and writes it back later (`SaveDeadlines`), so that two
starts overlap and the older deadlines may be the last; or, if Redis fails, it only enqueues
a task that is due at once (`StartUnstamped`; `StartedOnce` says that there was one start
and that it did not fail). A due task makes the leader
board of what is stored (`GetLeaderBoard`, kept in `standings`, with the players who had
an answer in hand in `late`), or, if that fails, asks for the game (`GetGame`), whose
goroutine puts the questions of MongoDB back into Redis, without deadlines (`Recache`);
if that fails too (`GetNeither`) the task is run again.

- `AnswersBounded`: a question is answered at most once per connection of the player
  and once more for each failed look-up, so once with one connection and look-ups
  that work. The bound is tight: two loops look before either inserts.
- `PointsInWindow`: points only for an answer inside the window of its question in
  one of the starts, although the time of the answer is taken before the deadlines
  are read and a start may come in between.
- `EarlierIsNoWorse`: of two correct answers against one deadline the earlier never
  gets fewer points; no answer gets more than base score and bonus.
- `InTimeIsPaid`: whoever knows the answer and sends it in time for all the starts that may
  be in force while it is graded (`InForce`: those whose deadlines are in Redis, and those
  that replace them) gets at least the base score, whatever starts, completions and restarts
  overlap with it. The window of the latest start alone would not do: its deadlines may be
  overwritten by older ones. Only questions that were put back without deadlines can take
  the points away.
- `StandingsAreFinal`: the leader board of a game of several questions that was started
  once, with its deadlines, misses no answer that ever gets points, except of players who had one in hand
  when it was made.
- `NoPointsAfterCompletion` (theorem only): while the game was started once, its
  completion never comes before an answer that gets points.
- `ImplementsQuiz`: the four steps of an answer look like one: at some moment it is written
  on the player's sheet, in ink, with points only if its question was open when it was sent;
  a question is answered at most once per connection and failed look-up (`Allowance`), which
  is once with one connection and look-ups that work; and the ranking is of the sheet at one
  moment, made once. The mapping forgets the read loops, the deadlines and the tasks.

### Sessions and Completion

`connections` is the map under its lock, `session[k]` where `ProcessGame` or the read
loop of connection `k` is. A user who dials again replaces the entry
(`StoreConnection`), and the old loop's deferred clean-up deletes whatever entry there
is by then (`CleanUp`); a greeting that fails leaves a connection without a read loop
(`abandoned`). `task[t]` is asynq's view of a completion task and the attempt under
way: `BeginAttempt` (leader board, then the game, then neither), and per player, in
the order of the standings, `Lookup` in the map, `Write`, `DeleteRecipient`,
`CloseRecipient`. A missing entry is a panic, which asynq takes for a failed attempt;
the next one starts from the beginning without those already served.

- `DoneMeansTold`: a task counts as done only if one attempt reached everybody.
- `StandingsOncePerTask`: retries and overlap never send a task's standings twice
  over one connection.
- `HungUpAfterStandings`: the server hangs up on a living peer only after the
  standings were sent over that connection, or with the process.
- `MapIsCurrent` is two things. `ClosedEntryIsLeaving`: the map holds a closed connection
  only until its own read loop deletes the entry, so that no task finds one for ever.
  `OpenIsListed`: a stored connection that the server has not closed is missing from the map
  only if it was sent the standings, or its player has stored another one. "Open" is the
  server's view: the peer may have left, and an entry whose greeting failed
  (`websocket_handler.go:79`) has no read loop and stays in the map for ever.
- `ImplementsFarewell`: looking up, writing, deleting and closing, with sessions that come
  and go in between, look like a farewell: a task speaks on an open line, gives the standings
  on it at most once, is finished only when one attempt has reached everybody, and nobody is
  hung up on who has not heard the standings or left. The mapping forgets the map itself.
  It says all that `DoneMeansTold`, `StandingsOncePerTask` and `HungUpAfterStandings` say.

### Accounts

`handler[h]` is a request in hand, `users` the table. `InsertUser` is the INSERT under
the UNIQUE constraint, which may store a row and still report an error; `GetUser`,
`GetAccessToken` and `GetRefreshToken` are the login. A token is its claims; its expiry
(`Expiry`) is the configured duration in nanoseconds, which `ValidateToken` compares with
the seconds since 1970. No property is about tokens that expire, because none does (6).

- `SessionsAreOwn` (theorem only): while they are accepted, both tokens of a login lead to
  the one account with the name and password of the login.
- `SignedUpCanLogin`: a sign-up reported as a success is the only one of its name and
  good for a login.
- `ImplementsDirectory`: sign-ups that race, or fail half way, and logins of three calls look
  like a directory: an account is registered at one moment, under an id and a name of its
  own, never changes, and is logged in to with its own name and password only. It says all
  that `SessionsAreOwn` says.

### Lifecycle

`service` says which of the five services the process is; `Apps` gives the goroutines of
its `startServers`, the topics of its consumer and whether `main` closes a database. `pc`
is where `main` is: the steps up to `Start` connect (`NewKafkaBroker` with its five
attempts each for producer and consumer), `BeginShutdown`, `ServersStopped` or
`TimedOut`, `WaitReturns` and `CloseStore` are `Application.Start` after the signal.
`part[p]` is a goroutine of `startServers`, `topic[t]` one of the consumer, `stop[s]` one
of `shutdownServers`; `work` and `handling` are what is in hand. A `Signal` is heard by
`NotifyContext` and, separately, by the task worker. `clock` counts ticks from the signal,
so that the HTTP server's time-out comes before the total one.

- `DrainedBeforeEnd`: a process that ends on its own terms leaves no gRPC call and no
  scheduled run, a request only if the HTTP server's time-out was over, and a task only
  if it is back in the queue.
- `ForcedOnlyByCalls`: only a service with a gRPC server can run into the total time-out
  and `os.Exit(1)`, which then leaves its database open.
- `WaitsForWhatCanEnd`: when `main` has come to wait for its goroutines (`wg.Wait`), each of
  them is over, was stopped or was told to stop, unless the task worker missed the signal.
- `NoticedSignalEnds`: a signal that the process (and its task worker, if it has one) has
  seen ends it, whatever requests, calls, tasks and messages do.

## 3. The runs

| Run | Instance | Shows |
|---|---|---|
| `match_overlap` | 3 users, 2 runs at once, window 1, clock to 2, one producer error, failed removal, crash | `MatchesPerStayBounded`, `NoOvertaking`, `NoSilentRemoval`, `ImplementsMatchPool` |
| `match_single` | 3 users, 1 run, one failed read, removal, crash | `ImplementsMatchPool` with the strict pool, `PairIsServed` |
| `joining` | 2 players, 2 + 1 requests, 2 runs, one fault | `ToldIsKept`, `MatchedAsAsked`, `MatchedIsInHand` |
| `joining_single` | 2 players, 3 + 1 requests, one of them for no category, 1 run, one fault | `ToldIsListed`, `MatchedIsPending` |
| `setup_faults` | 2 matches, every fault of the Game Service and one of the Question Service once | `GameSetup` and `QuestionService`: `QuestionsKept`, `GameFirstIsComplete`, `ShortOnlyByFault`, `CreatedIsInHand`, `CreatedIsAnnounced`, `MatchIsInHand`, `EveryMatchIsAnswered` |
| `ready_two` | 2 players, READY from one of them and from somebody who is not of the game, any one fault | types, `TwoReadyBeforeStart`, `DeadlinesBeforeQuestions`, `StartedIsInHand`, `StartedIsScheduled`, `AnnouncedToAll` |
| `ready_four_early` | 4 players, no fault | violation of `EveryoneReadyBeforeStart` |
| `answers_bounded` | 1 player with 2 connections, a question and an unknown one, time-out and bonus deadline of 2, clock to 3, any one of a failed read, look-up and insertion | `AnswersBounded`, `EarlierIsNoWorse`, `ImplementsQuiz` |
| `answers_windows` | 1 player, 2 questions, 2 starts that may overlap, clock to 4, any one of a leader board, a stamping and the process | `PointsInWindow`, `InTimeIsPaid`, `StandingsAreFinal`, `ImplementsQuiz` |
| `completion_overlap` | 2 players, 2 connections, 2 tasks with 1 retry, every fault once | `MapIsCurrent`, `ImplementsFarewell` |
| `accounts` | 2 names, 2 passwords, 2 requests at once, 2 ids, one kind of fault | `SignedUpCanLogin`, `ImplementsDirectory` |
| `lifecycle` | each of the five services, 2 of everything in hand, 2 signals, time-outs of 2 and 3 ticks | types, `DrainedBeforeEnd`, `ForcedOnlyByCalls`, `WaitsForWhatCanEnd`, `NoticedSignalEnds` |

The types of every module are proved for every instance (`TypeCorrect` in section 5), and so
are `DoneMeansTold`, `StandingsOncePerTask`, `HungUpAfterStandings` and `SessionsAreOwn`,
which follow from the refinements the runs check; the runs leave them to the proofs, but for
the types of the two modules that take part in no refinement.

Why the bounds are enough for what they are meant to show:

- Three waiting users are the least that leave somebody out of an even group, which
  is where the ordering matters; two runs are the least that overlap. With two clock values
  two players can have equal or different scores. Everybody is inside the window in both
  runs: that `NoOvertaking` holds when somebody has waited longer than it is left to the
  theorem. `match_single` has a window longer than its clock so that
  `PairIsServed` is not about players who waited too long, and one run, so that the pool it
  implements is the strict one.
- Two matches in a message let one fail while the other goes on.
- Two players make the smallest game; four show that two are enough to start any; one
  outsider is enough to take the place of a player. `ready_two`, with its liveness, has any
  one kind of fault; that two together do no more is left to the theorems.
- In the `joining` runs `p1` asks twice for a category, so that a second stay can overlap the
  first one's match, removal and status writes; `p2` makes a pair possible. Two runs can
  both publish the pair; the liveness run has one, and a request for no category instead.
  Any fault may be the one that strikes.
- In `setup_faults` one match has more questions in the bank than `Limit` and the
  other as many; `Limit` 1 tells an empty list from a full one.
- `completion_overlap`: two connections let one player dial again while an old session
  is cleaned up and either task serves somebody; one retry is enough for an attempt
  that starts with somebody already served.
- `accounts`: two handlers race for a name or use different ones. `Second` 5 and `Epoch`
  3 keep the order of the real numbers: a duration in nanoseconds is a later moment
  than now, and the same duration in seconds is an earlier one.
- `answers_bounded` has answers at all the times up to the deadline itself, with the full
  bonus, half of it and none; question 0 is unknown, nobody answers the second one, and the
  completion is due outside the clock and is the subject of the other run. In
  `answers_windows` the first completion task is due at 4, inside the clock, two starts can be at
  any of the times, one stamping before the other and writing after it, and an answer
  can be in hand across either. One fault at a time is enough for a leader board that
  fails and puts the questions back before or after the second start. Look-ups work there;
  what happens when they fail is the subject of `answers_bounded`.
- `lifecycle`: two signals let one come before the worker waits for it and one after, or
  one during the shutdown; two requests let one end and one not; 2 and 3 ticks tell the
  two time-outs apart. One kind of work does not change what happens to another.
- Symmetry is used in runs without liveness only, where what is renamed is not named by
  any constant that tells its members apart.
- Deadlock is not checked where the system may really stop: in `setup_faults` when all
  messages are handled, in the `ready` runs when the players have no more to say or a
  restart has left nobody who knows the game, in `completion_overlap` when all connections
  are used and all tasks ended, and in `lifecycle` when the process has exited. A crash in
  the other models stops nothing.

Two categories at once are left to the theorems about `MatchMaking` and `Joining`,
which are for any number of them; TLC explores one.

Every property has a mutant: a definition such as `EvenPart_KeepsOdd` that is a
plausible bug, written next to the definition it replaces. With it the run must
find the property violated.

## 4. Fairness

- `MatchMaking.FairSpec`: weak fairness of each run's steps. gocron ticks for
  ever and the Go runtime schedules every goroutine; a run is bounded by contexts
  with time-outs. Nobody is obliged to join, and the clock owes nothing.
- `QuestionService.FairAskSpec`: weak fairness of each of the three consumers, which
  are goroutines that read for ever. The faults owe nothing.
- `Joining.FairSpec`: weak fairness of the two consumers and of each goroutine that was
  started to write a status. Players, the endpoint and the scheduler owe nothing.
- `ReadyRoster.FairSpec`: weak fairness of a READY handler that has begun and of the loop
  that notifies the players of an announced game. Players, the initializer and the
  consumer's next message owe nothing.
- `Lifecycle.FairSpec`: weak fairness of every goroutine of the process that can go on, of
  the clock, and of the end of a scheduled run, which has a time-out. Requests, calls,
  tasks, messages and sockets need never end, and no signal need come.
- `Answers`, `Completion` and `Accounts` have no liveness property and no fairness.

Faults are bounded in number, so a liveness property holds of a system that stops
failing. The safety properties hold for any numbers of faults (section 5).

## 5. The proofs

TLAPS proves the following for all values of the constants that satisfy the
modules' assumptions: any users, categories, windows, runs, players, connections,
questions, requests, scores, and any bounds on time and faults.

| Theorem | Under | Inductive invariant |
|---|---|---|
| `MatchMakingProofs`: `TypeCorrect`, `EvenGroupsCorrect`, `NoOvertakingCorrect` | - | `MatchInv` |
| `Refinement` (`ImplementsMatchPool`) | - | `MatchInv` and `OverlapInv`; `SingleRunInv` where runs cannot overlap |
| `NoSilentRemovalCorrect` | - | `MatchInv` with `RemovedWereNamed` |
| `MatchesPerStayBoundedCorrect` | finitely many runs | `ChargeInv` |
| `JoiningProofs`: `TypeCorrect`, `ToldIsKeptCorrect` | - | `KeptInv` |
| `MatchedAsAskedCorrect` | - | `CountInv` |
| `MatchedIsInHandCorrect` | - | `MarkedInv` |
| `SetupProofs`: `TypeCorrect`, `QuestionsKeptCorrect`, `GameFirstIsCompleteCorrect`, `CachedGamesExistCorrect` | - | `SetupInv` |
| `CreatedIsInHandCorrect` | - | itself, with `SetupInv` |
| `ImplementsGameSetup`, `AskTypeCorrect`, `ShortOnlyByFaultCorrect` | - | `ListInv` |
| `MatchIsInHandCorrect` | - | itself, with `ListInv` and `AskerIsHandling` |
| `ReadyRosterProofs`: `TypeCorrect`, `TwoReadyCorrect` | - | `RosterInv` |
| `EveryoneReadyCorrect` | a game of two | `RosterInv` |
| `DeadlinesCorrect` | - | `DeadlineInv` |
| `StartedIsInHandCorrect` | - | itself |
| `AnswersProofs`: `TypeCorrect`, `PointsInWindowCorrect`, `EarlierIsNoWorseCorrect` | - | `GradedInv` |
| `AnswersBoundedCorrect` | - | `BoundInv` |
| `NoPointsAfterCompletionCorrect` | - | `CompletionInv` |
| `StandingsAreFinalCorrect` | - | `StandingsInv` |
| `InTimeIsPaidCorrect` | several questions | `PaidInv` |
| `Refinement` (`ImplementsQuiz`) | - | `QuizInv` |
| `CompletionProofs`: `TypeCorrect`, `DoneMeansToldCorrect` | - | `ToldInv` |
| `StandingsOncePerTaskCorrect`, `HungUpAfterStandingsCorrect` | - | `SentInv` |
| `MapIsCurrentCorrect` | - | `EntryInv` |
| `Refinement` (`ImplementsFarewell`) | - | `PartingInv` |
| `AccountsProofs`: `TypeCorrect`, `SessionsAreOwnCorrect`, `SignedUpCanLoginCorrect` | - | `AccountsInv` |
| `Refinement` (`ImplementsDirectory`) | - | `AccountsInv` |
| `LifecycleProofs`: `TypeCorrect` | - | `TypeOK` |
| `DrainedBeforeEndCorrect` | - | `DrainedInv` |
| `ForcedOnlyByCallsCorrect` | - | `ForcedInv` |
| `WaitsForWhatCanEndCorrect` | - | `WaitInv` |

Why the properties are not inductive as they stand:

- `NoOvertaking` compares a group with a list that has changed since it was read.
  `MatchInv` says of every run what its snapshot still means: whoever is not in
  it was outside the window when it was read or has a score no smaller than
  everything in it (scores only grow, `ScoresInThePast`), and whoever is in it has a
  score no smaller than the one read. The group is an even prefix of the snapshot.
- The refinement of `MatchPool` needs to know, of everybody a run has read, grouped or
  published, that they still wait or have left the pool before (`OverlapInv`): then the
  producer's answer is the atomic match, of players in the pool or `former` ones, and every
  other step leaves the pool alone or adds to it. Nothing is assumed of the number of runs.
  Where there is only one, the whole snapshot still waits (`SingleRunInv`), and the pool is
  the strict one. `NoSilentRemoval` needs that whoever a run is to remove was named in a
  stored message during this stay, or has lapsed (`RemovedWereNamed`).
- `MatchesPerStayBounded` counts matches that nothing in the state remembers. `ChargeInv`
  charges each of them to a run that has still to remove the player (`Holding`), or to a
  crash or failed removal; once the player is out of the list, only runs that have read
  it before may name them again (`MayName`).
- `KeptInv` speaks of what is about to be promised as well as of what was (`Promised`): a
  read loop before its confirmation has a request on the way (`OnTheWay`). A queued request
  moves to the list when it is handled (`QueueMoves`), and a run takes a player out of the
  list only after matching them, unless they asked while it was removing - and whoever does
  that has an excuse from then on.
- `CountInv` charges each match to a request and a run: the matches so far, and those that
  the runs in flight may still make (`Chances`), are no more than the requests handled so
  far times the runs, and what the faults allow (`Again`). A handled request gives every run
  a chance, which it uses when it publishes; a failing ZREM leaves one more and a restart
  gives all of them back. The queue is counted by its positions.
- `SetupInv` ties the two consumers together: what has not been tried has no
  game (`UntriedHaveNoGame`), and the question consumer knows, at each of its steps,
  where the questions are already kept (`SaverKnows`).
- `RosterInv`: every copy of the roster, in Redis or in a goroutine's hands, only
  names players who have sent READY and expects at least two (`Honest`). That is why
  overlapping writes can lose a READY but never start a game early.
- `DeadlineInv`: either stamping was missed or a leader board has failed (`Excused`), or the
  questions were cached by the consumer, which is then done with them, and from the first
  handler past the stamping on they are stamped or expired (`Stamped`).
- `BoundInv`: the answers of a question and the loops about to insert one are together
  no more than the player's connections and failed look-ups: a loop that found nothing
  was the first of its connection, or its look-up failed.
- `GradedInv`: every answer in hand or stored has the points of its time and
  deadline (`Earned`), and every deadline, in Redis or in the copy a start has still to
  write, is that of a start.
- `CompletionInv`: unless a start could not set the deadlines, every task is due a `FinalTTL`
  after a start (`DueAfterStart`), and `FinalTTL`, a
  triangular number of time-outs, is no less than the time to the last deadline.
- `HandInv` relates what is in hand to the clock: no answer is from the future, a player
  with an answer in hand at the completion is in `late`, unless it was sent since
  (`SentSince`), questions are only put back after a leader board failed, and until then
  the deadlines are those of the latest start (`LatestDeadlines`). `StandingsInv` and
  `PaidInv` add the two properties: an answer that is stored after the leader board was
  either in hand then or sent too late for points, and a graded one keeps the score of
  its deadline: the start written last is among those an answer in time has to be in
  (`InLastWindow`), and a later one only narrows what is in time.
- `QuizInv` is `GradedInv` and `BoundInv`: a loop about to insert counts among those the
  player is allowed, so the sheet has room for it. Then `InsertAnswer` is `Quiz`'s `Write`,
  the completion that is the first to have something to tell is its `Rank`, a start at a new
  moment its `StartQuiz`, and every other step a stutter.
- `ImplementsGameSetup` lets every theorem about `GameSetup` hold with the Question
  Service in front. `ListInv` says what a list in hand or published can be.
- `ToldInv`: an attempt has told everybody it is not still to serve. `SentInv`: a
  connection that was sent a task's standings is out of the map or about to be, and
  never comes back into it, since a connection is stored once.
- `EntryInv`: a session that has not ended has its connection open unless a task hung it up
  (`OpenSessions`), an open connection that was stored is in the map unless it was sent the
  standings or its player has had another, and a closed one in the map is about to leave
  it. It needs `SentInv`: the task that hung up had
  deleted the entry before. `PartingInv` is `ToldInv`, `SentInv` and `EntryInv` together; a
  `Write` is then a `Tell`, the last look-up of an attempt a `Finish`, and closing is a
  `HangUp` on somebody who was told or has left.
- `AccountsInv`: rows differ in id and in name and never change (`RowsInv`), a login in
  hand and a login that succeeded have a row, and both tokens have its id.
  For the directory,
  the INSERT that stores a row is the registration, whether or not its answer arrives, and
  the last of a login's three calls is the login.
- `LifeInv` holds the order of the shutdown together: nothing is in hand and nothing runs
  before `Start` (`NothingYet`), only the service's own parts ever run (`OwnParts`), calls,
  runs and tasks are only in hand while their part has not ended (`WorkHasItsPart`), every
  place of `main` after the signal implies what was waited for before it
  (`ShutDownInOrder`), and only a gRPC server lets the clock pass the HTTP server's
  time-out (`LateTicks`). `DrainedInv` and `ForcedInv` add the properties.
- `WaitInv` remembers, for each step of `shutdownServers`, whom it has told
  (`EveryoneTold`), and that what a part knows of the shutdown it keeps (`PartsKnow`).
- *In hand.* Liveness cannot be proved here, but most of it rests on an invariant that can:
  until the promise is kept somebody holds it and will act on it. `CreatedIsInHand`,
  `MatchIsInHand`, `StartedIsInHand`, `MatchedIsInHand`, `ToldIsKept`
  and `WaitsForWhatCanEnd` are these for `CreatedIsAnnounced`, `EveryMatchIsAnswered`,
  `StartedIsScheduled`, `MatchedIsPending`, `ToldIsListed` and `NoticedSignalEnds`. What the runs add is that, with the fairness of section 4, the holder
  acts. `StartedIsInHand` needs that a handler only gives up after a fault; `MatchIsInHand`
  that the consumer is only busy while the message is (`AskerIsHandling`); `MarkedInv` that
  the messages before the one that names a player do not touch it.

Only model-checked: the liveness properties (`PairIsServed`, `ToldIsListed`,
`MatchedIsPending`, `CreatedIsAnnounced`, `EveryMatchIsAnswered`, `StartedIsScheduled`,
`AnnouncedToAll`, `NoticedSignalEnds`), which need fairness and ENABLED, out of the
prover's reach. Every safety property the passing runs check is proved. No module has a
RECURSIVE operator, and nothing here is proved by induction over data.

## 6. Where code and documentation disagree

Shown by a run (`findings` in `PROJECT.json`):

- `ready_four_early`: a game of four is started by two, because a READY that finds no
  roster creates one for two.

Read from the code while modelling, and reproduced by the models, but not given a run
of their own:

- `docs/business/02-business-flows.md:128` says that players stay in the waiting list
  when the producer fails; they are removed all the same
  (`match_app/service/service.go:152`).
- `02-business-flows.md:101` and `05-use-cases.md:121` say that a player who was told to have
  been added is in the list; one who asks again between the publication and the ZREM of a
  run is told so, and then removed, without any failure (`service.go:166`).
- `02-business-flows.md:213` says that everybody gets the final leader board; a player who
  has left keeps everybody ranked below from it, in every retry, because the write to a
  missing connection panics and those served before are missing themselves the next time
  (`game_app/service/game_completion.go:92`).
- `02-business-flows.md:150` says questions are saved in the game document by match id;
  when they come before the document they are not, and nothing saves them later
  (`game_app/repository/game.go:142`).
- `02-business-flows.md:172` says the game starts when all are ready; a READY that
  finds no roster is not recorded in the one it creates, so everybody can be ready and
  the game not start (`game.go:212-228`).
- `03-business-domain.md:225` says a player answers a question once; two connections
  give two answers (`game.go:377`).
- All matches of a message share one time-out of two seconds in the Question Service; a
  query that fails is published as an empty list, and the game starts with it.
- `websocket_handler.go:154`: a failed publication is answered with an error and then
  with a success.
- `docs/diagrams.md:163-166` draws the status of a player as a sequence; a late
  INITIALIZED can overwrite PENDING, and STARTED and FINISHED are never written
  (`game_lifecycle.go:8`). `MapToGameStatus` does not know INITIALIZED (`entity.go:64`).
- `docs/context/03-business-domain.md:231` says a match has two players; the code
  puts the largest even number of a category in one match.
- `docs/business/02-business-flows.md:151` says questions are cached under the game
  id; if they come before the game they never are.
- `02-business-flows.md:166` says deadlines are set before the questions are sent;
  questions that are cached between the two reads of the handler go out without.
- `02-business-flows.md:164` says READY increments the count; an overlapping READY
  can overwrite it.
- `game_test.go:83` calls the full-roster branch idempotent; its caller stamps,
  sends and enqueues again.
- `02-business-flows.md:147` says MATCH_CREATED goes to all connected players; the
  loop ends at the first one who is not connected.
- `02-business-flows.md:168` says the completion task is enqueued with the total time of
  the game; if the deadlines cannot be set it is enqueued with no delay, and the game is
  completed while it goes on (`websocket_handler.go:190-215`).
- `03-business-domain.md:226` says an early answer is rejected; before the game
  is started it is recorded without points.
- `02-business-flows.md:98` says an invalid category is answered with an error and
  not published; the handler goes on and publishes (`websocket_handler.go:128-150`).
- `02-business-flows.md:74` says expired tokens are refused; the expiry claim is a
  duration in nanoseconds, taken for seconds since 1970 (`auth_app/service/service.go:56`
  and `:84`), so tokens practically never expire.
- `docs/context/01-project-overview.md:48` promises a graceful shutdown on SIGINT and
  SIGTERM; one that comes after `Start` catches signals and before the task worker waits
  for them stops the servers of the Game Service and then hangs in `wg.Wait`
  (`adapter/task-queue/asynq.go:116`, `game_app/app.go:92`).
- `04-coding-guidelines.md:94` says `wg.Wait()` drains all goroutines; those of the Kafka
  consumers and of the websockets are not among them, and a message in hand is cut off.
- `GracefulStop` has no time-out, so a gRPC call that does not end takes the service to
  `os.Exit(1)` with its database open (`user_app/app.go:82`).
- A Game Service that cannot connect to MongoDB only logs it; closing the database that is
  not there then ends the process with a nil dereference (`cmd/game/main.go:46`).
- The leader board calls an answer in the last second before its deadline incorrect
  although it has points: it looks at `TimeDiff`, which is whole seconds
  (`game_app/repository/game.go:331` and `:444`); and it never fills in `QuestionId`.
- `GetGame` dereferences the questions of a document that never got any (`game.go:94`); the
  panic has the same effect as a crash.

## 7. Abstracted or not modelled

- Identifiers, contents of questions, message formats, logging and metrics; JSON and
  protobuf errors, which no message of the program itself causes.
- The order of players inside a message: the code notifies and serves them in the
  order of the match, the model in any order.
- Clock: one clock for all machines, moving in whole units, between any two steps.
- TTLs other than "a key may vanish"; the read loop's own time-outs.
- The leader board's sums are a constant of `Completion`; which answers are there by then
  is `Answers.standings`. The order in which an error goes round is left out.
- Hashing, signing, roles and display names of accounts; requests refused for their form.
- What a user is greeted with when connecting, which depends on the status; ids that are
  no numbers and commands that are none.
- Binding of HTTP and gRPC requests, contents of the configuration and the migrations,
  logging, and generated code: no state.
- The libraries: asynq, gocron, sarama and the servers are modelled by what the code relies
  on, and marked external in `PROJECT.json`.

## 8. Plan

What is left, in order of what matters most to the game:

1. `ReadyRoster` and `Answers` composed, so that `Quiz` also says who is asked and that
   nobody answers before everybody was; the starts are then those of READY.
2. `Greeting`: what a user is sent on connecting, which reads the status that `Joining`
   writes, on the connection the map of `Sessions` holds by then.
3. Lemmas on `Sessions` alone: which entry of the map is stale, and for how long.
4. In `Lifecycle`, the work as that of the other modules (a scheduled run that is waited
   for is one of `MatchMaking.run`), and the hanging shutdown of section 6 as a run.
