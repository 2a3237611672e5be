------------------------------- MODULE Lifecycle -------------------------------
(***************************************************************************)
(* One process of BrainBlitz, from main to its exit: the connections it    *)
(* makes, the goroutines it starts, the work they take in, and the         *)
(* shutdown that a signal begins.  The five services run the same          *)
(* Application.Start over different parts; which of them the process is    *)
(* is chosen at the start and never changes.                               *)
(*                                                                         *)
(* Time is counted from the signal, in ticks that stand for the moments at *)
(* which a time-out is over: what matters is only which one comes first.   *)
(***************************************************************************)
EXTENDS Naturals, FiniteSets

CONSTANTS
  ShutDownCtxTimeout,   \* of the HTTP server, in ticks
  TotalShutdownTimeout, \* of shutdownServers, in ticks
  MaxWork,              \* bound: requests, calls, tasks... in hand, per kind
  MaxSignals            \* bound: signals sent to the process

ASSUME LifecycleAssumption ==
  /\ ShutDownCtxTimeout \in Nat
  /\ TotalShutdownTimeout \in Nat
  /\ ShutDownCtxTimeout < TotalShutdownTimeout
  /\ MaxWork \in Nat \ {0}
  /\ MaxSignals \in Nat

(***************************************************************************)
(* The services.  parts: the goroutines of startServers, all of which      *)
(* wg.Wait waits for; topics: those the consumer starts one goroutine each *)
(* for, which nobody waits for; store: whether main closes a database when *)
(* Start returns.                                                          *)
(***************************************************************************)
AuthApp == [parts |-> {"http", "grpc"}, topics |-> {}, store |-> FALSE]
UserApp == [parts |-> {"http", "grpc"}, topics |-> {}, store |-> TRUE]
QuestionApp ==
  [parts |-> {"http", "consumer"}, topics |-> {"MATCH_USERS"}, store |-> TRUE]
MatchApp ==
  [parts |-> {"http", "scheduler", "consumer"}, topics |-> {"JOIN_QUEUE"},
   store |-> FALSE]
GameApp ==
  [parts |-> {"http", "consumer", "worker"},
   topics |-> {"MATCH_USERS", "QUESTIONS"}, store |-> TRUE]

Apps == [auth |-> AuthApp, user |-> UserApp, question |-> QuestionApp,
         match |-> MatchApp, game |-> GameApp]

Services == DOMAIN Apps
Parts == {"http", "grpc", "scheduler", "worker", "consumer"}
Servers == {"http", "grpc"}
Topics == {"MATCH_USERS", "QUESTIONS", "JOIN_QUEUE"}

(* A socket is a request whose connection was taken over by Upgrade. *)
Kinds == {"request", "socket", "call", "run", "task"}

RetryAttempts == 5

VARIABLES
  service,   \* which of the five services the process is
  pc,        \* where main is
  attempts,  \* failed attempts of the Kafka client that is being connected
  store,     \* the database: "none", "open" or "closed"
  part,      \* part[p]: the goroutine of startServers for p
  topic,     \* topic[t]: the goroutine of Consumer.Consume for t
  handling,  \* the topics with a message in hand
  work,      \* work[k]: what else the process has in hand
  stop,      \* stop[s]: the goroutine of shutdownServers for server s
  told,      \* the other parts that have been told to stop
  late,      \* whether the HTTP server was stopped by its time-out
  requeued,  \* whether the worker put the tasks in hand back
  signals,   \* signals received so far
  clock,     \* ticks since main began to shut down
  status     \* how the process ended

mainVars == <<attempts, store, clock, status>>
partVars == <<part, topic>>
workVars == <<handling, work>>
stopVars == <<stop, told, late, requeued>>
vars == <<service, pc, mainVars, partVars, workVars, stopVars, signals>>

App == Apps[service]

TypeOK ==
  /\ service \in Services
  /\ pc \in {"config", "boot", "migrate", "dial_auth", "dial_producer",
             "dial_consumer", "start", "serving", "stopping",
             "draining", "closing", "exited"}
  /\ attempts \in 0 .. RetryAttempts - 1
  /\ store \in {"none", "open", "closed"}
  /\ part \in [Parts -> {"off", "launched", "up", "stopping", "down"}]
  /\ topic \in [Topics -> {"off", "launched", "up", "down"}]
  /\ handling \subseteq Topics
  /\ work \in [Kinds -> 0 .. MaxWork]
  /\ stop \in [Servers -> {"off", "launched", "called", "returned"}]
  /\ told \subseteq {"scheduler", "worker"}
  /\ late \in BOOLEAN
  /\ requeued \in BOOLEAN
  /\ signals \in 0 .. MaxSignals
  /\ clock \in 0 .. TotalShutdownTimeout
  /\ status \in {"none", "graceful", "forced", "failed", "killed"}

Init ==
  /\ service \in Services
  /\ pc = "config"
  /\ attempts = 0
  /\ store = "none"
  /\ part = [p \in Parts |-> "off"]
  /\ topic = [t \in Topics |-> "off"]
  /\ handling = {}
  /\ work = [k \in Kinds |-> 0]
  /\ stop = [s \in Servers |-> "off"]
  /\ told = {}
  /\ late = FALSE
  /\ requeued = FALSE
  /\ signals = 0
  /\ clock = 0
  /\ status = "none"

Alive == pc # "exited"

Exit(how) ==
  /\ pc' = "exited"
  /\ status' = how

(* A panic runs the deferred Close of main on its way out. *)
CloseOnPanic == store' = IF store = "open" THEN "closed" ELSE store

-----------------------------------------------------------------------------
(* main and Setup *)

(* Every service dies without its configuration. *)
LoadConfig ==
  /\ pc = "config"
  /\ \/ /\ pc' = "boot"
        /\ UNCHANGED status
     \/ Exit("failed")
  /\ UNCHANGED <<service, attempts, store, clock, partVars, workVars, stopVars, signals>>

(* What is still to be connected once the database is. *)
AfterStore ==
  CASE service = "user" -> "dial_auth"
    [] App.topics # {} -> "dial_producer"
    [] OTHER -> "start"

(***************************************************************************)
(* The User and the Question Service connect to PostgreSQL and migrate it, *)
(* and die when they cannot, before main has deferred its Close.           *)
(***************************************************************************)
ConnectPostgres ==
  /\ pc = "boot"
  /\ service \in {"user", "question"}
  /\ \/ /\ store' = "open"
        /\ pc' = "migrate"
        /\ UNCHANGED status
     \/ /\ Exit("failed")
        /\ UNCHANGED store
  /\ UNCHANGED <<service, attempts, clock, partVars, workVars, stopVars, signals>>

Migrate ==
  /\ pc = "migrate"
  /\ \/ /\ pc' = AfterStore
        /\ UNCHANGED status
     \/ Exit("failed")
  /\ UNCHANGED <<service, attempts, store, clock, partVars, workVars, stopVars, signals>>

(* The Game Service goes on without a database when it cannot connect. *)
ConnectMongo ==
  /\ pc = "boot"
  /\ service = "game"
  /\ store' \in {"open", "none"}
  /\ pc' = AfterStore
  /\ UNCHANGED <<service, attempts, clock, status, partVars, workVars, stopVars, signals>>

(* The Auth and the Match Service have none. *)
NoStore ==
  /\ pc = "boot"
  /\ service \in {"auth", "match"}
  /\ pc' = AfterStore
  /\ UNCHANGED <<service, mainVars, partVars, workVars, stopVars, signals>>

(***************************************************************************)
(* The client of the Auth Service connects in the background; that it      *)
(* cannot be made at all ends the User Service without the deferred Close. *)
(***************************************************************************)
NewClient ==
  /\ pc = "dial_auth"
  /\ \/ /\ pc' = "start"
        /\ UNCHANGED status
     \/ Exit("failed")
  /\ UNCHANGED <<service, attempts, store, clock, partVars, workVars, stopVars, signals>>

(***************************************************************************)
(* NewKafkaBroker: first the producer, then the consumer, each with its    *)
(* own attempts.  Setup panics when they are used up, and a panic of the   *)
(* Game Service without a database panics again in the deferred Close.     *)
(***************************************************************************)
Exhausted_OneMore == attempts + 1 > RetryAttempts
Exhausted == attempts + 1 >= RetryAttempts

NewKafkaBroker ==
  /\ pc \in {"dial_producer", "dial_consumer"}
  /\ \/ /\ pc' = IF pc = "dial_producer" THEN "dial_consumer" ELSE "start"
        /\ attempts' = 0
        /\ UNCHANGED <<store, status>>
     \/ /\ ~Exhausted
        /\ attempts' = attempts + 1
        /\ UNCHANGED <<pc, store, status>>
     \/ /\ Exhausted
        /\ Exit("failed")
        /\ CloseOnPanic
        /\ UNCHANGED attempts
  /\ UNCHANGED <<service, clock, partVars, workVars, stopVars, signals>>

(* Start: signals are caught from here on, and every part has a goroutine. *)
Start ==
  /\ pc = "start"
  /\ pc' = "serving"
  /\ part' = [p \in Parts |-> IF p \in App.parts THEN "launched" ELSE "off"]
  /\ UNCHANGED <<service, mainVars, topic, workVars, stopVars, signals>>

-----------------------------------------------------------------------------
(* The goroutines of startServers and of the consumer *)

Turn(p, s) == part' = [part EXCEPT ![p] = s]

(***************************************************************************)
(* Serve: a server that has been stopped returns at once, and one that     *)
(* cannot listen returns with an error that is only logged.                *)
(***************************************************************************)
Serve(s) ==
  /\ Alive
  /\ part[s] = "launched"
  /\ \/ /\ stop[s] \in {"off", "launched"}
        /\ Turn(s, "up")
     \/ Turn(s, "down")
  /\ UNCHANGED <<service, pc, mainVars, topic, workVars, stopVars, signals>>

(* The scheduler and the worker start in the background and wait to be told. *)
StartAsync(p) ==
  /\ Alive
  /\ p \in {"scheduler", "worker"}
  /\ part[p] = "launched"
  /\ Turn(p, "up")
  /\ UNCHANGED <<service, pc, mainVars, topic, workVars, stopVars, signals>>

(***************************************************************************)
(* Consume starts a goroutine for each topic and returns: the WaitGroup it *)
(* makes is never waited for.                                              *)
(***************************************************************************)
Consume ==
  /\ Alive
  /\ part["consumer"] = "launched"
  /\ Turn("consumer", "down")
  /\ topic' = [t \in Topics |-> IF t \in App.topics THEN "launched" ELSE "off"]
  /\ UNCHANGED <<service, pc, mainVars, workVars, stopVars, signals>>

(* A partition that cannot be consumed ends the goroutine of its topic. *)
ConsumePartition(t) ==
  /\ Alive
  /\ topic[t] = "launched"
  /\ \E s \in {"up", "down"} : topic' = [topic EXCEPT ![t] = s]
  /\ UNCHANGED <<service, pc, mainVars, part, workVars, stopVars, signals>>

(* The handler of a topic has one message at a time, and no time limit. *)
TakeMessage(t) ==
  /\ Alive
  /\ topic[t] = "up"
  /\ t \notin handling
  /\ handling' = handling \cup {t}
  /\ UNCHANGED <<service, pc, mainVars, partVars, work, stopVars, signals>>

FinishMessage(t) ==
  /\ Alive
  /\ t \in handling
  /\ handling' = handling \ {t}
  /\ UNCHANGED <<service, pc, mainVars, partVars, work, stopVars, signals>>

(* The part that takes in work of kind k. *)
PartOf == [request |-> "http", call |-> "grpc", run |-> "scheduler", task |-> "worker"]

Begin(k) ==
  /\ Alive
  /\ part[PartOf[k]] = "up"
  /\ PartOf[k] \in Servers => stop[PartOf[k]] \in {"off", "launched"}
  /\ work[k] < MaxWork
  /\ work' = [work EXCEPT ![k] = @ + 1]
  /\ UNCHANGED <<service, pc, mainVars, partVars, handling, stopVars, signals>>

End(k) ==
  /\ Alive
  /\ work[k] > 0
  /\ work' = [work EXCEPT ![k] = @ - 1]
  /\ UNCHANGED <<service, pc, mainVars, partVars, handling, stopVars, signals>>

(* ProcessGame takes the connection from the HTTP server, which forgets it. *)
Upgrade ==
  /\ Alive
  /\ service = "game"
  /\ work["request"] > 0
  /\ work["socket"] < MaxWork
  /\ work' = [work EXCEPT !["request"] = @ - 1, !["socket"] = @ + 1]
  /\ UNCHANGED <<service, pc, mainVars, partVars, handling, stopVars, signals>>

-----------------------------------------------------------------------------
(* Signals and shutdown *)

(***************************************************************************)
(* NotifyContext catches signals for as long as Start runs; the worker     *)
(* catches them from when it waits for one, and never stops to.            *)
(***************************************************************************)
Caught ==
  \/ pc \in {"serving", "stopping", "draining"}
  \/ part["worker"] \in {"up", "stopping", "down"}

(***************************************************************************)
(* SIGTERM or SIGINT.  Nobody stops the worker but the signal itself: one  *)
(* that comes before the worker waits for signals passes it by.            *)
(***************************************************************************)
Signal ==
  /\ Alive
  /\ signals < MaxSignals
  /\ signals' = signals + 1
  /\ \/ /\ Caught
        /\ told' = told \cup {p \in {"worker"} : part[p] = "up"}
        /\ UNCHANGED <<pc, status>>
     \/ /\ ~Caught
        /\ Exit("killed")
        /\ UNCHANGED told
  /\ UNCHANGED <<service, attempts, store, clock, partVars, workVars,
                 stop, late, requeued>>

(***************************************************************************)
(* Start goes on, and shutdownServers starts a goroutine for each server,  *)
(* and one that tells the scheduler.                                       *)
(***************************************************************************)
ToldToStop_Nobody == {}
ToldToStop == App.parts \cap {"scheduler"}

BeginShutdown ==
  /\ pc = "serving"
  /\ signals > 0
  /\ pc' = "stopping"
  /\ stop' = [s \in Servers |-> IF s \in App.parts THEN "launched" ELSE "off"]
  /\ told' = told \cup ToldToStop
  /\ UNCHANGED <<service, mainVars, partVars, workVars, late, requeued, signals>>

(***************************************************************************)
(* Shutdown and GracefulStop stop to listen.  The HTTP server's Serve      *)
(* returns without waiting for what it still serves, the gRPC server's     *)
(* only when all calls are over.                                           *)
(***************************************************************************)
CallStop(s) ==
  /\ Alive
  /\ stop[s] = "launched"
  /\ stop' = [stop EXCEPT ![s] = "called"]
  /\ UNCHANGED <<service, pc, mainVars, partVars, workVars, told, late, requeued, signals>>

ServeReturns(s) ==
  /\ Alive
  /\ part[s] = "up"
  /\ \/ /\ s = "http"
        /\ stop[s] \in {"called", "returned"}
     \/ /\ s = "grpc"
        /\ stop[s] = "returned"
  /\ Turn(s, "down")
  /\ UNCHANGED <<service, pc, mainVars, topic, workVars, stopVars, signals>>

(* A time-out of Shutdown is logged and counts as stopped all the same. *)
HTTPTimedOut_Total == clock >= TotalShutdownTimeout
HTTPTimedOut == clock >= ShutDownCtxTimeout

StopHTTPReturns ==
  /\ Alive
  /\ stop["http"] = "called"
  /\ \/ /\ work["request"] = 0
        /\ UNCHANGED late
     \/ /\ HTTPTimedOut
        /\ late' = TRUE
  /\ stop' = [stop EXCEPT !["http"] = "returned"]
  /\ UNCHANGED <<service, pc, mainVars, partVars, workVars, told, requeued, signals>>

(* GracefulStop has no time-out of its own. *)
StopGRPCReturns ==
  /\ Alive
  /\ stop["grpc"] = "called"
  /\ work["call"] = 0
  /\ stop' = [stop EXCEPT !["grpc"] = "returned"]
  /\ UNCHANGED <<service, pc, mainVars, partVars, workVars, told, late, requeued, signals>>

(* The scheduler receives from its channel, the worker its signal. *)
Hear(p) ==
  /\ Alive
  /\ p \in told
  /\ part[p] = "up"
  /\ Turn(p, "stopping")
  /\ UNCHANGED <<service, pc, mainVars, topic, workVars, stopVars, signals>>

(* Stop of the scheduler waits for the run in hand. *)
SchedulerStops ==
  /\ Alive
  /\ part["scheduler"] = "stopping"
  /\ work["run"] = 0
  /\ Turn("scheduler", "down")
  /\ UNCHANGED <<service, pc, mainVars, topic, workVars, stopVars, signals>>

(* The worker waits for its tasks for a while, and puts the rest back. *)
WorkerStops ==
  /\ Alive
  /\ part["worker"] = "stopping"
  /\ requeued' = (work["task"] > 0)
  /\ Turn("worker", "down")
  /\ UNCHANGED <<service, pc, mainVars, topic, workVars, stop, told, late, signals>>

(* shutdownServers returns true, ... *)
ServersStopped ==
  /\ pc = "stopping"
  /\ \A s \in Servers : stop[s] \in {"off", "returned"}
  /\ pc' = "draining"
  /\ UNCHANGED <<service, mainVars, partVars, workVars, stopVars, signals>>

(* ... or false, and os.Exit skips every deferred call. *)
TimedOut ==
  /\ pc = "stopping"
  /\ clock = TotalShutdownTimeout
  /\ Exit("forced")
  /\ UNCHANGED <<service, attempts, store, clock, partVars, workVars, stopVars, signals>>

(* wg.Wait has no time limit; every part has called wg.Add. *)
WaitedFor_Servers == App.parts \cap Servers
WaitedFor == App.parts

WaitReturns ==
  /\ pc = "draining"
  /\ \A p \in WaitedFor : part[p] = "down"
  /\ pc' = "closing"
  /\ UNCHANGED <<service, mainVars, partVars, workVars, stopVars, signals>>

(* The deferred Close; there is nothing to close where Mongo was not connected. *)
CloseStore ==
  /\ pc = "closing"
  /\ CloseOnPanic
  /\ Exit(IF App.store /\ store = "none" THEN "failed" ELSE "graceful")
  /\ UNCHANGED <<service, attempts, clock, partVars, workVars, stopVars, signals>>

(***************************************************************************)
(* A time-out is over.  Goroutines are prompt: before the next tick those  *)
(* of shutdownServers have called Stop, the one whose time-out is over has *)
(* returned, and main has noticed when all have.                           *)
(***************************************************************************)
Prompt ==
  /\ \A s \in Servers : stop[s] # "launched"
  /\ stop["http"] = "called" => ~HTTPTimedOut
  /\ \E s \in Servers : stop[s] = "called"

Tick ==
  /\ pc = "stopping"
  /\ clock < TotalShutdownTimeout
  /\ Prompt
  /\ clock' = clock + 1
  /\ UNCHANGED <<service, pc, attempts, store, status, partVars, workVars, stopVars, signals>>

-----------------------------------------------------------------------------

Boot ==
  \/ LoadConfig
  \/ ConnectPostgres
  \/ Migrate
  \/ ConnectMongo
  \/ NoStore
  \/ NewClient
  \/ NewKafkaBroker
  \/ Start

RunParts ==
  \/ \E s \in Servers : Serve(s) \/ ServeReturns(s)
  \/ \E p \in Parts : StartAsync(p) \/ Hear(p)
  \/ Consume
  \/ SchedulerStops
  \/ WorkerStops

Work ==
  \/ \E k \in DOMAIN PartOf : Begin(k)
  \/ \E k \in Kinds : End(k)
  \/ Upgrade
  \/ \E t \in Topics : ConsumePartition(t) \/ TakeMessage(t) \/ FinishMessage(t)

ShutDown ==
  \/ BeginShutdown
  \/ \E s \in Servers : CallStop(s)
  \/ StopHTTPReturns
  \/ StopGRPCReturns
  \/ ServersStopped
  \/ TimedOut
  \/ WaitReturns
  \/ CloseStore
  \/ Tick

Next == Boot \/ RunParts \/ Work \/ Signal \/ ShutDown

Spec == Init /\ [][Next]_vars

(***************************************************************************)
(* Goroutines that can go on do, time passes, and a scheduled run ends: it *)
(* has a time-out.  Nothing is assumed of requests, calls, tasks, sockets  *)
(* and messages, nor that a signal ever comes.                             *)
(***************************************************************************)
Fairness ==
  /\ WF_vars(Boot)
  /\ WF_vars(BeginShutdown) /\ WF_vars(ServersStopped) /\ WF_vars(TimedOut)
  /\ WF_vars(WaitReturns) /\ WF_vars(CloseStore) /\ WF_vars(Tick)
  /\ WF_vars(StopHTTPReturns) /\ WF_vars(StopGRPCReturns)
  /\ WF_vars(Consume) /\ WF_vars(SchedulerStops) /\ WF_vars(WorkerStops)
  /\ \A s \in Servers : WF_vars(CallStop(s)) /\ WF_vars(Serve(s)) /\ WF_vars(ServeReturns(s))
  /\ \A p \in Parts : WF_vars(StartAsync(p)) /\ WF_vars(Hear(p))
  /\ WF_vars(End("run"))

FairSpec == Spec /\ Fairness

-----------------------------------------------------------------------------
(* Properties *)

(***************************************************************************)
(* What a process that ends on its own terms leaves undone.  When it ends  *)
(* gracefully, closes its database, or is killed by a signal after its     *)
(* shutdown, no gRPC call and no scheduled run is in hand, a request only  *)
(* if the HTTP server's time-out was over, and a task only if it is back   *)
(* in the queue.  Websockets and Kafka messages are missing from the list: *)
(* nobody waits for them.  About app.go Start: shutdownServers, wg.Wait,   *)
(* and the deferred stop and Close, in that order.                         *)
(***************************************************************************)
DrainedBeforeEnd ==
  (status \in {"graceful", "killed"} \/ store = "closed") =>
    /\ work["call"] = 0
    /\ work["run"] = 0
    /\ work["request"] > 0 => late
    /\ work["task"] > 0 => requeued

(***************************************************************************)
(* Only a service with a gRPC server can run into the total time-out: the  *)
(* HTTP server's own is shorter, the scheduler and the worker are waited   *)
(* for after shutdownServers.  About shutdownServers and os.Exit(1), which *)
(* leaves the database open.                                               *)
(***************************************************************************)
ForcedOnlyByCalls ==
  status = "forced" => "grpc" \in App.parts /\ (App.store => store = "open")

(* The goroutine of p is over, or will be without anybody doing more to it. *)
CanEnd(p) ==
  \/ part[p] = "down"
  \/ p \in Servers /\ stop[p] = "returned" /\ part[p] \in {"launched", "up"}
  \/ p \in told /\ part[p] \in {"launched", "up", "stopping"}
  \/ p = "consumer" /\ part[p] = "launched"

(***************************************************************************)
(* main never waits for a part that nobody stops: when it has begun to wait*)
(* for the goroutines, and the signal has reached the worker, each of them *)
(* is over or can end by itself - it has still to run at all, its Stop has *)
(* returned, or it has been told to stop.  About the order of              *)
(* shutdownServers and wg.Wait, and how each part hears of the shutdown.   *)
(***************************************************************************)
WaitsForWhatCanEnd ==
  pc = "draining" /\ ("worker" \in App.parts => "worker" \in told) =>
    \A p \in WaitedFor : CanEnd(p)

(***************************************************************************)
(* Once the process has received a signal that its worker, if it has one,  *)
(* has seen too, it exits, whatever requests, calls, tasks, sockets and    *)
(* messages do.  About Start: every wait on the way has a bound or ends.   *)
(* A signal that comes before the worker waits for one is caught by Start  *)
(* alone; wg.Wait then waits for the worker for ever.                      *)
(***************************************************************************)
NoticedSignalEnds ==
  (signals > 0 /\ ("worker" \in App.parts => "worker" \in told)) ~> ~Alive
=============================================================================
