--------------------------- MODULE LifecycleProofs ---------------------------
(***************************************************************************)
(* Theorems about Lifecycle, for any time-outs of which the HTTP server's  *)
(* is the shorter one, any amount of work in hand and any number of        *)
(* signals.                                                                *)
(***************************************************************************)
EXTENDS Lifecycle, TLAPS

(* What the services are made of. *)
LEMMA AppFacts ==
  ASSUME service \in Services
  PROVE  /\ App.parts \subseteq Parts
         /\ App.topics \subseteq Topics
         /\ "http" \in App.parts
         /\ "grpc" \in App.parts <=> service \in {"auth", "user"}
         /\ App.store <=> service \in {"user", "question", "game"}
<1>1. service \in {"auth", "user", "question", "match", "game"}
  BY DEF Services, Apps
<1>2. CASE service = "auth"
  BY <1>2 DEF App, Apps, AuthApp, Parts, Topics
<1>3. CASE service = "user"
  BY <1>3 DEF App, Apps, UserApp, Parts, Topics
<1>4. CASE service = "question"
  BY <1>4 DEF App, Apps, QuestionApp, Parts, Topics
<1>5. CASE service = "match"
  BY <1>5 DEF App, Apps, MatchApp, Parts, Topics
<1>6. CASE service = "game"
  BY <1>6 DEF App, Apps, GameApp, Parts, Topics
<1> QED BY <1>1, <1>2, <1>3, <1>4, <1>5, <1>6

LEMMA AfterStoreType == AfterStore \in {"dial_auth", "dial_producer", "start"}
BY DEF AfterStore

(* The process never becomes another service. *)
LEMMA SameService == [Next]_vars => UNCHANGED service
BY DEF Next, Boot, RunParts, Work, ShutDown, LoadConfig, ConnectPostgres, Migrate,
       ConnectMongo, NoStore, NewClient, NewKafkaBroker, Start, Serve, ServeReturns,
       StartAsync, Hear, Consume, SchedulerStops, WorkerStops, Begin, End, Upgrade,
       ConsumePartition, TakeMessage, FinishMessage, BeginShutdown, CallStop,
       StopHTTPReturns, StopGRPCReturns, ServersStopped, TimedOut, WaitReturns,
       CloseStore, Tick, Signal, vars

-----------------------------------------------------------------------------
(* Type correctness. *)

LEMMA TypeInit == Init => TypeOK
<1> SUFFICES ASSUME Init PROVE TypeOK
  OBVIOUS
<1>1. /\ 0 \in 0 .. RetryAttempts - 1
      /\ 0 \in 0 .. MaxWork /\ 0 \in 0 .. MaxSignals /\ 0 \in 0 .. TotalShutdownTimeout
  BY LifecycleAssumption DEF RetryAttempts
<1>2. /\ part \in [Parts -> {"off", "launched", "up", "stopping", "down"}]
      /\ topic \in [Topics -> {"off", "launched", "up", "down"}]
      /\ work \in [Kinds -> 0 .. MaxWork]
      /\ stop \in [Servers -> {"off", "launched", "called", "returned"}]
  BY <1>1 DEF Init
<1> QED BY <1>1, <1>2 DEF Init, TypeOK

LEMMA TypeBoot == TypeOK /\ Boot => TypeOK'
<1> SUFFICES ASSUME TypeOK, Boot PROVE TypeOK'
  OBVIOUS
<1> USE DEF TypeOK, mainVars, partVars, workVars, stopVars, Exit
<1>1. CASE LoadConfig
  BY <1>1 DEF LoadConfig
<1>2. CASE ConnectPostgres
  BY <1>2 DEF ConnectPostgres
<1>3. CASE Migrate
  BY <1>3, AfterStoreType DEF Migrate
<1>4. CASE ConnectMongo
  BY <1>4, AfterStoreType DEF ConnectMongo
<1>5. CASE NoStore
  BY <1>5, AfterStoreType DEF NoStore
<1>6. CASE NewClient
  BY <1>6 DEF NewClient
<1>7. CASE NewKafkaBroker
  <2>1. attempts' \in 0 .. RetryAttempts - 1
    BY <1>7 DEF NewKafkaBroker, Exhausted, RetryAttempts
  <2>2. /\ pc' \in {"dial_producer", "dial_consumer", "start", "exited"}
        /\ store' \in {"none", "open", "closed"}
        /\ status' \in {"none", "graceful", "forced", "failed", "killed"}
    BY <1>7 DEF NewKafkaBroker, CloseOnPanic
  <2> QED BY <1>7, <2>1, <2>2 DEF NewKafkaBroker
<1>8. CASE Start
  BY <1>8 DEF Start, Parts
<1> QED BY <1>1, <1>2, <1>3, <1>4, <1>5, <1>6, <1>7, <1>8 DEF Boot

LEMMA TypeParts == TypeOK /\ RunParts => TypeOK'
<1> SUFFICES ASSUME TypeOK, RunParts PROVE TypeOK'
  OBVIOUS
<1> USE DEF TypeOK, mainVars, partVars, workVars, stopVars
<1>1. ASSUME NEW s \in Servers, Serve(s) \/ ServeReturns(s) PROVE TypeOK'
  <2>1. part' \in [Parts -> {"off", "launched", "up", "stopping", "down"}]
    BY <1>1 DEF Serve, ServeReturns, Turn
  <2> QED BY <1>1, <2>1 DEF Serve, ServeReturns
<1>2. ASSUME NEW p \in Parts, StartAsync(p) \/ Hear(p) PROVE TypeOK'
  <2>1. part' \in [Parts -> {"off", "launched", "up", "stopping", "down"}]
    BY <1>2 DEF StartAsync, Hear, Turn
  <2> QED BY <1>2, <2>1 DEF StartAsync, Hear
<1>3. CASE Consume
  <2>1. part' \in [Parts -> {"off", "launched", "up", "stopping", "down"}]
    BY <1>3 DEF Consume, Turn
  <2>2. topic' \in [Topics -> {"off", "launched", "up", "down"}]
    BY <1>3 DEF Consume
  <2> QED BY <1>3, <2>1, <2>2 DEF Consume
<1>4. CASE SchedulerStops
  <2>1. part' \in [Parts -> {"off", "launched", "up", "stopping", "down"}]
    BY <1>4 DEF SchedulerStops, Turn
  <2> QED BY <1>4, <2>1 DEF SchedulerStops
<1>5. CASE WorkerStops
  <2>1. part' \in [Parts -> {"off", "launched", "up", "stopping", "down"}]
    BY <1>5 DEF WorkerStops, Turn
  <2> QED BY <1>5, <2>1 DEF WorkerStops
<1> QED BY <1>1, <1>2, <1>3, <1>4, <1>5 DEF RunParts

LEMMA TypeWork == TypeOK /\ Work => TypeOK'
<1> SUFFICES ASSUME TypeOK, Work PROVE TypeOK'
  OBVIOUS
<1> USE DEF TypeOK, mainVars, partVars, workVars, stopVars
<1>w. work \in [Kinds -> 0 .. MaxWork] /\ MaxWork \in Nat \ {0}
  BY LifecycleAssumption
<1>1. ASSUME NEW k \in DOMAIN PartOf, Begin(k) PROVE TypeOK'
  <2>1. k \in Kinds
    BY DEF PartOf, Kinds
  <2>2. work' \in [Kinds -> 0 .. MaxWork]
    BY <1>1, <1>w, <2>1 DEF Begin
  <2> QED BY <1>1, <2>2 DEF Begin
<1>2. ASSUME NEW k \in Kinds, End(k) PROVE TypeOK'
  <2>1. work' \in [Kinds -> 0 .. MaxWork]
    BY <1>2, <1>w DEF End
  <2> QED BY <1>2, <2>1 DEF End
<1>3. CASE Upgrade
  <2>1. work' \in [Kinds -> 0 .. MaxWork]
    BY <1>3, <1>w DEF Upgrade, Kinds
  <2> QED BY <1>3, <2>1 DEF Upgrade
<1>4. ASSUME NEW t \in Topics, ConsumePartition(t) \/ TakeMessage(t) \/ FinishMessage(t)
      PROVE  TypeOK'
  <2>1. CASE ConsumePartition(t)
    <3>1. topic' \in [Topics -> {"off", "launched", "up", "down"}]
      BY <2>1 DEF ConsumePartition
    <3> QED BY <2>1, <3>1 DEF ConsumePartition
  <2>2. CASE TakeMessage(t)
    <3>1. handling' \subseteq Topics
      BY <1>4, <2>2 DEF TakeMessage
    <3> QED BY <2>2, <3>1 DEF TakeMessage
  <2>3. CASE FinishMessage(t)
    <3>1. handling' \subseteq Topics
      BY <1>4, <2>3 DEF FinishMessage
    <3> QED BY <2>3, <3>1 DEF FinishMessage
  <2> QED BY <1>4, <2>1, <2>2, <2>3
<1> QED BY <1>1, <1>2, <1>3, <1>4 DEF Work

LEMMA TypeSignal == TypeOK /\ Signal => TypeOK'
<1> SUFFICES ASSUME TypeOK, Signal PROVE TypeOK'
  OBVIOUS
<1>1. signals' \in 0 .. MaxSignals
  BY LifecycleAssumption DEF TypeOK, Signal
<1> QED BY <1>1 DEF TypeOK, Signal, Exit, partVars, workVars

LEMMA TypeShutDown == TypeOK /\ ShutDown => TypeOK'
<1> SUFFICES ASSUME TypeOK, ShutDown PROVE TypeOK'
  OBVIOUS
<1> USE DEF TypeOK, mainVars, partVars, workVars, stopVars, Exit
<1>1. CASE BeginShutdown
  BY <1>1 DEF BeginShutdown, ToldToStop
<1>2. ASSUME NEW s \in Servers, CallStop(s) PROVE TypeOK'
  BY <1>2 DEF CallStop
<1>3. CASE StopHTTPReturns
  BY <1>3 DEF StopHTTPReturns, Servers
<1>4. CASE StopGRPCReturns
  BY <1>4 DEF StopGRPCReturns, Servers
<1>5. CASE ServersStopped
  BY <1>5 DEF ServersStopped
<1>6. CASE TimedOut
  BY <1>6 DEF TimedOut
<1>7. CASE WaitReturns
  BY <1>7 DEF WaitReturns
<1>8. CASE CloseStore
  BY <1>8 DEF CloseStore, CloseOnPanic
<1>9. CASE Tick
  <2>1. clock' \in 0 .. TotalShutdownTimeout
    BY <1>9, LifecycleAssumption DEF Tick
  <2> QED BY <1>9, <2>1 DEF Tick
<1> QED BY <1>1, <1>2, <1>3, <1>4, <1>5, <1>6, <1>7, <1>8, <1>9 DEF ShutDown

LEMMA TypeNext == TypeOK /\ [Next]_vars => TypeOK'
<1>1. CASE UNCHANGED vars
  BY <1>1 DEF vars, mainVars, partVars, workVars, stopVars, TypeOK
<1> QED BY <1>1, TypeBoot, TypeParts, TypeWork, TypeSignal, TypeShutDown DEF Next

(* Every reachable state of a process is of the declared types. *)
THEOREM TypeCorrect == Spec => []TypeOK
BY TypeInit, TypeNext, PTL DEF Spec

-----------------------------------------------------------------------------
(***************************************************************************)
(* What holds of a process at all times.                                   *)
(*   - before Start nothing runs, and no part runs that is not one of the  *)
(*     service's;                                                          *)
(*   - work in hand has its part: a call keeps the gRPC server from being  *)
(*     stopped, a run the scheduler, a task the worker unless it was put   *)
(*     back, and a request outlives the HTTP server only by its time-out;  *)
(*   - the stages of the shutdown come in order;                           *)
(*   - the clock passes the HTTP server's time-out only for a gRPC server; *)
(*   - the User Service has its database, once it has connected to it.     *)
(***************************************************************************)
Early ==
  {"config", "boot", "migrate", "dial_auth", "dial_producer", "dial_consumer", "start"}

NothingYet ==
  pc \in Early => /\ part = [p \in Parts |-> "off"]
                  /\ work = [k \in Kinds |-> 0]
                  /\ stop = [s \in Servers |-> "off"]

OwnParts ==
  /\ \A p \in Parts \ App.parts : part[p] = "off"
  /\ \A s \in Servers \ App.parts : stop[s] = "off"

WorkHasItsPart ==
  /\ work["call"] > 0 => part["grpc"] = "up" /\ stop["grpc"] # "returned"
  /\ work["run"] > 0 => part["scheduler"] \in {"up", "stopping"}
  /\ work["request"] > 0 /\ stop["http"] = "returned" => late
  /\ work["task"] > 0 => part["worker"] \in {"up", "stopping"} \/ requeued

ShutDownInOrder ==
  /\ pc = "stopping" => stop["http"] # "off"
  /\ pc \in {"draining", "closing"} => stop["http"] = "returned"
  /\ pc = "closing" => \A p \in App.parts : part[p] = "down"
  /\ status # "none" \/ store = "closed" => pc = "exited"

LateTicks == clock > ShutDownCtxTimeout => "grpc" \in App.parts

UserStore ==
  service = "user" /\ pc \notin {"config", "boot", "exited"} => store = "open"

LifeInv ==
  /\ TypeOK
  /\ NothingYet
  /\ OwnParts
  /\ WorkHasItsPart
  /\ ShutDownInOrder
  /\ LateTicks
  /\ UserStore

LEMMA LifeInvInit == Init => LifeInv
<1> SUFFICES ASSUME Init PROVE LifeInv
  OBVIOUS
<1>1. TypeOK
  BY TypeInit
<1>2. /\ part = [p \in Parts |-> "off"] /\ work = [k \in Kinds |-> 0]
      /\ stop = [s \in Servers |-> "off"]
      /\ pc = "config" /\ clock = 0 /\ status = "none" /\ store = "none"
  BY DEF Init
<1>3. NothingYet /\ OwnParts /\ ShutDownInOrder /\ UserStore
  BY <1>2 DEF NothingYet, OwnParts, ShutDownInOrder, UserStore
<1>4. WorkHasItsPart
  BY <1>2 DEF WorkHasItsPart, Kinds
<1>5. LateTicks
  BY <1>2, LifecycleAssumption DEF LateTicks
<1> QED BY <1>1, <1>3, <1>4, <1>5 DEF LifeInv

(* Booting touches nothing that runs, but for Start. *)
LEMMA BootLeaves ==
  ASSUME TypeOK, Boot
  PROVE  /\ pc \in Early
         /\ UNCHANGED <<work, stop, clock, late, requeued, signals>>
         /\ UNCHANGED part \/ Start
         /\ pc' \in Early \cup {"exited"} \/ Start
<1> USE DEF Early, mainVars, partVars, workVars, stopVars, Exit
<1>1. CASE LoadConfig
  BY <1>1 DEF LoadConfig
<1>2. CASE ConnectPostgres
  BY <1>2 DEF ConnectPostgres
<1>3. CASE Migrate
  BY <1>3, AfterStoreType DEF Migrate
<1>4. CASE ConnectMongo
  BY <1>4, AfterStoreType DEF ConnectMongo
<1>5. CASE NoStore
  BY <1>5, AfterStoreType DEF NoStore
<1>6. CASE NewClient
  BY <1>6 DEF NewClient
<1>7. CASE NewKafkaBroker
  BY <1>7 DEF NewKafkaBroker
<1>8. CASE Start
  BY <1>8 DEF Start
<1> QED BY <1>1, <1>2, <1>3, <1>4, <1>5, <1>6, <1>7, <1>8 DEF Boot

(* Neither do the goroutines and the work touch the process itself. *)
LEMMA RunningLeaves ==
  ASSUME RunParts \/ Work
  PROVE  /\ UNCHANGED <<pc, store, clock, status, stop, late, told>>
         /\ pc # "exited"
BY DEF RunParts, Work, Serve, ServeReturns, StartAsync, Hear, Consume, SchedulerStops,
       WorkerStops, Begin, End, Upgrade, ConsumePartition, TakeMessage, FinishMessage,
       mainVars, stopVars, Alive

(* Signals and the shutdown change neither what runs nor what is in hand. *)
LEMMA ShutDownLeaves ==
  ASSUME Signal \/ ShutDown
  PROVE  UNCHANGED <<part, work, requeued>>
BY DEF ShutDown, Signal, BeginShutdown, CallStop, StopHTTPReturns, StopGRPCReturns,
       ServersStopped, TimedOut, WaitReturns, CloseStore, Tick, partVars, workVars, stopVars

LEMMA NothingYetNext == TypeOK /\ NothingYet /\ [Next]_vars => NothingYet'
<1> SUFFICES ASSUME TypeOK, NothingYet, [Next]_vars, pc' \in Early
             PROVE  /\ pc \in Early
                    /\ UNCHANGED <<part, work, stop>>
  BY DEF NothingYet
<1>e. pc \in Early => /\ \A p \in Parts : part[p] = "off"
                      /\ \A k \in Kinds : work[k] = 0
                      /\ \A s \in Servers : stop[s] = "off"
  BY DEF NothingYet
<1>1. CASE Boot
  <2>1. ~Start
    BY DEF Start, Early
  <2> QED BY <1>1, <2>1, BootLeaves
<1>2. CASE RunParts
  <2>1. pc \in Early
    BY <1>2, RunningLeaves
  <2> QED BY <1>2, <1>e, <2>1
    DEF RunParts, Serve, ServeReturns, StartAsync, Hear, Consume, SchedulerStops,
        WorkerStops, Parts, Servers
<1>3. CASE Work
  <2>1. pc \in Early /\ UNCHANGED stop
    BY <1>3, RunningLeaves
  <2>2. ASSUME NEW k \in DOMAIN PartOf PROVE ~Begin(k)
    <3>1. PartOf[k] \in Parts
      BY DEF PartOf, Parts
    <3> QED BY <1>e, <2>1, <3>1 DEF Begin
  <2>3. ASSUME NEW k \in Kinds PROVE ~End(k)
    BY <1>e, <2>1 DEF End
  <2>4. ~Upgrade
    BY <1>e, <2>1 DEF Upgrade, Kinds
  <2>5. \E t \in Topics : ConsumePartition(t) \/ TakeMessage(t) \/ FinishMessage(t)
    BY <1>3, <2>2, <2>3, <2>4 DEF Work
  <2> QED BY <2>1, <2>5 DEF ConsumePartition, TakeMessage, FinishMessage, workVars, partVars
<1>4. CASE Signal
  BY <1>4, ShutDownLeaves DEF Signal, Exit, Early
<1>5. CASE ShutDown
  <2>1. pc \in Early
    BY <1>5 DEF ShutDown, BeginShutdown, CallStop, StopHTTPReturns, StopGRPCReturns,
       ServersStopped, TimedOut, WaitReturns, CloseStore, Tick, Early, Exit
  <2> QED BY <1>5, <1>e, <2>1
    DEF ShutDown, BeginShutdown, CallStop, StopHTTPReturns, StopGRPCReturns,
        ServersStopped, TimedOut, WaitReturns, CloseStore, Tick, Early, Servers
<1>6. CASE UNCHANGED vars
  BY <1>6 DEF vars, partVars, workVars, stopVars
<1> QED BY <1>1, <1>2, <1>3, <1>4, <1>5, <1>6 DEF Next

LEMMA OwnPartsNext == TypeOK /\ OwnParts /\ [Next]_vars => OwnParts'
<1> SUFFICES ASSUME TypeOK, OwnParts, [Next]_vars PROVE OwnParts'
  OBVIOUS
<1>a. UNCHANGED App
  BY SameService DEF App
<1>t. /\ part \in [Parts -> {"off", "launched", "up", "stopping", "down"}]
      /\ stop \in [Servers -> {"off", "launched", "called", "returned"}]
  BY DEF TypeOK
<1>1. ASSUME UNCHANGED stop,
             \A p \in Parts : part[p] = "off" => part'[p] = "off" \/ p \in App.parts
      PROVE  OwnParts'
  BY <1>1, <1>a DEF OwnParts
<1>2. ASSUME UNCHANGED part,
             \A s \in Servers : stop[s] = "off" => stop'[s] = "off" \/ s \in App.parts
      PROVE  OwnParts'
  BY <1>2, <1>a DEF OwnParts
<1>3. CASE Boot
  <2>1. UNCHANGED stop /\ (UNCHANGED part \/ Start)
    BY <1>3, BootLeaves
  <2>2. CASE Start
    BY <1>1, <2>1, <2>2 DEF Start
  <2> QED BY <1>1, <2>1, <2>2
<1>4. CASE RunParts
  <2>1. UNCHANGED stop
    BY <1>4, RunningLeaves
  <2>2. \A p \in Parts : part[p] = "off" => part'[p] = "off"
    BY <1>4, <1>t DEF RunParts, Serve, ServeReturns, StartAsync, Hear, Consume,
       SchedulerStops, WorkerStops, Turn
  <2> QED BY <1>1, <2>1, <2>2
<1>5. CASE Work
  BY <1>1, <1>5, RunningLeaves
  DEF Work, Begin, End, Upgrade, ConsumePartition, TakeMessage, FinishMessage, partVars
<1>6. CASE Signal \/ ShutDown
  <2>1. UNCHANGED part
    BY <1>6, ShutDownLeaves
  <2>2. \A s \in Servers : stop[s] = "off" => stop'[s] = "off" \/ s \in App.parts
    BY <1>6, <1>t
    DEF Signal, ShutDown, BeginShutdown, CallStop, StopHTTPReturns, StopGRPCReturns,
        ServersStopped, TimedOut, WaitReturns, CloseStore, Tick, stopVars
  <2> QED BY <1>2, <2>1, <2>2
<1>7. CASE UNCHANGED vars
  BY <1>1, <1>7 DEF vars, partVars, stopVars
<1> QED BY <1>3, <1>4, <1>5, <1>6, <1>7 DEF Next

LEMMA WorkHasItsPartNext ==
  TypeOK /\ NothingYet /\ WorkHasItsPart /\ [Next]_vars => WorkHasItsPart'
<1> SUFFICES ASSUME TypeOK, NothingYet, WorkHasItsPart, [Next]_vars
             PROVE  WorkHasItsPart'
  OBVIOUS
<1>t. /\ part \in [Parts -> {"off", "launched", "up", "stopping", "down"}]
      /\ stop \in [Servers -> {"off", "launched", "called", "returned"}]
      /\ work \in [Kinds -> 0 .. MaxWork]
      /\ MaxWork \in Nat
  BY LifecycleAssumption DEF TypeOK
<1>d. Parts = {"http", "grpc", "scheduler", "worker", "consumer"} /\ Servers = {"http", "grpc"}
      /\ Kinds = {"request", "socket", "call", "run", "task"}
  BY DEF Parts, Servers, Kinds
<1>1. CASE Boot
  <2>1. /\ UNCHANGED <<work, stop, late, requeued>> /\ (UNCHANGED part \/ Start)
        /\ pc \in Early
    BY <1>1, BootLeaves
  <2>2. \A k \in Kinds : work'[k] = 0
    BY <2>1 DEF NothingYet
  <2>3. /\ ~(work'["call"] > 0) /\ ~(work'["run"] > 0)
        /\ ~(work'["request"] > 0) /\ ~(work'["task"] > 0)
    BY <1>d, <2>2
  <2> QED BY <2>3, Zenon DEF WorkHasItsPart
<1>2. CASE RunParts
  <2>1. UNCHANGED <<stop, late, work>>
    <3>1. UNCHANGED <<stop, late>>
      BY <1>2, RunningLeaves
    <3>2. UNCHANGED work
      BY <1>2 DEF RunParts, Serve, ServeReturns, StartAsync, Hear, Consume,
         SchedulerStops, WorkerStops, workVars
    <3> QED BY <3>1, <3>2
  <2>2. work["call"] > 0 => part'["grpc"] = "up" /\ stop["grpc"] # "returned"
    <3> SUFFICES ASSUME work["call"] > 0
                 PROVE  part'["grpc"] = "up" /\ stop["grpc"] # "returned"
      OBVIOUS
    <3>1. part["grpc"] = "up" /\ stop["grpc"] # "returned"
      BY <1>d DEF WorkHasItsPart
    <3>2. PICK q \in Parts : part' = [part EXCEPT ![q] = part'[q]]
                             /\ (part[q] # "up" \/ q # "grpc")
      <4>1. ASSUME NEW s \in Servers, Serve(s) \/ ServeReturns(s)
            PROVE  (part[s] # "up" \/ s # "grpc") /\ part' = [part EXCEPT ![s] = part'[s]]
        <5>1. part[s] # "up" \/ s # "grpc"
          BY <4>1, <3>1 DEF Serve, ServeReturns
        <5>2. \E x : part' = [part EXCEPT ![s] = x]
          BY <4>1, Zenon DEF Serve, ServeReturns, Turn
        <5> QED BY <5>1, <5>2, <1>t DEF Servers, Parts
      <4>2. ASSUME NEW p \in Parts, StartAsync(p) \/ Hear(p)
            PROVE  (part[p] # "up" \/ p # "grpc") /\ part' = [part EXCEPT ![p] = part'[p]]
        <5>1. p # "grpc"
          BY <4>2 DEF StartAsync, Hear, TypeOK
        <5>2. \E x : part' = [part EXCEPT ![p] = x]
          BY <4>2, Zenon DEF StartAsync, Hear, Turn
        <5> QED BY <5>1, <5>2, <1>t DEF Parts
      <4>3. ASSUME Consume \/ SchedulerStops \/ WorkerStops
            PROVE  \E q \in Parts : q # "grpc" /\ part' = [part EXCEPT ![q] = "down"]
        BY <4>3, Zenon DEF Consume, SchedulerStops, WorkerStops, Turn, Parts
      <4>4. Servers \subseteq Parts
        BY DEF Servers, Parts
      <4>5. CASE \E q \in Parts : q # "grpc" /\ part' = [part EXCEPT ![q] = "down"]
        BY <4>5, <1>t
      <4> QED BY <1>2, <4>1, <4>2, <4>3, <4>4, <4>5 DEF RunParts
    <3>3. q # "grpc"
      BY <3>1, <3>2
    <3>4. DOMAIN part = Parts /\ "grpc" \in Parts
      BY <1>t, <1>d
    <3>5. \A x : [part EXCEPT ![q] = x]["grpc"] = part["grpc"]
      BY <3>3, <3>4
    <3>6. part'["grpc"] = part["grpc"]
      BY <3>2, <3>5, Zenon
    <3> QED BY <3>1, <3>6
  <2>3. work["run"] > 0 => part'["scheduler"] \in {"up", "stopping"}
    BY <1>2, <1>t, <1>d
    DEF WorkHasItsPart, RunParts, Serve, ServeReturns, StartAsync, Hear, Consume,
        SchedulerStops, WorkerStops, Turn
  <2>4. work["task"] > 0 => part'["worker"] \in {"up", "stopping"} \/ requeued'
    <3>1. CASE WorkerStops
      BY <3>1 DEF WorkerStops
    <3>2. CASE ~WorkerStops
      <4>1. UNCHANGED requeued
        BY <1>2, <3>2 DEF RunParts, Serve, ServeReturns, StartAsync, Hear, Consume,
           SchedulerStops, stopVars
      <4>2. part["worker"] \in {"up", "stopping"} => part'["worker"] \in {"up", "stopping"}
        BY <1>2, <1>t, <1>d, <3>2
        DEF RunParts, Serve, ServeReturns, StartAsync, Hear, Consume, SchedulerStops, Turn
      <4> QED BY <4>1, <4>2 DEF WorkHasItsPart
    <3> QED BY <3>1, <3>2
  <2> QED BY <2>1, <2>2, <2>3, <2>4 DEF WorkHasItsPart
<1>3. CASE Work
  <2>1. UNCHANGED <<part, stop, late, requeued>>
    <3>1. UNCHANGED <<stop, late>>
      BY <1>3, RunningLeaves
    <3>2. UNCHANGED <<part, requeued>>
      BY <1>3 DEF Work, Begin, End, Upgrade, ConsumePartition, TakeMessage, FinishMessage,
         partVars, stopVars
    <3> QED BY <3>1, <3>2
  <2>2. ASSUME NEW k \in DOMAIN PartOf, Begin(k) PROVE WorkHasItsPart'
    <3>1. /\ k \in {"request", "call", "run", "task"}
          /\ PartOf["request"] = "http" /\ PartOf["call"] = "grpc"
          /\ PartOf["run"] = "scheduler" /\ PartOf["task"] = "worker"
      BY DEF PartOf
    <3>2. /\ part[PartOf[k]] = "up"
          /\ PartOf[k] \in Servers => stop[PartOf[k]] \in {"off", "launched"}
          /\ \A j \in Kinds \ {k} : work'[j] = work[j]
      BY <1>t, <2>2 DEF Begin
    <3>3. work'["call"] > 0 => part["grpc"] = "up" /\ stop["grpc"] # "returned"
      BY <1>d, <3>1, <3>2 DEF WorkHasItsPart
    <3>4. work'["run"] > 0 => part["scheduler"] \in {"up", "stopping"}
      BY <1>d, <3>1, <3>2 DEF WorkHasItsPart
    <3>5. work'["request"] > 0 /\ stop["http"] = "returned" => late
      <4>1. CASE k = "request"
        BY <1>d, <3>1, <3>2, <4>1
      <4>2. CASE k # "request"
        <5>1. work'["request"] = work["request"]
          BY <1>d, <3>2, <4>2
        <5> QED BY <5>1 DEF WorkHasItsPart
      <4> QED BY <4>1, <4>2
    <3>6. work'["task"] > 0 => part["worker"] \in {"up", "stopping"} \/ requeued
      <4>1. CASE k = "task"
        BY <3>1, <3>2, <4>1
      <4>2. CASE k # "task"
        <5>1. work'["task"] = work["task"]
          BY <1>d, <3>2, <4>2
        <5> QED BY <5>1 DEF WorkHasItsPart
      <4> QED BY <4>1, <4>2
    <3> QED BY <2>1, <3>3, <3>4, <3>5, <3>6 DEF WorkHasItsPart
  <2>3. ASSUME \A k \in {"request", "call", "run", "task"} : work'[k] > 0 => work[k] > 0
        PROVE  WorkHasItsPart'
    <3>1. /\ work'["call"] > 0 => work["call"] > 0
          /\ work'["run"] > 0 => work["run"] > 0
          /\ work'["request"] > 0 => work["request"] > 0
          /\ work'["task"] > 0 => work["task"] > 0
      BY <2>3
    <3> QED BY <2>1, <3>1, Zenon DEF WorkHasItsPart
  <2>4. ASSUME NEW k \in Kinds, End(k) PROVE WorkHasItsPart'
    <3>1. \A j \in Kinds : work'[j] = work[j] \/ work[j] > 0
      BY <1>t, <2>4 DEF End
    <3> QED BY <1>d, <2>3, <3>1
  <2>5. CASE Upgrade
    <3>1. \A j \in Kinds \ {"socket"} : work'[j] = work[j] \/ work[j] > 0
      BY <1>t, <2>5 DEF Upgrade
    <3> QED BY <1>d, <2>3, <3>1
  <2>6. ASSUME NEW t \in Topics, ConsumePartition(t) \/ TakeMessage(t) \/ FinishMessage(t)
        PROVE  WorkHasItsPart'
    <3>1. UNCHANGED work
      BY <2>6 DEF ConsumePartition, TakeMessage, FinishMessage, workVars
    <3> QED BY <2>3, <3>1
  <2> QED BY <1>3, <2>2, <2>4, <2>5, <2>6 DEF Work
<1>4. CASE Signal \/ ShutDown
  <2>1. UNCHANGED <<part, work, requeued>>
    BY <1>4, ShutDownLeaves
  <2>2. work["call"] > 0 => stop'["grpc"] # "returned"
    BY <1>4, <1>t, <1>d
    DEF WorkHasItsPart, Signal, ShutDown, BeginShutdown, CallStop, StopHTTPReturns,
        StopGRPCReturns, ServersStopped, TimedOut, WaitReturns, CloseStore, Tick, stopVars
  <2>3. work["request"] > 0 /\ stop'["http"] = "returned" => late'
    <3>1. CASE StopHTTPReturns
      BY <1>t, <1>d, <3>1 DEF StopHTTPReturns
    <3>2. CASE ~StopHTTPReturns
      <4>1. UNCHANGED late
        BY <1>4, <3>2
        DEF Signal, ShutDown, BeginShutdown, CallStop, StopGRPCReturns, ServersStopped,
            TimedOut, WaitReturns, CloseStore, Tick, stopVars
      <4>2. stop'["http"] = "returned" => stop["http"] = "returned"
        BY <1>4, <1>t, <1>d, <3>2
        DEF Signal, ShutDown, BeginShutdown, CallStop, StopGRPCReturns, ServersStopped,
            TimedOut, WaitReturns, CloseStore, Tick, stopVars
      <4> QED BY <4>1, <4>2 DEF WorkHasItsPart
    <3> QED BY <3>1, <3>2
  <2> QED BY <2>1, <2>2, <2>3 DEF WorkHasItsPart
<1>5. CASE UNCHANGED vars
  BY <1>5 DEF vars, partVars, workVars, stopVars, WorkHasItsPart
<1> QED BY <1>1, <1>2, <1>3, <1>4, <1>5 DEF Next

LEMMA ShutDownInOrderNext ==
  TypeOK /\ ShutDownInOrder /\ [Next]_vars => ShutDownInOrder'
<1> SUFFICES ASSUME TypeOK, ShutDownInOrder, [Next]_vars PROVE ShutDownInOrder'
  OBVIOUS
<1>a. UNCHANGED App
  BY SameService DEF App
<1>t. /\ part \in [Parts -> {"off", "launched", "up", "stopping", "down"}]
      /\ stop \in [Servers -> {"off", "launched", "called", "returned"}]
      /\ App.parts \subseteq Parts /\ "http" \in App.parts
      /\ "http" \in Servers
  BY AppFacts DEF TypeOK, Servers
<1>1. CASE Boot
  <2>1. pc \in Early /\ (pc' \in Early \cup {"exited"} \/ Start)
    BY <1>1, BootLeaves
  <2>2. pc' \notin {"draining", "closing"}
    BY <2>1 DEF Early, Start
  <2>5. pc' # "stopping"
    BY <2>1 DEF Early, Start
  <2>3. status = "none" /\ store # "closed"
    BY <2>1 DEF ShutDownInOrder, Early
  <2>4. status' # "none" \/ store' = "closed" => pc' = "exited"
    BY <1>1, <2>3
    DEF Boot, LoadConfig, ConnectPostgres, Migrate, ConnectMongo, NoStore, NewClient,
        NewKafkaBroker, Start, Exit, CloseOnPanic, mainVars
  <2> QED BY <2>2, <2>4, <2>5 DEF ShutDownInOrder
<1>2. CASE RunParts
  <2>1. UNCHANGED <<pc, store, status, stop>>
    BY <1>2, RunningLeaves
  <2>2. \A p \in Parts : part[p] = "down" => part'[p] = "down"
    BY <1>2, <1>t
    DEF RunParts, Serve, ServeReturns, StartAsync, Hear, Consume, SchedulerStops,
        WorkerStops, Turn
  <2> QED BY <1>a, <1>t, <2>1, <2>2 DEF ShutDownInOrder
<1>3. CASE Work
  <2>1. UNCHANGED <<pc, store, status, stop, part>>
    BY <1>3, RunningLeaves
    DEF Work, Begin, End, Upgrade, ConsumePartition, TakeMessage, FinishMessage, partVars
  <2> QED BY <1>a, <2>1 DEF ShutDownInOrder
<1>4. CASE Signal
  <2>1. UNCHANGED <<part, stop, store>> /\ pc # "exited"
    BY <1>4, ShutDownLeaves DEF Signal, Alive
  <2>2. UNCHANGED <<pc, status>> \/ pc' = "exited"
    BY <1>4 DEF Signal, Exit
  <2> QED BY <1>a, <2>1, <2>2 DEF ShutDownInOrder
<1>5. CASE ShutDown
  <2>1. UNCHANGED part
    BY <1>5, ShutDownLeaves
  <2>2. /\ stop["http"] = "returned" /\ pc # "serving" => stop'["http"] = "returned"
        /\ stop["http"] # "off" => stop'["http"] # "off"
    BY <1>5, <1>t
    DEF ShutDown, BeginShutdown, CallStop, StopHTTPReturns, StopGRPCReturns,
        ServersStopped, TimedOut, WaitReturns, CloseStore, Tick, stopVars
  <2>3. CASE UNCHANGED <<pc, store, status>>
    BY <1>a, <2>1, <2>2, <2>3 DEF ShutDownInOrder
  <2>4. CASE BeginShutdown
    <3>1. stop'["http"] = "launched" /\ pc' = "stopping" /\ pc = "serving"
      BY <1>t, <2>4 DEF BeginShutdown
    <3>2. UNCHANGED <<store, status>>
      BY <2>4 DEF BeginShutdown, mainVars
    <3> QED BY <3>1, <3>2 DEF ShutDownInOrder
  <2>5. CASE ServersStopped
    <3>1. UNCHANGED <<stop, store, status>> /\ pc' = "draining" /\ pc = "stopping"
      BY <2>5 DEF ServersStopped, mainVars, stopVars
    <3>2. stop["http"] \in {"off", "returned"}
      BY <1>t, <2>5 DEF ServersStopped
    <3>3. stop'["http"] = "returned"
      BY <3>1, <3>2 DEF ShutDownInOrder
    <3> QED BY <3>1, <3>3 DEF ShutDownInOrder
  <2>6. CASE TimedOut \/ CloseStore
    BY <2>6 DEF TimedOut, CloseStore, Exit, ShutDownInOrder
  <2>7. CASE WaitReturns
    BY <1>a, <2>1, <2>7 DEF WaitReturns, WaitedFor, ShutDownInOrder, mainVars, stopVars
  <2> QED
    BY <1>5, <2>3, <2>4, <2>5, <2>6, <2>7
    DEF ShutDown, CallStop, StopHTTPReturns, StopGRPCReturns, Tick, mainVars
<1>6. CASE UNCHANGED vars
  BY <1>6, <1>a DEF vars, mainVars, partVars, stopVars, ShutDownInOrder
<1> QED BY <1>1, <1>2, <1>3, <1>4, <1>5, <1>6 DEF Next

LEMMA LateTicksNext ==
  TypeOK /\ OwnParts /\ LateTicks /\ [Next]_vars => LateTicks'
<1> SUFFICES ASSUME TypeOK, OwnParts, LateTicks, [Next]_vars PROVE LateTicks'
  OBVIOUS
<1>a. UNCHANGED App
  BY SameService DEF App
<1>1. CASE UNCHANGED clock
  BY <1>1, <1>a DEF LateTicks
<1>2. CASE Tick
  <2> SUFFICES ASSUME clock' > ShutDownCtxTimeout PROVE "grpc" \in App.parts
    BY <1>a DEF LateTicks
  <2>1. clock >= ShutDownCtxTimeout
    BY <1>2, LifecycleAssumption DEF Tick, TypeOK
  <2>2. PICK s \in Servers : stop[s] = "called" /\ stop["http"] # "called"
    BY <1>2, <2>1 DEF Tick, Prompt, HTTPTimedOut
  <2>3. s = "grpc"
    BY <2>2 DEF Servers
  <2> QED BY <2>2, <2>3 DEF OwnParts
<1>3. UNCHANGED clock \/ Tick
  <2>1. CASE Boot
    BY <2>1, BootLeaves
  <2>2. CASE RunParts \/ Work
    BY <2>2, RunningLeaves
  <2>3. CASE Signal
    BY <2>3 DEF Signal
  <2>4. CASE ShutDown
    BY <2>4 DEF ShutDown, BeginShutdown, CallStop, StopHTTPReturns, StopGRPCReturns,
       ServersStopped, TimedOut, WaitReturns, CloseStore, mainVars
  <2>5. CASE UNCHANGED vars
    BY <2>5 DEF vars, mainVars
  <2> QED BY <2>1, <2>2, <2>3, <2>4, <2>5 DEF Next
<1> QED BY <1>1, <1>2, <1>3

LEMMA UserStoreNext == TypeOK /\ UserStore /\ [Next]_vars => UserStore'
<1> SUFFICES ASSUME TypeOK, UserStore, [Next]_vars,
                    service = "user", pc' \notin {"config", "boot", "exited"}
             PROVE  store' = "open"
  BY SameService DEF UserStore
<1>0. App.topics = {}
  BY DEF App, Apps, UserApp
<1>1. CASE Boot
  BY <1>0, <1>1
  DEF Boot, LoadConfig, ConnectPostgres, Migrate, ConnectMongo, NoStore, NewClient,
      NewKafkaBroker, Start, Exit, mainVars, UserStore
<1>2. CASE RunParts \/ Work
  BY <1>2, RunningLeaves DEF UserStore
<1>3. CASE Signal
  BY <1>3 DEF Signal, Exit, UserStore
<1>4. CASE ShutDown
  BY <1>4 DEF ShutDown, BeginShutdown, CallStop, StopHTTPReturns, StopGRPCReturns,
       ServersStopped, TimedOut, WaitReturns, CloseStore, Tick, Exit, mainVars, UserStore
<1>5. CASE UNCHANGED vars
  BY <1>5 DEF vars, mainVars, UserStore
<1> QED BY <1>1, <1>2, <1>3, <1>4, <1>5 DEF Next

LEMMA LifeInvNext == LifeInv /\ [Next]_vars => LifeInv'
BY TypeNext, NothingYetNext, OwnPartsNext, WorkHasItsPartNext, ShutDownInOrderNext,
   LateTicksNext, UserStoreNext
DEF LifeInv

-----------------------------------------------------------------------------
(* While the process is there it has everything drained or is not ended;   *)
(* at its end nothing that is waited for is in hand.                       *)
Drained ==
  /\ work["call"] = 0
  /\ work["run"] = 0
  /\ work["request"] > 0 => late
  /\ work["task"] > 0 => requeued

LEMMA DrainedWhenIdle ==
  ASSUME LifeInv, pc \in Early \cup {"closing"}
  PROVE  Drained
<1>t. /\ work \in [Kinds -> 0 .. MaxWork] /\ MaxWork \in Nat
      /\ service \in Services
  BY LifecycleAssumption DEF LifeInv, TypeOK
<1>k. /\ work["call"] \in Nat /\ work["run"] \in Nat
  BY <1>t DEF Kinds
<1>1. CASE pc \in Early
  <2>1. \A k \in Kinds : work[k] = 0
    BY <1>1 DEF LifeInv, NothingYet
  <2>2. /\ work["call"] = 0 /\ work["run"] = 0
        /\ ~(work["request"] > 0) /\ ~(work["task"] > 0)
    BY <2>1 DEF Kinds
  <2> QED BY <2>2, Zenon DEF Drained
<1>2. CASE pc = "closing"
  <2>1. stop["http"] = "returned" /\ \A p \in App.parts : part[p] = "down"
    BY <1>2 DEF LifeInv, ShutDownInOrder
  <2>2. \A p \in Parts : part[p] \in {"down", "off"}
    BY <2>1 DEF LifeInv, OwnParts
  <2>3. /\ part["grpc"] # "up"
        /\ part["scheduler"] \notin {"up", "stopping"}
        /\ part["worker"] \notin {"up", "stopping"}
    BY <2>2 DEF Parts
  <2>4. /\ ~(work["call"] > 0) /\ ~(work["run"] > 0)
        /\ work["request"] > 0 => late
        /\ work["task"] > 0 => requeued
    BY <2>1, <2>3, Zenon DEF LifeInv, WorkHasItsPart
  <2>5. work["call"] = 0 /\ work["run"] = 0
    BY <1>k, <2>4
  <2> QED BY <2>4, <2>5, Zenon DEF Drained
<1> QED BY <1>1, <1>2

DrainedInv == LifeInv /\ DrainedBeforeEnd

LEMMA DrainedInvNext == DrainedInv /\ [Next]_vars => DrainedInv'
<1> SUFFICES ASSUME DrainedInv, [Next]_vars,
                    status' \in {"graceful", "killed"} \/ store' = "closed"
             PROVE  Drained'
  BY LifeInvNext DEF DrainedInv, DrainedBeforeEnd, Drained
<1>0. LifeInv /\ LifeInv'
  BY LifeInvNext DEF DrainedInv
<1>1. CASE status \in {"graceful", "killed"} \/ store = "closed"
  <2>1. Drained
    BY <1>1 DEF DrainedInv, DrainedBeforeEnd, Drained
  <2>2. pc = "exited"
    BY <1>0, <1>1 DEF LifeInv, ShutDownInOrder
  <2>3. UNCHANGED <<work, late, requeued>>
    <3>1. CASE Boot
      BY <1>0, <2>2, <3>1, BootLeaves DEF LifeInv, Early
    <3>2. CASE RunParts \/ Work
      BY <2>2, <3>2, RunningLeaves
    <3>3. CASE Signal \/ ShutDown
      BY <2>2, <3>3 DEF ShutDown, Signal, BeginShutdown, CallStop, StopHTTPReturns,
         StopGRPCReturns, ServersStopped, TimedOut, WaitReturns, CloseStore, Tick, Alive
    <3>4. CASE UNCHANGED vars
      BY <3>4 DEF vars, workVars, stopVars
    <3> QED BY <3>1, <3>2, <3>3, <3>4 DEF Next
  <2> QED BY <2>1, <2>3, Zenon DEF Drained
<1>2. CASE ~(status \in {"graceful", "killed"} \/ store = "closed")
  <2>1. /\ pc \in Early \cup {"closing"}
        /\ UNCHANGED <<work, late, requeued>>
    <3>1. CASE Boot
      BY <1>0, <3>1, BootLeaves DEF LifeInv
    <3>2. CASE RunParts \/ Work
      BY <1>2, <3>2, RunningLeaves
    <3>3. CASE Signal
      <4>1. pc \notin {"serving", "stopping", "draining", "exited"}
        BY <1>2, <3>3 DEF Signal, Caught, Exit, Alive
      <4>2. pc \in Early \cup {"closing"}
        BY <1>0, <4>1 DEF LifeInv, TypeOK, Early
      <4> QED BY <3>3, <4>2 DEF Signal, workVars
    <3>4. CASE ShutDown
      BY <1>2, <3>4 DEF ShutDown, BeginShutdown, CallStop, StopHTTPReturns,
         StopGRPCReturns, ServersStopped, TimedOut, WaitReturns, CloseStore, Tick, Exit,
         mainVars, workVars, stopVars
    <3>5. CASE UNCHANGED vars
      BY <1>2, <3>5 DEF vars, mainVars
    <3> QED BY <3>1, <3>2, <3>3, <3>4, <3>5 DEF Next
  <2>2. Drained
    BY <1>0, <2>1, DrainedWhenIdle
  <2> QED BY <2>1, <2>2, Zenon DEF Drained
<1> QED BY <1>1, <1>2

(***************************************************************************)
(* However much is in hand and however often a service is told to stop, it *)
(* ends on its own terms only with its calls and runs over, its requests   *)
(* over or out of time, and its tasks over or put back.                    *)
(***************************************************************************)
THEOREM DrainedBeforeEndCorrect == Spec => []DrainedBeforeEnd
<1>1. Init => DrainedInv
  BY LifeInvInit DEF Init, DrainedInv, DrainedBeforeEnd
<1>2. DrainedInv => DrainedBeforeEnd
  BY DEF DrainedInv
<1> QED BY <1>1, <1>2, DrainedInvNext, PTL DEF Spec

(***************************************************************************)
(* The total time-out only ever strikes a service with a gRPC server, and  *)
(* leaves the database of the User Service open.                           *)
(***************************************************************************)
ForcedInv == LifeInv /\ ForcedOnlyByCalls

LEMMA ForcedInvNext == ForcedInv /\ [Next]_vars => ForcedInv'
<1> SUFFICES ASSUME ForcedInv, [Next]_vars PROVE ForcedInv'
  OBVIOUS
<1>0. LifeInv
  BY DEF ForcedInv
<1>1. LifeInv'
  BY <1>0, LifeInvNext
<1>2. App' = App
  BY SameService DEF App
<1>3. ASSUME status' = "forced"
      PROVE  "grpc" \in App.parts /\ (App.store => store' = "open")
  <2>1. CASE status = "forced"
    <3>1. "grpc" \in App.parts /\ (App.store => store = "open")
      BY <2>1 DEF ForcedInv, ForcedOnlyByCalls
    <3>2. pc = "exited"
      BY <1>0, <2>1 DEF LifeInv, ShutDownInOrder
    <3>3. UNCHANGED store
      <4>1. CASE Boot
        BY <1>0, <3>2, <4>1, BootLeaves DEF LifeInv, Early
      <4>2. CASE RunParts \/ Work
        BY <4>2, RunningLeaves
      <4>3. CASE Signal \/ ShutDown
        BY <3>2, <4>3 DEF ShutDown, Signal, BeginShutdown, CallStop, StopHTTPReturns,
           StopGRPCReturns, ServersStopped, TimedOut, WaitReturns, CloseStore, Tick, Alive,
           mainVars
      <4>4. CASE UNCHANGED vars
        BY <4>4 DEF vars, mainVars
      <4> QED BY <4>1, <4>2, <4>3, <4>4 DEF Next
    <3> QED BY <3>1, <3>3
  <2>2. CASE status # "forced"
    <3>1. TimedOut
      <4>1. ~Boot
        BY <1>3, <2>2 DEF Boot, LoadConfig, ConnectPostgres, Migrate, ConnectMongo, NoStore,
           NewClient, NewKafkaBroker, Start, Exit, mainVars
      <4>2. ~RunParts /\ ~Work
        BY <1>3, <2>2, RunningLeaves
      <4>3. ~Signal
        BY <1>3, <2>2 DEF Signal, Exit
      <4>4. ~UNCHANGED vars
        BY <1>3, <2>2 DEF vars, mainVars
      <4>5. ShutDown
        BY <4>1, <4>2, <4>3, <4>4 DEF Next
      <4> QED BY <1>3, <2>2, <4>5 DEF ShutDown, BeginShutdown, CallStop, StopHTTPReturns,
           StopGRPCReturns, ServersStopped, WaitReturns, CloseStore, Tick, Exit, mainVars
    <3>2. clock = TotalShutdownTimeout /\ pc = "stopping" /\ UNCHANGED store
      BY <3>1 DEF TimedOut
    <3>3. "grpc" \in App.parts
      BY <1>0, <3>2, LifecycleAssumption DEF LifeInv, LateTicks
    <3>4. service \in Services
      BY <1>0 DEF LifeInv, TypeOK
    <3>5. App.store => service = "user"
      BY <3>3, <3>4, AppFacts
    <3> QED BY <1>0, <3>2, <3>3, <3>5 DEF LifeInv, UserStore
  <2> QED BY <2>1, <2>2
<1>4. ForcedOnlyByCalls'
  BY <1>2, <1>3, Zenon DEF ForcedOnlyByCalls
<1> QED BY <1>1, <1>4 DEF ForcedInv

THEOREM ForcedOnlyByCallsCorrect == Spec => []ForcedOnlyByCalls
<1>1. Init => ForcedInv
  BY LifeInvInit DEF Init, ForcedInv, ForcedOnlyByCalls
<1>2. ForcedInv => ForcedOnlyByCalls
  BY DEF ForcedInv
<1> QED BY <1>1, <1>2, ForcedInvNext, PTL DEF Spec

-----------------------------------------------------------------------------
(***************************************************************************)
(* Why main waits for nothing that nobody stops:                           *)
(*   - from Start on every part of the service has its goroutine;          *)
(*   - a part is on its way out only if it was told, and the consumer's    *)
(*     goroutine never stays;                                              *)
(*   - BeginShutdown tells each server and the scheduler, and main waits   *)
(*     for the parts only when every Stop has returned.                    *)
(***************************************************************************)
PartsLaunched ==
  pc \in {"serving", "stopping", "draining"} => \A p \in App.parts : part[p] # "off"

PartsKnow ==
  /\ \A p \in Parts : part[p] = "stopping" => p \in told
  /\ part["consumer"] \in {"off", "launched", "down"}

EveryoneTold ==
  /\ pc \in {"stopping", "draining"} => App.parts \cap {"scheduler"} \subseteq told
  /\ pc = "stopping" => \A s \in Servers \cap App.parts : stop[s] # "off"
  /\ pc = "draining" => \A s \in Servers \cap App.parts : stop[s] = "returned"

WaitInv == TypeOK /\ NothingYet /\ PartsLaunched /\ PartsKnow /\ EveryoneTold

LEMMA ToldStay == TypeOK /\ [Next]_vars => told \subseteq told'
<1> SUFFICES ASSUME TypeOK, [Next]_vars PROVE told \subseteq told'
  OBVIOUS
<1>1. CASE Boot
  BY <1>1
  DEF Boot, LoadConfig, ConnectPostgres, Migrate, ConnectMongo, NoStore, NewClient,
      NewKafkaBroker, Start, stopVars
<1>2. CASE RunParts \/ Work
  BY <1>2, RunningLeaves
<1>3. CASE Signal \/ ShutDown
  BY <1>3
  DEF Signal, ShutDown, BeginShutdown, CallStop, StopHTTPReturns, StopGRPCReturns,
      ServersStopped, TimedOut, WaitReturns, CloseStore, Tick, stopVars
<1>4. CASE UNCHANGED vars
  BY <1>4 DEF vars, stopVars
<1> QED BY <1>1, <1>2, <1>3, <1>4 DEF Next

(* A goroutine turns from one state to another, and never back to "off". *)
LEMMA TurnsOfParts ==
  ASSUME TypeOK, NothingYet, [Next]_vars
  PROVE  \A p \in Parts :
           /\ part[p] # "off" => part'[p] # "off"
           /\ part'[p] = "stopping" => part[p] = "stopping" \/ p \in told
           /\ p = "consumer" => part'[p] \in {part[p], "off", "launched", "down"}
<1>t. part \in [Parts -> {"off", "launched", "up", "stopping", "down"}]
  BY DEF TypeOK
<1>d. Servers \subseteq Parts /\ "consumer" \notin Servers
  BY DEF Servers, Parts
<1> DEFINE Turns == \A p \in Parts :
             /\ part[p] # "off" => part'[p] # "off"
             /\ part'[p] = "stopping" => part[p] = "stopping" \/ p \in told
             /\ p = "consumer" => part'[p] \in {part[p], "off", "launched", "down"}
<1>0. CASE UNCHANGED part
  BY <1>0
<1>1. CASE Boot
  <2>1. CASE Start
    <3>1. \A p \in Parts : part'[p] \in {"off", "launched"}
      BY <2>1 DEF Start
    <3>2. \A p \in Parts : part[p] = "off"
      BY <2>1 DEF Start, NothingYet, Early
    <3> QED BY <3>1, <3>2
  <2> QED BY <1>0, <1>1, <2>1, BootLeaves
<1>2. ASSUME NEW q \in Parts, NEW s \in {"up", "down"}, q # "consumer" \/ s = "down",
             Turn(q, s)
      PROVE  Turns
  BY <1>2, <1>t DEF Turn
<1>3. ASSUME NEW s \in Servers, Serve(s) \/ ServeReturns(s) PROVE Turns
  <2>1. Turn(s, "up") \/ Turn(s, "down")
    BY <1>3 DEF Serve, ServeReturns
  <2>2. s \in Parts /\ s # "consumer"
    BY <1>d
  <2> QED BY <1>2, <2>1, <2>2
<1>4. ASSUME NEW q \in Parts, StartAsync(q) PROVE Turns
  BY <1>2, <1>4 DEF StartAsync
<1>5. ASSUME NEW q \in Parts, Hear(q) PROVE Turns
  <2>1. q \in told /\ q # "consumer"
    BY <1>5 DEF Hear, TypeOK
  <2> QED BY <1>5, <1>t, <2>1 DEF Hear, Turn
<1>6. CASE Consume \/ SchedulerStops \/ WorkerStops
  <2>1. \E q \in Parts : Turn(q, "down")
    BY <1>6 DEF Consume, SchedulerStops, WorkerStops, Parts
  <2> QED BY <1>2, <2>1
<1>7. CASE RunParts
  BY <1>3, <1>4, <1>5, <1>6, <1>7 DEF RunParts
<1>8. CASE Work
  BY <1>0, <1>8
  DEF Work, Begin, End, Upgrade, ConsumePartition, TakeMessage, FinishMessage, partVars
<1>9. CASE Signal \/ ShutDown
  BY <1>0, <1>9, ShutDownLeaves
<1>10. CASE UNCHANGED vars
  BY <1>0, <1>10 DEF vars, partVars
<1> QED BY <1>1, <1>7, <1>8, <1>9, <1>10 DEF Next

(* The process moves along: only Start serves, and shutdowns have a beginning. *)
LEMMA StagesInOrder ==
  ASSUME TypeOK, [Next]_vars
  PROVE  /\ pc' = "serving" => Start \/ UNCHANGED pc
         /\ pc' = "stopping" => BeginShutdown \/ UNCHANGED pc
         /\ pc' = "draining" => ServersStopped \/ UNCHANGED pc
<1>1. CASE Boot
  BY <1>1, BootLeaves DEF Early, Start
<1>2. CASE RunParts \/ Work
  BY <1>2, RunningLeaves
<1>3. CASE Signal \/ ShutDown
  BY <1>3
  DEF Signal, ShutDown, BeginShutdown, CallStop, StopHTTPReturns, StopGRPCReturns,
      ServersStopped, TimedOut, WaitReturns, CloseStore, Tick, Exit
<1>4. CASE UNCHANGED vars
  BY <1>4 DEF vars
<1> QED BY <1>1, <1>2, <1>3, <1>4 DEF Next

(* A Stop, once called for, is not taken back before the end. *)
LEMMA StopsStay ==
  ASSUME TypeOK, [Next]_vars, pc \in {"stopping", "draining"}
  PROVE  \A s \in Servers : /\ stop[s] # "off" => stop'[s] # "off"
                            /\ stop[s] = "returned" => stop'[s] = "returned"
<1>t. stop \in [Servers -> {"off", "launched", "called", "returned"}]
  BY DEF TypeOK
<1>1. CASE Boot
  BY <1>1, BootLeaves
<1>2. CASE RunParts \/ Work
  BY <1>2, RunningLeaves
<1>3. CASE Signal \/ ShutDown
  BY <1>3, <1>t
  DEF Signal, ShutDown, BeginShutdown, CallStop, StopHTTPReturns, StopGRPCReturns,
      ServersStopped, TimedOut, WaitReturns, CloseStore, Tick, stopVars
<1>4. CASE UNCHANGED vars
  BY <1>4 DEF vars, stopVars
<1> QED BY <1>1, <1>2, <1>3, <1>4 DEF Next

LEMMA WaitInvNext == WaitInv /\ [Next]_vars => WaitInv'
<1> SUFFICES ASSUME WaitInv, [Next]_vars PROVE WaitInv'
  OBVIOUS
<1>t. TypeOK /\ TypeOK' /\ NothingYet /\ NothingYet'
  BY TypeNext, NothingYetNext DEF WaitInv
<1>a. UNCHANGED App /\ App.parts \subseteq Parts
  BY <1>t, SameService, AppFacts DEF App, TypeOK
<1>p. /\ \A p \in Parts : part[p] # "off" => part'[p] # "off"
      /\ \A p \in Parts : part'[p] = "stopping" => part[p] = "stopping" \/ p \in told
      /\ part'["consumer"] \in {part["consumer"], "off", "launched", "down"}
  BY <1>t, TurnsOfParts DEF Parts
<1>g. told \subseteq told'
  BY <1>t, ToldStay
<1>s. /\ pc' = "serving" => Start \/ UNCHANGED pc
      /\ pc' = "stopping" => BeginShutdown \/ UNCHANGED pc
      /\ pc' = "draining" => ServersStopped \/ UNCHANGED pc
  BY <1>t, StagesInOrder
<1>1. PartsLaunched'
  <2>1. CASE Start
    BY <1>a, <2>1 DEF Start, PartsLaunched
  <2>2. CASE ~Start
    <3>1. pc' \in {"serving", "stopping", "draining"} =>
            pc \in {"serving", "stopping", "draining"}
      BY <1>s, <2>2 DEF BeginShutdown, ServersStopped
    <3> QED BY <1>a, <1>p, <3>1 DEF PartsLaunched, WaitInv
  <2> QED BY <2>1, <2>2
<1>2. PartsKnow'
  BY <1>p, <1>g DEF PartsKnow, WaitInv
<1>3. EveryoneTold'
  <2>1. CASE BeginShutdown
    <3>1. pc' = "stopping" /\ App.parts \cap {"scheduler"} \subseteq told'
      BY <2>1 DEF BeginShutdown, ToldToStop
    <3>2. \A s \in Servers \cap App.parts : stop'[s] = "launched"
      BY <2>1 DEF BeginShutdown
    <3> QED BY <1>a, <3>1, <3>2 DEF EveryoneTold
  <2>2. CASE ServersStopped
    <3>1. pc = "stopping" /\ pc' = "draining" /\ UNCHANGED <<stop, told>>
      BY <2>2 DEF ServersStopped, stopVars
    <3>2. \A s \in Servers \cap App.parts : stop[s] = "returned"
      BY <2>2, <3>1 DEF ServersStopped, EveryoneTold, WaitInv
    <3> QED BY <1>a, <3>1, <3>2 DEF EveryoneTold, WaitInv
  <2>3. CASE UNCHANGED pc
    <3>1. pc \in {"stopping", "draining"} =>
            \A s \in Servers : /\ stop[s] # "off" => stop'[s] # "off"
                               /\ stop[s] = "returned" => stop'[s] = "returned"
      BY <1>t, StopsStay
    <3> QED BY <1>a, <1>g, <2>3, <3>1 DEF EveryoneTold, WaitInv
  <2> QED BY <1>s, <2>1, <2>2, <2>3 DEF EveryoneTold
<1> QED BY <1>t, <1>1, <1>2, <1>3 DEF WaitInv

(***************************************************************************)
(* In every service, for any time-outs and any work in hand, each of the   *)
(* goroutines main waits for at the end can end.                           *)
(***************************************************************************)
THEOREM WaitsForWhatCanEndCorrect == Spec => []WaitsForWhatCanEnd
<1>1. Init => WaitInv
  <2> SUFFICES ASSUME Init PROVE WaitInv
    OBVIOUS
  <2>1. part = [p \in Parts |-> "off"] /\ pc = "config"
    BY DEF Init
  <2>2. TypeOK /\ NothingYet
    BY LifeInvInit DEF LifeInv
  <2> QED BY <2>1, <2>2 DEF WaitInv, PartsLaunched, PartsKnow, EveryoneTold, Parts
<1>2. WaitInv => WaitsForWhatCanEnd
  <2> SUFFICES ASSUME WaitInv, pc = "draining",
                      "worker" \in App.parts => "worker" \in told,
                      NEW p \in App.parts
               PROVE  CanEnd(p)
    BY DEF WaitsForWhatCanEnd, WaitedFor
  <2>1. p \in Parts /\ part[p] \in {"launched", "up", "stopping", "down"}
    <3>1. App.parts \subseteq Parts
      BY AppFacts DEF WaitInv, TypeOK
    <3> QED BY <3>1 DEF WaitInv, TypeOK, PartsLaunched
  <2>2. CASE p \in Servers
    <3>1. stop[p] = "returned"
      BY <2>2 DEF WaitInv, EveryoneTold
    <3>2. p \notin told
      BY <2>2 DEF WaitInv, TypeOK, Servers
    <3>3. part[p] # "stopping"
      BY <2>1, <3>2 DEF WaitInv, PartsKnow
    <3> QED BY <2>1, <2>2, <3>1, <3>3 DEF CanEnd
  <2>3. CASE p \in {"scheduler", "worker"}
    <3>1. p \in told
      BY <2>3 DEF WaitInv, EveryoneTold
    <3> QED BY <2>1, <3>1 DEF CanEnd
  <2>4. CASE p = "consumer"
    BY <2>1, <2>4 DEF WaitInv, PartsKnow, CanEnd
  <2> QED BY <2>1, <2>2, <2>3, <2>4 DEF Parts, Servers
<1> QED BY <1>1, <1>2, WaitInvNext, PTL DEF Spec
=============================================================================
