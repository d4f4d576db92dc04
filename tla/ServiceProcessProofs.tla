------------------------ MODULE ServiceProcessProofs ------------------------
(***************************************************************************)
(* What is configured when a service registers, what is still there when   *)
(* its threads use it, and that they end when they are stopped, for any    *)
(* bound on the calls: the proofs.                                         *)
(***************************************************************************)
EXTENDS ServiceProcess, FiniteDescent, FiniteSetTheorems, TLAPS

\* The steps of an owner from each point of the startup on.
AfterServe == {"running", "destroying", "destroyed"}
AfterRegister == {"serve"} \cup AfterServe
AfterRegistry == {"register"} \cup AfterRegister
AfterController == {"registry"} \cup AfterRegistry
AfterNames == {"controller"} \cup AfterController
AfterLogger == {"names"} \cup AfterNames
AfterLoad == {"logger"} \cup AfterLogger

\* What a runner has found in the file so far.
StartupFound ==
    /\ rootNode = "file" => file = "good"
    /\ registered => owner = "runner" /\ step \in AfterRegister
    /\ owner = "test" => step \in AfterRegister
    /\ owner = "runner" =>
        /\ step \in AfterLoad => (rootNode = "file" <=> file = "good")
        /\ step \in AfterLogger => rootNode = "file" /\ "logging" \notin lacks
        /\ step \in AfterNames => {"application", "grpc"} \cap lacks = {}
        /\ step \in AfterController => ControllerSections(kind) \cap lacks = {}
        /\ step \in AfterRegistry => (agent = "default" <=> "consul" \in lacks)

\* start() goes through the server's life in step with it.
StartInStep ==
    /\ step \notin AfterServe => start = "none"
    /\ step \in AfterServe => start # "none" /\ cause \in {"none", "port"}
    /\ start \in {"none", "called", "build"} => server = "none"
    /\ start \in {"none", "called", "build", "assign"} => thread = "empty"
    /\ start \in {"assign", "wait"} => server # "none"
    /\ start = "returned" => server = "down"
    /\ thread \in {"done", "joined"} => server = "down"
    /\ calls > 0 => server \in {"up", "draining"}

\* A server is shut down only by a stop that reached thread_, and such a stop
\* returns only when thread_ has ended.
StopInStep ==
    /\ server \in {"draining", "down"} => asked
    /\ asked => ~early
    /\ stop \in {"requested", "joining"} /\ thread = "empty" => early
    /\ stop = "returned" => thread = "joined" \/ early
    /\ stop = "none" => ~asked /\ ~early
    /\ stop # "none" => asked \/ early
    /\ stop = "requested" => thread # "joined"
    /\ stop = "joining" => thread \in {"running", "done"}

\* Who is gone when the owner lets go of the service.
DestroyInOrder ==
    /\ step \in {"destroying", "destroyed"} =>
            start = "returned" /\ stop = "returned" /\ thread = "joined" /\ ingest # "polling"
    /\ step = "destroyed" => ingest # "stopping"

ProcessInv ==
    /\ TypeOK
    /\ StartupFound
    /\ BlamesTheFile
    /\ StartInStep
    /\ StopInStep
    /\ DestroyInOrder

\* The sets of steps stand for their members from here on.
USE CallsAssumption
    DEF AfterServe, AfterRegister, AfterRegistry, AfterController, AfterNames,
        AfterLogger, AfterLoad

LEMMA InitProcess == Init => ProcessInv
  <1>. SUFFICES ASSUME Init PROVE ProcessInv
    OBVIOUS
  <1>1. lacks \subseteq Sections
    <2>1. CASE file = "good"
      BY <2>1 DEF Init
    <2>2. CASE file # "good"
      BY <2>2 DEF Init
    <2>. QED BY <2>1, <2>2
  <1>2. TypeOK
    <2>1. step \in {"options", "serve"} /\ calls \in 0..MaxCalls
      BY DEF Init
    <2>. QED BY <1>1, <2>1 DEF Init, TypeOK
  <1>3. StartupFound
    BY DEF Init, StartupFound
  <1>. QED
    BY <1>2, <1>3 DEF Init, ProcessInv, BlamesTheFile, StartInStep, StopInStep, DestroyInOrder

\* A step of the runner before start() changes no thread.
LEMMA StartupStep ==
    ASSUME ProcessInv, Startup
    PROVE  ProcessInv'
  <1>. USE DEF ProcessInv, Running, Goes, Ends, ReadsThen, Found, GetNode, setting, startup,
           threads, stopping
  <1>. DEFINE Preserved == /\ TypeOK' /\ StartupFound' /\ BlamesTheFile'
                           /\ StartInStep' /\ StopInStep' /\ DestroyInOrder'
  <1>1. ASSUME ParseOptions PROVE Preserved
    BY <1>1 DEF ParseOptions, TypeOK, StartupFound, BlamesTheFile, StartInStep, StopInStep,
                DestroyInOrder
  <1>2. ASSUME Application PROVE Preserved
    BY <1>2 DEF Application, Load, TypeOK, StartupFound, BlamesTheFile, StartInStep,
                StopInStep, DestroyInOrder
  <1>3. ASSUME InitializeLogger PROVE Preserved
    BY <1>3 DEF InitializeLogger, TypeOK, StartupFound, BlamesTheFile, StartInStep,
                StopInStep, DestroyInOrder
  <1>4. ASSUME ReadNames PROVE Preserved
    BY <1>4 DEF ReadNames, TypeOK, StartupFound, BlamesTheFile, StartInStep, StopInStep,
                DestroyInOrder
  <1>5. ASSUME ResolveController PROVE Preserved
    BY <1>5 DEF ResolveController, TypeOK, StartupFound, BlamesTheFile, StartInStep,
                StopInStep, DestroyInOrder
  <1>6. ASSUME ResolveRegistry PROVE Preserved
    BY <1>6 DEF ResolveRegistry, TypeOK, StartupFound, BlamesTheFile, StartInStep,
                StopInStep, DestroyInOrder
  <1>7. ASSUME GetThrows PROVE Preserved
    <2>1. BlamesTheFile'
      BY <1>7 DEF GetThrows, TypeOK, StartupFound, BlamesTheFile, Needed
    <2>. QED
      BY <1>7, <2>1 DEF GetThrows, TypeOK, StartupFound, StartInStep, StopInStep,
                        DestroyInOrder
  <1>8. ASSUME ConnectThrows PROVE Preserved
    BY <1>8 DEF ConnectThrows, TypeOK, StartupFound, BlamesTheFile, StartInStep, StopInStep,
                DestroyInOrder
  <1>9. ASSUME Register PROVE Preserved
    BY <1>9 DEF Register, TypeOK, StartupFound, BlamesTheFile, StartInStep, StopInStep,
                DestroyInOrder
  <1>10. ASSUME Serve PROVE Preserved
    BY <1>10 DEF Serve, TypeOK, StartupFound, BlamesTheFile, StartInStep, StopInStep,
                 DestroyInOrder
  <1>. QED BY <1>1, <1>2, <1>3, <1>4, <1>5, <1>6, <1>7, <1>8, <1>9, <1>10 DEF Startup

\* A step of a thread leaves the configuration and the registration alone.
LEMMA ServingStep ==
    ASSUME ProcessInv, StartInStep', StopInStep', DestroyInOrder', TypeOK',
           UNCHANGED <<setting, startup>>, cause' \in {cause, "port"},
           step' = step \/ (step \in AfterServe /\ step' \in AfterServe)
    PROVE  ProcessInv'
  <1>1. StartupFound'
    BY DEF ProcessInv, StartupFound, setting, startup
  <1>2. BlamesTheFile'
    BY DEF ProcessInv, BlamesTheFile, setting, Needed
  <1>. QED BY <1>1, <1>2 DEF ProcessInv

LEMMA ThreadStep ==
    ASSUME ProcessInv,
           Start \/ Shutdown \/ Stop \/ CallArrives \/ CallReturns \/ RequestStop \/ IngestEnds
    PROVE  ProcessInv'
  <1>. USE DEF ProcessInv, Up, Ends, process, setting, startup, threads, stopping
  <1>. DEFINE InStep == /\ TypeOK' /\ StartInStep' /\ StopInStep' /\ DestroyInOrder'
                        /\ UNCHANGED <<setting, startup>> /\ cause' \in {cause, "port"}
                        /\ step' = step \/ (step \in AfterServe /\ step' \in AfterServe)
  <1>. USE DEF TypeOK, StartInStep, StopInStep, DestroyInOrder
  <1>1. ASSUME StartIngestion PROVE InStep
    BY <1>1 DEF StartIngestion
  <1>2. ASSUME BuildAndStart PROVE InStep
    BY <1>2 DEF BuildAndStart
  <1>3. ASSUME AssignThread PROVE InStep
    BY <1>3 DEF AssignThread
  <1>4. ASSUME WaitReturns PROVE InStep
    BY <1>4 DEF WaitReturns
  <1>5. ASSUME WaitOnNull \/ ShutdownOnNull PROVE InStep
    BY <1>5 DEF WaitOnNull, ShutdownOnNull
  <1>6. ASSUME ShutdownBegins PROVE InStep
    BY <1>6 DEF ShutdownBegins
  <1>7. ASSUME ShutdownReturns PROVE InStep
    BY <1>7 DEF ShutdownReturns
  <1>8. ASSUME ThreadEnds PROVE InStep
    BY <1>8 DEF ThreadEnds
  <1>9. ASSUME CallArrives PROVE InStep
    BY <1>9 DEF CallArrives
  <1>10. ASSUME CallReturns PROVE InStep
    BY <1>10 DEF CallReturns
  <1>11. ASSUME RequestStop PROVE InStep
    <2>1. CASE thread = "empty"
      <3>1. asked' = FALSE /\ early' = TRUE
        BY <1>11, <2>1 DEF RequestStop
      <3>. QED BY <1>11, <2>1, <3>1 DEF RequestStop
    <2>2. CASE thread # "empty"
      <3>1. asked' = TRUE /\ early' = FALSE
        BY <1>11, <2>2 DEF RequestStop
      <3>. QED BY <1>11, <2>2, <3>1 DEF RequestStop
    <2>. QED BY <2>1, <2>2
  <1>12. ASSUME Joinable PROVE InStep
    BY <1>12 DEF Joinable
  <1>13. ASSUME Join PROVE InStep
    BY <1>13 DEF Join
  <1>14. ASSUME Destroy PROVE InStep
    BY <1>14 DEF Destroy
  <1>15. ASSUME IngestEnds PROVE InStep
    BY <1>15 DEF IngestEnds
  <1>16. ASSUME Destroyed PROVE InStep
    BY <1>16 DEF Destroyed
  <1>17. InStep
    BY <1>1, <1>2, <1>3, <1>4, <1>5, <1>6, <1>7, <1>8, <1>9, <1>10, <1>11, <1>12, <1>13,
       <1>14, <1>15, <1>16 DEF Start, Shutdown, Stop
  <1>. HIDE DEF ProcessInv
  <1>. QED BY <1>17, ServingStep

\* The inductive invariant, for every bound on the calls.
THEOREM ProcessInvariant == Spec => []ProcessInv
  <1>1. Init => ProcessInv
    BY InitProcess
  <1>2. ProcessInv /\ [Next]_vars => ProcessInv'
    <2>. SUFFICES ASSUME ProcessInv, [Next]_vars
                  PROVE  ProcessInv'
      OBVIOUS
    <2>1. CASE Startup
      BY <2>1, StartupStep
    <2>2. CASE \/ Start \/ Shutdown \/ Stop \/ CallArrives \/ CallReturns \/ RequestStop
               \/ IngestEnds
      BY <2>2, ThreadStep
    <2>3. CASE UNCHANGED vars
      BY <2>3 DEF vars, process, setting, startup, threads, stopping, ProcessInv, TypeOK,
                  StartupFound, BlamesTheFile, StartInStep, StopInStep, DestroyInOrder
    <2>. QED BY <2>1, <2>2, <2>3 DEF Next
  <1>. QED BY <1>1, <1>2, PTL DEF Spec

\* The state stays well typed; above all, the tree of the configuration whole.
THEOREM ProcessTyped == Spec => []TypeOK
  <1>1. ProcessInv => TypeOK
    BY DEF ProcessInv
  <1>. QED BY <1>1, ProcessInvariant, PTL

\* A registered service has found all that it needs in its file.
THEOREM RegistersConfigured == Spec => []RegisteredIsConfigured
  <1>1. ProcessInv => RegisteredIsConfigured
    BY DEF ProcessInv, StartupFound, RegisteredIsConfigured, Needed
  <1>. QED BY <1>1, ProcessInvariant, PTL

\* An end that blames the file is the file's fault.
THEOREM FileIsToBlame == Spec => []BlamesTheFile
  <1>1. ProcessInv => BlamesTheFile
    BY DEF ProcessInv
  <1>. QED BY <1>1, ProcessInvariant, PTL

\* Handlers run only while start() does.
THEOREM StartOutlivesHandlers == Spec => []HandlersWithinStart
  <1>1. ProcessInv => HandlersWithinStart
    BY DEF ProcessInv, TypeOK, StartInStep, HandlersWithinStart
  <1>. QED BY <1>1, ProcessInvariant, PTL

\* Service and controller outlive their threads.
THEOREM ThreadsEndFirst == Spec => []ObjectsOutliveThreads
  <1>1. ProcessInv => ObjectsOutliveThreads
    BY DEF ProcessInv, TypeOK, StartInStep, DestroyInOrder, ObjectsOutliveThreads
  <1>. QED BY <1>1, ProcessInvariant, PTL

-----------------------------------------------------------------------------
(* Progress: what the scheduling of the threads brings about.              *)

\* The conditions under which the steps of start(), of the shutdown and of the
\* owner in stop() and in the destructor are enabled.
CanStart ==
    /\ Up
    /\ \/ start \in {"called", "build", "assign"}
       \/ start = "wait" /\ server \in {"down", "null"}
CanShutdown ==
    /\ Up
    /\ \/ thread = "running" /\ (server = "down" \/ (asked /\ server \in {"up", "null"}))
       \/ server = "draining" /\ calls = 0
CanStop ==
    /\ Up
    /\ \/ stop = "requested"
       \/ stop = "joining" /\ thread = "done"
       \/ step = "running" /\ stop = "returned" /\ start = "returned"
       \/ step = "destroying" /\ ingest # "stopping"

\* Weak fairness of these steps, with ENABLED written out.
StartScheduled == []<>~CanStart \/ []<><<Start>>_vars
ShutdownScheduled == []<>~CanShutdown \/ []<><<Shutdown>>_vars
StopScheduled == []<>~CanStop \/ []<><<Stop>>_vars

CallsReturn == []<>~(Up /\ calls > 0) \/ []<><<CallReturns>>_vars

\* The calls under way, counted down as they return.
OpenCalls == 1..calls
CallsComeToRest == ComesToRest(OpenCalls, vars)

-----------------------------------------------------------------------------
(* A process without a server ends.                                        *)

AtAssign == server = "null" /\ start = "assign"
AtWait == server = "null" /\ start = "wait"

\* start() is on its way to wait for a server.
LEMMA NoServerStages ==
    ASSUME ProcessInv, server = "null"
    PROVE  /\ cause \in {"none", "port"}
           /\ AtAssign \/ AtWait
           /\ cause = "none" => CanStart
  <1>. USE DEF ProcessInv, TypeOK, StartInStep, DestroyInOrder, AfterServe
  <1>1. start \in {"assign", "wait"}
    OBVIOUS
  <1>2. step \in {"running", "destroying"} /\ cause \in {"none", "port"}
    BY <1>1
  <1>. QED BY <1>1, <1>2 DEF AtAssign, AtWait, CanStart, Up

\* A step of start() takes it on, the steps of the others leave it there.
LEMMA StartGoesAhead ==
    ASSUME ProcessInv, server = "null", Start
    PROVE  /\ AtAssign => AtWait'
           /\ AtWait => (cause = "port")'
  BY DEF Start, StartIngestion, BuildAndStart, AssignThread, WaitReturns, WaitOnNull,
         ProcessInv, TypeOK, StartInStep, AtAssign, AtWait, Up, Ends

LEMMA OthersLeaveStart ==
    ASSUME ProcessInv, [Next]_vars, ~Start, server = "null"
    PROVE  UNCHANGED <<server, start>> /\ cause' \in {cause, "port"}
  <1>. USE DEF process, setting, startup, threads, stopping
  <1>1. CASE Shutdown
    BY <1>1 DEF Shutdown, ShutdownBegins, ShutdownOnNull, ShutdownReturns, ThreadEnds, Ends
  <1>2. CASE Stop
    BY <1>2 DEF Stop, Joinable, Join, Destroy, Destroyed
  <1>3. CASE CallArrives \/ CallReturns \/ RequestStop \/ IngestEnds
    BY <1>3 DEF CallArrives, CallReturns, RequestStop, IngestEnds
  <1>4. ~Startup
    <2>1. step \in AfterServe
      BY DEF ProcessInv, TypeOK, StartInStep
    <2>. QED
      BY <2>1 DEF Startup, ParseOptions, Application, InitializeLogger, ReadNames,
         ResolveController, ResolveRegistry, GetThrows, ConnectThrows, Register, Serve,
         Running, AfterServe
  <1>5. CASE UNCHANGED vars
    BY <1>5 DEF vars
  <1>. QED BY <1>1, <1>2, <1>3, <1>4, <1>5 DEF Next

\* A process whose server did not start, as the port was taken, ends: start()
\* goes on to wait for a server through a null pointer.
THEOREM NoServerEndsProcess == Spec /\ StartScheduled => NoServerNoProcess
  <1>1. ProcessInv /\ server = "null" =>
            /\ cause = "port" \/ AtAssign \/ AtWait
            /\ cause = "port" \/ CanStart
    BY NoServerStages
  <1>2. ProcessInv /\ AtAssign /\ [Next]_vars => AtAssign' \/ AtWait'
    BY StartGoesAhead, OthersLeaveStart DEF AtAssign, AtWait
  <1>3. ProcessInv /\ AtAssign /\ <<Start>>_vars => AtWait'
    BY StartGoesAhead DEF AtAssign
  <1>4. ProcessInv /\ AtWait /\ [Next]_vars => AtWait' \/ (cause = "port")'
    BY StartGoesAhead, OthersLeaveStart DEF AtAssign, AtWait
  <1>5. ProcessInv /\ AtWait /\ <<Start>>_vars => (cause = "port")'
    BY StartGoesAhead DEF AtWait
  <1>6. AtAssign \/ AtWait => server = "null"
    BY DEF AtAssign, AtWait
  <1>. QED
    BY <1>1, <1>2, <1>3, <1>4, <1>5, <1>6, ProcessInvariant, PTL
       DEF Spec, StartScheduled, NoServerNoProcess

-----------------------------------------------------------------------------
(* A stop that reached thread_ ends the service.                           *)

\* The stages of a shutdown that was asked for, and of start() and stop() that
\* wait for it.
Stopping == asked /\ stop # "none" /\ cause = "none"
Taking == Stopping /\ server \in {"up", "null"}
Draining == Stopping /\ server = "draining"
Drained == Draining /\ calls = 0
Down == Stopping /\ server = "down"
Alone == Down /\ thread # "running"
Requested == Alone /\ stop = "requested"
Joining == Alone /\ stop = "joining"
Stopped == Down /\ stop = "returned"
Ended == Down /\ start = "returned"

LEMMA StoppingStages ==
    ASSUME ProcessInv, Stopping
    PROVE  /\ Taking \/ Draining \/ Down
           /\ thread # "empty" /\ start \in {"wait", "returned"}
           /\ Up \/ (Stopped /\ Ended)
           /\ Alone => Requested \/ Joining \/ Stopped
           /\ Joining => thread = "done"
  <1>. USE DEF ProcessInv, TypeOK, StartInStep, StopInStep, DestroyInOrder, Stopping
  <1>1. thread # "empty"
    OBVIOUS
  <1>2. start \in {"wait", "returned"}
    BY <1>1
  <1>3. server \in {"up", "null", "draining", "down"}
    BY <1>2
  <1>4. step \in {"running", "destroying", "destroyed"}
    BY <1>2 DEF AfterServe
  <1>5. step = "destroyed" => start = "returned" /\ stop = "returned" /\ server = "down"
    BY <1>2
  <1>6. Taking \/ Draining \/ Down
    BY <1>3 DEF Taking, Draining, Down
  <1>7. Up \/ (Stopped /\ Ended)
    BY <1>4, <1>5 DEF Up, Stopped, Ended, Down
  <1>8. stop \in {"requested", "joining", "returned"}
    OBVIOUS
  <1>9. Alone => Requested \/ Joining \/ Stopped
    BY <1>8 DEF Alone, Requested, Joining, Stopped
  <1>10. Joining => thread = "done"
    BY <1>1 DEF Joining, Alone
  <1>. QED BY <1>1, <1>2, <1>6, <1>7, <1>9, <1>10

\* No step takes back what a stopping process has gone through.
LEMMA StoppingSteps ==
    ASSUME ProcessInv, [Next]_vars, Stopping
    PROVE  /\ asked' /\ stop' # "none" /\ cause' \in {"none", "port"}
           /\ server \in {"draining", "down"} => cause' = "none"
           /\ server' # server => \/ server \in {"up", "null"} /\ server' = "draining"
                                  \/ server = "draining" /\ server' = "down"
           /\ server = "draining" /\ calls = 0 => calls' = 0
           /\ thread = "running" \/ thread' # "running"
           /\ stop = "returned" => stop' = "returned"
           /\ stop = "joining" => stop' \in {"joining", "returned"}
           /\ start = "returned" => start' = "returned"
  <1>. USE DEF process, setting, startup, threads, stopping, Ends, Stopping
  <1>1. CASE Start
    BY <1>1, StoppingStages
       DEF Start, StartIngestion, BuildAndStart, AssignThread, WaitReturns, WaitOnNull
  <1>2. CASE Shutdown
    BY <1>2 DEF Shutdown, ShutdownBegins, ShutdownOnNull, ShutdownReturns, ThreadEnds
  <1>3. CASE Stop
    BY <1>3 DEF Stop, Joinable, Join, Destroy, Destroyed
  <1>4. CASE CallArrives \/ CallReturns \/ RequestStop \/ IngestEnds
    <2>1. UNCHANGED <<stopping, cause, server, thread, start>>
      BY <1>4 DEF CallArrives, CallReturns, RequestStop, IngestEnds
    <2>2. server = "draining" /\ calls = 0 => calls' = 0
      <3>1. server = "draining" /\ calls = 0 => ~CallArrives /\ ~CallReturns
        BY DEF CallArrives, CallReturns
      <3>. QED BY <1>4, <3>1 DEF RequestStop, IngestEnds
    <2>. QED BY <2>1, <2>2
  <1>5. ~Startup
    <2>1. step \in AfterServe
      BY StoppingStages DEF ProcessInv, TypeOK, StartInStep
    <2>. QED
      BY <2>1 DEF Startup, ParseOptions, Application, InitializeLogger, ReadNames,
         ResolveController, ResolveRegistry, GetThrows, ConnectThrows, Register, Serve,
         Running, AfterServe
  <1>6. CASE UNCHANGED vars
    BY <1>6 DEF vars
  <1>. QED BY <1>1, <1>2, <1>3, <1>4, <1>5, <1>6 DEF Next

\* What the scheduled steps achieve.
LEMMA StoppingAhead ==
    ASSUME ProcessInv, [Next]_vars, Stopping
    PROVE  /\ Taking => CanShutdown
           /\ Drained => CanShutdown
           /\ Down /\ thread = "running" => CanShutdown \/ (Stopped /\ Ended)
           /\ Requested \/ Joining => CanStop
           /\ Down => Ended \/ CanStart
           /\ Taking /\ Shutdown => server' = "draining" \/ cause' = "port"
           /\ Drained /\ Shutdown => server' = "down"
           /\ Down /\ thread = "running" /\ Shutdown => thread' = "done"
           /\ Requested /\ Stop => stop' = "joining"
           /\ Joining /\ Stop => stop' = "returned"
           /\ Down /\ Start => start' = "returned"
  <1>. USE DEF process, setting, startup, threads, stopping, Ends
  <1>. USE StoppingStages
  <1>1. /\ Taking => CanShutdown
        /\ Drained => CanShutdown
        /\ Down /\ thread = "running" => CanShutdown \/ (Stopped /\ Ended)
    <2>1. server \in {"up", "null"} => thread = "running"
      BY DEF ProcessInv, TypeOK, StartInStep
    <2>2. Taking => ~(Stopped /\ Ended)
      BY DEF Taking, Stopped, Down
    <2>3. Drained => ~(Stopped /\ Ended)
      BY DEF Drained, Draining, Stopped, Down
    <2>. QED BY <2>1, <2>2, <2>3 DEF Taking, Draining, Drained, Down, Stopping, CanShutdown
  <1>5. Requested \/ Joining => CanStop
    BY DEF Requested, Joining, Stopped, CanStop
  <1>6. Down => Ended \/ CanStart
    BY DEF Down, Ended, CanStart
  <1>2. /\ Taking /\ Shutdown => server' = "draining" \/ cause' = "port"
        /\ Drained /\ Shutdown => server' = "down"
        /\ Down /\ thread = "running" /\ Shutdown => thread' = "done"
    BY DEF Taking, Draining, Drained, Down, Shutdown, ShutdownBegins, ShutdownOnNull, ShutdownReturns,
       ThreadEnds
  <1>3. /\ Requested /\ Stop => stop' = "joining"
        /\ Joining /\ Stop => stop' = "returned"
    BY StoppingStages DEF Requested, Joining, Alone, Down, Stop, Joinable, Join, Destroy, Destroyed,
       ProcessInv, TypeOK, DestroyInOrder
  <1>4. Down /\ Start => start' = "returned"
    BY StoppingStages DEF Down, Start, StartIngestion, BuildAndStart, AssignThread, WaitReturns,
       WaitOnNull
  <1>. QED BY <1>1, <1>2, <1>3, <1>4, <1>5, <1>6

\* No call arrives at a server that drains, and each that returns is one less.
LEMMA DrainingSteps ==
    ASSUME ProcessInv, [Next]_vars, Draining
    PROVE  /\ OpenCalls' \subseteq OpenCalls
           /\ CallReturns => OpenCalls' # OpenCalls
           /\ calls = 0 \/ (Up /\ calls > 0)
  <1>. USE DEF process, setting, startup, threads, stopping, Ends
  <1>1. calls \in Nat
    BY CallsAssumption DEF ProcessInv, TypeOK
  <1>2. calls = 0 \/ (Up /\ calls > 0)
    <2>1. Up \/ (Stopped /\ Ended)
      BY StoppingStages DEF Draining
    <2>. QED BY <1>1, <2>1 DEF Draining, Stopped, Down
  <1>3. calls' = calls \/ CallReturns
    <2>1. server = "draining"
      BY DEF Draining
    <2>2. ~Startup
      <3>1. step \in AfterServe
        BY StoppingStages DEF Draining, ProcessInv, TypeOK, StartInStep
      <3>. QED
        BY <3>1 DEF Startup, ParseOptions, Application, InitializeLogger, ReadNames,
           ResolveController, ResolveRegistry, GetThrows, ConnectThrows, Register, Serve,
           Running, AfterServe
    <2>3. CASE Start
      BY <2>3 DEF Start, StartIngestion, BuildAndStart, AssignThread, WaitReturns, WaitOnNull
    <2>4. CASE Shutdown
      BY <2>4 DEF Shutdown, ShutdownBegins, ShutdownOnNull, ShutdownReturns, ThreadEnds
    <2>5. CASE Stop
      BY <2>5 DEF Stop, Joinable, Join, Destroy, Destroyed
    <2>6. CASE CallArrives \/ RequestStop \/ IngestEnds
      BY <2>1, <2>6 DEF CallArrives, RequestStop, IngestEnds
    <2>7. CASE UNCHANGED vars
      BY <2>7 DEF vars
    <2>. QED BY <2>2, <2>3, <2>4, <2>5, <2>6, <2>7 DEF Next
  <1>4. CallReturns => calls > 0 /\ calls' = calls - 1
    BY DEF CallReturns
  <1>5. OpenCalls' \subseteq OpenCalls
    BY <1>1, <1>3, <1>4 DEF OpenCalls
  <1>6. CallReturns => OpenCalls' # OpenCalls
    <2>1. CallReturns => calls \in OpenCalls /\ calls \notin OpenCalls'
      BY <1>1, <1>4 DEF OpenCalls
    <2>. QED BY <2>1
  <1>. QED BY <1>2, <1>5, <1>6

\* A stop that reached thread_ gets the server down, as no call arrives any more.
LEMMA ServerGoesDown ==
    Spec /\ ShutdownScheduled /\ CallsReturn /\ CallsComeToRest
        => (Stopping ~> Down \/ cause = "port")
  <1>1. ProcessInv /\ Stopping => Taking \/ Draining \/ Down
    BY StoppingStages
  <1>2. /\ ProcessInv /\ Taking /\ [Next]_vars => Taking' \/ Draining' \/ (cause = "port")'
        /\ ProcessInv /\ Taking /\ [Next]_vars /\ <<Shutdown>>_vars =>
               Draining' \/ (cause = "port")'
        /\ ProcessInv /\ Taking /\ [Next]_vars => CanShutdown
    BY StoppingSteps, StoppingAhead DEF Taking, Draining, Stopping
  <1>3. /\ ProcessInv /\ Draining /\ [Next]_vars => Draining' \/ Down'
        /\ Draining /\ calls = 0 => Drained
    BY StoppingSteps DEF Down, Drained, Draining, Stopping
  <1>4. /\ ProcessInv /\ Draining /\ [Next]_vars => [OpenCalls' \subseteq OpenCalls]_vars
        /\ ProcessInv /\ Draining /\ [Next]_vars /\ <<CallReturns>>_vars =>
               ~[OpenCalls' = OpenCalls]_vars
        /\ ProcessInv /\ Draining /\ [Next]_vars => Drained \/ (Up /\ calls > 0)
    BY <1>3, DrainingSteps
  <1>5. ProcessInv => IsFiniteSet(OpenCalls)
    BY CallsAssumption, FS_Interval DEF ProcessInv, TypeOK, OpenCalls
  <1>6. /\ ProcessInv /\ Drained /\ [Next]_vars => Drained' \/ Down'
        /\ ProcessInv /\ Drained /\ [Next]_vars /\ <<Shutdown>>_vars => Down'
        /\ ProcessInv /\ Drained /\ [Next]_vars => CanShutdown
    BY StoppingSteps, StoppingAhead DEF Drained, Down, Draining, Stopping
  <1>7. ProcessInv /\ Down /\ [Next]_vars => Down'
    BY StoppingSteps DEF Down, Stopping
  <1>. QED
    BY <1>1, <1>2, <1>3, <1>4, <1>5, <1>6, <1>7, ProcessInvariant, PTL
       DEF Spec, ShutdownScheduled, CallsReturn, CallsComeToRest, ComesToRest

\* With the server down thread_ ends, and stop() joins it.
LEMMA StopReturnsThen ==
    Spec /\ ShutdownScheduled /\ StopScheduled => (Down ~> []Stopped)
  <1>1. /\ ProcessInv /\ Down /\ [Next]_vars => Down'
        /\ ProcessInv /\ Alone /\ [Next]_vars => Alone'
        /\ ProcessInv /\ Stopped /\ [Next]_vars => Stopped'
    BY StoppingSteps DEF Down, Alone, Stopped, Stopping
  <1>2. /\ ProcessInv /\ Down /\ ~Alone /\ [Next]_vars => CanShutdown \/ Stopped
        /\ ProcessInv /\ Down /\ ~Alone /\ [Next]_vars /\ <<Shutdown>>_vars => Alone'
    BY StoppingSteps, StoppingAhead DEF Down, Alone, Stopping
  <1>3. ProcessInv /\ Alone => Requested \/ Joining \/ Stopped
    BY StoppingStages DEF Alone, Down
  <1>4. /\ ProcessInv /\ Requested /\ [Next]_vars => CanStop
        /\ ProcessInv /\ Requested /\ [Next]_vars /\ <<Stop>>_vars => Joining'
    BY StoppingSteps, StoppingAhead DEF Requested, Joining, Alone, Down, Stopping
  <1>5. /\ ProcessInv /\ Joining /\ [Next]_vars => Joining' \/ Stopped'
        /\ ProcessInv /\ Joining /\ [Next]_vars => CanStop
        /\ ProcessInv /\ Joining /\ [Next]_vars /\ <<Stop>>_vars => Stopped'
    BY StoppingSteps, StoppingAhead DEF Joining, Alone, Down, Stopped, Stopping
  <1>6. Alone => Down
    BY DEF Alone
  <1>. QED
    BY <1>1, <1>2, <1>3, <1>4, <1>5, <1>6, ProcessInvariant, PTL
       DEF Spec, ShutdownScheduled, StopScheduled

\* So does the Wait() of start().
LEMMA StartReturnsThen == Spec /\ StartScheduled => (Down ~> []Ended)
  <1>1. /\ ProcessInv /\ Down /\ [Next]_vars => Down'
        /\ ProcessInv /\ Ended /\ [Next]_vars => Ended'
    BY StoppingSteps DEF Down, Ended, Stopping
  <1>2. /\ ProcessInv /\ Down /\ [Next]_vars => Ended \/ CanStart
        /\ ProcessInv /\ Down /\ [Next]_vars /\ <<Start>>_vars => Ended'
    BY StoppingSteps, StoppingAhead DEF Down, Ended, Stopping
  <1>. QED BY <1>1, <1>2, ProcessInvariant, PTL DEF Spec, StartScheduled

\* A stop that comes when start() has assigned thread_ ends the server, start()
\* and itself, given that a handler under way returns: none of the threads
\* waits for one that waits for it.
THEOREM StopEnds ==
    Spec /\ StartScheduled /\ ShutdownScheduled /\ StopScheduled
         /\ CallsReturn /\ CallsComeToRest
        => StopEndsService
  <1>1. ProcessInv /\ stop = "requested" /\ ~early => Stopping \/ cause = "port"
    <2>1. ASSUME ProcessInv, stop = "requested", ~early PROVE Stopping \/ cause = "port"
      <3>1. asked
        BY <2>1 DEF ProcessInv, StopInStep
      <3>2. thread # "empty"
        BY <2>1 DEF ProcessInv, StopInStep
      <3>3. start # "none"
        BY <3>2, <2>1 DEF ProcessInv, StartInStep
      <3>4. cause \in {"none", "port"}
        BY <3>3, <2>1 DEF ProcessInv, StartInStep
      <3>. QED BY <2>1, <3>1, <3>4 DEF Stopping
    <2>. QED BY <2>1
  <1>2. Stopped /\ Ended => stop = "returned" /\ start = "returned"
    BY DEF Stopped, Ended
  <1>. QED
    BY <1>1, <1>2, ServerGoesDown, StopReturnsThen, StartReturnsThen, ProcessInvariant, PTL
       DEF StopEndsService

=============================================================================
