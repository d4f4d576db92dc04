--------------------------- MODULE ServiceProcess ---------------------------
(***************************************************************************)
(* One process of the rating, the metadata or the movie service, from its  *)
(* configuration file to the end of its gRPC server.                       *)
(*                                                                         *)
(* A runner reads the file, wires and registers the service and starts it; *)
(* it never stops it.  A test starts the service in a thread of its own,   *)
(* stops it from outside at any time and destroys it.  The three services  *)
(* have this code in common, line for line but for the names of the        *)
(* wiring and for the ingestion of the rating service.                     *)
(***************************************************************************)
EXTENDS Integers

CONSTANTS MaxCalls  \* bound on the calls that a server handles at a time

ASSUME CallsAssumption == MaxCalls \in Nat

VARIABLES kind,        \* which service
          owner,       \* "runner" or "test"
          file,        \* "unnamed", "empty", "bad" or "good"
          lacks,       \* the sections that a good file does not have
          step,        \* what the owner does next
          cause,       \* why the process ended, or "none"
          rootNode,    \* the static YAML tree: "null", "file" or a part of it
          registered,  \* in the registry
          agent,       \* the Consul agent: "unknown", "configured", "default"
          start,       \* where start() is
          server,      \* server_
          thread,      \* thread_
          asked,       \* its stop has been requested
          stop,        \* where stop() is
          calls,       \* gRPC calls in handlers
          ingest,      \* the controller's ingest thread
          early        \* a stop was requested of an empty thread_

setting == <<kind, owner, file, lacks>>
startup == <<rootNode, registered, agent>>
stopping == <<stop, asked, early>>
threads == <<start, server, thread, stopping, calls, ingest>>
process == <<setting, step, cause, startup>>
vars == <<process, threads>>

Kinds == {"rating", "metadata", "movie"}

\* Sections of the file, and those that are read when the controller is
\* resolved: by the repositories, the ingester and the registry of the gateways.
Sections == {"application", "grpc", "logging", "datasource", "kafka", "consul"}
RatingSections == {"datasource", "kafka"}
MetadataSections == {"datasource"}
MovieSections == {"application"}
ControllerSections(k) == CASE k = "rating" -> RatingSections
                           [] k = "metadata" -> MetadataSections
                           [] k = "movie" -> MovieSections

Init ==
    /\ kind \in Kinds
    /\ owner \in {"runner", "test"}
    /\ file \in {"unnamed", "empty", "bad", "good"}
    /\ lacks \in (IF file = "good" THEN SUBSET Sections ELSE {{}})
    /\ step = IF owner = "runner" THEN "options" ELSE "serve"
    /\ cause = "none"
    /\ rootNode = "null"
    /\ registered = FALSE
    /\ agent = "unknown"
    /\ start = "none"
    /\ server = "none"
    /\ thread = "empty"
    /\ asked = FALSE
    /\ stop = "none"
    /\ calls = 0
    /\ ingest = "none"
    /\ early = FALSE

-----------------------------------------------------------------------------
(* The runner, up to the start of the server.  exit(-1) and an exception   *)
(* that nothing catches both end the process.                              *)

Running(s) == cause = "none" /\ step = s

Ends(why) ==
    /\ cause' = why
    /\ UNCHANGED <<setting, step, startup, threads>>

Goes(s) ==
    /\ step' = s
    /\ UNCHANGED <<setting, cause, threads>>

\* get walks down a clone of the tree: assigning to a YAML::Node changes the
\* node that it stands for.
GetNode_WithoutClone(s) == IF s \in lacks THEN rootNode ELSE "part"
GetNode(s) == rootNode

\* get throws without a tree, and when the key is not there.
Found(S) == rootNode = "file" /\ S \cap lacks = {}

ReadsThen(S, next) ==
    /\ Found(S)
    /\ rootNode' \in {GetNode(s) : s \in S}
    /\ Goes(next)
    /\ UNCHANGED <<registered, agent>>

ParseOptions ==
    /\ Running("options")
    /\ IF file = "unnamed"
       THEN Ends("file")
       ELSE Goes("load") /\ UNCHANGED startup

\* Config(""), unlike Config of a file that does not load, throws nothing.
Load == rootNode' = IF file = "good" THEN "file" ELSE "null"

\* The application loads the file, and wires types that are resolved later.
Application ==
    /\ Running("load")
    /\ IF file = "bad"
       THEN Ends("file")
       ELSE /\ Load
            /\ Goes("logger")
            /\ UNCHANGED <<registered, agent>>

InitializeLogger ==
    /\ Running("logger")
    /\ ReadsThen({"logging"}, "names")

ReadNames ==
    /\ Running("names")
    /\ ReadsThen({"application", "grpc"}, "controller")

ResolveController_Lazily ==
    /\ Running("controller")
    /\ Goes("registry") /\ UNCHANGED startup
ResolveController ==
    /\ Running("controller")
    /\ ReadsThen(ControllerSections(kind), "registry")

\* Only the address of the agent has a default.
ResolveRegistry ==
    /\ Running("registry")
    /\ Found({"application"})
    /\ agent' = IF Found({"consul"}) THEN "configured" ELSE "default"
    /\ Goes("register")
    /\ UNCHANGED <<rootNode, registered>>

GetThrows ==
    /\ \/ Running("logger") /\ ~Found({"logging"})
       \/ Running("names") /\ ~Found({"application", "grpc"})
       \/ Running("controller") /\ ~Found(ControllerSections(kind))
       \/ Running("registry") /\ ~Found({"application"})
    /\ Ends("file")

\* The database, the broker or the agent is out of reach.
ConnectThrows ==
    /\ \/ Running("controller") /\ kind # "movie" /\ Found(ControllerSections(kind))
       \/ Running("register")
    /\ Ends("connection")

Register ==
    /\ Running("register")
    /\ registered' = TRUE
    /\ Goes("serve")
    /\ UNCHANGED <<rootNode, agent>>

-----------------------------------------------------------------------------
(* The threads of a service: start(), the thread_ that shuts the server    *)
(* down, the handlers, the owner in stop() and the ingest thread.          *)

Up == cause = "none" /\ step \in {"running", "destroying"}

\* The runner calls start() beside its health_check loop, which never ends.
Serve ==
    /\ Running("serve")
    /\ step' = "running"
    /\ start' = "called"
    /\ UNCHANGED <<setting, cause, startup, server, thread, stopping, calls, ingest>>

\* The rating service has its controller ingest before it has a server.  A
\* controller of the tests may be without an ingester.
StartIngestion ==
    /\ Up /\ start = "called" /\ kind = "rating"
    /\ start' = "build"
    /\ ingest' \in (IF owner = "runner" THEN {"polling"} ELSE {"none", "polling"})
    /\ UNCHANGED <<process, server, thread, stopping, calls>>

\* The server takes calls at once.  There is none when the port is taken.
BuildAndStart ==
    /\ Up /\ start = IF kind = "rating" THEN "build" ELSE "called"
    /\ start' = "assign"
    /\ server' \in {"up", "null"}
    /\ UNCHANGED <<process, thread, stopping, calls, ingest>>

AssignThread ==
    /\ Up /\ start = "assign"
    /\ start' = "wait"
    /\ thread' = "running"
    /\ UNCHANGED <<process, server, stopping, calls, ingest>>

\* Wait() returns when Shutdown() has; the implementation of the service is
\* a local of start().
WaitReturns ==
    /\ Up /\ start = "wait" /\ server = "down"
    /\ start' = "returned"
    /\ UNCHANGED <<process, server, thread, stopping, calls, ingest>>

\* server_->Wait() through the null pointer.
WaitOnNull_Returns ==
    /\ Up /\ start = "wait" /\ server = "null"
    /\ start' = "returned"
    /\ UNCHANGED <<process, server, thread, stopping, calls, ingest>>
WaitOnNull ==
    /\ Up /\ start = "wait" /\ server = "null"
    /\ Ends("port")

ShutdownBegins ==
    /\ Up /\ thread = "running" /\ asked /\ server = "up"
    /\ server' = "draining"
    /\ UNCHANGED <<process, start, thread, stopping, calls, ingest>>

ShutdownOnNull ==
    /\ Up /\ thread = "running" /\ asked /\ server = "null"
    /\ Ends("port")

\* Shutdown() without a deadline waits for the calls that are under way.
ShutdownReturns_CancelsCalls ==
    /\ Up /\ server = "draining"
    /\ server' = "down"
    /\ UNCHANGED <<process, start, thread, stopping, calls, ingest>>
ShutdownReturns ==
    /\ Up /\ server = "draining" /\ calls = 0
    /\ server' = "down"
    /\ UNCHANGED <<process, start, thread, stopping, calls, ingest>>

ThreadEnds ==
    /\ Up /\ thread = "running" /\ server = "down"
    /\ thread' = "done"
    /\ UNCHANGED <<process, start, server, stopping, calls, ingest>>

CallArrives ==
    /\ Up /\ server = "up" /\ calls < MaxCalls
    /\ calls' = calls + 1
    /\ UNCHANGED <<process, start, server, thread, stopping, ingest>>

CallReturns ==
    /\ Up /\ calls > 0
    /\ calls' = calls - 1
    /\ UNCHANGED <<process, start, server, thread, stopping, ingest>>

\* request_stop, joinable and join of stop() are three looks at a thread_ that
\* start() may assign in between.  An empty jthread ignores the request.
RequestStop_AfterJoin ==
    /\ Up /\ owner = "test" /\ stop = "none"
    /\ stop' = "requested"
    /\ asked' = FALSE
    /\ early' = (thread = "empty")
    /\ UNCHANGED <<process, start, server, thread, calls, ingest>>
RequestStop ==
    /\ Up /\ owner = "test" /\ stop = "none"
    /\ stop' = "requested"
    /\ asked' = (thread # "empty")
    /\ early' = (thread = "empty")
    /\ UNCHANGED <<process, start, server, thread, calls, ingest>>

Joinable ==
    /\ Up /\ stop = "requested"
    /\ stop' = IF thread = "empty" THEN "returned" ELSE "joining"
    /\ UNCHANGED <<process, start, server, thread, asked, early, calls, ingest>>

Join_Detaches ==
    /\ Up /\ stop = "joining"
    /\ stop' = "returned"
    /\ UNCHANGED <<process, start, server, thread, asked, early, calls, ingest>>
Join ==
    /\ Up /\ stop = "joining" /\ thread = "done"
    /\ thread' = "joined"
    /\ stop' = "returned"
    /\ UNCHANGED <<process, start, server, asked, early, calls, ingest>>

\* The test joins the thread of start() and lets go of the service, whose
\* destructor stops again, and of its controller, whose destructor stops the
\* ingestion.
Destroy ==
    /\ Up /\ step = "running" /\ stop = "returned" /\ start = "returned"
    /\ step' = "destroying"
    /\ thread' = IF thread = "done" THEN "joined" ELSE thread
    /\ ingest' = IF ingest = "polling" THEN "stopping" ELSE ingest
    /\ UNCHANGED <<setting, cause, startup, start, server, stopping, calls>>

IngestEnds ==
    /\ Up /\ ingest = "stopping"
    /\ ingest' = "over"
    /\ UNCHANGED <<process, start, server, thread, stopping, calls>>

Destroyed ==
    /\ Up /\ step = "destroying" /\ ingest # "stopping"
    /\ step' = "destroyed"
    /\ UNCHANGED <<setting, cause, startup, threads>>

Startup ==
    \/ ParseOptions \/ Application \/ InitializeLogger \/ ReadNames
    \/ ResolveController \/ ResolveRegistry \/ GetThrows \/ ConnectThrows
    \/ Register \/ Serve

Start ==
    \/ StartIngestion \/ BuildAndStart \/ AssignThread \/ WaitReturns \/ WaitOnNull

Shutdown == ShutdownBegins \/ ShutdownOnNull \/ ShutdownReturns \/ ThreadEnds

Stop == Joinable \/ Join \/ Destroy \/ Destroyed

Next ==
    \/ Startup \/ Start \/ Shutdown \/ Stop
    \/ CallArrives \/ CallReturns \/ RequestStop \/ IngestEnds

Spec == Init /\ [][Next]_vars

\* The threads are scheduled, and a call that is handled ends.
FairSpec ==
    /\ Spec
    /\ WF_vars(Start) /\ WF_vars(Shutdown) /\ WF_vars(Stop)
    /\ WF_vars(CallReturns) /\ WF_vars(IngestEnds)

-----------------------------------------------------------------------------
\* The types of the process's state.  The tree of the configuration is never
\* replaced by a part of it.
TypeOK ==
    /\ kind \in Kinds /\ owner \in {"runner", "test"}
    /\ file \in {"unnamed", "empty", "bad", "good"} /\ lacks \subseteq Sections
    /\ step \in {"options", "load", "logger", "names", "controller", "registry",
                 "register", "serve", "running", "destroying", "destroyed"}
    /\ cause \in {"none", "file", "connection", "port"}
    /\ rootNode \in {"null", "file"}
    /\ registered \in BOOLEAN
    /\ agent \in {"unknown", "configured", "default"}
    /\ start \in {"none", "called", "build", "assign", "wait", "returned"}
    /\ server \in {"none", "null", "up", "draining", "down"}
    /\ thread \in {"empty", "running", "done", "joined"}
    /\ asked \in BOOLEAN
    /\ stop \in {"none", "requested", "joining", "returned"}
    /\ calls \in 0..MaxCalls
    /\ ingest \in {"none", "polling", "stopping", "over"}
    /\ early \in BOOLEAN

\* The sections without which a service does not start.
Needed(k) == {"application", "grpc", "logging"} \cup ControllerSections(k)

\* A service is registered only when all that it reads from its file was
\* there.  The address of the agent alone may be missing.
RegisteredIsConfigured ==
    registered => /\ file = "good"
                  /\ Needed(kind) \cap lacks = {}
                  /\ agent = "default" <=> "consul" \in lacks

\* The process blames the file only for what the file lacks: one get does
\* not disturb the next.
BlamesTheFile ==
    cause = "file" => file # "good" \/ Needed(kind) \cap lacks # {}

\* No handler runs when start() has returned and the implementation of the
\* service, a local of start(), is gone.
HandlersWithinStart ==
    calls > 0 => start \in {"assign", "wait"}

\* What the shutdown thread and the ingest thread refer to, the service and
\* the controller, is not destroyed before them.
ObjectsOutliveThreads ==
    step = "destroyed" => /\ thread = "joined"
                          /\ server = "down" /\ calls = 0
                          /\ ingest \in {"none", "over"}

\* A stop that comes when start() has assigned thread_ ends the server, and
\* both start() and stop() return, unless the process crashes on its null server.
StopEndsService ==
    (stop = "requested" /\ ~early)
        ~> ((stop = "returned" /\ start = "returned") \/ cause = "port")

\* A process that got no server does not stay up, listed and reporting.
NoServerNoProcess == (server = "null") ~> (cause = "port")

=============================================================================
