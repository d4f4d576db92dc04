----------------------------- MODULE Discovery -----------------------------
(***************************************************************************)
(* Service discovery in production: the runners of the services register   *)
(* with a Consul agent under an id made of their name and the second of    *)
(* their start, report their health in a loop, and serve; a client looks   *)
(* the addresses of a service up with two reads of the agent.              *)
(*                                                                         *)
(* The agent is external: it keeps services and, for each, a TTL check     *)
(* that turns critical when no report came for TTL seconds.                *)
(***************************************************************************)
EXTENDS Integers

CONSTANTS Instances,  \* processes that run a service, on a host with a port each
          Names,      \* names of services
          NameOf,     \* the service that an instance runs
          TTL,        \* seconds that a report keeps a check passing
          Period,     \* seconds between two reports of an instance
          MaxSecond,  \* bound on the seconds in which instances start
          None        \* no id, no address

ASSUME DiscoveryAssumption ==
    /\ NameOf \in [Instances -> Names]
    /\ TTL \in Nat /\ Period \in Nat
    /\ 0 < Period /\ Period < TTL
    /\ MaxSecond \in Nat
    /\ None \notin Instances

VARIABLES second,     \* the clock, up to MaxSecond
          proc,       \* "down", "registered" or "serving"
          id,         \* the service id of an instance
          beat,       \* its health_check coroutine: "off", "on", "dead"
          since,      \* seconds since its last report, at most TTL
          services,   \* agent: the address registered under an id
          check,      \* agent: "none", "critical" or "passing"
          age,        \* agent: seconds since the report that a check passes by
          client,     \* the name that a client is looking up
          read,       \* the services that the client has read
          answer,     \* what ServiceAddress last returned
          users,      \* the instances that ever registered under an id
          recent,     \* instances that registered since a client's first read
          healthy     \* instances in good health ever since that read

agentVars == <<services, check, age>>
procVars == <<proc, id, beat, since>>
clientVars == <<client, read, answer>>
notes == <<users, recent, healthy>>
vars == <<second, procVars, agentVars, clientVars, notes>>

Ids == [name : Names, second : 0..MaxSecond]

NoAnswer == [kind |-> "none", addresses |-> {}]

Init ==
    /\ second = 0
    /\ proc = [i \in Instances |-> "down"]
    /\ id = [i \in Instances |-> None]
    /\ beat = [i \in Instances |-> "off"]
    /\ since = [i \in Instances |-> TTL]
    /\ services = [d \in Ids |-> None]
    /\ check = [d \in Ids |-> "none"]
    /\ age = [d \in Ids |-> 0]
    /\ client = None
    /\ read = [d \in Ids |-> None]
    /\ answer = NoAnswer
    /\ users = [d \in Ids |-> {}]
    /\ recent = {}
    /\ healthy = {}

-----------------------------------------------------------------------------
(* The runner of an instance.                                              *)

\* GenerateServiceID seeds rand() with the current second and takes one
\* number: the id is a function of the name and that second.
GenerateServiceID(i) == [name |-> NameOf[i], second |-> second]

\* Registration comes before the server is up.  An id that is registered
\* already is taken over.  Only the port is registered: an entry leads to the
\* instance because all run on the agent's host, each on a port of its own.
StartAndRegister(i) ==
    /\ proc[i] = "down"
    /\ second < MaxSecond
    /\ LET d == GenerateServiceID(i)
       IN  /\ id' = [id EXCEPT ![i] = d]
           /\ services' = [services EXCEPT ![d] = i]
           /\ check' = [check EXCEPT ![d] = "critical"]
           /\ age' = [age EXCEPT ![d] = 0]
           /\ users' = [users EXCEPT ![d] = @ \cup {i}]
    /\ proc' = [proc EXCEPT ![i] = "registered"]
    /\ beat' = [beat EXCEPT ![i] = "on"]
    /\ since' = [since EXCEPT ![i] = 0]
    /\ recent' = IF client = None THEN {} ELSE recent \cup {i}
    /\ healthy' = {j \in healthy : id[j] # GenerateServiceID(i)}
    /\ UNCHANGED <<second, clientVars>>

\* server->start(addr) listens.
Serve(i) ==
    /\ proc[i] = "registered"
    /\ proc' = [proc EXCEPT ![i] = "serving"]
    /\ UNCHANGED <<second, id, beat, since, agentVars, clientVars, notes>>

\* One turn of the health_check loop: servicePass.
ReportHealthyState_SkipsPassing(i) ==
    /\ beat[i] = "on"
    /\ services[id[i]] # None
    /\ check' = [check EXCEPT ![id[i]] = "passing"]
    /\ age' = [age EXCEPT ![id[i]] = IF check[id[i]] = "passing" THEN @ ELSE 0]
    /\ since' = [since EXCEPT ![i] = 0]
    /\ UNCHANGED <<second, proc, id, beat, services, clientVars, notes>>
ReportHealthyState(i) ==
    /\ beat[i] = "on"
    /\ services[id[i]] # None
    /\ check' = [check EXCEPT ![id[i]] = "passing"]
    /\ age' = [age EXCEPT ![id[i]] = 0]
    /\ since' = [since EXCEPT ![i] = 0]
    /\ UNCHANGED <<second, proc, id, beat, services, clientVars, notes>>

\* servicePass throws: the agent is out of reach, or does not know the id.
\* The exception ends the coroutine of the loop, and when_all keeps it until
\* the server ends too.
ReportFails(i) ==
    /\ beat[i] = "on"
    /\ beat' = [beat EXCEPT ![i] = "dead"]
    /\ healthy' = healthy \ {i}
    /\ UNCHANGED <<second, proc, id, since, agentVars, clientVars, users, recent>>

\* The process ends, at any time.  No runner deregisters.
Crash_KeepsBeating(i) ==
    /\ proc[i] # "down"
    /\ proc' = [proc EXCEPT ![i] = "down"]
    /\ healthy' = healthy \ {i}
    /\ UNCHANGED <<second, id, beat, since, agentVars, clientVars, users, recent>>
Crash(i) ==
    /\ proc[i] # "down"
    /\ proc' = [proc EXCEPT ![i] = "down"]
    /\ beat' = [beat EXCEPT ![i] = "off"]
    /\ healthy' = healthy \ {i}
    /\ UNCHANGED <<second, id, since, agentVars, clientVars, users, recent>>

-----------------------------------------------------------------------------
(* The agent and the passing of time.                                      *)

\* A loop that is on makes its report within Period.
Tick ==
    /\ \A i \in Instances : beat[i] = "on" => since[i] < Period
    /\ second' = IF second < MaxSecond THEN second + 1 ELSE second
    /\ since' = [i \in Instances |-> IF since[i] < TTL THEN since[i] + 1 ELSE TTL]
    /\ age' = [d \in Ids |-> IF check[d] = "passing" /\ age[d] + 1 < TTL
                            THEN age[d] + 1 ELSE 0]
    /\ check' = [d \in Ids |-> IF check[d] = "passing" /\ age[d] + 1 >= TTL
                              THEN "critical" ELSE check[d]]
    /\ UNCHANGED <<proc, id, beat, services, clientVars, notes>>

\* The agent restarts without what it knew.
AgentForgets ==
    /\ \E d \in Ids : services[d] # None
    /\ services' = [d \in Ids |-> None]
    /\ check' = [d \in Ids |-> "none"]
    /\ age' = [d \in Ids |-> 0]
    /\ healthy' = {}
    /\ UNCHANGED <<second, procVars, clientVars, users, recent>>

-----------------------------------------------------------------------------
(* ConsulRegistry::ServiceAddress: agent_->services(), agent_->checks(),   *)
(* and the addresses of the checks of the name that pass.                  *)

ReadServices(n) ==
    /\ client = None
    /\ client' = n
    /\ read' = services
    /\ answer' = NoAnswer
    /\ recent' = {}
    /\ healthy' = {i \in Instances : /\ NameOf[i] = n
                                     /\ beat[i] = "on"
                                     /\ check[id[i]] = "passing"
                                     /\ users[id[i]] = {i}}
    /\ UNCHANGED <<second, procVars, agentVars, users>>

\* services.at throws for a check whose service the first read missed.
AnswerFor_FirstOnly(n, srv, chk) ==
    LET passing == {d \in Ids : d.name = n /\ chk[d] = "passing"}
        first   == CHOOSE d \in passing : TRUE
    IN  [kind |-> IF passing = {} THEN "unexpected"
                  ELSE IF srv[first] = None THEN "throws" ELSE "addresses",
         addresses |-> IF passing = {} \/ srv[first] = None THEN {} ELSE {srv[first]}]
AnswerFor_LooksUpAll(n, srv, chk) ==
    LET ofName  == {d \in Ids : d.name = n /\ chk[d] # "none"}
        passing == {d \in ofName : chk[d] = "passing"}
        throws  == \E d \in ofName : srv[d] = None
    IN  [kind |-> IF throws THEN "throws"
                  ELSE IF passing = {} THEN "unexpected" ELSE "addresses",
         addresses |-> IF throws THEN {} ELSE {srv[d] : d \in passing}]
AnswerFor_SkipsUnknown(n, srv, chk) ==
    LET known == {d \in Ids : d.name = n /\ chk[d] = "passing" /\ srv[d] # None}
    IN  [kind |-> IF known = {} THEN "unexpected" ELSE "addresses",
         addresses |-> {srv[d] : d \in known}]
AnswerFor(n, srv, chk) ==
    LET passing == {d \in Ids : d.name = n /\ chk[d] = "passing"}
    IN  [kind |-> IF passing = {} THEN "unexpected"
                  ELSE IF \E d \in passing : srv[d] = None THEN "throws"
                  ELSE "addresses",
         addresses |-> IF \E d \in passing : srv[d] = None THEN {}
                       ELSE {srv[d] : d \in passing}]

ReadChecks_IgnoresStatus ==
    /\ client # None
    /\ answer' = AnswerFor(client, read, [d \in Ids |-> IF check[d] = "none" THEN "none"
                                                        ELSE "passing"])
    /\ client' = None
    /\ read' = [d \in Ids |-> None]
    /\ recent' = {}
    /\ healthy' = {}
    /\ UNCHANGED <<second, procVars, agentVars, users>>
ReadChecks ==
    /\ client # None
    /\ answer' = AnswerFor(client, read, check)
    /\ client' = None
    /\ read' = [d \in Ids |-> None]
    /\ recent' = {}
    /\ healthy' = {}
    /\ UNCHANGED <<second, procVars, agentVars, users>>

\* One of the two requests fails.
ReadFails ==
    /\ client # None
    /\ answer' = [kind |-> "fails", addresses |-> {}]
    /\ client' = None
    /\ read' = [d \in Ids |-> None]
    /\ recent' = {}
    /\ healthy' = {}
    /\ UNCHANGED <<second, procVars, agentVars, users>>

Next ==
    \/ \E i \in Instances : \/ StartAndRegister(i)
                            \/ Serve(i)
                            \/ ReportHealthyState(i)
                            \/ ReportFails(i)
                            \/ Crash(i)
    \/ Tick
    \/ AgentForgets
    \/ \E n \in Names : ReadServices(n)
    \/ ReadChecks
    \/ ReadFails

Spec == Init /\ [][Next]_vars

\* Time passes, and the thread pool runs the health_check loops.
FairSpec ==
    /\ Spec
    /\ WF_vars(Tick)
    /\ \A i \in Instances : WF_vars(ReportHealthyState(i) \/ ReportFails(i))

-----------------------------------------------------------------------------
\* The types of the instances', the agent's and the client's state.
TypeOK ==
    /\ second \in 0..MaxSecond
    /\ proc \in [Instances -> {"down", "registered", "serving"}]
    /\ id \in [Instances -> Ids \cup {None}]
    /\ beat \in [Instances -> {"off", "on", "dead"}]
    /\ since \in [Instances -> 0..TTL]
    /\ services \in [Ids -> Instances \cup {None}]
    /\ check \in [Ids -> {"none", "critical", "passing"}]
    /\ age \in [Ids -> 0..(TTL - 1)]
    /\ client \in Names \cup {None}
    /\ read \in [Ids -> Instances \cup {None}]
    /\ answer \in [kind : {"none", "unexpected", "throws", "fails", "addresses"},
                   addresses : SUBSET Instances]
    /\ users \in [Ids -> SUBSET Instances]
    /\ recent \subseteq Instances
    /\ healthy \subseteq Instances

\* The check of an instance whose loop runs does not expire, however its
\* reports and the seconds fall, and also when it shares its id.
BeatingStaysPassing ==
    [][\A i \in Instances :
            beat[i] = "on" /\ check[id[i]] = "passing" /\ Tick
                => check'[id[i]] = "passing"]_vars

\* An address that ServiceAddress returns is of an instance that started or
\* reported within the last TTL seconds, unless another instance had its id.
\* The services were read before the checks, and the instance may have died
\* or come back between the two.
AddressIsFresh ==
    [][ReadChecks => \A i \in answer'.addresses :
            \/ since[i] < TTL
            \/ \E d \in Ids : i \in users[d] /\ users[d] # {i}]_vars

\* An instance that reports in time from before the first read until the
\* second is found, unless the lookup throws.
HealthyIsFound ==
    [][ReadChecks => \A i \in healthy :
            i \in answer'.addresses \/ answer'.kind = "throws"]_vars

\* ServiceAddress throws only for an instance that registered, under an id
\* new to the client, and reported between the two reads.
ThrowsOnlyOnRace ==
    [][ReadChecks /\ answer'.kind = "throws" =>
            \E i \in recent, d \in Ids :
                i \in users[d] /\ read[d] = None /\ check[d] = "passing"]_vars

\* A service that stays down is not among the passing ones for ever.
DownExpires ==
    \A i \in Instances :
        <>[](proc[i] = "down") =>
            <>[](\A d \in Ids : users[d] = {i} => check[d] # "passing")

-----------------------------------------------------------------------------
(* The registry that clients see.                                          *)

Running == {i \in Instances : proc[i] # "down"}
Passing == {d \in Ids : check[d] = "passing"}
Listing == {services[d] : d \in Passing}
Shared == {i \in Instances : \E d \in Ids : i \in users[d] /\ users[d] # {i}}

Registry == INSTANCE ServiceRegistry WITH
    running <- Running, listed <- Listing, shared <- Shared, lookup <- answer

\* Discovery is a list of instances that run, or ran a while ago, and a lookup
\* sees it at one moment, although it reads the services and then their checks
\* while both change.
RegistrySpec == Registry!Spec

=============================================================================
