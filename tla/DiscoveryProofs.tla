--------------------------- MODULE DiscoveryProofs ---------------------------
(***************************************************************************)
(* What a lookup finds, which checks expire, and that both are those of    *)
(* ServiceRegistry, for any number of services and instances and any       *)
(* times, whatever the agent forgets: the proofs.                          *)
(***************************************************************************)
EXTENDS Discovery, FiniteDescent, FiniteSetTheorems, TLAPS

\* An instance whose loop runs has registered under an id of its name.
BeatingIsKnown ==
    \A i \in Instances : beat[i] = "on" =>
        /\ proc[i] # "down"
        /\ id[i] \in Ids /\ id[i].name = NameOf[i]
        /\ i \in users[id[i]]

\* A check is renewed by each report of an instance, and by those of the
\* instances that share the id.
BeatInStep ==
    \A i \in Instances : beat[i] = "on" /\ check[id[i]] = "passing" => age[id[i]] <= since[i]

\* With an id of its own, an instance has reported when its check was renewed.
PassingIsRecent ==
    \A d \in Ids, i \in Instances :
        users[d] = {i} /\ check[d] = "passing" => since[i] <= age[d]

\* The agent has a check for each service, and addresses of instances that
\* registered them.
RegisteredIsUsed ==
    \A d \in Ids : /\ services[d] = None <=> check[d] = "none"
                   /\ services[d] # None => services[d] \in users[d]

\* An id is shared only by instances of one service.
UsersOfName == \A d \in Ids : \A i \in users[d] : NameOf[i] = d.name

ReadIsUsed == \A d \in Ids : read[d] # None => read[d] \in users[d]

\* What a client has missed was registered after it read.
UnreadIsRecent ==
    client # None =>
        \A d \in Ids : read[d] = None /\ check[d] # "none" => \E i \in recent : i \in users[d]

HealthyIsKnown ==
    \A i \in healthy : /\ beat[i] = "on" /\ NameOf[i] = client
                       /\ check[id[i]] = "passing"
                       /\ users[id[i]] = {i}

AgentInv ==
    BeatingIsKnown /\ BeatInStep /\ PassingIsRecent /\ RegisteredIsUsed /\ UsersOfName
ClientInv == ReadIsUsed /\ UnreadIsRecent /\ HealthyIsKnown

DiscoveryInv == TypeOK /\ AgentInv /\ ClientInv

USE DiscoveryAssumption

LEMMA InitInv == Init => DiscoveryInv
<1> SUFFICES ASSUME Init PROVE DiscoveryInv
  OBVIOUS
<1>1. TypeOK
  BY DEF Init, TypeOK, NoAnswer
<1>2. AgentInv /\ ClientInv
  BY DEF Init, AgentInv, ClientInv, BeatingIsKnown, BeatInStep, PassingIsRecent,
         RegisteredIsUsed, UsersOfName, ReadIsUsed, UnreadIsRecent, HealthyIsKnown
<1> QED
  BY <1>1, <1>2 DEF DiscoveryInv

\* An id is of the name of the instance and of a second that the clock shows.
LEMMA IdOfInstance ==
    ASSUME TypeOK, NEW i \in Instances
    PROVE  GenerateServiceID(i) \in Ids /\ GenerateServiceID(i).name = NameOf[i]
BY DEF TypeOK, GenerateServiceID, Ids

-----------------------------------------------------------------------------
LEMMA StartStep ==
    ASSUME DiscoveryInv, NEW i \in Instances, StartAndRegister(i)
    PROVE  DiscoveryInv'
<1> DEFINE d == GenerateServiceID(i)
<1>1. d \in Ids /\ d.name = NameOf[i]
  BY IdOfInstance DEF DiscoveryInv
<1>2. /\ proc[i] = "down"
      /\ id' = [id EXCEPT ![i] = d]
      /\ services' = [services EXCEPT ![d] = i]
      /\ check' = [check EXCEPT ![d] = "critical"]
      /\ age' = [age EXCEPT ![d] = 0]
      /\ users' = [users EXCEPT ![d] = users[d] \cup {i}]
      /\ proc' = [proc EXCEPT ![i] = "registered"]
      /\ beat' = [beat EXCEPT ![i] = "on"]
      /\ since' = [since EXCEPT ![i] = 0]
      /\ recent' = IF client = None THEN {} ELSE recent \cup {i}
      /\ healthy' = {j \in healthy : id[j] # d}
      /\ UNCHANGED <<second, client, read, answer>>
  BY DEF StartAndRegister, clientVars
<1> HIDE DEF d
<1>3. TypeOK
  BY DEF DiscoveryInv
<1>4. TypeOK'
  BY <1>1, <1>2, <1>3 DEF TypeOK
<1>5. \A e \in Ids : users[e] \subseteq users'[e]
  BY <1>1, <1>2, <1>3 DEF TypeOK
<1>6. BeatingIsKnown'
  BY <1>1, <1>2, <1>3, <1>5 DEF TypeOK, DiscoveryInv, AgentInv, BeatingIsKnown
<1>7. BeatInStep'
  BY <1>1, <1>2, <1>3 DEF TypeOK, DiscoveryInv, AgentInv, BeatingIsKnown, BeatInStep
<1>8. PassingIsRecent'
  <2> SUFFICES ASSUME NEW e \in Ids, NEW j \in Instances,
                      users'[e] = {j}, check'[e] = "passing"
               PROVE  since'[j] <= age'[e]
    BY DEF PassingIsRecent
  <2>1. e # d /\ users[e] = {j} /\ check[e] = "passing" /\ age'[e] = age[e]
    BY <1>1, <1>2, <1>3 DEF TypeOK
  <2>2. since[j] <= age[e]
    BY <2>1 DEF DiscoveryInv, AgentInv, PassingIsRecent
  <2> QED
    BY <1>2, <1>3, <2>1, <2>2 DEF TypeOK
<1>9. RegisteredIsUsed'
  BY <1>1, <1>2, <1>3, <1>5 DEF TypeOK, DiscoveryInv, AgentInv, RegisteredIsUsed
<1>10. ReadIsUsed'
  BY <1>2, <1>5 DEF DiscoveryInv, ClientInv, ReadIsUsed
<1>11. UnreadIsRecent'
  <2> SUFFICES ASSUME client # None, NEW e \in Ids, read[e] = None, check'[e] # "none"
               PROVE  \E j \in recent' : j \in users'[e]
    BY <1>2 DEF UnreadIsRecent
  <2>1. recent' = recent \cup {i}
    BY <1>2
  <2>2. CASE e = d
    BY <1>1, <1>2, <1>3, <2>1, <2>2 DEF TypeOK
  <2>3. CASE e # d
    <3>1. check[e] # "none"
      BY <1>1, <1>2, <1>3, <2>3 DEF TypeOK
    <3>2. PICK j \in recent : j \in users[e]
      BY <3>1 DEF DiscoveryInv, ClientInv, UnreadIsRecent
    <3> QED
      BY <1>5, <2>1, <3>2
  <2> QED
    BY <2>2, <2>3
<1>12. HealthyIsKnown'
  <2> SUFFICES ASSUME NEW j \in healthy, id[j] # d
               PROVE  /\ beat'[j] = "on" /\ NameOf[j] = client
                      /\ check'[id'[j]] = "passing" /\ users'[id'[j]] = {j}
    BY <1>2 DEF HealthyIsKnown
  <2>1. /\ beat[j] = "on" /\ NameOf[j] = client
        /\ check[id[j]] = "passing" /\ users[id[j]] = {j}
    BY DEF DiscoveryInv, ClientInv, HealthyIsKnown
  <2>2. j \in Instances /\ j # i /\ id[j] \in Ids
    BY <1>2, <1>3, <2>1 DEF TypeOK, DiscoveryInv, AgentInv, BeatingIsKnown
  <2> QED
    BY <1>1, <1>2, <1>3, <2>1, <2>2 DEF TypeOK
<1>13. UsersOfName'
  BY <1>1, <1>2, <1>3 DEF TypeOK, DiscoveryInv, AgentInv, UsersOfName
<1> QED
  BY <1>4, <1>6, <1>7, <1>8, <1>9, <1>10, <1>11, <1>12, <1>13
     DEF DiscoveryInv, AgentInv, ClientInv

LEMMA ReportStep ==
    ASSUME DiscoveryInv, NEW i \in Instances, ReportHealthyState(i)
    PROVE  DiscoveryInv'
<1>1. /\ beat[i] = "on"
      /\ services[id[i]] # None
      /\ check' = [check EXCEPT ![id[i]] = "passing"]
      /\ age' = [age EXCEPT ![id[i]] = 0]
      /\ since' = [since EXCEPT ![i] = 0]
      /\ UNCHANGED <<second, proc, id, beat, services, client, read, answer,
                     users, recent, healthy>>
  BY DEF ReportHealthyState, clientVars, notes
<1>2. TypeOK
  BY DEF DiscoveryInv
<1>3. id[i] \in Ids /\ i \in users[id[i]]
  BY <1>1 DEF DiscoveryInv, AgentInv, BeatingIsKnown
<1>4. TypeOK'
  BY <1>1, <1>2, <1>3 DEF TypeOK
<1>5. BeatingIsKnown'
  BY <1>1 DEF DiscoveryInv, AgentInv, BeatingIsKnown
<1>6. BeatInStep'
  BY <1>1, <1>2, <1>3 DEF TypeOK, DiscoveryInv, AgentInv, BeatingIsKnown, BeatInStep
<1>7. PassingIsRecent'
  BY <1>1, <1>2, <1>3 DEF TypeOK, DiscoveryInv, AgentInv, PassingIsRecent
<1>8. RegisteredIsUsed' /\ UsersOfName'
  BY <1>1, <1>2, <1>3 DEF TypeOK, DiscoveryInv, AgentInv, RegisteredIsUsed, UsersOfName
<1>9. check[id[i]] # "none"
  BY <1>1, <1>3 DEF DiscoveryInv, AgentInv, RegisteredIsUsed
<1>10. ReadIsUsed' /\ UnreadIsRecent'
  BY <1>1, <1>2, <1>9 DEF TypeOK, DiscoveryInv, ClientInv, ReadIsUsed, UnreadIsRecent
<1>11. HealthyIsKnown'
  BY <1>1, <1>2 DEF TypeOK, DiscoveryInv, ClientInv, HealthyIsKnown
<1> QED
  BY <1>4, <1>5, <1>6, <1>7, <1>8, <1>10, <1>11 DEF DiscoveryInv, AgentInv, ClientInv

\* The loops and processes that go on, and end, without the agent.
LEMMA RunnerStep ==
    ASSUME DiscoveryInv, NEW i \in Instances, Serve(i) \/ ReportFails(i) \/ Crash(i)
    PROVE  DiscoveryInv'
<1>1. /\ UNCHANGED <<second, id, since, services, check, age, client, read, answer,
                     users, recent>>
      /\ healthy' \subseteq healthy
      /\ \/ /\ proc' = [proc EXCEPT ![i] = "serving"]
            /\ UNCHANGED beat
         \/ /\ beat' \in {[beat EXCEPT ![i] = "dead"], [beat EXCEPT ![i] = "off"]}
            /\ proc' \in {proc, [proc EXCEPT ![i] = "down"]}
            /\ healthy' = healthy \ {i}
  BY DEF Serve, ReportFails, Crash, agentVars, clientVars, notes
<1>2. TypeOK
  BY DEF DiscoveryInv
<1>3. TypeOK'
  BY <1>1, <1>2 DEF TypeOK
<1>4. \A j \in Instances : beat'[j] = "on" =>
          beat[j] = "on" /\ (proc[j] # "down" => proc'[j] # "down")
  BY <1>1, <1>2 DEF TypeOK
<1>5. BeatingIsKnown' /\ BeatInStep'
  BY <1>1, <1>4 DEF DiscoveryInv, AgentInv, BeatingIsKnown, BeatInStep
<1>6. /\ PassingIsRecent' /\ RegisteredIsUsed' /\ UsersOfName'
      /\ ReadIsUsed' /\ UnreadIsRecent'
  BY <1>1 DEF DiscoveryInv, AgentInv, ClientInv, PassingIsRecent, RegisteredIsUsed,
              UsersOfName, ReadIsUsed, UnreadIsRecent
<1>7. \A j \in healthy' : beat'[j] = beat[j]
  BY <1>1, <1>2 DEF TypeOK
<1>8. HealthyIsKnown'
  BY <1>1, <1>7 DEF DiscoveryInv, ClientInv, HealthyIsKnown
<1> QED
  BY <1>3, <1>5, <1>6, <1>8 DEF DiscoveryInv, AgentInv, ClientInv

-----------------------------------------------------------------------------
\* A check that an instance keeps up lives through a second, because reports
\* are due before it expires.
LEMMA BeatOutlivesTick ==
    ASSUME DiscoveryInv, Tick, NEW i \in Instances,
           beat[i] = "on", check[id[i]] = "passing"
    PROVE  check'[id[i]] = "passing" /\ age'[id[i]] = age[id[i]] + 1 /\ since'[i] = since[i] + 1
<1>1. /\ since[i] \in Nat /\ since[i] < Period
      /\ age[id[i]] <= since[i]
      /\ id[i] \in Ids /\ age[id[i]] \in Nat
  BY DEF DiscoveryInv, TypeOK, AgentInv, BeatingIsKnown, BeatInStep, Tick
<1>2. age[id[i]] + 1 < TTL /\ since[i] < TTL
  BY <1>1
<1> QED
  BY <1>1, <1>2 DEF Tick

LEMMA TickStep ==
    ASSUME DiscoveryInv, Tick
    PROVE  DiscoveryInv'
<1>1. /\ since' = [j \in Instances |-> IF since[j] < TTL THEN since[j] + 1 ELSE TTL]
      /\ age' = [d \in Ids |-> IF check[d] = "passing" /\ age[d] + 1 < TTL
                              THEN age[d] + 1 ELSE 0]
      /\ check' = [d \in Ids |-> IF check[d] = "passing" /\ age[d] + 1 >= TTL
                                THEN "critical" ELSE check[d]]
      /\ second' = IF second < MaxSecond THEN second + 1 ELSE second
      /\ UNCHANGED <<proc, id, beat, services, client, read, answer, users, recent, healthy>>
  BY DEF Tick, clientVars, notes
<1>2. TypeOK
  BY DEF DiscoveryInv
<1>3. TypeOK'
  <2>1. second' \in 0..MaxSecond
    BY <1>1, <1>2 DEF TypeOK
  <2>2. since' \in [Instances -> 0..TTL]
    BY <1>1, <1>2 DEF TypeOK
  <2>3. age' \in [Ids -> 0..(TTL - 1)]
    BY <1>1, <1>2 DEF TypeOK
  <2>4. check' \in [Ids -> {"none", "critical", "passing"}]
    BY <1>1, <1>2 DEF TypeOK
  <2> QED
    BY <1>1, <1>2, <2>1, <2>2, <2>3, <2>4 DEF TypeOK
<1>4. \A d \in Ids : /\ check'[d] = "passing" =>
                          check[d] = "passing" /\ age'[d] = age[d] + 1
                     /\ check'[d] = "none" <=> check[d] = "none"
  BY <1>1, <1>2 DEF TypeOK
<1>5. BeatingIsKnown'
  BY <1>1 DEF DiscoveryInv, AgentInv, BeatingIsKnown
<1>6. BeatInStep'
  <2> SUFFICES ASSUME NEW j \in Instances, beat[j] = "on", check'[id[j]] = "passing"
               PROVE  age'[id[j]] <= since'[j]
    BY <1>1 DEF BeatInStep
  <2>1. id[j] \in Ids /\ check[id[j]] = "passing"
    BY <1>4 DEF DiscoveryInv, AgentInv, BeatingIsKnown
  <2>2. age'[id[j]] = age[id[j]] + 1 /\ since'[j] = since[j] + 1
    BY <2>1, BeatOutlivesTick
  <2> QED
    BY <1>2, <2>1, <2>2 DEF TypeOK, DiscoveryInv, AgentInv, BeatInStep
<1>7. PassingIsRecent'
  <2> SUFFICES ASSUME NEW d \in Ids, NEW j \in Instances,
                      users[d] = {j}, check'[d] = "passing"
               PROVE  since'[j] <= age'[d]
    BY <1>1 DEF PassingIsRecent
  <2>1. since[j] <= age[d] /\ age'[d] = age[d] + 1
    BY <1>4 DEF DiscoveryInv, AgentInv, PassingIsRecent
  <2> QED
    BY <1>1, <1>2, <2>1 DEF TypeOK
<1>8. RegisteredIsUsed' /\ UsersOfName' /\ ReadIsUsed' /\ UnreadIsRecent'
  BY <1>1, <1>4 DEF DiscoveryInv, AgentInv, ClientInv, RegisteredIsUsed, UsersOfName,
                    ReadIsUsed, UnreadIsRecent
<1>9. HealthyIsKnown'
  <2> SUFFICES ASSUME NEW j \in healthy PROVE check'[id[j]] = "passing"
    BY <1>1 DEF DiscoveryInv, ClientInv, HealthyIsKnown
  <2>1. j \in Instances /\ beat[j] = "on" /\ check[id[j]] = "passing"
    BY <1>2 DEF TypeOK, DiscoveryInv, ClientInv, HealthyIsKnown
  <2> QED
    BY <2>1, BeatOutlivesTick
<1> QED
  BY <1>3, <1>5, <1>6, <1>7, <1>8, <1>9 DEF DiscoveryInv, AgentInv, ClientInv

LEMMA ForgetStep ==
    ASSUME DiscoveryInv, AgentForgets
    PROVE  DiscoveryInv'
<1>1. /\ services' = [d \in Ids |-> None]
      /\ check' = [d \in Ids |-> "none"]
      /\ age' = [d \in Ids |-> 0]
      /\ healthy' = {}
      /\ UNCHANGED <<second, proc, id, beat, since, client, read, answer, users, recent>>
  BY DEF AgentForgets, procVars, clientVars
<1>2. TypeOK'
  BY <1>1 DEF DiscoveryInv, TypeOK
<1>3. BeatingIsKnown' /\ BeatInStep'
  BY <1>1 DEF DiscoveryInv, AgentInv, BeatingIsKnown, BeatInStep
<1>4. /\ PassingIsRecent' /\ RegisteredIsUsed' /\ UsersOfName'
      /\ ReadIsUsed' /\ UnreadIsRecent' /\ HealthyIsKnown'
  BY <1>1 DEF DiscoveryInv, AgentInv, ClientInv, PassingIsRecent, RegisteredIsUsed,
              UsersOfName, ReadIsUsed, UnreadIsRecent, HealthyIsKnown
<1> QED
  BY <1>2, <1>3, <1>4 DEF DiscoveryInv, AgentInv, ClientInv

-----------------------------------------------------------------------------
LEMMA ReadServicesStep ==
    ASSUME DiscoveryInv, NEW n \in Names, ReadServices(n)
    PROVE  DiscoveryInv'
<1>1. /\ client' = n /\ read' = services /\ answer' = NoAnswer /\ recent' = {}
      /\ healthy' = {i \in Instances : /\ NameOf[i] = n
                                       /\ beat[i] = "on"
                                       /\ check[id[i]] = "passing"
                                       /\ users[id[i]] = {i}}
      /\ UNCHANGED <<second, proc, id, beat, since, services, check, age, users>>
  BY DEF ReadServices, procVars, agentVars
<1>2. TypeOK'
  BY <1>1 DEF DiscoveryInv, TypeOK, NoAnswer
<1>3. AgentInv'
  BY <1>1 DEF DiscoveryInv, AgentInv, BeatingIsKnown, BeatInStep, PassingIsRecent,
              RegisteredIsUsed, UsersOfName
<1>4. ClientInv'
  BY <1>1 DEF DiscoveryInv, AgentInv, ClientInv, RegisteredIsUsed, ReadIsUsed,
              UnreadIsRecent, HealthyIsKnown
<1> QED
  BY <1>2, <1>3, <1>4 DEF DiscoveryInv

\* The answer of a lookup: what was read of the passing checks.
LEMMA AnswerType ==
    ASSUME TypeOK
    PROVE  AnswerFor(client, read, check) \in
               [kind : {"none", "unexpected", "throws", "fails", "addresses"},
                addresses : SUBSET Instances]
BY DEF TypeOK, AnswerFor

LEMMA AnsweredStep ==
    ASSUME DiscoveryInv, ReadChecks \/ ReadFails
    PROVE  DiscoveryInv'
<1>1. /\ client' = None /\ read' = [d \in Ids |-> None] /\ recent' = {} /\ healthy' = {}
      /\ UNCHANGED <<second, proc, id, beat, since, services, check, age, users>>
  BY DEF ReadChecks, ReadFails, procVars, agentVars
<1>2. answer' \in [kind : {"none", "unexpected", "throws", "fails", "addresses"},
                   addresses : SUBSET Instances]
  BY AnswerType DEF DiscoveryInv, ReadChecks, ReadFails
<1>3. TypeOK'
  BY <1>1, <1>2 DEF DiscoveryInv, TypeOK
<1>4. AgentInv'
  BY <1>1 DEF DiscoveryInv, AgentInv, BeatingIsKnown, BeatInStep, PassingIsRecent,
              RegisteredIsUsed, UsersOfName
<1>5. ClientInv'
  BY <1>1 DEF ClientInv, ReadIsUsed, UnreadIsRecent, HealthyIsKnown
<1> QED
  BY <1>3, <1>4, <1>5 DEF DiscoveryInv

LEMMA NextInv == DiscoveryInv /\ [Next]_vars => DiscoveryInv'
<1> SUFFICES ASSUME DiscoveryInv, [Next]_vars PROVE DiscoveryInv'
  OBVIOUS
<1>1. CASE UNCHANGED vars
  <2>1. UNCHANGED <<second, proc, id, beat, since, services, check, age, client, read,
                    answer, users, recent, healthy>>
    BY <1>1 DEF vars, procVars, agentVars, clientVars, notes
  <2> QED
    BY <2>1 DEF DiscoveryInv, TypeOK, AgentInv, ClientInv, BeatingIsKnown, BeatInStep,
                PassingIsRecent, RegisteredIsUsed, UsersOfName, ReadIsUsed, UnreadIsRecent,
                HealthyIsKnown
<1>2. CASE Next
  BY <1>2, StartStep, ReportStep, RunnerStep, TickStep, ForgetStep, ReadServicesStep,
     AnsweredStep DEF Next
<1> QED
  BY <1>1, <1>2

\* The invariant of the runners, the agent and the client.
THEOREM DiscoveryInvariant == Spec => []DiscoveryInv
BY InitInv, NextInv, PTL DEF Spec

\* Instances, agent and client keep their types, for any number of them.
THEOREM DiscoveryTyped == Spec => []TypeOK
<1>1. DiscoveryInv => TypeOK
  BY DEF DiscoveryInv
<1> QED
  BY <1>1, DiscoveryInvariant, PTL

\* The check of an instance whose health_check loop runs does not expire, for
\* any TTL and any shorter period of the reports.
THEOREM ReportsKeepPassing == Spec => BeatingStaysPassing
<1> DEFINE Stays == \A i \in Instances :
                        beat[i] = "on" /\ check[id[i]] = "passing" /\ Tick
                            => check'[id[i]] = "passing"
<1>1. DiscoveryInv /\ [Next]_vars => [Stays]_vars
  BY BeatOutlivesTick
<1> QED
  BY <1>1, DiscoveryInvariant, PTL DEF Spec, BeatingStaysPassing

\* ServiceAddress returns addresses of instances that started or reported
\* within the TTL, however the agent and the instances changed between its two
\* requests, unless ids are shared.
THEOREM AddressesAreFresh == Spec => AddressIsFresh
<1> DEFINE Fresh == ReadChecks => \A i \in answer'.addresses :
                        \/ since[i] < TTL
                        \/ \E d \in Ids : i \in users[d] /\ users[d] # {i}
<1>1. ASSUME DiscoveryInv, ReadChecks, NEW i \in answer'.addresses,
             \A d \in Ids : i \in users[d] => users[d] = {i}
      PROVE  since[i] < TTL
  <2>1. PICK d \in Ids : check[d] = "passing" /\ read[d] # None /\ i = read[d]
    BY <1>1 DEF ReadChecks, AnswerFor
  <2>2. users[d] = {i} /\ i \in Instances
    BY <1>1, <2>1 DEF DiscoveryInv, TypeOK, ClientInv, ReadIsUsed
  <2>3. since[i] <= age[d]
    BY <1>1, <2>1, <2>2 DEF DiscoveryInv, AgentInv, PassingIsRecent
  <2> QED
    BY <1>1, <2>1, <2>2, <2>3 DEF DiscoveryInv, TypeOK
<1>2. DiscoveryInv /\ [Next]_vars => [Fresh]_vars
  BY <1>1
<1> QED
  BY <1>2, DiscoveryInvariant, PTL DEF Spec, AddressIsFresh

\* An instance with an id of its own that reports throughout a lookup is in its
\* answer, or the lookup throws for the sake of another.
THEOREM HealthyAreFound == Spec => HealthyIsFound
<1> DEFINE Found == ReadChecks => \A i \in healthy :
                        i \in answer'.addresses \/ answer'.kind = "throws"
<1>1. ASSUME DiscoveryInv, ReadChecks, NEW i \in healthy, answer'.kind # "throws"
      PROVE  i \in answer'.addresses
  <2>1. /\ i \in Instances /\ id[i] \in Ids /\ id[i].name = client
        /\ check[id[i]] = "passing" /\ users[id[i]] = {i}
    BY <1>1 DEF DiscoveryInv, TypeOK, AgentInv, ClientInv, BeatingIsKnown, HealthyIsKnown
  <2>2. \A d \in Ids : d.name = client /\ check[d] = "passing" => read[d] # None
    BY <1>1, <2>1 DEF ReadChecks, AnswerFor
  <2>3. read[id[i]] = i
    BY <1>1, <2>1, <2>2 DEF DiscoveryInv, ClientInv, ReadIsUsed
  <2> QED
    BY <1>1, <2>1, <2>2, <2>3 DEF ReadChecks, AnswerFor
<1>2. DiscoveryInv /\ [Next]_vars => [Found]_vars
  BY <1>1
<1> QED
  BY <1>2, DiscoveryInvariant, PTL DEF Spec, HealthyIsFound

\* services.at throws only for a service that registered between the two
\* requests of the lookup.
THEOREM ThrowsAreRaces == Spec => ThrowsOnlyOnRace
<1> DEFINE Race == ReadChecks /\ answer'.kind = "throws" =>
                       \E i \in recent, d \in Ids :
                           i \in users[d] /\ read[d] = None /\ check[d] = "passing"
<1>1. ASSUME DiscoveryInv, ReadChecks, answer'.kind = "throws"
      PROVE  \E i \in recent, d \in Ids :
                 i \in users[d] /\ read[d] = None /\ check[d] = "passing"
  <2>1. PICK d \in Ids : check[d] = "passing" /\ read[d] = None
    BY <1>1 DEF ReadChecks, AnswerFor
  <2>2. client # None
    BY <1>1 DEF ReadChecks
  <2>3. \E i \in recent : i \in users[d]
    BY <1>1, <2>1, <2>2 DEF DiscoveryInv, ClientInv, UnreadIsRecent
  <2> QED
    BY <2>1, <2>3
<1>2. DiscoveryInv /\ [Next]_vars => [Race]_vars
  BY <1>1
<1> QED
  BY <1>2, DiscoveryInvariant, PTL DEF Spec, ThrowsOnlyOnRace

-----------------------------------------------------------------------------
(* Discovery implements the service registry.                              *)

registryVars == <<Running, Listing, Shared, answer>>

\* Every entry of the list is an instance of the name of its id.
LEMMA ListingOf ==
    ASSUME DiscoveryInv, NEW d \in Passing
    PROVE  /\ services[d] \in Instances /\ services[d] \in users[d]
           /\ NameOf[services[d]] = d.name
BY DEF DiscoveryInv, TypeOK, AgentInv, RegisteredIsUsed, UsersOfName, Passing

\* Who has an id that another one used is shared.
LEMMA SharedUsers ==
    ASSUME TypeOK, NEW d \in Ids, NEW i \in users[d], i \notin Shared
    PROVE  users[d] = {i}
BY DEF TypeOK, Shared

\* An instance that takes over an id shares it with all that used it.
LEMMA StartImplements ==
    ASSUME DiscoveryInv, DiscoveryInv', NEW i \in Instances, StartAndRegister(i)
    PROVE  Registry!Start(i)
<1> DEFINE d == GenerateServiceID(i)
<1>1. d \in Ids /\ d.name = NameOf[i]
  BY IdOfInstance DEF DiscoveryInv
<1>2. /\ proc[i] = "down"
      /\ proc' = [proc EXCEPT ![i] = "registered"]
      /\ services' = [services EXCEPT ![d] = i]
      /\ check' = [check EXCEPT ![d] = "critical"]
      /\ users' = [users EXCEPT ![d] = users[d] \cup {i}]
      /\ UNCHANGED answer
  BY DEF StartAndRegister, clientVars
<1> HIDE DEF d
<1>3. TypeOK /\ TypeOK'
  BY DEF DiscoveryInv
<1>4. i \notin Running /\ Running' = Running \cup {i}
  BY <1>2, <1>3 DEF TypeOK, Running
<1>5. /\ users'[d] = users[d] \cup {i}
      /\ \A e \in Ids \ {d} : /\ users'[e] = users[e] /\ check'[e] = check[e]
                              /\ services'[e] = services[e]
      /\ Passing' = Passing \ {d}
  BY <1>1, <1>2, <1>3 DEF TypeOK, Passing
<1>6. users'[d] \subseteq Registry!Of(NameOf[i])
  BY <1>1, <1>3 DEF DiscoveryInv, AgentInv, UsersOfName, TypeOK, Registry!Of
<1>7. \/ Shared' = Shared
      \/ \E S \in SUBSET Registry!Of(NameOf[i]) : i \in S /\ Shared' = Shared \cup S
  <2>1. CASE users'[d] = {i}
    <3>1. \A j \in Instances, e \in Ids :
              (j \in users'[e] /\ users'[e] # {j}) <=> (j \in users[e] /\ users[e] # {j})
      BY <1>1, <1>5, <2>1
    <3> QED
      BY <3>1 DEF Shared
  <2>2. CASE users'[d] # {i}
    <3>1. \A j \in users'[d] : j \in Instances /\ users'[d] # {j}
      <4>1. users'[d] \subseteq Instances
        BY <1>1, <1>3 DEF TypeOK
      <4>2. i \in users'[d]
        BY <1>5
      <4> QED
        BY <2>2, <4>1, <4>2
    <3>2. Shared' \subseteq Shared \cup users'[d]
      BY <1>1, <1>5 DEF Shared
    <3>3. users'[d] \subseteq Shared'
      BY <1>1, <3>1 DEF Shared
    <3>4. Shared \subseteq Shared'
      <4> SUFFICES ASSUME NEW j \in Instances, NEW e \in Ids, j \in users[e], users[e] # {j}
                   PROVE  j \in Shared'
        BY DEF Shared
      <4>1. CASE e = d
        BY <1>5, <3>3, <4>1
      <4>2. CASE e # d
        BY <1>5, <4>2 DEF Shared
      <4> QED
        BY <4>1, <4>2
    <3> QED
      BY <1>5, <1>6, <3>2, <3>3, <3>4
  <2> QED
    BY <2>1, <2>2
<1>8. Listing' \in SUBSET Listing
  BY <1>5 DEF Listing, Passing
<1>9. Listing \ Listing' \subseteq Shared' \cup {i}
  <2> SUFFICES ASSUME NEW e \in Passing, services[e] \notin Listing', services[e] # i
               PROVE  services[e] \in Shared'
    BY DEF Listing
  <2>1. e = d
    BY <1>5 DEF Listing, Passing
  <2>2. services[e] \in Instances /\ services[e] \in users'[d]
    BY <1>5, <2>1, ListingOf
  <2> QED
    BY <1>1, <1>5, <2>2 DEF Shared
<1> QED
  BY <1>2, <1>4, <1>7, <1>8, <1>9 DEF Registry!Start

\* A report lists the instance that it is of, or one that shares its id.
LEMMA ReportImplements ==
    ASSUME DiscoveryInv, NEW i \in Instances, ReportHealthyState(i)
    PROVE  \E j \in Instances : Registry!List(j)
<1> DEFINE d == id[i]
           j == services[d]
<1>1. /\ beat[i] = "on" /\ services[d] # None
      /\ check' = [check EXCEPT ![d] = "passing"]
      /\ UNCHANGED <<proc, services, users, answer>>
  BY DEF ReportHealthyState, clientVars, notes
<1>2. d \in Ids /\ proc[i] # "down" /\ i \in users[d]
  BY <1>1 DEF DiscoveryInv, AgentInv, BeatingIsKnown
<1>3. j \in Instances /\ j \in users[d]
  BY <1>1, <1>2 DEF DiscoveryInv, TypeOK, AgentInv, RegisteredIsUsed
<1>4. j \in Running \cup Shared
  BY <1>2, <1>3 DEF Running, Shared
<1>5. Passing' = Passing \cup {d}
  BY <1>1, <1>2 DEF DiscoveryInv, TypeOK, Passing
<1>6. Listing' = Listing \cup {j}
  BY <1>1, <1>5 DEF Listing
<1>7. UNCHANGED <<Running, Shared, answer>>
  BY <1>1 DEF Running, Shared
<1> QED
  BY <1>3, <1>4, <1>6, <1>7 DEF Registry!List

\* The ends of processes, of loops and of checks.
LEMMA RunnerImplements ==
    ASSUME DiscoveryInv, NEW i \in Instances, Serve(i) \/ ReportFails(i) \/ Crash(i)
    PROVE  Registry!End(i) \/ UNCHANGED registryVars
<1>1. UNCHANGED <<services, check, users, answer>>
  BY DEF Serve, ReportFails, Crash, agentVars, clientVars, notes
<1>2. UNCHANGED <<Listing, Shared, answer>>
  BY <1>1 DEF Listing, Passing, Shared
<1>3. CASE Serve(i) \/ ReportFails(i)
  <2>1. Running' = Running
    BY <1>3 DEF Serve, ReportFails, Running, DiscoveryInv, TypeOK
  <2> QED
    BY <1>2, <2>1 DEF registryVars
<1>4. CASE Crash(i)
  <2>1. i \in Running /\ Running' = Running \ {i}
    BY <1>4 DEF Crash, Running, DiscoveryInv, TypeOK
  <2> QED
    BY <1>2, <2>1 DEF Registry!End
<1> QED
  BY <1>3, <1>4

LEMMA AgentImplements ==
    ASSUME DiscoveryInv, Tick \/ AgentForgets
    PROVE  \E S \in SUBSET Listing : Registry!Unlist(S)
<1>1. UNCHANGED <<proc, users, answer>>
  BY DEF Tick, AgentForgets, procVars, clientVars, notes
<1>2. UNCHANGED <<Running, Shared, answer>>
  BY <1>1 DEF Running, Shared
<1>3. Listing' \subseteq Listing
  <2>1. CASE Tick
    <3>1. Passing' \subseteq Passing /\ services' = services
      BY <2>1 DEF Tick, Passing
    <3> QED
      BY <3>1 DEF Listing
  <2>2. CASE AgentForgets
    <3>1. Passing' = {}
      BY <2>2 DEF AgentForgets, Passing
    <3> QED
      BY <3>1 DEF Listing
  <2> QED
    BY <2>1, <2>2
<1>4. Listing' = Listing \ (Listing \ Listing')
  BY <1>3
<1> QED
  BY <1>2, <1>4 DEF Registry!Unlist

\* What was read of the services and then of the checks is right for the moment
\* of the second read: an address that has changed in between is of a shared id.
LEMMA AnswerImplements ==
    ASSUME DiscoveryInv, client # None
    PROVE  AnswerFor(client, read, check) \in Registry!Answers(client)
<1> DEFINE passing == {d \in Ids : d.name = client /\ check[d] = "passing"}
           found == {read[d] : d \in passing}
<1>1. TypeOK
  BY DEF DiscoveryInv
<1>2. passing = {} <=> Registry!Listed(client) = {}
  <2>1. \A d \in passing : services[d] \in Registry!Listed(client)
    BY ListingOf DEF Registry!Listed, Registry!Of, Listing, Passing
  <2>2. \A j \in Registry!Listed(client) : \E d \in passing : j = services[d]
    BY ListingOf DEF Registry!Listed, Registry!Of, Listing, Passing
  <2> QED
    BY <2>1, <2>2
<1>3. CASE passing = {}
  <2>1. AnswerFor(client, read, check) = Registry!Unexpected
    BY <1>3 DEF AnswerFor, Registry!Unexpected
  <2> QED
    BY <1>2, <1>3, <2>1 DEF Registry!Answers
<1>4. CASE \E d \in passing : read[d] = None
  <2>1. AnswerFor(client, read, check) = Registry!Throws
    BY <1>4 DEF AnswerFor, Registry!Throws
  <2> QED
    BY <1>2, <1>4, <2>1 DEF Registry!Answers
<1>5. CASE passing # {} /\ \A d \in passing : read[d] # None
  <2>1. AnswerFor(client, read, check) = Registry!Addresses(found)
    BY <1>5 DEF AnswerFor, Registry!Addresses
  <2>2. \A d \in passing : /\ read[d] \in users[d] /\ read[d] \in Instances
                           /\ NameOf[read[d]] = client
    BY <1>1, <1>5 DEF DiscoveryInv, AgentInv, ClientInv, ReadIsUsed, UsersOfName, TypeOK
  <2>3. \A d \in passing : read[d] \notin Shared \/ services[d] \notin Shared =>
                               read[d] = services[d]
    BY <1>1, <2>2, ListingOf, SharedUsers DEF Passing
  <2>4. \A j \in Registry!Listed(client) : \E d \in passing : j = services[d]
    BY ListingOf DEF Registry!Listed, Registry!Of, Listing, Passing
  <2>5. \A d \in passing : services[d] \in Registry!Listed(client)
    BY ListingOf DEF Registry!Listed, Registry!Of, Listing, Passing
  <2>6. found \ Shared = Registry!Listed(client) \ Shared
    BY <2>3, <2>4, <2>5
  <2>7. found \in SUBSET Registry!Of(client) /\ found # {}
    BY <1>5, <2>2 DEF Registry!Of
  <2>8. found \in Registry!Found(client) \ {{}}
    BY <2>6, <2>7 DEF Registry!Found
  <2> QED
    BY <1>2, <1>5, <2>1, <2>8 DEF Registry!Answers
<1> QED
  BY <1>3, <1>4, <1>5

LEMMA ClientImplements ==
    ASSUME DiscoveryInv, ReadChecks \/ ReadFails \/ \E n \in Names : ReadServices(n)
    PROVE  Registry!Ask \/ \E n \in Names : Registry!Lookup(n)
<1>1. UNCHANGED <<proc, services, check, users>>
  BY DEF ReadChecks, ReadFails, ReadServices, procVars, agentVars
<1>2. UNCHANGED <<Running, Listing, Shared>>
  BY <1>1 DEF Running, Listing, Passing, Shared
<1>3. CASE \E n \in Names : ReadServices(n)
  BY <1>2, <1>3 DEF ReadServices, NoAnswer, Registry!Ask, Registry!Unanswered
<1>4. CASE ReadChecks \/ ReadFails
  <2>1. client # None /\ client \in Names
    BY <1>4 DEF ReadChecks, ReadFails, DiscoveryInv, TypeOK
  <2>2. answer' \in Registry!Answers(client)
    BY <1>4, <2>1, AnswerImplements
       DEF ReadChecks, ReadFails, Registry!Answers, Registry!Fails
  <2> QED
    BY <1>2, <2>1, <2>2 DEF Registry!Lookup
<1> QED
  BY <1>3, <1>4

LEMMA InitImplements == Init => Registry!Init
<1> SUFFICES ASSUME Init PROVE Registry!Init
  OBVIOUS
<1>1. Running = {} /\ Shared = {} /\ Passing = {}
  BY DEF Init, Running, Shared, Passing
<1>2. Listing = {}
  BY <1>1 DEF Listing
<1> QED
  BY <1>1, <1>2 DEF Init, NoAnswer, Registry!Init, Registry!Unanswered

LEMMA NextImplements ==
    ASSUME DiscoveryInv, DiscoveryInv', [Next]_vars
    PROVE  [Registry!Next]_registryVars
<1>1. CASE UNCHANGED vars
  BY <1>1 DEF vars, procVars, agentVars, clientVars, notes, registryVars, Running, Listing,
              Passing, Shared
<1>2. ASSUME NEW i \in Instances,
             \/ StartAndRegister(i) \/ ReportHealthyState(i)
             \/ Serve(i) \/ ReportFails(i) \/ Crash(i)
      PROVE  [Registry!Next]_registryVars
  BY <1>2, StartImplements, ReportImplements, RunnerImplements DEF Registry!Next
<1>3. CASE Tick \/ AgentForgets
  BY <1>3, AgentImplements DEF Registry!Next
<1>4. CASE ReadChecks \/ ReadFails \/ \E n \in Names : ReadServices(n)
  BY <1>4, ClientImplements DEF Registry!Next
<1> QED
  BY <1>1, <1>2, <1>3, <1>4 DEF Next

\* The runners, the agent and the two reads of a client implement the service
\* registry, for any number of services and instances and any times: a lookup
\* answers as if it were one look at the list, but for shared ids.
THEOREM DiscoveryImplements == Spec => RegistrySpec
<1>1. Init => Registry!Init
  BY InitImplements
<1>2. DiscoveryInv /\ DiscoveryInv' /\ [Next]_vars => [Registry!Next]_registryVars
  BY NextImplements
<1> QED
  BY <1>1, <1>2, DiscoveryInvariant, PTL
     DEF Spec, RegistrySpec, Registry!Spec, Registry!vars, registryVars

-----------------------------------------------------------------------------
(* The checks of a service that stays down expire.                         *)

\* The seconds, for each second in which i may have registered, that a check of
\* i alone has left.
Expiring(i) ==
    {t \in (0..MaxSecond) \X (0..(TTL - 1)) :
        LET d == [name |-> NameOf[i], second |-> t[1]]
        IN  users[d] = {i} /\ check[d] = "passing" /\ age[d] <= t[2]}

\* Instances whose loop is about to report, which time waits for.
Late == {j \in Instances : beat[j] = "on" /\ since[j] >= Period}

\* Tick can be, and changes something.
CanTick ==
    /\ Late = {}
    /\ \/ second < MaxSecond
       \/ \E j \in Instances : since[j] < TTL
       \/ \E d \in Ids : check[d] = "passing" \/ age[d] # 0

Reports(j) == ReportHealthyState(j) \/ ReportFails(j)

\* Weak fairness of Tick and of a health_check loop.
TimePasses == []<>~CanTick \/ []<><<Tick>>_vars
LoopRuns(j) == []<>~(beat[j] = "on") \/ []<><<Reports(j)>>_vars
LoopsRun == \A j \in Instances : LoopRuns(j)

\* No check of i alone passes.
Gone(i) == \A d \in Ids : users[d] = {i} => check[d] # "passing"

\* A check of an instance that is down is not renewed.
LEMMA DownStep ==
    ASSUME DiscoveryInv, [Next]_vars, NEW i \in Instances,
           proc[i] = "down", proc'[i] = "down",
           NEW d \in Ids, users'[d] = {i}, check'[d] = "passing"
    PROVE  /\ users[d] = {i} /\ check[d] = "passing" /\ age[d] <= age'[d]
           /\ Tick => age'[d] = age[d] + 1
<1>1. TypeOK /\ AgentInv
  BY DEF DiscoveryInv
<1>2. age[d] \in Int
  BY <1>1 DEF TypeOK
<1> DEFINE Same == users[d] = {i} /\ check[d] = "passing" /\ age[d] <= age'[d]
<1>3. ASSUME NEW j \in Instances, StartAndRegister(j) PROVE Same
  <2>1. d # GenerateServiceID(j)
    BY <1>1, <1>3, IdOfInstance DEF StartAndRegister, TypeOK
  <2> QED
    BY <1>1, <1>2, <1>3, <2>1 DEF StartAndRegister, TypeOK
<1>4. ASSUME NEW j \in Instances, ReportHealthyState(j) PROVE Same
  <2>1. users[d] = {i}
    BY <1>4 DEF ReportHealthyState, notes
  <2>2. d # id[j]
    BY <1>1, <1>4, <2>1 DEF ReportHealthyState, AgentInv, BeatingIsKnown
  <2> QED
    BY <1>1, <1>2, <1>4, <2>1, <2>2 DEF ReportHealthyState, TypeOK
<1>5. CASE Tick
  <2>1. users[d] = {i} /\ check[d] = "passing" /\ age'[d] = age[d] + 1
    BY <1>1, <1>2, <1>5 DEF Tick, TypeOK, notes
  <2> QED
    BY <1>2, <2>1
<1>6. ASSUME AgentForgets PROVE Same
  BY <1>6 DEF AgentForgets
<1>7. ASSUME users' = users, check' = check, age' = age PROVE Same
  BY <1>2, <1>7
<1>8. ASSUME NEW j \in Instances, Serve(j) \/ ReportFails(j) \/ Crash(j) PROVE Same
  BY <1>7, <1>8 DEF Serve, ReportFails, Crash, agentVars, notes
<1>9. ASSUME ReadChecks \/ ReadFails \/ \E n \in Names : ReadServices(n) PROVE Same
  BY <1>7, <1>9 DEF ReadChecks, ReadFails, ReadServices, agentVars
<1>10. ASSUME UNCHANGED vars PROVE Same
  BY <1>7, <1>10 DEF vars, agentVars, notes
<1>11. CASE ~Tick
  <2> HIDE DEF Same
  <2>1. Same
    BY <1>3, <1>4, <1>6, <1>8, <1>9, <1>10, <1>11 DEF Next
  <2> QED
    BY <1>11, <2>1 DEF Same
<1> QED
  BY <1>5, <1>11

\* So the time that its checks have left only gets less, and with each second.
LEMMA DownExpiresStep ==
    ASSUME DiscoveryInv, [Next]_vars, NEW i \in Instances,
           proc[i] = "down", proc'[i] = "down"
    PROVE  /\ Expiring(i)' \subseteq Expiring(i)
           /\ Tick /\ ~Gone(i) => Expiring(i)' # Expiring(i)
           /\ Gone(i) => Gone(i)'
<1>1. TypeOK /\ TypeOK' /\ UsersOfName
  BY NextInv DEF DiscoveryInv, AgentInv
<1> DEFINE D(t) == [name |-> NameOf[i], second |-> t[1]]
<1>2. \A t \in (0..MaxSecond) \X (0..(TTL - 1)) : D(t) \in Ids
  BY DEF Ids
<1>3. \A d \in Ids : age[d] \in Int /\ age'[d] \in Int
  BY <1>1 DEF TypeOK
<1>4. ASSUME NEW t \in Expiring(i)' PROVE t \in Expiring(i)
  <2>1. /\ t \in (0..MaxSecond) \X (0..(TTL - 1))
        /\ users'[D(t)] = {i} /\ check'[D(t)] = "passing" /\ age'[D(t)] <= t[2]
    BY <1>4 DEF Expiring
  <2>2. D(t) \in Ids
    BY <1>2, <2>1
  <2>3. users[D(t)] = {i} /\ check[D(t)] = "passing" /\ age[D(t)] <= age'[D(t)]
    BY <2>1, <2>2, DownStep
  <2>4. t[2] \in Int
    BY <2>1
  <2> HIDE DEF D
  <2>5. age[D(t)] <= t[2]
    BY <1>3, <2>1, <2>2, <2>3, <2>4
  <2> QED
    BY <2>1, <2>3, <2>5 DEF Expiring, D
<1>5. ASSUME Tick, ~Gone(i) PROVE Expiring(i)' # Expiring(i)
  <2>1. PICK d \in Ids : users[d] = {i} /\ check[d] = "passing"
    BY <1>5 DEF Gone
  <2> DEFINE t == <<d.second, age[d]>>
  <2>2. d.name = NameOf[i]
    BY <1>1, <2>1 DEF UsersOfName
  <2>3. d = D(t) /\ d.second \in 0..MaxSecond
    BY <2>2 DEF Ids
  <2>4. age[d] \in 0..(TTL - 1)
    BY <1>1 DEF TypeOK
  <2>5. t \in (0..MaxSecond) \X (0..(TTL - 1)) /\ t[2] = age[d]
    BY <2>3, <2>4
  <2>6. t \in Expiring(i)
    BY <1>3, <2>1, <2>3, <2>5 DEF Expiring
  <2>7. ASSUME t \in Expiring(i)' PROVE FALSE
    <3>1. users'[d] = {i} /\ check'[d] = "passing" /\ age'[d] <= age[d]
      BY <2>3, <2>5, <2>7 DEF Expiring
    <3>2. age'[d] = age[d] + 1
      BY <1>5, <3>1, DownStep
    <3> QED
      BY <1>3, <3>1, <3>2
  <2> QED
    BY <2>6, <2>7
<1>6. Gone(i) => Gone(i)'
  BY DownStep DEF Gone
<1> QED
  BY <1>4, <1>5, <1>6

\* While time stands still no instance becomes late, and a report ends it.
LEMMA LateStep ==
    ASSUME DiscoveryInv, [Next]_vars
    PROVE  /\ ~Tick => Late' \subseteq Late
           /\ \A j \in Instances : Reports(j) => j \notin Late'
<1>1. TypeOK
  BY DEF DiscoveryInv
<1> USE <1>1 DEF TypeOK, Late
<1>2. ASSUME NEW j \in Instances, StartAndRegister(j) PROVE Late' \subseteq Late
  BY <1>2 DEF StartAndRegister
<1>3. ASSUME NEW j \in Instances, ReportHealthyState(j)
      PROVE  Late' \subseteq Late /\ j \notin Late'
  BY <1>3 DEF ReportHealthyState
<1>4. ASSUME NEW j \in Instances, ReportFails(j)
      PROVE  Late' \subseteq Late /\ j \notin Late'
  BY <1>4 DEF ReportFails
<1>5. ASSUME NEW j \in Instances, Serve(j) \/ Crash(j) PROVE Late' \subseteq Late
  BY <1>5 DEF Serve, Crash
<1>6. ASSUME UNCHANGED procVars PROVE Late' \subseteq Late
  BY <1>6 DEF procVars
<1>7. ASSUME AgentForgets \/ ReadChecks \/ ReadFails \/ \E n \in Names : ReadServices(n)
      PROVE  Late' \subseteq Late
  BY <1>6, <1>7 DEF AgentForgets, ReadChecks, ReadFails, ReadServices
<1>8. ASSUME UNCHANGED vars PROVE Late' \subseteq Late
  BY <1>6, <1>8 DEF vars
<1>9. ~Tick => Late' \subseteq Late
  <2> HIDE DEF Late, TypeOK
  <2> QED
    BY <1>2, <1>3, <1>4, <1>5, <1>7, <1>8 DEF Next
<1> QED
  BY <1>3, <1>4, <1>9 DEF Reports

\* The sets that time and reports wear out, which nothing does for ever.
SetsComeToRest ==
    /\ ComesToRest(Late, vars)
    /\ \A i \in Instances : ComesToRest(Expiring(i), vars)

\* The late ones stay the same.
LateRests == [][Next]_vars /\ []DiscoveryInv /\ [][Late' = Late]_vars

\* Every loop reports, so if the late ones stay the same there are none.
LEMMA LateReports ==
    ASSUME NEW j \in Instances
    PROVE  LateRests /\ LoopRuns(j) => ~(j \in Late)
<1>1. j \in Late => beat[j] = "on"
  BY DEF Late
<1>2. j \in Late /\ [Late' = Late]_vars => (j \in Late)'
  BY DEF Late, vars, procVars
<1>3. DiscoveryInv /\ [Next]_vars /\ <<Reports(j)>>_vars => ~(j \in Late)'
  BY LateStep
<1> QED
  BY <1>1, <1>2, <1>3, PTL DEF LateRests, LoopRuns

LEMMA NoneIsLate == LateRests /\ LoopsRun => Late = {}
<1>1. \A j \in Instances : LateRests /\ LoopRuns(j) => ~(j \in Late)
  BY LateReports
<1>2. (\A j \in Instances : ~(j \in Late)) => Late = {}
  BY DEF Late
<1> QED
  BY <1>1, <1>2 DEF LoopsRun

LEMMA DownIsForgotten ==
    ASSUME NEW i \in Instances, IsFiniteSet(Instances)
    PROVE  Spec /\ TimePasses /\ []LoopsRun
               /\ ComesToRest(Late, vars) /\ ComesToRest(Expiring(i), vars)
               => (<>[](proc[i] = "down") => <>[]Gone(i))
<1>1. IsFiniteSet(Late)
  BY FS_Subset DEF Late
<1>2. IsFiniteSet(Expiring(i))
  <2>1. IsFiniteSet((0..MaxSecond) \X (0..(TTL - 1)))
    <3>1. IsFiniteSet(0..MaxSecond) /\ IsFiniteSet(0..(TTL - 1))
      BY FS_Interval
    <3> QED
      BY <3>1, FS_Product
  <2>2. Expiring(i) \subseteq (0..MaxSecond) \X (0..(TTL - 1))
    BY DEF Expiring
  <2> QED
    BY <2>1, <2>2, FS_Subset
<1>3. DiscoveryInv /\ [Next]_vars /\ ~<<Tick>>_vars => [Late' \subseteq Late]_vars
  BY LateStep
<1>4. DiscoveryInv /\ [Next]_vars /\ proc[i] = "down" /\ (proc[i] = "down")' =>
         /\ [Expiring(i)' \subseteq Expiring(i)]_vars
         /\ <<Tick>>_vars /\ ~Gone(i) => ~[Expiring(i)' = Expiring(i)]_vars
         /\ Gone(i) => Gone(i)'
  BY DownExpiresStep
<1>5. Late = {} /\ ~Gone(i) => CanTick
  BY DEF CanTick, Gone
<1> QED
  BY <1>1, <1>2, <1>3, <1>4, <1>5, NoneIsLate, DiscoveryInvariant, PTL
  DEF Spec, TimePasses, ComesToRest, LateRests

\* The checks of a service that stays down expire, if time passes and the loops
\* of the others run: those report in time, and none of their reports renews a
\* check that is not theirs.  A loop that is run fairly is so from any later
\* moment on too, which is what the box before LoopsRun spells out.
THEOREM DownServicesExpire ==
    ASSUME IsFiniteSet(Instances)
    PROVE  Spec /\ TimePasses /\ []LoopsRun /\ SetsComeToRest => DownExpires
<1>1. \A i \in Instances :
         Spec /\ TimePasses /\ []LoopsRun
             /\ ComesToRest(Late, vars) /\ ComesToRest(Expiring(i), vars)
             => (<>[](proc[i] = "down") => <>[]Gone(i))
  BY DownIsForgotten
<1>2. DownExpires <=>
         \A i \in Instances : <>[](proc[i] = "down") => <>[]Gone(i)
  BY DEF DownExpires, Gone
<1> QED
  BY <1>1, <1>2 DEF SetsComeToRest

=============================================================================
