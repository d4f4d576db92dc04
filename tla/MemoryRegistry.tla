--------------------------- MODULE MemoryRegistry ---------------------------
(***************************************************************************)
(* The in-memory registry: one list of entries under one mutex, each with  *)
(* the moment at which it expires, the services that register and report,  *)
(* and a gateway that connects to an address of the list.                  *)
(*                                                                         *)
(* Lookups do not look at the expiration.  Only a report, of whatever      *)
(* service, erases what has expired, its own entry included.               *)
(***************************************************************************)
EXTENDS Integers

CONSTANTS Instances,  \* service ids
          Names,      \* names of services
          NameOf,     \* the service of an id
          TTL,        \* seconds from a report to the expiration
          MaxQuiet,   \* bound on the seconds that the clocks count past it
          None        \* no address

ASSUME RegistryAssumption ==
    /\ NameOf \in [Instances -> Names]
    /\ TTL \in Nat \ {0}
    /\ MaxQuiet \in Nat
    /\ None \notin Instances

VARIABLES listed,  \* ids with an entry
          left,    \* seconds until the entry expires, negative when it has
          up,      \* ids whose process runs
          chosen,  \* what ServiceConnection has just taken
          since,   \* seconds since the last of a chain of reports in time that
                   \* began with the process's own entry; TTL if it broke
          gone,    \* reported too late and have not registered again
          quiet    \* seconds since anyone reported

registry == <<listed, left>>
notes == <<since, gone, quiet>>
vars == <<registry, up, chosen, notes>>

Nothing == [name |-> None, taken |-> None]

Init ==
    /\ listed = {}
    /\ left = [i \in Instances |-> 0]
    /\ up = {}
    /\ chosen = Nothing
    /\ since = [i \in Instances |-> TTL]
    /\ gone = {}
    /\ quiet = 0

\* A process starts.  insert does nothing when the id has an entry: a process
\* that comes back under its id goes on with what is left.
Register(i) ==
    /\ i \notin up
    /\ up' = up \cup {i}
    /\ listed' = listed \cup {i}
    /\ IF i \in listed
       THEN UNCHANGED <<left, since>>
       ELSE left' = [left EXCEPT ![i] = TTL] /\ since' = [since EXCEPT ![i] = 0]
    /\ chosen' = Nothing
    /\ UNCHANGED <<gone, quiet>>

\* The process ends, with the entry of its id erased or without a word.
Ends(i) ==
    /\ i \in up
    /\ up' = up \ {i}
    /\ since' = [since EXCEPT ![i] = TTL]
    /\ gone' = gone \ {i}
    /\ chosen' = Nothing
    /\ UNCHANGED quiet

Deregister(i) ==
    /\ Ends(i)
    /\ listed' = listed \ {i}
    /\ left' = [left EXCEPT ![i] = 0]

EndsSilently(i) == Ends(i) /\ UNCHANGED registry

\* upper_bound(now): an entry that expires at this moment has expired.
Unexpired_LowerBound == {i \in listed : left[i] >= 0}
Unexpired_TimeToSpare == {i \in listed : left[i] > 1}
Unexpired_All == listed
Unexpired == {i \in listed : left[i] > 0}

\* The entries after a report: what has expired is erased first, then the own
\* entry is renewed, if it is still there.
Renewed(i) ==
    [j \in Instances |-> IF j \notin Unexpired THEN 0
                         ELSE IF j = i THEN TTL ELSE left[j]]

Reports(i) ==
    /\ i \in up
    /\ since' = [since EXCEPT ![i] = IF @ < TTL THEN 0 ELSE TTL]
    /\ gone' = gone \cup ({i} \ Unexpired)
    /\ quiet' = 0
    /\ chosen' = Nothing
    /\ UNCHANGED up

ReportHealthyState_RenewsFirst(i) ==
    /\ Reports(i)
    /\ listed' = Unexpired \cup (listed \cap {i})
    /\ left' = [Renewed(i) EXCEPT ![i] = IF i \in listed THEN TTL ELSE 0]
ReportHealthyState(i) ==
    /\ Reports(i)
    /\ listed' = Unexpired
    /\ left' = Renewed(i)

\* A second passes.
Tick ==
    /\ left' = [i \in Instances |-> IF i \in listed /\ left[i] > -MaxQuiet
                                    THEN left[i] - 1 ELSE left[i]]
    /\ since' = [i \in Instances |-> IF since[i] < TTL THEN since[i] + 1 ELSE TTL]
    /\ quiet' = IF quiet <= MaxQuiet THEN quiet + 1 ELSE quiet
    /\ chosen' = Nothing
    /\ UNCHANGED <<listed, up, gone>>

ServiceAddress(name) == {i \in listed : NameOf[i] = name}

\* addrs[rand() % addrs.size()]: any of the addresses.
ServiceConnection(name) ==
    /\ chosen' \in [name : {name}, taken : ServiceAddress(name)]
    /\ UNCHANGED <<registry, up, notes>>

\* The list is a value and no error, also when it is empty: % 0.
ServiceConnection_DividesByZero(name) ==
    /\ ServiceAddress(name) = {}
    /\ chosen' = [name |-> name, taken |-> None]
    /\ UNCHANGED <<registry, up, notes>>

Next ==
    \/ \E i \in Instances : \/ Register(i)
                            \/ Deregister(i)
                            \/ EndsSilently(i)
                            \/ ReportHealthyState(i)
    \/ \E n \in Names : ServiceConnection(n) \/ ServiceConnection_DividesByZero(n)
    \/ Tick

Spec == Init /\ [][Next]_vars

\* Time passes; nobody has to report.
FairSpec == Spec /\ WF_vars(Tick)

-----------------------------------------------------------------------------
\* The types of the registry's and the processes' state.
TypeOK ==
    /\ listed \subseteq Instances
    /\ left \in [Instances -> (-MaxQuiet)..TTL]
    /\ up \subseteq Instances
    /\ chosen \in [name : Names \cup {None}, taken : Instances \cup {None}]
    /\ since \in [Instances -> 0..TTL]
    /\ gone \subseteq up
    /\ quiet \in 0..(MaxQuiet + 1)

\* A process that made its entry and whose reports never came TTL after the
\* one before is listed, whatever the reports of other services erase.
TimelyIsListed ==
    \A i \in Instances : since[i] < TTL => i \in listed /\ left[i] = TTL - since[i]

\* An entry that expired k seconds ago is listed only if no process at all has
\* reported for more than k seconds: that is how old a stale address gets.
ExpiredOnlyWhileQuiet ==
    \A i \in listed : left[i] > -quiet

\* A report that comes too late does not bring the process back: it is not
\* listed again before it registers anew.
LateIsUnlisted == gone \cap listed = {}

\* ServiceConnection divides by zero only for a service none of whose
\* processes has reported in time since it made its entry.
CrashNeedsAbsence ==
    [][\A n \in Names :
            ServiceConnection_DividesByZero(n) =>
                \A i \in Instances : NameOf[i] = n => since[i] = TTL]_vars

\* A process that has ended for good is not listed for ever, if any process
\* goes on reporting.
DeadIsUnlisted ==
    \A i \in Instances :
        ([]<>(quiet = 0) /\ <>[](i \notin up)) => <>[](i \notin listed)

=============================================================================
