--------------------------- MODULE ServiceRegistry ---------------------------
(***************************************************************************)
(* What the clients of a service may rely on of service discovery: a list  *)
(* of instances that changes one action at a time, and lookups that see it *)
(* at one moment.                                                          *)
(*                                                                         *)
(* Instances whose ids have coincided are the exception, for them nothing  *)
(* is promised.  Module Discovery implements this one, with reports and    *)
(* checks for the list and two reads for a lookup; the clients of module   *)
(* MovieDetails use it.                                                    *)
(***************************************************************************)
CONSTANTS Instances,  \* processes that run a service
          Names,      \* names of services
          NameOf      \* the service that an instance runs

VARIABLES running,  \* instances that run
          listed,   \* instances that a lookup finds
          shared,   \* instances whose id was another one's too
          lookup    \* the last answer to a client

vars == <<running, listed, shared, lookup>>

Of(n) == {i \in Instances : NameOf[i] = n}
Listed(n) == listed \cap Of(n)

Unanswered == [kind |-> "none", addresses |-> {}]
Unexpected == [kind |-> "unexpected", addresses |-> {}]
Throws == [kind |-> "throws", addresses |-> {}]
Fails == [kind |-> "fails", addresses |-> {}]
Addresses(S) == [kind |-> "addresses", addresses |-> S]

\* All the listed instances, and no others.
Found(n) == {S \in SUBSET Of(n) : S \ shared = Listed(n) \ shared}

\* A lookup without an answer says so, one with an answer may throw.
Answers(n) ==
    {Fails} \cup IF Listed(n) = {} THEN {Unexpected}
                 ELSE {Throws} \cup {Addresses(S) : S \in Found(n) \ {{}}}

Init ==
    /\ running = {}
    /\ listed = {}
    /\ shared = {}
    /\ lookup = Unanswered

\* An instance starts.  Its id may be taken already, by instances of its name;
\* otherwise no entry is disturbed but its own.
Start(i) ==
    /\ i \notin running
    /\ running' = running \cup {i}
    /\ \/ shared' = shared
       \/ \E S \in SUBSET Of(NameOf[i]) : i \in S /\ shared' = shared \cup S
    /\ listed' \in SUBSET listed
    /\ listed \ listed' \subseteq shared' \cup {i}
    /\ lookup' = lookup

\* It stays listed for a while when it ends.
End(i) ==
    /\ i \in running
    /\ running' = running \ {i}
    /\ listed' = listed /\ shared' = shared /\ lookup' = lookup

\* Only an instance that runs becomes listed.
List(i) ==
    /\ i \in running \cup shared
    /\ listed' = listed \cup {i}
    /\ running' = running /\ shared' = shared /\ lookup' = lookup

Unlist(S) ==
    /\ listed' = listed \ S
    /\ running' = running /\ shared' = shared /\ lookup' = lookup

Ask ==
    /\ lookup' = Unanswered
    /\ running' = running /\ listed' = listed /\ shared' = shared

Lookup(n) ==
    /\ lookup' \in Answers(n)
    /\ running' = running /\ listed' = listed /\ shared' = shared

Next ==
    \/ \E i \in Instances : Start(i) \/ End(i) \/ List(i)
    \/ \E S \in SUBSET listed : Unlist(S)
    \/ Ask
    \/ \E n \in Names : Lookup(n)

Spec == Init /\ [][Next]_vars

=============================================================================
