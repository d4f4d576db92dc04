---------------------------- MODULE RatingService ----------------------------
(***************************************************************************)
(* What one process of the rating service promises to its callers.         *)
(*                                                                         *)
(* There is a table of ratings, which only grows.  A call that is served   *)
(* alone is exact: a Put adds its rating once, and a Get reads the table   *)
(* at one moment.  Calls that are served together, or whose statement      *)
(* fails, are spoilt: they may read what is not durable yet or is not      *)
(* theirs, and lose what they wrote, but even they add a rating once at    *)
(* most.  A call that finds the service free and its database connected is *)
(* not refused.                                                            *)
(*                                                                         *)
(* Module RatingServer implements this one, with transactions that race    *)
(* for one connection.                                                     *)
(***************************************************************************)
EXTENDS Sequences

CONSTANTS Handlers,  \* threads that serve requests
          Ingest,    \* the thread that stores events
          Keys,      \* what is rated
          Users,     \* who rates
          Values,    \* ratings
          None       \* no call, nothing read

Threads == Handlers \cup {Ingest}
Rating == [key : Keys, user : Users, value : Values]
Gets == [kind : {"get"}, key : Keys]
Puts == [kind : {"put"}, rating : Rating]

VARIABLES condition,  \* of the process: "working", "cut off" or "ended"
          table,      \* durable rows
          open,       \* rows written and not durable yet
          stage,      \* of the call of each thread
          call,       \* the call
          found,      \* what it read: one row or none
          reply,      \* the last answer of each thread
          spoilt      \* threads whose call was not alone, or failed

database == <<condition, table, open>>
vars == <<database, stage, call, found, reply, spoilt>>

Served == {t \in Threads : stage[t] \in {"begun", "done"}}

\* There is a reason to refuse a call.
Refusable == Served # {} \/ condition = "cut off"

\* No call that has written relies on its rows.
NoneRelies == \A t \in Threads : stage[t] = "done" => t \in spoilt

\* The rows that were written become durable, or are lost.
Settle ==
    /\ \/ table' = table \o open
       \/ NoneRelies /\ table' = table
    /\ open' = <<>>

Init ==
    /\ condition = "working"
    /\ table = <<>>
    /\ open = <<>>
    /\ stage = [t \in Threads |-> "idle"]
    /\ call = [t \in Threads |-> None]
    /\ found = [t \in Threads |-> None]
    /\ reply = [t \in Threads |-> "none"]
    /\ spoilt = {}

Ask(t, c) ==
    /\ stage[t] = "idle"
    /\ t = Ingest => c \in Puts
    /\ stage' = [stage EXCEPT ![t] = "asked"]
    /\ call' = [call EXCEPT ![t] = c]
    /\ found' = [found EXCEPT ![t] = None]
    /\ reply' = [reply EXCEPT ![t] = "none"]
    /\ spoilt' = spoilt \ {t}
    /\ database' = database

Ends(t, r) ==
    /\ stage' = [stage EXCEPT ![t] = "idle"]
    /\ reply' = [reply EXCEPT ![t] = r]
    /\ call' = call /\ found' = found /\ spoilt' = spoilt

Refuse(t) ==
    /\ stage[t] = "asked"
    /\ t # Ingest
    /\ Refusable
    /\ Ends(t, "UNKNOWN")
    /\ database' = database

\* Calls that are served together are spoilt, all of them.
Begin(t) ==
    /\ stage[t] = "asked"
    /\ condition = "working"
    /\ stage' = [stage EXCEPT ![t] = "begun"]
    /\ spoilt' = IF Served = {} THEN spoilt ELSE spoilt \cup Served \cup {t}
    /\ database' = database /\ call' = call /\ found' = found /\ reply' = reply

Proceeds(t) ==
    /\ stage[t] = "begun"
    /\ condition = "working"
    /\ condition' = "working"
    /\ stage' = [stage EXCEPT ![t] = "done"]
    /\ call' = call /\ reply' = reply /\ spoilt' = spoilt

Write(t) ==
    /\ Proceeds(t)
    /\ call[t] \in Puts
    /\ \/ open' = Append(open, call[t].rating) /\ table' = table
       \/ t \in spoilt /\ table' = Append(table, call[t].rating) /\ open' = open
    /\ found' = found

Readable(t) ==
    {table[k] : k \in DOMAIN table}
    \cup IF t \in spoilt THEN {open[k] : k \in DOMAIN open} ELSE {}

Read(t) ==
    /\ Proceeds(t)
    /\ call[t] \in Gets
    /\ LET rows == {r \in Readable(t) : r.key = call[t].key \/ t \in spoilt}
       IN  \/ \E r \in rows : found' = [found EXCEPT ![t] = {r}]
           \/ (rows = {} \/ t \in spoilt) /\ found' = [found EXCEPT ![t] = {}]
    /\ table' = table /\ open' = open

\* A call fails before it has written or read, or when it loses the database.
Fail(t) ==
    /\ \/ stage[t] = "begun"
       \/ stage[t] = "done" /\ condition = "cut off"
    /\ stage' = [stage EXCEPT ![t] = "done"]
    /\ spoilt' = spoilt \cup {t}
    /\ database' = database /\ call' = call /\ found' = found /\ reply' = reply

\* The answer says what the call has done.
Answer(t) ==
    /\ stage[t] = "done"
    /\ condition = "working" /\ condition' = "working"
    /\ Settle
    /\ Ends(t, IF call[t] \in Puts \/ found[t] # {} THEN "OK" ELSE "NOT_FOUND")

\* A spoilt call may be answered although it has done nothing.
GiveUp(t) ==
    /\ stage[t] = "done"
    /\ t \in spoilt
    /\ NoneRelies
    /\ open' = <<>>
    /\ condition' = condition /\ table' = table
    /\ Ends(t, IF call[t] \in Puts THEN "OK" ELSE "NOT_FOUND")

\* The process ends: an event is refused, or a Get has found nothing.
End(t) ==
    /\ \/ t = Ingest /\ stage[t] = "asked" /\ Refusable /\ table' = table /\ open' = <<>>
       \/ stage[t] = "done" /\ condition = "working" /\ found[t] = {} /\ Settle
    /\ condition' = "ended"
    /\ stage' = [s \in Threads |-> "idle"]
    /\ reply' = [s \in Threads |-> IF stage[s] = "idle" THEN reply[s] ELSE "none"]
    /\ call' = call /\ found' = found /\ spoilt' = spoilt

\* The database goes away; rows that were about to become durable may have.
CutOff ==
    /\ condition = "working"
    /\ condition' = "cut off"
    /\ \/ table' = table
       \/ (\E t \in Threads : stage[t] = "done") /\ table' = table \o open
    /\ open' = <<>>
    /\ stage' = stage /\ call' = call /\ found' = found /\ reply' = reply /\ spoilt' = spoilt

Restart ==
    /\ condition = "ended"
    /\ condition' = "working"
    /\ reply' = [t \in Threads |-> "none"]
    /\ call' = [t \in Threads |-> None]
    /\ found' = [t \in Threads |-> None]
    /\ table' = table /\ open' = open /\ stage' = stage /\ spoilt' = spoilt

Next ==
    \/ \E t \in Threads :
         \/ \E c \in Gets \cup Puts : Ask(t, c)
         \/ Refuse(t) \/ Begin(t) \/ Write(t) \/ Read(t)
         \/ Fail(t) \/ Answer(t) \/ GiveUp(t) \/ End(t)
    \/ CutOff
    \/ Restart

Spec == Init /\ [][Next]_vars

=============================================================================
