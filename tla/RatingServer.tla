---------------------------- MODULE RatingServer ----------------------------
(***************************************************************************)
(* One process of the rating service: the threads of the gRPC server that  *)
(* run GetAggregatedRating and PutRating, and the ingest thread, on the    *)
(* single PostgreSQL connection of the repository.                         *)
(*                                                                         *)
(* A call of Repository::Get or Put opens a transaction (pqxx::work, which *)
(* reads the connection's m_trans and, when it is null, sets it and sends  *)
(* BEGIN), executes one statement, commits, and releases the connection.   *)
(* Nothing makes reading and setting m_trans atomic, so two threads can be *)
(* inside at once; their statements then reach one session in some order.  *)
(***************************************************************************)
EXTENDS Integers, Sequences, FiniteSetsExt

CONSTANTS Handlers,   \* threads of the gRPC server
          Ingest,     \* the ingest thread
          Keys,       \* record id and type of a rated thing
          Users,      \* identifiers of users
          Values,     \* rating values
          MaxRows,    \* bound on the rows inserted, by all transactions
          None        \* no transaction, no call, no row

ASSUME ServerAssumption ==
    /\ Ingest \notin Handlers
    /\ Values \subseteq Int
    /\ MaxRows \in Nat
    /\ None \notin Handlers \cup {Ingest}

Threads == Handlers \cup {Ingest}

Rating == [key : Keys, user : Users, value : Values]

VARIABLES up,           \* the process runs
          connected,    \* its connection to the database is usable
          current,      \* m_trans: the transaction registered with it
          session,      \* transaction block of the database session
          uncommitted,  \* rows inserted in that block
          table,        \* committed rows of table ratings
          pc,           \* where each thread is
          call,         \* the call it serves
          found,        \* the ratings of the key of a Get that it read
          reply,        \* the last answer of each thread
          failed,       \* the statement or the commit of its call failed
          disturbed,    \* another transaction was open during its own
          known         \* keys with a committed row when the call came in

conn == <<up, connected, current, session, uncommitted, table>>
notes == <<failed, disturbed, known>>
vars == <<conn, pc, call, found, reply, notes>>

\* Threads between the registration of their transaction and its release.
InTransaction == {t \in Threads : pc[t] \in {"exec", "commit", "rollback"}}

KeysOf(rows) == {rows[k].key : k \in DOMAIN rows}

Gets == [kind : {"get"}, key : Keys]
Puts == [kind : {"put"}, rating : Rating]

Init ==
    /\ up = TRUE
    /\ connected = TRUE
    /\ current = None
    /\ session = "idle"
    /\ uncommitted = <<>>
    /\ table = <<>>
    /\ pc = [t \in Threads |-> "idle"]
    /\ call = [t \in Threads |-> None]
    /\ found = [t \in Threads |-> None]
    /\ reply = [t \in Threads |-> "none"]
    /\ failed = [t \in Threads |-> FALSE]
    /\ disturbed = [t \in Threads |-> FALSE]
    /\ known = [t \in Threads |-> {}]

\* A request reaches a handler, or the ingest thread an event.  Requests
\* without a record id, type or user are answered INVALID_ARGUMENT before the
\* repository is called, and are left out.
Call(t, c) ==
    /\ up
    /\ pc[t] = "idle"
    /\ t = Ingest => c \in Puts
    /\ c \in Puts => Len(table) + Len(uncommitted)
                        + Cardinality({s \in Threads : pc[s] # "idle"}) < MaxRows
    /\ pc' = [pc EXCEPT ![t] = "check"]
    /\ call' = [call EXCEPT ![t] = c]
    /\ found' = [found EXCEPT ![t] = None]
    /\ reply' = [reply EXCEPT ![t] = "none"]
    /\ failed' = [failed EXCEPT ![t] = FALSE]
    /\ disturbed' = [disturbed EXCEPT ![t] = FALSE]
    /\ known' = [known EXCEPT ![t] = KeysOf(table)]
    /\ UNCHANGED conn

\* t ends its call with the answer r.
Replies(t, r) ==
    /\ pc' = [pc EXCEPT ![t] = "idle"]
    /\ reply' = [reply EXCEPT ![t] = r]

\* The process ends: its session is rolled back, its callers get no answer.
ProcessEnds ==
    /\ up' = FALSE
    /\ connected' = FALSE
    /\ current' = None
    /\ session' = "idle"
    /\ uncommitted' = <<>>
    /\ pc' = [t \in Threads |-> "idle"]
    /\ reply' = [t \in Threads |-> IF pc[t] = "idle" THEN reply[t] ELSE "none"]
    /\ UNCHANGED <<call, found, notes>>

\* The exception of the constructor of pqxx::work, which stands outside the
\* try block: the gRPC library answers UNKNOWN for a handler, the ingest
\* thread ends the process.
Refused(t) ==
    IF t = Ingest
    THEN ProcessEnds /\ UNCHANGED table
    ELSE Replies(t, "UNKNOWN") /\ UNCHANGED <<conn, call, found, notes>>

\* The constructor looks whether the connection has a transaction.
CheckBusy_Waits(t) ==
    /\ pc[t] = "check"
    /\ t = Ingest
    /\ current # None
    /\ Refused(t)
CheckBusy(t) ==
    /\ pc[t] = "check"
    /\ current # None
    /\ Refused(t)

CheckFree(t) ==
    /\ pc[t] = "check"
    /\ current = None
    /\ pc' = [pc EXCEPT ![t] = "register"]
    /\ UNCHANGED <<conn, call, found, reply, notes>>

\* It registers the transaction and sends BEGIN, which does nothing but warn
\* in a block that is open.
Register(t) ==
    /\ pc[t] = "register"
    /\ connected
    /\ session # "aborted"
    /\ current' = t
    /\ session' = "open"
    /\ pc' = [pc EXCEPT ![t] = "exec"]
    /\ disturbed' = [s \in Threads |->
                        \/ disturbed[s]
                        \/ s \in InTransaction
                        \/ s = t /\ InTransaction # {}]
    /\ UNCHANGED <<up, connected, uncommitted, table, call, found, reply, failed, known>>

\* BEGIN fails, on a broken connection or in an aborted block: the
\* constructor releases the connection and throws.
BeginFails(t) ==
    /\ pc[t] = "register"
    /\ ~connected \/ session = "aborted"
    /\ IF t = Ingest
       THEN ProcessEnds /\ UNCHANGED table
       ELSE /\ Replies(t, "UNKNOWN")
            /\ current' = None
            /\ UNCHANGED <<up, connected, session, uncommitted, table, call, found, notes>>

CanExecute == connected /\ session # "aborted"

\* INSERT, outside a block when another thread's COMMIT has closed it.
ExecInsert_OnePerUser(t) ==
    /\ pc[t] = "exec"
    /\ call[t] \in Puts
    /\ CanExecute
    /\ table' = Append(SelectSeq(table, LAMBDA r : r.user # call[t].rating.user),
                       call[t].rating)
    /\ pc' = [pc EXCEPT ![t] = "commit"]
    /\ UNCHANGED <<up, connected, current, session, uncommitted, call, found, reply, notes>>
ExecInsert_SentAgain(t) ==
    /\ pc[t] = "exec"
    /\ call[t] \in Puts
    /\ CanExecute
    /\ session = "open"
    /\ \E rows \in {<<call[t].rating>>, <<call[t].rating, call[t].rating>>} :
          uncommitted' = uncommitted \o rows
    /\ pc' = [pc EXCEPT ![t] = "commit"]
    /\ UNCHANGED <<up, connected, current, session, table, call, found, reply, notes>>
ExecInsert(t) ==
    /\ pc[t] = "exec"
    /\ call[t] \in Puts
    /\ CanExecute
    /\ IF session = "open"
       THEN uncommitted' = Append(uncommitted, call[t].rating) /\ UNCHANGED table
       ELSE table' = Append(table, call[t].rating) /\ UNCHANGED uncommitted
    /\ pc' = [pc EXCEPT ![t] = "commit"]
    /\ UNCHANGED <<up, connected, current, session, call, found, reply, notes>>

\* What Get may make of the result of a SELECT.  It inserts the rows into a
\* RatingSet: the equality of Rating looks at record id and type only, so one row
\* remains, any of them.  When transactions have met on the connection, it may
\* take the result of another thread's command.
Selected(t) ==
    LET stored == {table[k] : k \in DOMAIN table}
                  \cup {uncommitted[k] : k \in DOMAIN uncommitted}
        rows == {r \in stored : r.key = call[t].key \/ disturbed[t]}
    IN  {{r} : r \in rows} \cup IF rows = {} \/ disturbed[t] THEN {{}} ELSE {}

ExecSelect_AnyKey(t) ==
    /\ pc[t] = "exec"
    /\ call[t] \in Gets
    /\ CanExecute
    /\ found' \in {[found EXCEPT ![t] = {table[k]}] : k \in DOMAIN table}
                  \cup {[found EXCEPT ![t] = {}]}
    /\ pc' = [pc EXCEPT ![t] = "commit"]
    /\ UNCHANGED <<conn, call, reply, notes>>
ExecSelect(t) ==
    /\ pc[t] = "exec"
    /\ call[t] \in Gets
    /\ CanExecute
    /\ found' \in {[found EXCEPT ![t] = S] : S \in Selected(t)}
    /\ pc' = [pc EXCEPT ![t] = "commit"]
    /\ UNCHANGED <<conn, call, reply, notes>>

\* The statement fails: the server rejects it (and, in a block, aborts the
\* block), the connection is broken, or libpq is in the middle of another
\* thread's command.
ExecFails(t) ==
    /\ pc[t] = "exec"
    /\ session' \in IF session = "idle" THEN {"idle"}
                    ELSE IF disturbed[t] THEN {session, "aborted"} ELSE {"aborted"}
    /\ pc' = [pc EXCEPT ![t] = "rollback"]
    /\ failed' = [failed EXCEPT ![t] = TRUE]
    /\ UNCHANGED <<up, connected, current, uncommitted, table, call, found, reply,
                   disturbed, known>>

\* The answer of a handler whose Get found ratings, or none, or whose Put
\* returned; of the ingest thread, that it goes on.
Answer(t) ==
    IF call[t] \in Puts \/ found[t] # {} THEN "OK" ELSE "NOT_FOUND"

\* COMMIT ends the block and makes its rows durable, or rolls an aborted
\* block back without an error; outside a block it only warns.
RowsCommit == table' = IF session = "open" THEN table \o uncommitted ELSE table

\* tx.commit() returns, and has released the connection.
Commit_NotSent(t) ==
    /\ pc[t] = "commit"
    /\ connected
    /\ session' = "idle"
    /\ uncommitted' = <<>>
    /\ current' = None
    /\ Replies(t, Answer(t))
    /\ UNCHANGED <<up, connected, table, call, found, notes>>
Commit(t) ==
    /\ pc[t] = "commit"
    /\ connected
    /\ RowsCommit
    /\ session' = "idle"
    /\ uncommitted' = <<>>
    /\ current' = None
    /\ Replies(t, Answer(t))
    /\ UNCHANGED <<up, connected, call, found, notes>>

\* No rating was found: the handler asks the expected value for its error,
\* which it does not have.  A build with assertions aborts there; one without
\* goes on, as in Commit, and answers NOT_FOUND.
CommitThenAborts(t) ==
    /\ pc[t] = "commit"
    /\ connected
    /\ found[t] = {}
    /\ RowsCommit
    /\ ProcessEnds

\* The connection is lost before the COMMIT, or before its answer.
CommitFails(t) ==
    /\ pc[t] = "commit"
    /\ ~connected
    /\ pc' = [pc EXCEPT ![t] = "rollback"]
    /\ failed' = [failed EXCEPT ![t] = TRUE]
    /\ UNCHANGED <<conn, call, found, reply, disturbed, known>>

\* A catch block returns after the destructor of pqxx::work: ROLLBACK, and
\* the connection is released.  Put has swallowed the error.
Rollback_ForgetsBlock(t) ==
    /\ pc[t] = "rollback"
    /\ current' = None
    /\ Replies(t, IF call[t] \in Puts THEN "OK" ELSE "NOT_FOUND")
    /\ UNCHANGED <<up, connected, session, uncommitted, table, call, found, notes>>
Rollback(t) ==
    /\ pc[t] = "rollback"
    /\ session' = "idle"
    /\ uncommitted' = <<>>
    /\ current' = None
    /\ Replies(t, IF call[t] \in Puts THEN "OK" ELSE "NOT_FOUND")
    /\ UNCHANGED <<up, connected, table, call, found, notes>>

\* The database drops the connection, having done or not done the COMMIT that
\* is under way.  The repository never opens another.
Disconnect ==
    /\ connected
    /\ connected' = FALSE
    /\ session' = "idle"
    /\ uncommitted' = <<>>
    /\ \/ UNCHANGED table
       \/ /\ session = "open"
          /\ \E t \in Threads : pc[t] = "commit"
          /\ table' = table \o uncommitted
    /\ UNCHANGED <<up, current, pc, call, found, reply, notes>>

\* The process is started again, with a connection of its own.
Restart ==
    /\ ~up
    /\ up' = TRUE
    /\ connected' = TRUE
    /\ reply' = [t \in Threads |-> "none"]
    /\ call' = [t \in Threads |-> None]
    /\ found' = [t \in Threads |-> None]
    /\ UNCHANGED <<current, session, uncommitted, table, pc, notes>>

Step(t) ==
    \/ CheckBusy(t)
    \/ CheckFree(t)
    \/ Register(t)
    \/ BeginFails(t)
    \/ ExecInsert(t)
    \/ ExecSelect(t)
    \/ ExecFails(t)
    \/ Commit(t)
    \/ CommitThenAborts(t)
    \/ CommitFails(t)
    \/ Rollback(t)

Next ==
    \/ \E t \in Threads : Step(t) \/ \E c \in Gets \cup Puts : Call(t, c)
    \/ Disconnect
    \/ Restart

Spec == Init /\ [][Next]_vars

\* The threads of the server and the ingest thread are scheduled.
FairSpec == Spec /\ \A t \in Threads : WF_vars(Step(t))

-----------------------------------------------------------------------------
\* The types of the connection, the table and the threads.
TypeOK ==
    /\ up \in BOOLEAN
    /\ connected \in BOOLEAN
    /\ current \in Threads \cup {None}
    /\ session \in {"idle", "open", "aborted"}
    /\ uncommitted \in Seq(Rating)
    /\ table \in Seq(Rating)
    /\ pc \in [Threads -> {"idle", "check", "register", "exec", "commit", "rollback"}]
    /\ call \in [Threads -> Gets \cup Puts \cup {None}]
    /\ found \in [Threads -> (SUBSET Rating) \cup {None}]
    /\ reply \in [Threads -> {"none", "OK", "NOT_FOUND", "UNKNOWN"}]
    /\ failed \in [Threads -> BOOLEAN]
    /\ disturbed \in [Threads -> BOOLEAN]
    /\ known \in [Threads -> SUBSET Keys]

\* A connection that no thread is inside of is free: no transaction is
\* registered, no block is open and no row waits in one.  Otherwise every
\* later call would be refused, or its rows rolled back with a block that is
\* not its own.  It holds for threads that race into one session as well.
ConnectionReleased ==
    InTransaction = {} => current = None /\ session = "idle" /\ uncommitted = <<>>

\* A call that had the session to itself and whose statements succeeded.
Clean(t) == pc[t] = "idle" /\ reply[t] # "none" /\ ~failed[t] /\ ~disturbed[t]

\* A clean PutRating that is answered OK has its rating in the table.
CleanPutStored ==
    \A t \in Threads :
        Clean(t) /\ call[t] \in Puts /\ reply[t] = "OK" =>
            \E k \in DOMAIN table : table[k] = call[t].rating

\* A clean GetAggregatedRating answers with a committed rating of its key; it
\* answers NOT_FOUND only when the key had no rating as the call came in.
CleanGetCurrent ==
    \A t \in Threads : Clean(t) /\ call[t] \in Gets =>
        /\ reply[t] = "OK" => \E k \in DOMAIN table :
               found[t] = {table[k]} /\ table[k].key = call[t].key
        /\ reply[t] = "NOT_FOUND" => call[t].key \notin known[t]

\* Rows are never changed or removed, and a refused call adds none: a step
\* that adds a row is an INSERT or a COMMIT, of rows that calls asked for.
OnlyAcceptedRowsAdded ==
    [][\/ table' = table
       \/ \E t \in InTransaction :
            /\ SubSeq(table', 1, Len(table)) = table
            /\ \A k \in (Len(table) + 1)..Len(table') :
                 \/ \E j \in DOMAIN uncommitted : uncommitted[j] = table'[k]
                 \/ call[t] \in Puts /\ call[t].rating = table'[k]]_vars

\* Every call is answered, or the process ends.
CallsAnswered == \A t \in Threads : pc[t] # "idle" ~> pc[t] = "idle"

\* The comment in GetAggregatedRating says that it computes the average of
\* the ratings: what it averages over, the set that Get read, has the mean of
\* the ratings of the key in the table.
AverageOverAllRatings ==
    [][\A t \in Threads : ExecSelect(t) /\ ~disturbed[t] =>
         LET ofKey == {k \in DOMAIN table : table[k].key = call[t].key}
             sum   == MapThenSumSet(LAMBDA k : table[k].value, ofKey)
         IN  \A r \in found'[t] : r.value * Cardinality(ofKey) = sum]_vars

-----------------------------------------------------------------------------
(* The service that callers see.                                           *)

Condition == IF ~up THEN "ended" ELSE IF connected THEN "working" ELSE "cut off"

Stage == [t \in Threads |->
             IF pc[t] = "idle" THEN "idle"
             ELSE IF pc[t] \in {"check", "register"} THEN "asked"
             ELSE IF pc[t] = "exec" THEN "begun" ELSE "done"]

Spoilt == {t \in Threads : failed[t] \/ disturbed[t]}

Service == INSTANCE RatingService WITH
    condition <- Condition, open <- uncommitted, stage <- Stage, spoilt <- Spoilt

\* The process keeps the promise of RatingService, whatever its threads do to
\* each other on the one connection: Get and Put are atomic for a call that is
\* alone, no call adds its rating twice, and a call that finds neither another
\* one in its transaction nor the connection broken is not refused.
RatingServiceSpec == Service!Spec

=============================================================================
