-------------------------- MODULE RatingIngestion --------------------------
(***************************************************************************)
(* Ingestion of rating events: instances of the rating service, each with  *)
(* an ingest thread (Controller::doIngestion) that polls a Kafka consumer  *)
(* of one group (Ingester::Poll) and inserts what it gets into the ratings *)
(* table that all instances share (Repository::Put of the PostgreSQL       *)
(* repository).                                                            *)
(*                                                                         *)
(* The broker and the consumer library are external.  An instance is an    *)
(* owner for the broker as long as the broker believes it alive; what it   *)
(* believes itself is in its positions, and it may go on for a while after *)
(* the broker has evicted it.                                              *)
(***************************************************************************)
EXTENDS RatingModel

CONSTANTS Instances,    \* processes of the rating service
          Partitions,   \* partitions of the topic "ratings"
          Payloads,     \* messages that producers publish
          MaxLog,       \* bound on the messages of a partition
          OffsetReset,  \* auto.offset.reset of the consumer
          AutoCommit,   \* enable.auto.commit of the consumer
          None          \* no instance, no message

ASSUME IngestionAssumption ==
    /\ Payloads \subseteq Seq(RatingEvent \cup {Malformed})
    /\ MaxLog \in Nat
    /\ OffsetReset \in {"earliest", "latest"}
    /\ AutoCommit \in BOOLEAN
    /\ None \notin Instances
    /\ None \notin Partitions \X Nat

VARIABLES log,        \* broker: the messages of a partition, offsets from 0
          committed,  \* broker: the group's committed offset
          owner,      \* broker: the member a partition is assigned to
          position,   \* consumer: the offset it will deliver next
          pc,         \* where the ingest thread is
          held,       \* partition and offset of the message Poll got
          events,     \* the set that Poll fills
          todo,       \* the events the loop of doIngestion has yet to visit
          stopping,   \* the stop token of the ingest thread
          table       \* the rows that ingestion has inserted, in order

brokerVars == <<log, committed, owner>>
threadVars == <<pc, held, events, todo>>
vars == <<brokerVars, position, threadVars, stopping, table>>

NoOffset == -1

Row(p, o, e) == [partition |-> p, offset |-> o, event |-> e]

Init ==
    /\ log = [p \in Partitions |-> <<>>]
    /\ committed = [p \in Partitions |-> NoOffset]
    /\ owner = [p \in Partitions |-> None]
    /\ position = [i \in Instances |-> [p \in Partitions |-> NoOffset]]
    /\ pc = [i \in Instances |-> "down"]
    /\ held = [i \in Instances |-> None]
    /\ events = [i \in Instances |-> {}]
    /\ todo = [i \in Instances |-> {}]
    /\ stopping = [i \in Instances |-> FALSE]
    /\ table = <<>>

-----------------------------------------------------------------------------
(* Broker and consumer library.                                            *)

Produce(p, m) ==
    /\ Len(log[p]) < MaxLog
    /\ log' = [log EXCEPT ![p] = Append(@, m)]
    /\ UNCHANGED <<committed, owner, position, threadVars, stopping, table>>

StartOffset(p) ==
    IF committed[p] # NoOffset     THEN committed[p]
    ELSE IF OffsetReset = "latest" THEN Len(log[p])
    ELSE 0

\* A rebalance gives p to i.  The consumer serves it inside poll.
Assign_KeepsPosition(i, p) ==
    /\ pc[i] = "poll"
    /\ owner[p] = None
    /\ owner' = [owner EXCEPT ![p] = i]
    /\ position' = [position EXCEPT ![i][p] =
                        IF @ = NoOffset THEN StartOffset(p) ELSE @]
    /\ UNCHANGED <<log, committed, threadVars, stopping, table>>
Assign(i, p) ==
    /\ pc[i] = "poll"
    /\ owner[p] = None
    /\ owner' = [owner EXCEPT ![p] = i]
    /\ position' = [position EXCEPT ![i][p] = StartOffset(p)]
    /\ UNCHANGED <<log, committed, threadVars, stopping, table>>

\* The broker takes p from its owner: missed heartbeats, or a poll interval
\* exceeded by a slow Put.  The owner does not know yet.
Evict(p) ==
    /\ owner[p] # None
    /\ owner' = [owner EXCEPT ![p] = None]
    /\ UNCHANGED <<log, committed, position, threadVars, stopping, table>>

\* The consumer of i learns, inside poll, that it has lost p.
Revoked(i, p) ==
    /\ pc[i] = "poll"
    /\ owner[p] # i
    /\ position[i][p] # NoOffset
    /\ position' = [position EXCEPT ![i][p] = NoOffset]
    /\ UNCHANGED <<brokerVars, threadVars, stopping, table>>

\* The consumer's timer commits the offset after the last message it has
\* delivered.  Poll commits each message itself, so there is something to
\* commit only between the delivery and that commit.
TimerCommits(i) ==
    /\ AutoCommit
    /\ pc[i] = "commit"
    /\ owner[held[i][1]] = i
    /\ committed' = [committed EXCEPT ![held[i][1]] = held[i][2] + 1]
    /\ UNCHANGED <<log, owner, position, threadVars, stopping, table>>

-----------------------------------------------------------------------------
(* The ingest thread.                                                      *)

\* Controller::StartIngestion, in a new process or after Stop in this one.
Start(i) ==
    /\ pc[i] \in {"down", "stopped"}
    /\ pc' = [pc EXCEPT ![i] = "poll"]
    /\ held' = [held EXCEPT ![i] = None]
    /\ events' = [events EXCEPT ![i] = {}]
    /\ todo' = [todo EXCEPT ![i] = {}]
    /\ stopping' = [stopping EXCEPT ![i] = FALSE]
    /\ UNCHANGED <<brokerVars, position, table>>

\* Poll's second got no message within the time limit, or an error or an
\* end-of-partition notice in place of one.
PollNothing_KeepsEvents(i) ==
    /\ pc[i] = "poll"
    /\ pc' = [pc EXCEPT ![i] = "apply"]
    /\ todo' = [todo EXCEPT ![i] = events[i]]
    /\ UNCHANGED <<brokerVars, position, held, events, stopping, table>>
PollNothing(i) ==
    /\ pc[i] = "poll"
    /\ pc' = [pc EXCEPT ![i] = "apply"]
    /\ held' = [held EXCEPT ![i] = None]
    /\ events' = [events EXCEPT ![i] = {}]
    /\ todo' = [todo EXCEPT ![i] = {}]
    /\ UNCHANGED <<brokerVars, position, stopping, table>>

\* Poll gets a message of p and parses it; its commit is the next step.
PollMessage_RejectsMalformed(i, p) ==
    /\ pc[i] = "poll"
    /\ position[i][p] # NoOffset
    /\ position[i][p] < Len(log[p])
    /\ \A k \in DOMAIN log[p][position[i][p] + 1] :
            log[p][position[i][p] + 1][k] # Malformed
    /\ position' = [position EXCEPT ![i][p] = @ + 1]
    /\ pc' = [pc EXCEPT ![i] = "commit"]
    /\ held' = [held EXCEPT ![i] = <<p, position[i][p]>>]
    /\ events' = [events EXCEPT ![i] = ParsedEvents(log[p][position[i][p] + 1])]
    /\ UNCHANGED <<brokerVars, todo, stopping, table>>
PollMessage(i, p) ==
    /\ pc[i] = "poll"
    /\ position[i][p] # NoOffset
    /\ position[i][p] < Len(log[p])
    /\ position' = [position EXCEPT ![i][p] = @ + 1]
    /\ pc' = [pc EXCEPT ![i] = "commit"]
    /\ held' = [held EXCEPT ![i] = <<p, position[i][p]>>]
    /\ events' = [events EXCEPT ![i] = ParsedEvents(log[p][position[i][p] + 1])]
    /\ UNCHANGED <<brokerVars, todo, stopping, table>>

\* consumer_->commit(msg) succeeds: the broker still takes i for the owner.
CommitOffset_OfMessage(i) ==
    /\ pc[i] = "commit"
    /\ owner[held[i][1]] = i
    /\ committed' = [committed EXCEPT ![held[i][1]] = held[i][2]]
    /\ pc' = [pc EXCEPT ![i] = "apply"]
    /\ todo' = [todo EXCEPT ![i] = events[i]]
    /\ UNCHANGED <<log, owner, position, held, events, stopping, table>>
CommitOffset(i) ==
    /\ pc[i] = "commit"
    /\ owner[held[i][1]] = i
    /\ committed' = [committed EXCEPT ![held[i][1]] = held[i][2] + 1]
    /\ pc' = [pc EXCEPT ![i] = "apply"]
    /\ todo' = [todo EXCEPT ![i] = events[i]]
    /\ UNCHANGED <<log, owner, position, held, events, stopping, table>>

\* The process of i ends, with the consumer and what the thread held.
Ended(i) ==
    /\ pc' = [pc EXCEPT ![i] = "down"]
    /\ held' = [held EXCEPT ![i] = None]
    /\ events' = [events EXCEPT ![i] = {}]
    /\ todo' = [todo EXCEPT ![i] = {}]
    /\ stopping' = [stopping EXCEPT ![i] = FALSE]
    /\ position' = [position EXCEPT ![i] = [p \in Partitions |-> NoOffset]]
    /\ owner' = [p \in Partitions |-> IF owner[p] = i THEN None ELSE owner[p]]
    /\ UNCHANGED <<log, table>>

\* consumer_->commit(msg) throws out of the thread and ends the process: the
\* member was evicted, or the answer was lost, the broker having taken the
\* commit or not.
CommitFails(i) ==
    /\ pc[i] = "commit"
    /\ \/ UNCHANGED committed
       \/ /\ owner[held[i][1]] = i
          /\ committed' = [committed EXCEPT ![held[i][1]] = held[i][2] + 1]
    /\ Ended(i)

\* One turn of the loop of doIngestion, which takes the events of the
\* unordered set in any order: Put inserts the rating.
Insert_AnyType(i, e) ==
    /\ pc[i] = "apply"
    /\ e \in todo[i]
    /\ table' = Append(table, Row(held[i][1], held[i][2], e))
    /\ todo' = [todo EXCEPT ![i] = @ \ {e}]
    /\ UNCHANGED <<brokerVars, position, pc, held, events, stopping>>
Insert(i, e) ==
    /\ pc[i] = "apply"
    /\ e \in todo[i]
    /\ e.eventType = "put"
    /\ table' = Append(table, Row(held[i][1], held[i][2], e))
    /\ todo' = [todo EXCEPT ![i] = @ \ {e}]
    /\ UNCHANGED <<brokerVars, position, pc, held, events, stopping>>

\* Put catches the error of the statement or of the commit, and logs it.
InsertFails(i, e) ==
    /\ pc[i] = "apply"
    /\ e \in todo[i]
    /\ e.eventType = "put"
    /\ todo' = [todo EXCEPT ![i] = @ \ {e}]
    /\ UNCHANGED <<brokerVars, position, pc, held, events, stopping, table>>

\* The transaction that Put opens before its try block throws: another is
\* open on the connection, or the connection is broken.
PutThrows(i, e) ==
    /\ pc[i] = "apply"
    /\ e \in todo[i]
    /\ e.eventType = "put"
    /\ Ended(i)
    /\ UNCHANGED committed

\* An event of another type than "put" is passed over.
SkipEvent(i, e) ==
    /\ pc[i] = "apply"
    /\ e \in todo[i]
    /\ e.eventType # "put"
    /\ todo' = [todo EXCEPT ![i] = @ \ {e}]
    /\ UNCHANGED <<brokerVars, position, pc, held, events, stopping, table>>

\* After the loop the thread looks at the token, and sleeps.
EndOfBatch_StopsAtOnce(i) ==
    /\ pc[i] = "apply"
    /\ stopping[i] \/ todo[i] = {}
    /\ pc' = [pc EXCEPT ![i] = IF stopping[i] THEN "stopped" ELSE "poll"]
    /\ UNCHANGED <<brokerVars, position, held, events, todo, stopping, table>>
EndOfBatch_IgnoresStop(i) ==
    /\ pc[i] = "apply"
    /\ todo[i] = {}
    /\ pc' = [pc EXCEPT ![i] = "poll"]
    /\ UNCHANGED <<brokerVars, position, held, events, todo, stopping, table>>
EndOfBatch(i) ==
    /\ pc[i] = "apply"
    /\ todo[i] = {}
    /\ pc' = [pc EXCEPT ![i] = IF stopping[i] THEN "stopped" ELSE "poll"]
    /\ UNCHANGED <<brokerVars, position, held, events, todo, stopping, table>>

\* Controller::Stop: requests the stop and waits for the thread, that is,
\* until pc[i] is "stopped".
Stop(i) ==
    /\ pc[i] \notin {"down", "stopped"}
    /\ ~stopping[i]
    /\ stopping' = [stopping EXCEPT ![i] = TRUE]
    /\ UNCHANGED <<brokerVars, position, threadVars, table>>

\* The process exits after Stop, or crashes wherever its thread is.
Exit(i) ==
    /\ pc[i] # "down"
    /\ Ended(i)
    /\ UNCHANGED committed

Broker ==
    \/ \E p \in Partitions, m \in Payloads : Produce(p, m)
    \/ \E p \in Partitions : Evict(p)
    \/ \E i \in Instances, p \in Partitions : Assign(i, p) \/ Revoked(i, p)
    \/ \E i \in Instances : TimerCommits(i)

ThreadStep(i) ==
    \/ PollNothing(i)
    \/ \E p \in Partitions : PollMessage(i, p)
    \/ CommitOffset(i)
    \/ CommitFails(i)
    \/ \E e \in todo[i] : \/ Insert(i, e)
                          \/ InsertFails(i, e)
                          \/ PutThrows(i, e)
                          \/ SkipEvent(i, e)
    \/ EndOfBatch(i)

Next ==
    \/ Broker
    \/ \E i \in Instances : Start(i) \/ ThreadStep(i) \/ Stop(i) \/ Exit(i)

Spec == Init /\ [][Next]_vars

\* A thread that can run runs.  A message that is there is not passed over
\* by poll for ever.
Fairness ==
    \A i \in Instances :
        /\ WF_vars(ThreadStep(i))
        /\ \A p \in Partitions : SF_vars(PollMessage(i, p))

FairSpec == Spec /\ Fairness

-----------------------------------------------------------------------------
\* The types of the broker's, the consumers' and the threads' state.
TypeOK ==
    /\ log \in [Partitions -> Seq(Payloads)]
    /\ committed \in [Partitions -> Nat \cup {NoOffset}]
    /\ owner \in [Partitions -> Instances \cup {None}]
    /\ position \in [Instances -> [Partitions -> Nat \cup {NoOffset}]]
    /\ pc \in [Instances -> {"down", "poll", "commit", "apply", "stopped"}]
    /\ held \in [Instances -> (Partitions \X Nat) \cup {None}]
    /\ events \in [Instances -> SUBSET RatingEvent]
    /\ todo \in [Instances -> SUBSET RatingEvent]
    /\ stopping \in [Instances -> BOOLEAN]
    /\ table \in Seq([partition : Partitions, offset : Nat, event : RatingEvent])

\* No event of a message is inserted twice, whatever crashes, evictions and
\* rebalances come between: Poll commits a message before doIngestion
\* applies it, and a commit of an evicted member is refused.
AtMostOnce == \A j, k \in DOMAIN table : table[j] = table[k] => j = k

\* The inductive invariant behind AtMostOnce and CommitsInOrder.
Applying(i) == pc[i] = "apply" /\ todo[i] # {}

Holds(i, p) == pc[i] = "commit" /\ held[i][1] = p

\* No row has an offset that the group could still be handed.
RowsCommitted ==
    \A k \in DOMAIN table : table[k].offset < committed[table[k].partition]

\* Nor has a message that is being applied.
ApplyingCommitted ==
    \A i \in Instances : Applying(i) =>
        held[i] # None /\ held[i][2] < committed[held[i][1]]

\* What an instance has yet to insert is not in the table.
ApplyingFresh ==
    \A i \in Instances : Applying(i) =>
        \A e \in todo[i], k \in DOMAIN table :
            table[k] # Row(held[i][1], held[i][2], e)

\* Two instances never apply one message.
ApplyingApart ==
    \A i, j \in Instances :
        Applying(i) /\ Applying(j) /\ held[i] = held[j] => i = j

\* The position of the owner of a partition and its committed offset go
\* together, one message apart while the owner is about to commit.
OwnerInStep ==
    \A i \in Instances, p \in Partitions : owner[p] = i =>
        LET o == IF Holds(i, p) THEN held[i][2] ELSE position[i][p]
        IN  /\ o \in Nat
            /\ Holds(i, p) => position[i][p] = o + 1
            /\ \/ committed[p] = NoOffset /\ (OffsetReset = "earliest" => o = 0)
               \/ committed[p] = o
               \/ committed[p] = o + 1 /\ Holds(i, p)

\* A message that its owner is about to commit is new: no row is of it and no
\* other instance applies it.
HeldIsNew ==
    \A i \in Instances : pc[i] = "commit" =>
        /\ held[i] # None
        /\ owner[held[i][1]] = i =>
              /\ \A k \in DOMAIN table :
                    ~ /\ table[k].partition = held[i][1]
                      /\ table[k].offset = held[i][2]
              /\ \A j \in Instances : Applying(j) => held[j] # held[i]

IngestionInv ==
    /\ TypeOK
    /\ AtMostOnce
    /\ RowsCommitted
    /\ ApplyingCommitted
    /\ ApplyingFresh
    /\ ApplyingApart
    /\ OwnerInStep
    /\ HeldIsNew

\* Once the group has a committed offset it only ever moves on by one
\* message; with the reset "earliest" it starts with the first.  So no commit
\* of one instance undoes that of another or jumps over a message.
CommitsInOrder ==
    [][\A p \in Partitions : committed'[p] # committed[p] =>
            IF committed[p] # NoOffset
            THEN committed'[p] = committed[p] + 1
            ELSE OffsetReset = "earliest" => committed'[p] = 1]_vars

\* The ratings of a message, as one set element for each row that inserting
\* them leaves: the "put" events that Poll keeps.
Rows(p, o) ==
    {Row(p, o, e) : e \in {f \in ParsedEvents(log[p][o + 1]) : f.eventType = "put"}}

Published ==
    UNION {UNION {Rows(p, o) : o \in 0..(Len(log[p]) - 1)} : p \in Partitions}

Stored == {table[k] : k \in DOMAIN table}

\* What instance i may still insert of the message it holds: nothing when
\* its commit will be refused.
InHand(i) ==
    CASE pc[i] = "apply" ->
            {Row(held[i][1], held[i][2], e) : e \in todo[i]}
      [] pc[i] = "commit" /\ owner[held[i][1]] = i ->
            {Row(held[i][1], held[i][2], e) : e \in events[i]}
      [] OTHER -> {}

\* Ratings of committed messages that are neither stored nor in the hands of
\* an instance: nothing will ever deliver them again.
Lost == {r \in Published : /\ r.offset < committed[r.partition]
                           /\ r \notin Stored
                           /\ \A i \in Instances : r \notin InHand(i)}

\* A rating that becomes lost was in the hands of an instance that ended,
\* whose INSERT failed, or that was evicted after the timer's commit and
\* before its own: no order of polls, rebalances and graceful stops loses one.
\* (With the reset "latest" so does the group's first commit, for the messages
\* before the offset the group began with.)
LossNeedsFault ==
    [][\A r \in Lost' \ Lost :
            \/ /\ OffsetReset = "latest"
               /\ committed[r.partition] = NoOffset
            \/ \E i \in Instances :
                 /\ r \in InHand(i)
                 /\ \/ pc'[i] = "down"
                    \/ InsertFails(i, r.event)
                    \/ AutoCommit /\ pc[i] = "commit" /\ Evict(r.partition)]_vars

\* The ingestion implements what EventDelivery promises.
Delivery == INSTANCE EventDelivery WITH
    Ratings     <- [partition : Partitions, offset : Nat, event : RatingEvent],
    MayJoinLate <- (OffsetReset = "latest"),
    published   <- Published,
    stored      <- table,
    lost        <- Lost

\* Every step of broker, consumers and ingest threads publishes, stores or
\* loses ratings as EventDelivery allows, or leaves them alone: a rating is
\* stored once or lost, for good, a delete is never stored, and one incident
\* costs at most one message.
EventDeliverySpec == Delivery!Spec

\* After Stop has requested it the thread comes to its end, so that Stop's
\* join returns.
StopReturns ==
    \A i \in Instances : stopping[i] ~> pc[i] \in {"stopped", "down"}

\* An instance that keeps a partition, and is not stopped, works it off: from
\* some time on nothing of the partition waits for it.
OwnerDrains ==
    \A i \in Instances, p \in Partitions :
        <>[](owner[p] = i /\ pc[i] # "stopped")
            => <>[](/\ position[i][p] = Len(log[p])
                    /\ \A r \in Published : r.partition = p => r \notin InHand(i))

=============================================================================
