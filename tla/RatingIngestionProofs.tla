----------------------- MODULE RatingIngestionProofs -----------------------
(***************************************************************************)
(* Proofs about RatingIngestion: no event is inserted twice, committed     *)
(* offsets move in order, losses need a fault, EventDelivery is            *)
(* implemented, a stop ends the thread and an owner drains its partition,  *)
(* for all sets of instances, partitions and messages and all consumer     *)
(* settings.                                                               *)
(***************************************************************************)
EXTENDS RatingIngestion, SequenceTheorems, FiniteDescent, FiniteSetTheorems, TLAPS

\* Every item that KeyedSet keeps is one of the sequence.
LEMMA ParsedEventsType ==
    ASSUME NEW m \in Payloads
    PROVE  ParsedEvents(m) \subseteq RatingEvent
<1>1. m \in Seq(RatingEvent \cup {Malformed})
  BY IngestionAssumption
<1>2. CASE \E k \in DOMAIN m : m[k] = Malformed
  BY <1>2 DEF ParsedEvents
<1>3. CASE \A k \in DOMAIN m : m[k] # Malformed
  <2>1. \A k \in DOMAIN m : m[k] \in RatingEvent
    BY <1>1, <1>3
  <2> QED
    BY <1>3, <2>1 DEF ParsedEvents, KeyedSet
<1> QED
  BY <1>2, <1>3


\* The fields of a row.
LEMMA RowType ==
    ASSUME TypeOK, NEW k \in DOMAIN table
    PROVE  /\ table[k].partition \in Partitions
           /\ table[k].offset \in Nat
           /\ table[k].event \in RatingEvent
<1>1. table \in Seq([partition : Partitions, offset : Nat, event : RatingEvent])
  BY DEF TypeOK
<1>2. k \in 1..Len(table)
  BY <1>1
<1>3. table[k] \in [partition : Partitions, offset : Nat, event : RatingEvent]
  BY <1>1, <1>2, ElementOfSeq
<1> QED
  BY <1>3

\* Offsets of the broker and of the consumers are integers.
LEMMA OffsetType ==
    ASSUME TypeOK
    PROVE  /\ \A p \in Partitions : committed[p] \in Int /\ committed[p] >= NoOffset
           /\ \A i \in Instances, p \in Partitions :
                position[i][p] \in Int /\ position[i][p] >= NoOffset
           /\ \A i \in Instances : held[i] # None =>
                /\ held[i] = <<held[i][1], held[i][2]>>
                /\ held[i][1] \in Partitions
                /\ held[i][2] \in Nat
<1>1. \A p \in Partitions : committed[p] \in Int /\ committed[p] >= NoOffset
  BY DEF TypeOK, NoOffset
<1>2. \A i \in Instances, p \in Partitions :
            position[i][p] \in Int /\ position[i][p] >= NoOffset
  BY DEF TypeOK, NoOffset
<1>3. \A i \in Instances : held[i] # None =>
            /\ held[i] = <<held[i][1], held[i][2]>>
            /\ held[i][1] \in Partitions
            /\ held[i][2] \in Nat
  BY DEF TypeOK
<1> QED
  BY <1>1, <1>2, <1>3

LEMMA OffsetTypePrimed ==
    ASSUME TypeOK'
    PROVE  \A p \in Partitions : committed'[p] \in Int /\ committed'[p] >= NoOffset
BY DEF TypeOK, NoOffset

\* A step that inserts nothing and hands out nothing keeps the invariant:
\* partitions change hands only to nobody, no instance begins to apply or to
\* commit a message, committed offsets only grow.
LEMMA QuietStep ==
    ASSUME IngestionInv, TypeOK',
           table' = table,
           \A p \in Partitions : committed[p] <= committed'[p],
           \A i \in Instances, p \in Partitions : owner'[p] = i =>
                /\ owner[p] = i
                /\ position'[i][p] = position[i][p]
                /\ committed'[p] = committed[p]
                /\ Holds(i, p)' <=> Holds(i, p),
           \A i \in Instances : Applying(i)' =>
                Applying(i) /\ held'[i] = held[i] /\ todo'[i] \subseteq todo[i],
           \A i \in Instances : pc'[i] = "commit" =>
                pc[i] = "commit" /\ held'[i] = held[i]
    PROVE  IngestionInv'
<1>1. AtMostOnce'
  BY DEF IngestionInv, AtMostOnce
<1>2. RowsCommitted'
  <2> SUFFICES ASSUME NEW k \in DOMAIN table
               PROVE  table[k].offset < committed'[table[k].partition]
    BY DEF RowsCommitted
  <2>1. /\ table[k].partition \in Partitions
        /\ table[k].offset \in Nat
    BY RowType DEF IngestionInv
  <2>2. table[k].offset < committed[table[k].partition]
    BY DEF IngestionInv, RowsCommitted
  <2> QED
    BY <2>1, <2>2, OffsetType, OffsetTypePrimed DEF IngestionInv
<1>3. ApplyingCommitted'
  <2> SUFFICES ASSUME NEW i \in Instances, Applying(i)'
               PROVE  held'[i] # None /\ held'[i][2] < committed'[held'[i][1]]
    BY DEF ApplyingCommitted
  <2>1. /\ held'[i] = held[i]
        /\ held[i] # None
        /\ held[i][2] < committed[held[i][1]]
    BY DEF IngestionInv, ApplyingCommitted
  <2>2. held[i][1] \in Partitions /\ held[i][2] \in Nat
    BY <2>1, OffsetType DEF IngestionInv
  <2> QED
    BY <2>1, <2>2, OffsetType, OffsetTypePrimed DEF IngestionInv
<1>4. ApplyingFresh'
  BY DEF IngestionInv, ApplyingFresh
<1>5. ApplyingApart'
  BY DEF IngestionInv, ApplyingApart
<1>6. OwnerInStep'
  <2> SUFFICES ASSUME NEW i \in Instances, NEW p \in Partitions, owner'[p] = i
               PROVE  LET o == IF Holds(i, p)' THEN held'[i][2] ELSE position'[i][p]
                      IN  /\ o \in Nat
                          /\ Holds(i, p)' => position'[i][p] = o + 1
                          /\ \/ /\ committed'[p] = NoOffset
                                /\ OffsetReset = "earliest" => o = 0
                             \/ committed'[p] = o
                             \/ committed'[p] = o + 1 /\ Holds(i, p)'
    BY DEF OwnerInStep, NoOffset
  <2>1. Holds(i, p)' => held'[i] = held[i]
    BY DEF Holds
  <2> QED
    BY <2>1 DEF IngestionInv, OwnerInStep
<1>7. HeldIsNew'
  <2> SUFFICES ASSUME NEW i \in Instances, pc'[i] = "commit"
               PROVE  /\ held'[i] # None
                      /\ owner'[held'[i][1]] = i =>
                            /\ \A k \in DOMAIN table :
                                  ~ /\ table[k].partition = held'[i][1]
                                    /\ table[k].offset = held'[i][2]
                            /\ \A j \in Instances :
                                  Applying(j)' => held'[j] # held'[i]
    BY DEF HeldIsNew
  <2>1. held'[i] = held[i] /\ held[i] # None
    BY DEF IngestionInv, HeldIsNew
  <2>2. held[i][1] \in Partitions
    BY <2>1, OffsetType DEF IngestionInv
  <2> QED
    BY <2>1, <2>2 DEF IngestionInv, HeldIsNew
<1> QED
  BY <1>1, <1>2, <1>3, <1>4, <1>5, <1>6, <1>7 DEF IngestionInv

-----------------------------------------------------------------------------
(* The steps that insert nothing and hand out nothing.                     *)

LEMMA ProduceStep ==
    ASSUME IngestionInv, NEW p \in Partitions, NEW m \in Payloads, Produce(p, m)
    PROVE  IngestionInv'
<1>1. TypeOK'
  BY DEF IngestionInv, TypeOK, Produce, threadVars
<1> QED
  BY <1>1, QuietStep, OffsetType
  DEF IngestionInv, Produce, threadVars, Applying, Holds

LEMMA EvictStep ==
    ASSUME IngestionInv, NEW p \in Partitions, Evict(p)
    PROVE  IngestionInv'
<1>1. TypeOK'
  BY DEF IngestionInv, TypeOK, Evict, threadVars
<1>2. \A i \in Instances, q \in Partitions : owner'[q] = i => owner[q] = i
  BY IngestionAssumption DEF IngestionInv, TypeOK, Evict
<1> QED
  BY <1>1, <1>2, QuietStep, OffsetType
  DEF IngestionInv, Evict, threadVars, Applying, Holds

LEMMA RevokedStep ==
    ASSUME IngestionInv, NEW i \in Instances, NEW p \in Partitions, Revoked(i, p)
    PROVE  IngestionInv'
<1>1. TypeOK'
  BY DEF IngestionInv, TypeOK, Revoked, brokerVars, threadVars
<1>2. \A j \in Instances, q \in Partitions :
        owner'[q] = j => position'[j][q] = position[j][q]
  BY DEF IngestionInv, TypeOK, Revoked, brokerVars
<1> QED
  BY <1>1, <1>2, QuietStep, OffsetType
  DEF IngestionInv, Revoked, brokerVars, threadVars, Applying, Holds

LEMMA StartStep ==
    ASSUME IngestionInv, NEW i \in Instances, Start(i)
    PROVE  IngestionInv'
<1>1. TypeOK'
  BY DEF IngestionInv, TypeOK, Start, brokerVars
<1>2. \A j \in Instances :
        /\ Applying(j)' => Applying(j) /\ held'[j] = held[j] /\ todo'[j] = todo[j]
        /\ pc'[j] = "commit" => pc[j] = "commit" /\ held'[j] = held[j]
        /\ \A p \in Partitions : Holds(j, p)' <=> Holds(j, p)
  BY DEF IngestionInv, TypeOK, Start, Applying, Holds
<1> QED
  BY <1>1, <1>2, QuietStep, OffsetType DEF IngestionInv, Start, brokerVars

LEMMA PollNothingStep ==
    ASSUME IngestionInv, NEW i \in Instances, PollNothing(i)
    PROVE  IngestionInv'
<1>1. TypeOK'
  BY DEF IngestionInv, TypeOK, PollNothing, brokerVars
<1>2. \A j \in Instances :
        /\ Applying(j)' => Applying(j) /\ held'[j] = held[j] /\ todo'[j] = todo[j]
        /\ pc'[j] = "commit" => pc[j] = "commit" /\ held'[j] = held[j]
        /\ \A p \in Partitions : Holds(j, p)' <=> Holds(j, p)
  BY DEF IngestionInv, TypeOK, PollNothing, Applying, Holds
<1> QED
  BY <1>1, <1>2, QuietStep, OffsetType DEF IngestionInv, PollNothing, brokerVars

\* A turn of the loop of doIngestion that inserts nothing.
LEMMA DropStep ==
    ASSUME IngestionInv, NEW i \in Instances, NEW e \in todo[i],
           InsertFails(i, e) \/ SkipEvent(i, e)
    PROVE  IngestionInv'
<1> USE DEF InsertFails, SkipEvent
<1>1. TypeOK'
  BY DEF IngestionInv, TypeOK, brokerVars
<1>2. \A j \in Instances :
        /\ Applying(j)' => Applying(j) /\ todo'[j] \subseteq todo[j]
        /\ \A p \in Partitions : Holds(j, p)' <=> Holds(j, p)
  BY DEF IngestionInv, TypeOK, Applying, Holds
<1> QED
  BY <1>1, <1>2, QuietStep, OffsetType DEF IngestionInv, brokerVars

LEMMA EndOfBatchStep ==
    ASSUME IngestionInv, NEW i \in Instances, EndOfBatch(i)
    PROVE  IngestionInv'
<1>1. TypeOK'
  BY DEF IngestionInv, TypeOK, EndOfBatch, brokerVars
<1>2. \A j \in Instances :
        /\ Applying(j)' => Applying(j)
        /\ pc'[j] = "commit" => pc[j] = "commit"
        /\ \A p \in Partitions : Holds(j, p)' <=> Holds(j, p)
  BY DEF IngestionInv, TypeOK, EndOfBatch, Applying, Holds
<1> QED
  BY <1>1, <1>2, QuietStep, OffsetType DEF IngestionInv, EndOfBatch, brokerVars

LEMMA StopStep ==
    ASSUME IngestionInv, NEW i \in Instances, Stop(i)
    PROVE  IngestionInv'
<1>1. TypeOK'
  BY DEF IngestionInv, TypeOK, Stop, brokerVars, threadVars
<1> QED
  BY <1>1, QuietStep, OffsetType
  DEF IngestionInv, Stop, brokerVars, threadVars, Applying, Holds

\* The end of a process, the broker having taken the commit it was about to
\* make or not.
LEMMA EndedStep ==
    ASSUME IngestionInv, NEW i \in Instances, Ended(i),
           \/ UNCHANGED committed
           \/ /\ pc[i] = "commit"
              /\ owner[held[i][1]] = i
              /\ committed' = [committed EXCEPT ![held[i][1]] = held[i][2] + 1]
    PROVE  IngestionInv'
<1>1. TypeOK'
  <2>1. pc[i] = "commit" => held[i] # None
    BY DEF IngestionInv, HeldIsNew
  <2>2. pc[i] = "commit" => held[i][1] \in Partitions /\ held[i][2] + 1 \in Nat
    BY <2>1, OffsetType DEF IngestionInv
  <2>3. committed \in [Partitions -> Nat \cup {NoOffset}]
    BY DEF IngestionInv, TypeOK
  <2>4. committed' \in [Partitions -> Nat \cup {NoOffset}]
    BY <2>2, <2>3
  <2> QED
    BY <2>4 DEF IngestionInv, TypeOK, Ended, NoOffset
<1>2. /\ \A j \in Instances :
            /\ Applying(j)' => Applying(j) /\ held'[j] = held[j] /\ todo'[j] = todo[j]
            /\ pc'[j] = "commit" => pc[j] = "commit" /\ held'[j] = held[j]
      /\ \A j \in Instances, q \in Partitions :
            owner'[q] = j => /\ owner[q] = j
                             /\ j # i
                             /\ position'[j][q] = position[j][q]
                             /\ Holds(j, q)' <=> Holds(j, q)
  BY IngestionAssumption DEF IngestionInv, TypeOK, Ended, Applying, Holds
<1>3. \A q \in Partitions :
        /\ committed[q] <= committed'[q]
        /\ owner[q] # i => committed'[q] = committed[q]
  <2>1. CASE UNCHANGED committed
    BY <2>1, OffsetType DEF IngestionInv
  <2>2. CASE /\ pc[i] = "commit"
             /\ owner[held[i][1]] = i
             /\ committed' = [committed EXCEPT ![held[i][1]] = held[i][2] + 1]
    <3>1. /\ held[i] # None
          /\ held[i][1] \in Partitions
          /\ held[i][2] \in Nat
      BY <2>2, OffsetType DEF IngestionInv, HeldIsNew
    <3>2. committed[held[i][1]] <= held[i][2] + 1
      BY <2>2, <3>1, OffsetType DEF IngestionInv, OwnerInStep, Holds, NoOffset
    <3> QED
      BY <2>2, <3>1, <3>2, OffsetType DEF IngestionInv, TypeOK
  <2> QED
    BY <2>1, <2>2
<1> QED
  BY <1>1, <1>2, <1>3, QuietStep DEF Ended

-----------------------------------------------------------------------------
(* The steps that hand out a partition or a message.                       *)

LEMMA AssignStep ==
    ASSUME IngestionInv, NEW i \in Instances, NEW p \in Partitions, Assign(i, p)
    PROVE  IngestionInv'
<1> USE DEF Assign
<1>1. /\ StartOffset(p) \in Nat
      /\ \/ committed[p] = StartOffset(p)
         \/ /\ committed[p] = NoOffset
            /\ OffsetReset = "earliest" => StartOffset(p) = 0
  BY DEF IngestionInv, TypeOK, StartOffset, NoOffset
<1>2. TypeOK'
  BY <1>1 DEF IngestionInv, TypeOK, threadVars, NoOffset
<1>3. AtMostOnce' /\ RowsCommitted'
  BY DEF IngestionInv, AtMostOnce, RowsCommitted
<1>4. ApplyingCommitted' /\ ApplyingFresh' /\ ApplyingApart'
  BY DEF IngestionInv, ApplyingCommitted, ApplyingFresh, ApplyingApart,
         Applying, threadVars
<1>5. OwnerInStep'
  <2> SUFFICES ASSUME NEW j \in Instances, NEW q \in Partitions, owner'[q] = j
               PROVE  LET o == IF Holds(j, q) THEN held[j][2] ELSE position'[j][q]
                      IN  /\ o \in Nat
                          /\ Holds(j, q) => position'[j][q] = o + 1
                          /\ \/ /\ committed[q] = NoOffset
                                /\ OffsetReset = "earliest" => o = 0
                             \/ committed[q] = o
                             \/ committed[q] = o + 1 /\ Holds(j, q)
    BY DEF OwnerInStep, Holds, NoOffset, threadVars
  <2>1. CASE j = i /\ q = p
    <3>1. ~Holds(i, p)
      BY DEF Holds
    <3>2. position'[i][p] = StartOffset(p)
      BY DEF IngestionInv, TypeOK
    <3> QED
      BY <1>1, <2>1, <3>1, <3>2
  <2>2. CASE ~(j = i /\ q = p)
    <3>1. owner[q] = j /\ position'[j][q] = position[j][q]
      BY <2>2 DEF IngestionInv, TypeOK
    <3> QED
      BY <3>1 DEF IngestionInv, OwnerInStep
  <2> QED
    BY <2>1, <2>2
<1>6. HeldIsNew'
  <2>1. \A j \in Instances : pc[j] = "commit" =>
            /\ held[j][1] \in Partitions
            /\ owner'[held[j][1]] = j => owner[held[j][1]] = j
    BY OffsetType DEF IngestionInv, TypeOK, HeldIsNew
  <2> QED
    BY <2>1 DEF IngestionInv, HeldIsNew, Applying, threadVars
<1> QED
  BY <1>2, <1>3, <1>4, <1>5, <1>6 DEF IngestionInv

\* The offset that the owner polls is the committed one or, when the group
\* has none, the first of the partition for it: no row is of it yet.
LEMMA PollMessageStep ==
    ASSUME IngestionInv, NEW i \in Instances, NEW p \in Partitions,
           PollMessage(i, p)
    PROVE  IngestionInv'
<1> DEFINE o == position[i][p]
<1>1. o \in Nat /\ o + 1 \in DOMAIN log[p]
  BY OffsetType DEF IngestionInv, TypeOK, PollMessage, NoOffset
<1>2. ParsedEvents(log[p][o + 1]) \subseteq RatingEvent
  <2>1. log[p][o + 1] \in Payloads
    BY <1>1 DEF IngestionInv, TypeOK
  <2> QED
    BY <2>1, ParsedEventsType
<1>3. /\ held'[i] = <<p, o>>
      /\ pc'[i] = "commit"
      /\ position'[i][p] = o + 1
      /\ \A j \in Instances, q \in Partitions :
            ~(j = i /\ q = p) => position'[j][q] = position[j][q]
      /\ \A j \in Instances \ {i} : held'[j] = held[j] /\ pc'[j] = pc[j]
      /\ ~Applying(i)
      /\ \A j \in Instances : Applying(j)' <=> Applying(j)
  BY DEF IngestionInv, TypeOK, PollMessage, Applying
<1>4. /\ pc[i] = "poll"
      /\ UNCHANGED <<committed, owner, todo, table>>
  BY DEF PollMessage, brokerVars
<1>5. TypeOK'
  <2>1. position' \in [Instances -> [Partitions -> Nat \cup {NoOffset}]]
    BY <1>1 DEF IngestionInv, TypeOK, PollMessage
  <2>2. held' \in [Instances -> (Partitions \X Nat) \cup {None}]
    BY <1>1 DEF IngestionInv, TypeOK, PollMessage
  <2>3. events' \in [Instances -> SUBSET RatingEvent]
    BY <1>2 DEF IngestionInv, TypeOK, PollMessage
  <2> QED
    BY <2>1, <2>2, <2>3 DEF IngestionInv, TypeOK, PollMessage, brokerVars, NoOffset
<1>6. AtMostOnce' /\ RowsCommitted'
  BY <1>4 DEF IngestionInv, AtMostOnce, RowsCommitted
<1>7. ApplyingCommitted'
  BY <1>3, <1>4 DEF IngestionInv, ApplyingCommitted
<1>8. ApplyingFresh'
  BY <1>3, <1>4 DEF IngestionInv, ApplyingFresh
<1>9. ApplyingApart'
  BY <1>3, <1>4 DEF IngestionInv, ApplyingApart
<1>10. OwnerInStep'
  <2> SUFFICES ASSUME NEW j \in Instances, NEW q \in Partitions, owner[q] = j
               PROVE  LET n == IF Holds(j, q)' THEN held'[j][2] ELSE position'[j][q]
                      IN  /\ n \in Nat
                          /\ Holds(j, q)' => position'[j][q] = n + 1
                          /\ \/ /\ committed[q] = NoOffset
                                /\ OffsetReset = "earliest" => n = 0
                             \/ committed[q] = n
                             \/ committed[q] = n + 1 /\ Holds(j, q)'
    BY <1>4 DEF OwnerInStep, NoOffset
  <2>1. CASE j = i
    <3>1. ~Holds(i, q)
      BY <1>4 DEF Holds
    <3>2. Holds(i, q)' <=> q = p
      BY <1>3 DEF Holds
    <3> QED
      BY <1>1, <1>3, <2>1, <3>1, <3>2 DEF IngestionInv, OwnerInStep
  <2>2. CASE j # i
    <3>1. /\ Holds(j, q)' <=> Holds(j, q)
          /\ held'[j] = held[j]
          /\ position'[j][q] = position[j][q]
      BY <1>3, <2>2 DEF Holds
    <3> QED
      BY <3>1 DEF IngestionInv, OwnerInStep
  <2> QED
    BY <2>1, <2>2
<1>11. HeldIsNew'
  <2> SUFFICES ASSUME NEW j \in Instances, pc'[j] = "commit"
               PROVE  /\ held'[j] # None
                      /\ owner[held'[j][1]] = j =>
                            /\ \A k \in DOMAIN table :
                                  ~ /\ table[k].partition = held'[j][1]
                                    /\ table[k].offset = held'[j][2]
                            /\ \A l \in Instances :
                                  Applying(l) => held'[l] # held'[j]
    BY <1>3, <1>4 DEF HeldIsNew
  <2>1. CASE j = i
    <3>1. held'[i] # None
      BY <1>1, <1>3, IngestionAssumption
    <3>2. held'[i][1] = p /\ held'[i][2] = o
      BY <1>3
    <3>3. \A l \in Instances : Applying(l) => held'[l] = held[l]
      BY <1>3
    <3> SUFFICES ASSUME owner[p] = i
                 PROVE  /\ \A k \in DOMAIN table :
                            ~(table[k].partition = p /\ table[k].offset = o)
                        /\ \A l \in Instances : Applying(l) => held[l] # <<p, o>>
      <4> HIDE DEF o
      <4> QED
        BY <1>3, <2>1, <3>1, <3>2, <3>3
    <3>4. committed[p] <= o
      BY <1>1, <1>4 DEF IngestionInv, OwnerInStep, Holds, NoOffset
    <3>5. ASSUME NEW k \in DOMAIN table, table[k].partition = p, table[k].offset = o
          PROVE  FALSE
      BY <1>1, <3>4, <3>5, OffsetType DEF IngestionInv, RowsCommitted
    <3>6. ASSUME NEW l \in Instances, Applying(l), held[l] = <<p, o>>
          PROVE  FALSE
      BY <1>1, <3>4, <3>6, OffsetType DEF IngestionInv, ApplyingCommitted
    <3> QED
      BY <3>5, <3>6
  <2>2. CASE j # i
    BY <1>3, <2>2 DEF IngestionInv, HeldIsNew
  <2> QED
    BY <2>1, <2>2
<1> QED
  BY <1>5, <1>6, <1>7, <1>8, <1>9, <1>10, <1>11 DEF IngestionInv

-----------------------------------------------------------------------------
(* The steps that commit, and the one that inserts.                        *)

\* What a commit of the owner does to the committed offsets.
LEMMA CommitMoves ==
    ASSUME IngestionInv, NEW i \in Instances,
           pc[i] = "commit",
           owner[held[i][1]] = i,
           committed' = [committed EXCEPT ![held[i][1]] = held[i][2] + 1]
    PROVE  /\ held[i] # None
           /\ held[i] = <<held[i][1], held[i][2]>>
           /\ held[i][1] \in Partitions
           /\ held[i][2] \in Nat
           /\ position[i][held[i][1]] = held[i][2] + 1
           /\ committed'[held[i][1]] = held[i][2] + 1
           /\ \/ /\ committed[held[i][1]] = NoOffset
                 /\ OffsetReset = "earliest" => held[i][2] = 0
              \/ committed[held[i][1]] = held[i][2]
              \/ committed[held[i][1]] = held[i][2] + 1
           /\ \A q \in Partitions : q # held[i][1] => committed'[q] = committed[q]
           /\ \A q \in Partitions :
                committed[q] <= committed'[q] /\ committed'[q] \in Int
           /\ committed' \in [Partitions -> Nat \cup {NoOffset}]
<1>1. /\ held[i] # None
      /\ held[i] = <<held[i][1], held[i][2]>>
      /\ held[i][1] \in Partitions
      /\ held[i][2] \in Nat
  BY OffsetType DEF IngestionInv, HeldIsNew
<1>2. committed \in [Partitions -> Nat \cup {NoOffset}]
  BY DEF IngestionInv, TypeOK
<1>3. /\ position[i][held[i][1]] = held[i][2] + 1
      /\ \/ /\ committed[held[i][1]] = NoOffset
            /\ OffsetReset = "earliest" => held[i][2] = 0
         \/ committed[held[i][1]] = held[i][2]
         \/ committed[held[i][1]] = held[i][2] + 1
  BY <1>1 DEF IngestionInv, OwnerInStep, Holds
<1>4. /\ committed'[held[i][1]] = held[i][2] + 1
      /\ \A q \in Partitions : q # held[i][1] => committed'[q] = committed[q]
      /\ committed' \in [Partitions -> Nat \cup {NoOffset}]
  BY <1>1, <1>2
<1>5. \A q \in Partitions : committed[q] <= committed'[q] /\ committed'[q] \in Int
  BY <1>1, <1>2, <1>3, <1>4 DEF NoOffset
<1> QED
  BY <1>1, <1>3, <1>4, <1>5

\* Moving a committed offset on covers the rows and the appliers it covered.
LEMMA CommitCovers ==
    ASSUME IngestionInv, table' = table,
           \A q \in Partitions : committed[q] <= committed'[q] /\ committed'[q] \in Int
    PROVE  /\ RowsCommitted'
           /\ \A j \in Instances : Applying(j) => held[j][2] < committed'[held[j][1]]
<1>1. ASSUME NEW k \in DOMAIN table
      PROVE  table[k].offset < committed'[table[k].partition]
  <2>1. table[k].offset < committed[table[k].partition]
    BY DEF IngestionInv, RowsCommitted
  <2> QED
    BY <2>1, RowType, OffsetType DEF IngestionInv
<1>2. ASSUME NEW j \in Instances, Applying(j)
      PROVE  held[j][2] < committed'[held[j][1]]
  <2>1. held[j] # None /\ held[j][2] < committed[held[j][1]]
    BY <1>2 DEF IngestionInv, ApplyingCommitted
  <2> QED
    BY <2>1, OffsetType DEF IngestionInv
<1> QED
  BY <1>1, <1>2 DEF RowsCommitted

LEMMA TimerCommitsStep ==
    ASSUME IngestionInv, NEW i \in Instances, TimerCommits(i)
    PROVE  IngestionInv'
<1> DEFINE p == held[i][1]
<1>1. /\ pc[i] = "commit"
      /\ owner[p] = i
      /\ committed' = [committed EXCEPT ![p] = held[i][2] + 1]
      /\ UNCHANGED <<log, owner, position, threadVars, stopping, table>>
  BY DEF TimerCommits
<1>2. Holds(i, p)
  BY <1>1 DEF Holds
<1>3. TypeOK'
  BY <1>1, CommitMoves DEF IngestionInv, TypeOK, threadVars, NoOffset
<1>4. AtMostOnce' /\ RowsCommitted'
  BY <1>1, CommitMoves, CommitCovers DEF IngestionInv, AtMostOnce
<1>5. ApplyingCommitted'
  BY <1>1, CommitMoves, CommitCovers
  DEF IngestionInv, ApplyingCommitted, Applying, threadVars
<1>6. ApplyingFresh' /\ ApplyingApart' /\ HeldIsNew'
  BY <1>1 DEF IngestionInv, ApplyingFresh, ApplyingApart, HeldIsNew, Applying,
              threadVars
<1>7. OwnerInStep'
  <2> SUFFICES ASSUME NEW j \in Instances, NEW q \in Partitions, owner[q] = j
               PROVE  LET o == IF Holds(j, q) THEN held[j][2] ELSE position[j][q]
                      IN  /\ o \in Nat
                          /\ Holds(j, q) => position[j][q] = o + 1
                          /\ \/ /\ committed'[q] = NoOffset
                                /\ OffsetReset = "earliest" => o = 0
                             \/ committed'[q] = o
                             \/ committed'[q] = o + 1 /\ Holds(j, q)
    BY <1>1 DEF OwnerInStep, Holds, NoOffset, threadVars
  <2>1. CASE q = p
    BY <1>1, <1>2, <2>1, CommitMoves
  <2>2. CASE q # p
    <3>1. committed'[q] = committed[q]
      BY <1>1, <2>2, CommitMoves
    <3> QED
      BY <3>1 DEF IngestionInv, OwnerInStep
  <2> QED
    BY <2>1, <2>2
<1> QED
  BY <1>3, <1>4, <1>5, <1>6, <1>7 DEF IngestionInv

LEMMA CommitOffsetStep ==
    ASSUME IngestionInv, NEW i \in Instances, CommitOffset(i)
    PROVE  IngestionInv'
<1> DEFINE p == held[i][1]
           o == held[i][2]
<1>1. /\ pc[i] = "commit"
      /\ owner[p] = i
      /\ committed' = [committed EXCEPT ![p] = o + 1]
      /\ UNCHANGED <<log, owner, position, held, events, stopping, table>>
  BY DEF CommitOffset
<1>2. /\ pc'[i] = "apply"
      /\ todo'[i] = events[i]
      /\ \A j \in Instances \ {i} : pc'[j] = pc[j] /\ todo'[j] = todo[j]
      /\ \A j \in Instances \ {i} : Applying(j)' <=> Applying(j)
      /\ ~Applying(i)
  BY DEF IngestionInv, TypeOK, CommitOffset, Applying
<1>3. TypeOK'
  <2>1. committed' \in [Partitions -> Nat \cup {NoOffset}]
    BY <1>1, CommitMoves
  <2>2. /\ todo' \in [Instances -> SUBSET RatingEvent]
        /\ pc' \in [Instances -> {"down", "poll", "commit", "apply", "stopped"}]
    BY DEF IngestionInv, TypeOK, CommitOffset
  <2> QED
    BY <1>1, <2>1, <2>2 DEF IngestionInv, TypeOK, NoOffset
<1>4. AtMostOnce' /\ RowsCommitted'
  BY <1>1, CommitMoves, CommitCovers DEF IngestionInv, AtMostOnce
<1>5. /\ \A k \in DOMAIN table :
            ~ (table[k].partition = p /\ table[k].offset = o)
      /\ \A j \in Instances : Applying(j) => held[j] # held[i]
  BY <1>1 DEF IngestionInv, HeldIsNew
<1>6. ApplyingCommitted'
  <2> SUFFICES ASSUME NEW j \in Instances, Applying(j)'
               PROVE  held[j] # None /\ held[j][2] < committed'[held[j][1]]
    BY <1>1 DEF ApplyingCommitted
  <2>1. CASE j = i
    <3>1. /\ held[i] # None
          /\ o \in Nat
          /\ committed'[p] = o + 1
      BY <1>1, CommitMoves
    <3> QED
      BY <2>1, <3>1
  <2>2. CASE j # i
    <3>1. Applying(j)
      BY <1>2, <2>2
    <3> QED
      BY <1>1, <3>1, CommitMoves, CommitCovers DEF IngestionInv, ApplyingCommitted
  <2> QED
    BY <2>1, <2>2
<1>7. ApplyingFresh'
  <2> SUFFICES ASSUME NEW j \in Instances, Applying(j)',
                      NEW e \in todo'[j], NEW k \in DOMAIN table
               PROVE  table[k] # Row(held[j][1], held[j][2], e)
    BY <1>1 DEF ApplyingFresh, Row
  <2>1. CASE j = i
    BY <1>5, <2>1 DEF Row
  <2>2. CASE j # i
    BY <1>2, <2>2 DEF IngestionInv, ApplyingFresh
  <2> QED
    BY <2>1, <2>2
<1>8. ApplyingApart'
  BY <1>1, <1>2, <1>5 DEF IngestionInv, ApplyingApart
<1>9. OwnerInStep'
  <2> SUFFICES ASSUME NEW j \in Instances, NEW q \in Partitions, owner[q] = j
               PROVE  LET n == IF Holds(j, q)' THEN held[j][2] ELSE position[j][q]
                      IN  /\ n \in Nat
                          /\ Holds(j, q)' => position[j][q] = n + 1
                          /\ \/ /\ committed'[q] = NoOffset
                                /\ OffsetReset = "earliest" => n = 0
                             \/ committed'[q] = n
                             \/ committed'[q] = n + 1 /\ Holds(j, q)'
    BY <1>1 DEF OwnerInStep, NoOffset
  <2>1. CASE j = i /\ q = p
    <3>1. ~Holds(i, p)'
      BY <1>2 DEF Holds
    <3>2. /\ position[i][p] = o + 1
          /\ committed'[p] = o + 1
          /\ o \in Nat
      BY <1>1, CommitMoves
    <3> QED
      BY <2>1, <3>1, <3>2 DEF Holds
  <2>2. CASE ~(j = i /\ q = p)
    <3>1. committed'[q] = committed[q]
      BY <1>1, <2>2, CommitMoves
    <3>2. Holds(j, q)' <=> Holds(j, q)
      BY <1>1, <1>2, <2>2 DEF Holds
    <3> QED
      BY <3>1, <3>2 DEF IngestionInv, OwnerInStep
  <2> QED
    BY <2>1, <2>2
<1>10. HeldIsNew'
  <2> SUFFICES ASSUME NEW j \in Instances, pc'[j] = "commit"
               PROVE  /\ held[j] # None
                      /\ owner[held[j][1]] = j =>
                            /\ \A k \in DOMAIN table :
                                  ~ /\ table[k].partition = held[j][1]
                                    /\ table[k].offset = held[j][2]
                            /\ \A l \in Instances : Applying(l)' => held[l] # held[j]
    BY <1>1 DEF HeldIsNew
  <2>1. j # i /\ pc[j] = "commit"
    BY <1>2
  <2>2. owner[held[j][1]] = j => held[i] # held[j]
    BY <1>1, <2>1
  <2> QED
    BY <1>2, <2>1, <2>2 DEF IngestionInv, HeldIsNew
<1> QED
  BY <1>3, <1>4, <1>6, <1>7, <1>8, <1>9, <1>10 DEF IngestionInv

\* The row that is inserted comes from a message that its instance alone
\* applies, and its event leaves todo with it.
LEMMA InsertStep ==
    ASSUME IngestionInv, NEW i \in Instances, NEW e \in todo[i], Insert(i, e)
    PROVE  IngestionInv'
<1> DEFINE r == Row(held[i][1], held[i][2], e)
           RowSet == [partition : Partitions, offset : Nat, event : RatingEvent]
<1>1. /\ Applying(i)
      /\ table' = Append(table, r)
      /\ todo' = [todo EXCEPT ![i] = @ \ {e}]
      /\ UNCHANGED <<log, committed, owner, position, pc, held, events, stopping>>
  BY DEF Insert, Applying, brokerVars
<1>2. /\ held[i] # None
      /\ held[i] = <<held[i][1], held[i][2]>>
      /\ held[i][1] \in Partitions
      /\ held[i][2] \in Nat
      /\ held[i][2] < committed[held[i][1]]
  BY <1>1, OffsetType DEF IngestionInv, ApplyingCommitted
<1>3. /\ r \in RowSet
      /\ r.partition = held[i][1]
      /\ r.offset = held[i][2]
      /\ r.event = e
  BY <1>2 DEF IngestionInv, TypeOK, Row
<1>4. \A j \in Instances :
        /\ Applying(j)' => Applying(j)
        /\ todo'[j] \subseteq todo[j]
        /\ j = i => e \notin todo'[j]
  BY <1>1 DEF IngestionInv, TypeOK, Applying
<1>5. /\ table' \in Seq(RowSet)
      /\ \A k \in DOMAIN table' :
            \/ k \in DOMAIN table /\ table'[k] = table[k]
            \/ k = Len(table) + 1 /\ table'[k] = r
  <2>1. table \in Seq(RowSet)
    BY DEF IngestionInv, TypeOK
  <2> HIDE DEF r, RowSet
  <2> QED
    BY <1>1, <1>3, <2>1, AppendProperties
<1>6. \A k \in DOMAIN table : table[k] # r
  BY <1>1 DEF IngestionInv, ApplyingFresh
<1>7. TypeOK'
  <2>1. todo' \in [Instances -> SUBSET RatingEvent]
    BY <1>1 DEF IngestionInv, TypeOK
  <2> QED
    BY <1>1, <1>5, <2>1 DEF IngestionInv, TypeOK, NoOffset
<1>8. AtMostOnce'
  <2> HIDE DEF r
  <2> QED
    BY <1>5, <1>6 DEF IngestionInv, AtMostOnce
<1>9. RowsCommitted'
  <2> HIDE DEF r
  <2> QED
    BY <1>1, <1>2, <1>3, <1>5 DEF IngestionInv, RowsCommitted
<1>10. ApplyingCommitted'
  BY <1>1, <1>4 DEF IngestionInv, ApplyingCommitted
<1>11. ApplyingFresh'
  <2> SUFFICES ASSUME NEW j \in Instances, Applying(j)',
                      NEW f \in todo'[j], NEW k \in DOMAIN table'
               PROVE  table'[k] # Row(held[j][1], held[j][2], f)
    BY <1>1 DEF ApplyingFresh, Row
  <2>1. Applying(j) /\ f \in todo[j]
    BY <1>4
  <2>2. ASSUME r = Row(held[j][1], held[j][2], f)
        PROVE  FALSE
    <3>1. held[j][1] = held[i][1] /\ held[j][2] = held[i][2] /\ f = e
      BY <1>3, <2>2 DEF Row
    <3>2. held[j] = <<held[j][1], held[j][2]>>
      BY <2>1, OffsetType DEF IngestionInv, ApplyingCommitted
    <3>3. held[j] = held[i]
      BY <1>2, <3>1, <3>2
    <3>4. j = i
      BY <1>1, <2>1, <3>3 DEF IngestionInv, ApplyingApart
    <3> QED
      BY <1>4, <3>1, <3>4
  <2>3. \A n \in DOMAIN table : table[n] # Row(held[j][1], held[j][2], f)
    BY <2>1 DEF IngestionInv, ApplyingFresh
  <2> HIDE DEF r
  <2> QED
    BY <1>5, <2>2, <2>3
<1>12. ApplyingApart'
  BY <1>1, <1>4 DEF IngestionInv, ApplyingApart
<1>13. OwnerInStep'
  BY <1>1 DEF IngestionInv, OwnerInStep, Holds, NoOffset
<1>14. HeldIsNew'
  <2> SUFFICES ASSUME NEW j \in Instances, pc[j] = "commit", owner[held[j][1]] = j,
                      NEW k \in DOMAIN table',
                      table'[k].partition = held[j][1],
                      table'[k].offset = held[j][2]
               PROVE  FALSE
    BY <1>1, <1>4 DEF IngestionInv, HeldIsNew
  <2>1. held[j] # None /\ held[i] # held[j]
    BY <1>1 DEF IngestionInv, HeldIsNew
  <2>2. held[j] = <<held[j][1], held[j][2]>>
    BY <2>1, OffsetType DEF IngestionInv
  <2>3. ~(r.partition = held[j][1] /\ r.offset = held[j][2])
    BY <1>2, <1>3, <2>1, <2>2
  <2>4. \A n \in DOMAIN table :
            ~(table[n].partition = held[j][1] /\ table[n].offset = held[j][2])
    BY DEF IngestionInv, HeldIsNew
  <2> HIDE DEF r
  <2> QED
    BY <1>5, <2>3, <2>4
<1> QED
  BY <1>7, <1>8, <1>9, <1>10, <1>11, <1>12, <1>13, <1>14 DEF IngestionInv

-----------------------------------------------------------------------------

LEMMA InitInv == Init => IngestionInv
<1> SUFFICES ASSUME Init PROVE IngestionInv
  OBVIOUS
<1> USE DEF Init
<1>1. TypeOK
  BY DEF TypeOK, NoOffset
<1>2. /\ AtMostOnce
      /\ RowsCommitted
      /\ ApplyingCommitted
      /\ ApplyingFresh
      /\ ApplyingApart
      /\ HeldIsNew
  BY DEF AtMostOnce, RowsCommitted, ApplyingCommitted, ApplyingFresh,
         ApplyingApart, HeldIsNew, Applying
<1>3. OwnerInStep
  BY IngestionAssumption DEF OwnerInStep
<1> QED
  BY <1>1, <1>2, <1>3 DEF IngestionInv

LEMMA NextInv == IngestionInv /\ [Next]_vars => IngestionInv'
<1> SUFFICES ASSUME IngestionInv, [Next]_vars PROVE IngestionInv'
  OBVIOUS
<1>1. CASE Broker
  BY <1>1, ProduceStep, EvictStep, AssignStep, RevokedStep, TimerCommitsStep
  DEF Broker
<1>2. ASSUME NEW i \in Instances, Start(i) \/ Stop(i) \/ Exit(i)
      PROVE  IngestionInv'
  BY <1>2, StartStep, StopStep, EndedStep DEF Exit
<1>3. ASSUME NEW i \in Instances, ThreadStep(i)
      PROVE  IngestionInv'
  <2>1. CASE CommitFails(i)
    BY <2>1, EndedStep DEF CommitFails
  <2>2. ASSUME NEW e \in todo[i],
               \/ Insert(i, e) \/ InsertFails(i, e)
               \/ PutThrows(i, e) \/ SkipEvent(i, e)
        PROVE  IngestionInv'
    BY <2>2, InsertStep, DropStep, EndedStep DEF PutThrows
  <2> QED
    BY <1>3, <2>1, <2>2, PollNothingStep, PollMessageStep, CommitOffsetStep,
       EndOfBatchStep
    DEF ThreadStep
<1>4. CASE UNCHANGED vars
  <2> USE <1>4 DEF vars, brokerVars, threadVars
  <2>1. TypeOK'
    BY DEF IngestionInv, TypeOK
  <2> QED
    BY <2>1, QuietStep, OffsetType DEF IngestionInv, Applying, Holds
<1> QED
  BY <1>1, <1>2, <1>3, <1>4 DEF Next

\* The conjunction that IngestionInv names holds in every state that broker,
\* consumers and ingest threads reach.
THEOREM IngestionInvariant == Spec => []IngestionInv
<1> QED
  BY InitInv, NextInv, PTL DEF Spec

\* Poll's commit before doIngestion's inserts, and the broker's refusal of an
\* evicted member's commit, keep every event of a message from being inserted
\* a second time.
THEOREM InsertedAtMostOnce == Spec => []AtMostOnce
<1>1. IngestionInv => AtMostOnce
  BY DEF IngestionInv
<1> QED
  BY <1>1, IngestionInvariant, PTL

LEMMA CommitStepsInOrder ==
    ASSUME IngestionInv, [Next]_vars
    PROVE  \A p \in Partitions : committed'[p] # committed[p] =>
                IF committed[p] # NoOffset
                THEN committed'[p] = committed[p] + 1
                ELSE OffsetReset = "earliest" => committed'[p] = 1
<1>1. \/ UNCHANGED committed
      \/ \E i \in Instances :
            /\ pc[i] = "commit"
            /\ owner[held[i][1]] = i
            /\ committed' = [committed EXCEPT ![held[i][1]] = held[i][2] + 1]
  BY DEF Next, vars, brokerVars, threadVars, Broker, ThreadStep, Produce, Evict,
         Assign, Revoked, TimerCommits, Start, PollNothing, PollMessage,
         CommitOffset, CommitFails, Insert, InsertFails, PutThrows, SkipEvent,
         EndOfBatch, Stop, Exit
<1>2. ASSUME NEW i \in Instances,
             pc[i] = "commit",
             owner[held[i][1]] = i,
             committed' = [committed EXCEPT ![held[i][1]] = held[i][2] + 1],
             NEW p \in Partitions, committed'[p] # committed[p]
      PROVE  IF committed[p] # NoOffset
             THEN committed'[p] = committed[p] + 1
             ELSE OffsetReset = "earliest" => committed'[p] = 1
  <2>1. p = held[i][1]
    BY <1>2, CommitMoves
  <2>2. /\ held[i][2] \in Nat
        /\ committed'[p] = held[i][2] + 1
        /\ \/ /\ committed[p] = NoOffset
              /\ OffsetReset = "earliest" => held[i][2] = 0
           \/ committed[p] = held[i][2]
    BY <1>2, <2>1, CommitMoves
  <2> QED
    BY <2>2 DEF NoOffset
<1> QED
  BY <1>1, <1>2

\* The committed offset of a partition moves on by one message at a time,
\* whichever instance commits: none takes back or jumps over another's work.
THEOREM CommittedInOrder == Spec => CommitsInOrder
<1> DEFINE InOrder == \A p \in Partitions : committed'[p] # committed[p] =>
                        IF committed[p] # NoOffset
                        THEN committed'[p] = committed[p] + 1
                        ELSE OffsetReset = "earliest" => committed'[p] = 1
<1>1. IngestionInv /\ [Next]_vars => [InOrder]_vars
  BY CommitStepsInOrder
<1> QED
  BY <1>1, IngestionInvariant, PTL DEF Spec, CommitsInOrder

\* The log, the offsets, the threads of all instances and the table keep their
\* types, for any number of instances, partitions and messages.
THEOREM IngestionTyped == Spec => []TypeOK
<1>1. IngestionInv => TypeOK
  BY DEF IngestionInv
<1> QED
  BY <1>1, IngestionInvariant, PTL

-----------------------------------------------------------------------------
(* What becomes of the ratings: the ingestion implements EventDelivery.    *)

\* The group has committed no more than what is there.
CommitsInLog == \A p \in Partitions : committed[p] <= Len(log[p])

\* What a thread is about to commit or to apply is what it parsed of a message
\* that is there.
HeldIsParsed ==
    \A i \in Instances :
        /\ pc[i] = "commit" \/ Applying(i) =>
              held[i] # None /\ held[i][2] < Len(log[held[i][1]])
        /\ pc[i] = "commit" =>
              events[i] = ParsedEvents(log[held[i][1]][held[i][2] + 1])
        /\ Applying(i) =>
              todo[i] \subseteq ParsedEvents(log[held[i][1]][held[i][2] + 1])

\* Only the timer commits a message before its thread does.
HeldIsUncommitted ==
    ~AutoCommit =>
        \A i \in Instances :
            pc[i] = "commit" /\ owner[held[i][1]] = i =>
                committed[held[i][1]] <= held[i][2]

DeliveryInv == IngestionInv /\ CommitsInLog /\ HeldIsParsed /\ HeldIsUncommitted

\* A step that appends to the log at most and hands out no message.
LEMMA QuietDelivery ==
    ASSUME DeliveryInv, TypeOK',
           \A p \in Partitions :
                /\ Len(log[p]) <= Len(log'[p])
                /\ \A n \in 1..Len(log[p]) : log'[p][n] = log[p][n],
           committed' = committed,
           \A i \in Instances : pc'[i] = "commit" =>
                /\ pc[i] = "commit" /\ held'[i] = held[i] /\ events'[i] = events[i]
                /\ owner'[held[i][1]] = i => owner[held[i][1]] = i,
           \A i \in Instances : Applying(i)' =>
                Applying(i) /\ held'[i] = held[i] /\ todo'[i] \subseteq todo[i]
    PROVE  CommitsInLog' /\ HeldIsParsed' /\ HeldIsUncommitted'
<1>1. /\ \A p \in Partitions : Len(log[p]) \in Nat /\ Len(log'[p]) \in Nat
      /\ \A p \in Partitions : committed[p] \in Int
  BY OffsetType DEF DeliveryInv, IngestionInv, TypeOK
<1>2. CommitsInLog'
  BY <1>1 DEF DeliveryInv, CommitsInLog
<1>3. ASSUME NEW i \in Instances, pc[i] = "commit" \/ Applying(i)
      PROVE  /\ held[i] # None
             /\ held[i][1] \in Partitions
             /\ held[i][2] < Len(log'[held[i][1]])
             /\ log'[held[i][1]][held[i][2] + 1] = log[held[i][1]][held[i][2] + 1]
  <2>1. held[i] # None /\ held[i][2] < Len(log[held[i][1]])
    BY <1>3 DEF DeliveryInv, HeldIsParsed
  <2>2. held[i][1] \in Partitions /\ held[i][2] \in Nat
    BY <2>1, OffsetType DEF DeliveryInv, IngestionInv
  <2>3. held[i][2] + 1 \in 1..Len(log[held[i][1]])
    BY <1>1, <2>1, <2>2
  <2> QED
    BY <1>1, <2>1, <2>2, <2>3
<1>4. HeldIsParsed'
  <2> SUFFICES ASSUME NEW i \in Instances
               PROVE  /\ pc'[i] = "commit" \/ Applying(i)' =>
                            held'[i] # None /\ held'[i][2] < Len(log'[held'[i][1]])
                      /\ pc'[i] = "commit" =>
                            events'[i] = ParsedEvents(log'[held'[i][1]][held'[i][2] + 1])
                      /\ Applying(i)' =>
                            todo'[i] \subseteq
                                ParsedEvents(log'[held'[i][1]][held'[i][2] + 1])
    BY DEF HeldIsParsed
  <2>1. CASE pc'[i] = "commit"
    <3>1. ~Applying(i)'
      BY <2>1 DEF Applying
    <3> QED
      BY <1>3, <2>1, <3>1 DEF DeliveryInv, HeldIsParsed
  <2>2. CASE Applying(i)'
    <3>1. pc'[i] # "commit"
      BY <2>2 DEF Applying
    <3> QED
      BY <1>3, <2>2, <3>1 DEF DeliveryInv, HeldIsParsed
  <2> QED
    BY <2>1, <2>2
<1>5. HeldIsUncommitted'
  BY DEF DeliveryInv, HeldIsUncommitted
<1> QED
  BY <1>2, <1>4, <1>5

\* A step that commits the message that the owner holds.
LEMMA CommitDelivery ==
    ASSUME DeliveryInv, TypeOK', log' = log,
           NEW i \in Instances, pc[i] = "commit", owner[held[i][1]] = i,
           committed' = [committed EXCEPT ![held[i][1]] = held[i][2] + 1],
           ~AutoCommit => pc'[i] # "commit",
           \A j \in Instances : pc'[j] = "commit" =>
                /\ pc[j] = "commit" /\ held'[j] = held[j] /\ events'[j] = events[j]
                /\ owner'[held[j][1]] = j => owner[held[j][1]] = j,
           \A j \in Instances : Applying(j)' =>
                /\ held'[j] = held[j]
                /\ \/ Applying(j) /\ todo'[j] \subseteq todo[j]
                   \/ j = i /\ todo'[i] \subseteq events[i]
    PROVE  CommitsInLog' /\ HeldIsParsed' /\ HeldIsUncommitted'
<1>1. /\ held[i] # None
      /\ held[i][1] \in Partitions
      /\ held[i][2] \in Nat
      /\ committed'[held[i][1]] = held[i][2] + 1
      /\ \A q \in Partitions : q # held[i][1] => committed'[q] = committed[q]
  BY CommitMoves DEF DeliveryInv
<1>2. held[i][2] < Len(log[held[i][1]])
  BY DEF DeliveryInv, HeldIsParsed
<1>3. CommitsInLog'
  <2>1. \A p \in Partitions : Len(log[p]) \in Nat
    BY DEF DeliveryInv, IngestionInv, TypeOK
  <2> QED
    BY <1>1, <1>2, <2>1 DEF DeliveryInv, CommitsInLog
<1>4. HeldIsParsed'
  <2> SUFFICES ASSUME NEW j \in Instances
               PROVE  /\ pc'[j] = "commit" \/ Applying(j)' =>
                            held'[j] # None /\ held'[j][2] < Len(log'[held'[j][1]])
                      /\ pc'[j] = "commit" =>
                            events'[j] = ParsedEvents(log'[held'[j][1]][held'[j][2] + 1])
                      /\ Applying(j)' =>
                            todo'[j] \subseteq
                                ParsedEvents(log'[held'[j][1]][held'[j][2] + 1])
    BY DEF HeldIsParsed
  <2>1. CASE pc'[j] = "commit"
    <3>1. ~Applying(j)'
      BY <2>1 DEF Applying
    <3> QED
      BY <2>1, <3>1 DEF DeliveryInv, HeldIsParsed
  <2>2. CASE Applying(j)'
    <3>1. pc'[j] # "commit"
      BY <2>2 DEF Applying
    <3> QED
      BY <2>2, <3>1 DEF DeliveryInv, HeldIsParsed
  <2> QED
    BY <2>1, <2>2
<1>5. HeldIsUncommitted'
  <2> SUFFICES ASSUME ~AutoCommit, NEW j \in Instances,
                      pc'[j] = "commit", owner'[held'[j][1]] = j
               PROVE  committed'[held'[j][1]] <= held'[j][2]
    BY DEF HeldIsUncommitted
  <2>1. /\ j # i
        /\ pc[j] = "commit" /\ held'[j] = held[j]
        /\ owner[held[j][1]] = j
    OBVIOUS
  <2>2. held[j][1] \in Partitions
    BY <2>1, OffsetType DEF DeliveryInv, IngestionInv, HeldIsNew
  <2>3. committed'[held[j][1]] = committed[held[j][1]]
    BY <1>1, <2>1, <2>2
  <2> QED
    BY <2>1, <2>3 DEF DeliveryInv, HeldIsUncommitted
<1> QED
  BY <1>3, <1>4, <1>5

LEMMA PollMessageDelivery ==
    ASSUME DeliveryInv, NEW i \in Instances, NEW p \in Partitions, PollMessage(i, p),
           TypeOK'
    PROVE  CommitsInLog' /\ HeldIsParsed' /\ HeldIsUncommitted'
<1> DEFINE o == position[i][p]
<1>1. /\ pc[i] = "poll" /\ o \in Nat /\ o < Len(log[p])
      /\ held'[i] = <<p, o>>
      /\ pc'[i] = "commit"
      /\ events'[i] = ParsedEvents(log[p][o + 1])
      /\ UNCHANGED <<log, committed, owner, todo>>
      /\ \A j \in Instances \ {i} :
            held'[j] = held[j] /\ pc'[j] = pc[j] /\ events'[j] = events[j]
      /\ \A j \in Instances : Applying(j)' <=> Applying(j) /\ j # i
  BY OffsetType
  DEF DeliveryInv, IngestionInv, TypeOK, PollMessage, brokerVars, NoOffset, Applying
<1>2. CommitsInLog'
  BY <1>1 DEF DeliveryInv, CommitsInLog
<1>3. held'[i] # None /\ held'[i][1] = p /\ held'[i][2] = o
  BY <1>1, IngestionAssumption
<1>4. HeldIsParsed'
  <2> SUFFICES ASSUME NEW j \in Instances
               PROVE  /\ pc'[j] = "commit" \/ Applying(j)' =>
                            held'[j] # None /\ held'[j][2] < Len(log'[held'[j][1]])
                      /\ pc'[j] = "commit" =>
                            events'[j] = ParsedEvents(log'[held'[j][1]][held'[j][2] + 1])
                      /\ Applying(j)' =>
                            todo[j] \subseteq
                                ParsedEvents(log'[held'[j][1]][held'[j][2] + 1])
    BY <1>1 DEF HeldIsParsed
  <2>1. CASE j = i
    <3> HIDE DEF o
    <3> QED
      BY <1>1, <1>3, <2>1
  <2>2. CASE j # i
    BY <1>1, <2>2 DEF DeliveryInv, HeldIsParsed
  <2> QED
    BY <2>1, <2>2
<1>5. HeldIsUncommitted'
  <2> SUFFICES ASSUME ~AutoCommit, NEW j \in Instances,
                      pc'[j] = "commit", owner[held'[j][1]] = j
               PROVE  committed[held'[j][1]] <= held'[j][2]
    BY <1>1 DEF HeldIsUncommitted
  <2>1. CASE j = i
    <3>1. ~Holds(i, p) /\ owner[p] = i
      BY <1>1, <1>3, <2>1 DEF Holds
    <3>2. committed[p] = NoOffset \/ committed[p] = o
      BY <3>1 DEF DeliveryInv, IngestionInv, OwnerInStep
    <3> HIDE DEF o
    <3> QED
      BY <1>1, <1>3, <2>1, <3>2 DEF NoOffset
  <2>2. CASE j # i
    BY <1>1, <2>2 DEF DeliveryInv, HeldIsUncommitted
  <2> QED
    BY <2>1, <2>2
<1> QED
  BY <1>2, <1>4, <1>5

LEMMA EndedDelivery ==
    ASSUME DeliveryInv, NEW i \in Instances, Ended(i), TypeOK',
           \/ UNCHANGED committed
           \/ /\ pc[i] = "commit"
              /\ owner[held[i][1]] = i
              /\ committed' = [committed EXCEPT ![held[i][1]] = held[i][2] + 1]
    PROVE  CommitsInLog' /\ HeldIsParsed' /\ HeldIsUncommitted'
<1>1. /\ log' = log
      /\ pc'[i] = "down"
      /\ \A j \in Instances : pc'[j] = "commit" =>
            /\ j # i
            /\ pc[j] = "commit" /\ held'[j] = held[j] /\ events'[j] = events[j]
      /\ \A j \in Instances : Applying(j)' =>
            Applying(j) /\ held'[j] = held[j] /\ todo'[j] \subseteq todo[j]
  BY DEF DeliveryInv, IngestionInv, TypeOK, Ended, Applying
<1>2. \A j \in Instances : pc'[j] = "commit" =>
            (owner'[held[j][1]] = j => owner[held[j][1]] = j)
  <2> SUFFICES ASSUME NEW j \in Instances, pc'[j] = "commit", owner'[held[j][1]] = j
               PROVE  owner[held[j][1]] = j
    OBVIOUS
  <2>1. held[j][1] \in Partitions
    BY <1>1, OffsetType DEF DeliveryInv, IngestionInv, HeldIsNew
  <2> QED
    BY <2>1, IngestionAssumption DEF Ended
<1>3. CASE UNCHANGED committed
  <2>1. \A p \in Partitions : Len(log[p]) <= Len(log[p])
    BY DEF DeliveryInv, IngestionInv, TypeOK
  <2> QED
    BY <1>1, <1>2, <1>3, <2>1, QuietDelivery
<1>4. CASE /\ pc[i] = "commit"
           /\ owner[held[i][1]] = i
           /\ committed' = [committed EXCEPT ![held[i][1]] = held[i][2] + 1]
  <2>1. \A j \in Instances : Applying(j)' =>
            /\ held'[j] = held[j]
            /\ \/ Applying(j) /\ todo'[j] \subseteq todo[j]
               \/ j = i /\ todo'[i] \subseteq events[i]
    BY <1>1
  <2>2. pc'[i] # "commit"
    BY <1>1
  <2> QED
    BY <1>1, <1>2, <1>4, <2>1, <2>2, CommitDelivery
<1> QED
  BY <1>3, <1>4

LEMMA NextDelivery ==
    ASSUME DeliveryInv, [Next]_vars
    PROVE  DeliveryInv'
<1>1. IngestionInv' /\ TypeOK'
  BY NextInv DEF DeliveryInv, IngestionInv
<1>2. TypeOK /\ \A p \in Partitions : Len(log[p]) \in Nat /\ Len(log[p]) <= Len(log[p])
  BY DEF DeliveryInv, IngestionInv, TypeOK
<1>3. SUFFICES CommitsInLog' /\ HeldIsParsed' /\ HeldIsUncommitted'
  BY <1>1 DEF DeliveryInv
<1>4. ASSUME NEW p \in Partitions, NEW m \in Payloads, Produce(p, m)
      PROVE  CommitsInLog' /\ HeldIsParsed' /\ HeldIsUncommitted'
  <2>1. \A q \in Partitions :
            /\ Len(log[q]) <= Len(log'[q])
            /\ \A n \in 1..Len(log[q]) : log'[q][n] = log[q][n]
    <3> SUFFICES ASSUME NEW q \in Partitions
                 PROVE  /\ Len(log[q]) <= Len(log'[q])
                        /\ \A n \in 1..Len(log[q]) : log'[q][n] = log[q][n]
      OBVIOUS
    <3>1. log[q] \in Seq(Payloads)
      BY <1>2 DEF TypeOK
    <3>2. log'[q] = log[q] \/ log'[q] = Append(log[q], m)
      BY <1>2, <1>4 DEF TypeOK, Produce
    <3> QED
      BY <3>1, <3>2, AppendProperties
  <2> QED
    BY <1>1, <1>4, <2>1, QuietDelivery DEF Produce, threadVars, Applying
<1>5. ASSUME NEW p \in Partitions, Evict(p)
      PROVE  CommitsInLog' /\ HeldIsParsed' /\ HeldIsUncommitted'
  <2>1. \A i \in Instances, q \in Partitions : owner'[q] = i => owner[q] = i
    BY <1>2, <1>5, IngestionAssumption DEF TypeOK, Evict
  <2>2. \A i \in Instances : pc[i] = "commit" => held[i][1] \in Partitions
    BY OffsetType DEF DeliveryInv, IngestionInv, HeldIsNew
  <2> QED
    BY <1>1, <1>2, <1>5, <2>1, <2>2, QuietDelivery DEF Evict, threadVars, Applying
<1>6. ASSUME NEW i \in Instances, NEW p \in Partitions, Assign(i, p)
      PROVE  CommitsInLog' /\ HeldIsParsed' /\ HeldIsUncommitted'
  <2>1. \A j \in Instances, q \in Partitions : owner'[q] = j => owner[q] = j \/ j = i
    BY <1>2, <1>6 DEF TypeOK, Assign
  <2>2. \A j \in Instances : pc[j] = "commit" => held[j][1] \in Partitions /\ j # i
    BY <1>6, OffsetType DEF DeliveryInv, IngestionInv, HeldIsNew, Assign
  <2> QED
    BY <1>1, <1>2, <1>6, <2>1, <2>2, QuietDelivery DEF Assign, threadVars, Applying
<1>7. ASSUME NEW i \in Instances, NEW p \in Partitions, Revoked(i, p)
      PROVE  CommitsInLog' /\ HeldIsParsed' /\ HeldIsUncommitted'
  BY <1>1, <1>2, <1>7, QuietDelivery DEF Revoked, brokerVars, threadVars, Applying
<1>8. ASSUME NEW i \in Instances, TimerCommits(i)
      PROVE  CommitsInLog' /\ HeldIsParsed' /\ HeldIsUncommitted'
  BY <1>1, <1>8, CommitDelivery DEF TimerCommits, threadVars, Applying
<1>9. ASSUME NEW i \in Instances, CommitOffset(i)
      PROVE  CommitsInLog' /\ HeldIsParsed' /\ HeldIsUncommitted'
  <2>1. \A j \in Instances \ {i} : pc'[j] = pc[j] /\ todo'[j] = todo[j]
    BY <1>2, <1>9 DEF TypeOK, CommitOffset
  <2>2. pc'[i] = "apply" /\ todo'[i] = events[i]
    BY <1>2, <1>9 DEF TypeOK, CommitOffset
  <2> QED
    BY <1>1, <1>9, <2>1, <2>2, CommitDelivery DEF CommitOffset, Applying
<1>10. ASSUME NEW i \in Instances, Start(i) \/ PollNothing(i) \/ EndOfBatch(i) \/ Stop(i)
       PROVE  CommitsInLog' /\ HeldIsParsed' /\ HeldIsUncommitted'
  <2>1. /\ \A j \in Instances : pc'[j] = "commit" =>
              pc[j] = "commit" /\ held'[j] = held[j] /\ events'[j] = events[j]
        /\ \A j \in Instances : Applying(j)' =>
              Applying(j) /\ held'[j] = held[j] /\ todo'[j] \subseteq todo[j]
    BY <1>2, <1>10
    DEF TypeOK, Start, PollNothing, EndOfBatch, Stop, threadVars, Applying
  <2>2. UNCHANGED <<log, committed, owner>>
    BY <1>10 DEF Start, PollNothing, EndOfBatch, Stop, brokerVars
  <2> QED
    BY <1>1, <1>2, <2>1, <2>2, QuietDelivery
<1>11. ASSUME NEW i \in Instances, NEW e \in todo[i],
              Insert(i, e) \/ InsertFails(i, e) \/ SkipEvent(i, e)
       PROVE  CommitsInLog' /\ HeldIsParsed' /\ HeldIsUncommitted'
  <2>1. /\ \A j \in Instances : Applying(j)' =>
              Applying(j) /\ todo'[j] \subseteq todo[j]
        /\ UNCHANGED <<log, committed, owner, pc, held, events>>
    BY <1>2, <1>11 DEF TypeOK, Insert, InsertFails, SkipEvent, brokerVars, Applying
  <2> QED
    BY <1>1, <1>2, <2>1, QuietDelivery
<1>12. CASE UNCHANGED vars
  BY <1>1, <1>2, <1>12, QuietDelivery DEF vars, brokerVars, threadVars, Applying
<1>13. ASSUME NEW i \in Instances, CommitFails(i) \/ Exit(i)
       PROVE  CommitsInLog' /\ HeldIsParsed' /\ HeldIsUncommitted'
  BY <1>1, <1>13, EndedDelivery DEF CommitFails, Exit
<1>14. ASSUME NEW i \in Instances, NEW e \in todo[i], PutThrows(i, e)
       PROVE  CommitsInLog' /\ HeldIsParsed' /\ HeldIsUncommitted'
  BY <1>1, <1>14, EndedDelivery DEF PutThrows
<1> QED
  BY <1>1, <1>4, <1>5, <1>6, <1>7, <1>8, <1>9, <1>10, <1>11, <1>12, <1>13, <1>14,
     PollMessageDelivery
  DEF Next, Broker, ThreadStep

LEMMA InitDelivery == Init => DeliveryInv
<1>1. Init => CommitsInLog /\ HeldIsParsed /\ HeldIsUncommitted
  BY DEF Init, CommitsInLog, HeldIsParsed, HeldIsUncommitted, Applying, NoOffset
<1> QED
  BY <1>1, InitInv DEF DeliveryInv

-----------------------------------------------------------------------------
(* Published, stored, in hand or lost.                                     *)

\* What a step may lose, as LossNeedsFault says it.
LossIsExcused ==
    \A r \in Lost' \ Lost :
        \/ /\ OffsetReset = "latest"
           /\ committed[r.partition] = NoOffset
        \/ \E i \in Instances :
             /\ r \in InHand(i)
             /\ \/ pc'[i] = "down"
                \/ InsertFails(i, r.event)
                \/ AutoCommit /\ pc[i] = "commit" /\ Evict(r.partition)

LEMMA PublishedIs ==
    \A r : r \in Published <=>
        \E p \in Partitions : \E o \in 0..(Len(log[p]) - 1) :
            \E e \in ParsedEvents(log[p][o + 1]) :
                e.eventType = "put" /\ r = Row(p, o, e)
BY DEF Published, Rows

LEMMA PublishedIsPrimed ==
    \A r : r \in Published' <=>
        \E p \in Partitions : \E o \in 0..(Len(log'[p]) - 1) :
            \E e \in ParsedEvents(log'[p][o + 1]) :
                e.eventType = "put" /\ r = Row(p, o, e)
BY DEF Published, Rows

LEMMA RowFields ==
    \A p, o, e : /\ Row(p, o, e).partition = p
                 /\ Row(p, o, e).offset = o
                 /\ Row(p, o, e).event = e
BY DEF Row

LEMMA PublishedRow ==
    ASSUME TypeOK, NEW r \in Published
    PROVE  /\ r.partition \in Partitions
           /\ r.offset \in Nat /\ r.offset < Len(log[r.partition])
           /\ r.event \in ParsedEvents(log[r.partition][r.offset + 1])
           /\ r.event.eventType = "put"
           /\ r = Row(r.partition, r.offset, r.event)
<1>1. PICK p \in Partitions : \E o \in 0..(Len(log[p]) - 1) :
            \E e \in ParsedEvents(log[p][o + 1]) :
                e.eventType = "put" /\ r = Row(p, o, e)
  BY PublishedIs
<1>2. PICK o \in 0..(Len(log[p]) - 1) :
            \E e \in ParsedEvents(log[p][o + 1]) :
                e.eventType = "put" /\ r = Row(p, o, e)
  BY <1>1
<1>3. PICK e \in ParsedEvents(log[p][o + 1]) :
            e.eventType = "put" /\ r = Row(p, o, e)
  BY <1>2
<1>4. r.partition = p /\ r.offset = o /\ r.event = e
  BY <1>3, RowFields
<1>5. Len(log[p]) \in Nat
  BY DEF TypeOK
<1> QED
  BY <1>3, <1>4, <1>5

LEMMA InHandIs ==
    ASSUME NEW i \in Instances
    PROVE  /\ pc[i] = "apply" =>
                InHand(i) = {Row(held[i][1], held[i][2], e) : e \in todo[i]}
           /\ pc[i] = "commit" /\ owner[held[i][1]] = i =>
                InHand(i) = {Row(held[i][1], held[i][2], e) : e \in events[i]}
           /\ pc[i] = "commit" /\ owner[held[i][1]] # i => InHand(i) = {}
           /\ pc[i] \notin {"apply", "commit"} => InHand(i) = {}
BY DEF InHand

LEMMA InHandIsPrimed ==
    ASSUME NEW i \in Instances
    PROVE  /\ pc'[i] = "apply" =>
                InHand(i)' = {Row(held'[i][1], held'[i][2], e) : e \in todo'[i]}
           /\ pc'[i] = "commit" /\ owner'[held'[i][1]] = i =>
                InHand(i)' = {Row(held'[i][1], held'[i][2], e) : e \in events'[i]}
           /\ pc'[i] = "commit" /\ owner'[held'[i][1]] # i => InHand(i)' = {}
           /\ pc'[i] \notin {"apply", "commit"} => InHand(i)' = {}
BY DEF InHand, Row

LEMMA InHandKept ==
    ASSUME NEW i \in Instances, pc'[i] = pc[i], held'[i] = held[i],
           pc[i] = "commit" =>
                /\ events'[i] = events[i]
                /\ owner'[held[i][1]] = i <=> owner[held[i][1]] = i,
           pc[i] = "apply" => todo'[i] = todo[i]
    PROVE  InHand(i)' = InHand(i)
<1>1. CASE pc[i] = "apply"
  <2>1. InHand(i) = {Row(held[i][1], held[i][2], e) : e \in todo[i]}
    BY <1>1, InHandIs
  <2>2. InHand(i)' = {Row(held'[i][1], held'[i][2], e) : e \in todo'[i]}
    BY <1>1, InHandIsPrimed
  <2>3. todo'[i] = todo[i] /\ held'[i] = held[i]
    BY <1>1
  <2> QED
    BY <2>1, <2>2, <2>3
<1>2. CASE pc[i] = "commit" /\ owner[held[i][1]] = i
  BY <1>2, InHandIs, InHandIsPrimed
<1>3. CASE pc[i] = "commit" /\ owner[held[i][1]] # i
  BY <1>3, InHandIs, InHandIsPrimed
<1>4. CASE pc[i] \notin {"apply", "commit"}
  BY <1>4, InHandIs, InHandIsPrimed
<1> QED
  BY <1>1, <1>2, <1>3, <1>4

\* What an instance has in hand is of the one message it holds.
LEMMA HandRow ==
    ASSUME DeliveryInv, NEW i \in Instances, NEW r \in InHand(i)
    PROVE  /\ held[i][1] \in Partitions /\ held[i][2] \in Nat
           /\ r.partition = held[i][1] /\ r.offset = held[i][2]
           /\ \/ pc[i] = "apply" /\ Applying(i) /\ r.event \in todo[i]
              \/ pc[i] = "commit" /\ owner[held[i][1]] = i /\ r.event \in events[i]
<1>1. \/ pc[i] = "apply" /\ \E e \in todo[i] : r = Row(held[i][1], held[i][2], e)
      \/ /\ pc[i] = "commit" /\ owner[held[i][1]] = i
         /\ \E e \in events[i] : r = Row(held[i][1], held[i][2], e)
  BY InHandIs
<1>2. pc[i] = "commit" \/ Applying(i)
  BY <1>1 DEF Applying
<1>3. held[i] # None
  BY <1>2 DEF DeliveryInv, HeldIsParsed
<1> QED
  BY <1>1, <1>2, <1>3, RowFields, OffsetType DEF DeliveryInv, IngestionInv, Applying

LEMMA LostIs ==
    \A r : r \in Lost <=> /\ r \in Published
                          /\ r.offset < committed[r.partition]
                          /\ r \notin Stored
                          /\ \A i \in Instances : r \notin InHand(i)
BY DEF Lost

LEMMA LostIsPrimed ==
    \A r : r \in Lost' <=> /\ r \in Published'
                           /\ r.offset < committed'[r.partition]
                           /\ r \notin Stored'
                           /\ \A i \in Instances : r \notin InHand(i)'
BY DEF Lost

LEMMA PublishedKept == log' = log => Published' = Published
BY DEF Published, Rows, Row, ParsedEvents, KeyedSet, SameKey

LEMMA StoredKept == table' = table => Stored' = Stored
BY DEF Stored

\* What is lost stays lost unless an instance gets hold of it, and what becomes
\* lost was waiting: in a hand, or past the committed offset.
LEMMA LossGrows ==
    ASSUME DeliveryInv, log' = log, table' = table,
           \A p \in Partitions : committed[p] <= committed'[p] /\ committed'[p] \in Int,
           \A i \in Instances : InHand(i)' \subseteq InHand(i)
    PROVE  /\ Published' = Published
           /\ Lost' = Lost \cup (Lost' \ Lost)
           /\ Lost' \ Lost \in SUBSET Delivery!Waiting
           /\ \A r \in Lost' \ Lost :
                /\ r \in Published
                /\ r.partition \in Partitions /\ r.offset \in Nat
                /\ r.offset < committed'[r.partition]
                /\ \A i \in Instances : r \notin InHand(i)'
                /\ \/ committed[r.partition] <= r.offset
                   \/ \E i \in Instances : r \in InHand(i)
<1>1. Published' = Published /\ Stored' = Stored
  BY PublishedKept, StoredKept
<1>2. ASSUME NEW r \in Published
      PROVE  /\ r.partition \in Partitions /\ r.offset \in Nat
             /\ committed[r.partition] \in Int /\ committed'[r.partition] \in Int
             /\ committed[r.partition] <= committed'[r.partition]
  BY PublishedRow, OffsetType DEF DeliveryInv, IngestionInv
<1>3. ASSUME NEW r \in Lost
      PROVE  r \in Lost'
  <2>1. /\ r \in Published /\ r.offset < committed[r.partition]
        /\ r \notin Stored
        /\ \A i \in Instances : r \notin InHand(i)
    BY LostIs
  <2>2. r.offset < committed'[r.partition]
    BY <1>2, <2>1
  <2> QED
    BY <1>1, <2>1, <2>2, LostIsPrimed
<1>4. ASSUME NEW r \in Lost' \ Lost
      PROVE  /\ r \in Published /\ r \notin Stored
             /\ r.offset < committed'[r.partition]
             /\ \A i \in Instances : r \notin InHand(i)'
             /\ \/ committed[r.partition] <= r.offset
                \/ \E i \in Instances : r \in InHand(i)
  <2>1. /\ r \in Published /\ r \notin Stored
        /\ r.offset < committed'[r.partition]
        /\ \A i \in Instances : r \notin InHand(i)'
    BY <1>1, LostIsPrimed
  <2>2. ~(r.offset < committed[r.partition]) \/ \E i \in Instances : r \in InHand(i)
    BY <2>1, LostIs
  <2> QED
    BY <1>2, <2>1, <2>2
<1>5. Lost' = Lost \cup (Lost' \ Lost)
  BY <1>3
<1>6. Lost' \ Lost \in SUBSET Delivery!Waiting
  BY <1>4 DEF Delivery!Waiting, Delivery!Settled, Stored
<1> QED
  BY <1>1, <1>2, <1>4, <1>5, <1>6

\* An incident that takes from the hand of one instance.
LEMMA HandLoses ==
    ASSUME DeliveryInv, NEW i \in Instances,
           log' = log, table' = table, committed' = committed,
           \A j \in Instances \ {i} : InHand(j)' = InHand(j),
           InHand(i)' \subseteq InHand(i)
    PROVE  /\ Delivery!Next
           /\ \A r \in Lost' \ Lost :
                /\ r \in Published
                /\ r \in InHand(i) /\ r \notin InHand(i)'
                /\ r.offset < committed[r.partition]
<1>1. \A p \in Partitions : committed[p] <= committed'[p] /\ committed'[p] \in Int
  BY OffsetType DEF DeliveryInv, IngestionInv
<1>2. \A j \in Instances : InHand(j)' \subseteq InHand(j)
  OBVIOUS
<1>3. ASSUME NEW r \in Lost' \ Lost
      PROVE  /\ r \in Published
             /\ r \in InHand(i) /\ r \notin InHand(i)'
             /\ r.offset < committed[r.partition]
             /\ r.partition = held[i][1] /\ r.offset = held[i][2]
  <2>1. /\ r \in Published
        /\ r.partition \in Partitions /\ r.offset \in Nat
        /\ r.offset < committed'[r.partition]
        /\ \A j \in Instances : r \notin InHand(j)'
        /\ \/ committed[r.partition] <= r.offset
           \/ \E j \in Instances : r \in InHand(j)
    BY <1>1, <1>2, LossGrows
  <2>2. ~(committed[r.partition] <= r.offset)
    BY <1>1, <2>1
  <2>3. PICK j \in Instances : r \in InHand(j)
    BY <2>1, <2>2
  <2>4. j = i
    BY <2>1, <2>3
  <2> QED
    BY <2>1, <2>3, <2>4, HandRow
<1>4. /\ Published' = Published
      /\ Lost' = Lost \cup (Lost' \ Lost)
      /\ Lost' \ Lost \in SUBSET Delivery!Waiting
  BY <1>1, <1>2, LossGrows
<1>5. \A r, s \in Lost' \ Lost : r.partition = s.partition /\ r.offset = s.offset
  BY <1>3
<1>6. Delivery!Lose
  BY <1>4, <1>5 DEF Delivery!Lose
<1> QED
  BY <1>3, <1>6 DEF Delivery!Next

\* A commit of the owner: with the reset "latest" the group's first one passes
\* over what was there before, every other loses what the owner lets go of.
LEMMA CommitLoses ==
    ASSUME DeliveryInv, NEW i \in Instances,
           log' = log, table' = table,
           pc[i] = "commit", owner[held[i][1]] = i,
           committed' = [committed EXCEPT ![held[i][1]] = held[i][2] + 1],
           \A j \in Instances \ {i} : InHand(j)' = InHand(j),
           InHand(i)' \subseteq InHand(i)
    PROVE  /\ Delivery!Next
           /\ \A r \in Lost' \ Lost :
                \/ OffsetReset = "latest" /\ committed[r.partition] = NoOffset
                \/ r \in InHand(i) /\ r \notin InHand(i)'
<1> DEFINE p == held[i][1]
           o == held[i][2]
<1>1. /\ p \in Partitions /\ o \in Nat
      /\ committed'[p] = o + 1
      /\ \/ /\ committed[p] = NoOffset
            /\ OffsetReset = "earliest" => o = 0
         \/ committed[p] = o
         \/ committed[p] = o + 1
      /\ \A q \in Partitions : q # p => committed'[q] = committed[q]
      /\ \A q \in Partitions : committed[q] <= committed'[q] /\ committed'[q] \in Int
  BY CommitMoves DEF DeliveryInv
<1>2. \A j \in Instances : InHand(j)' \subseteq InHand(j)
  OBVIOUS
<1>3. ASSUME NEW r \in Lost' \ Lost
      PROVE  /\ r \in Published
             /\ r.partition \in Partitions /\ r.offset \in Nat
             /\ r.offset < committed'[r.partition]
             /\ \A j \in Instances : r \notin InHand(j)'
             /\ \/ committed[r.partition] <= r.offset
                \/ \E j \in Instances : r \in InHand(j)
  BY <1>1, <1>2, LossGrows
<1>4. /\ Published' = Published
      /\ Lost' = Lost \cup (Lost' \ Lost)
      /\ Lost' \ Lost \in SUBSET Delivery!Waiting
  BY <1>1, <1>2, LossGrows
<1>5. ASSUME NEW r \in Lost' \ Lost
      PROVE  r.partition = p /\ r.offset <= o
  <2>1. CASE \E j \in Instances : r \in InHand(j)
    <3>1. r \in InHand(i)
      BY <1>3, <2>1
    <3> QED
      BY <1>1, <3>1, HandRow
  <2>2. CASE committed[r.partition] <= r.offset
    <3>1. committed[r.partition] \in Int
      BY <1>3, OffsetType DEF DeliveryInv, IngestionInv
    <3>2. r.partition = p
      BY <1>1, <1>3, <2>2, <3>1
    <3> QED
      BY <1>1, <1>3, <3>2
  <2> QED
    BY <1>3, <2>1, <2>2
<1>6. ASSUME NEW r \in Lost' \ Lost, r.offset = o
      PROVE  r \in InHand(i)
  <2>1. r \in Published /\ r.partition = p
    BY <1>3, <1>5
  <2>2. r.event \in ParsedEvents(log[p][o + 1]) /\ r = Row(p, o, r.event)
    BY <1>6, <2>1, PublishedRow DEF DeliveryInv, IngestionInv
  <2>3. events[i] = ParsedEvents(log[p][o + 1])
    BY DEF DeliveryInv, HeldIsParsed
  <2> QED
    BY <2>2, <2>3, InHandIs
<1>7. CASE OffsetReset = "latest" /\ committed[p] = NoOffset
  <2>1. \A r \in Lost' \ Lost : committed[r.partition] = NoOffset
    BY <1>5, <1>7
  <2>2. ASSUME NEW s \in Delivery!Settled
        PROVE  s.partition # p
    <3>1. CASE s \in Lost
      <4>1. s \in Published /\ s.offset < committed[s.partition]
        BY <3>1, LostIs
      <4>2. s.offset \in Nat
        BY <4>1, PublishedRow DEF DeliveryInv, IngestionInv
      <4> QED
        BY <1>7, <4>1, <4>2 DEF NoOffset
    <3>2. CASE \E k \in DOMAIN table : s = table[k]
      <4>1. PICK k \in DOMAIN table : s = table[k]
        BY <3>2
      <4>2. s.offset \in Nat /\ s.offset < committed[s.partition]
        BY <4>1, RowType DEF DeliveryInv, IngestionInv, RowsCommitted
      <4> QED
        BY <1>7, <4>2 DEF NoOffset
    <3> QED
      BY <3>1, <3>2 DEF Delivery!Settled
  <2>3. /\ \A r, s \in Lost' \ Lost : r.partition = s.partition
        /\ \A r \in Lost' \ Lost, s \in Delivery!Settled : r.partition # s.partition
    BY <1>5, <2>2
  <2>4. Delivery!JoinLate
    BY <1>4, <1>7, <2>3 DEF Delivery!JoinLate
  <2> QED
    BY <1>7, <2>1, <2>4 DEF Delivery!Next
<1>8. CASE ~(OffsetReset = "latest" /\ committed[p] = NoOffset)
  <2>1. committed[p] = NoOffset => o = 0
    BY <1>1, <1>8, IngestionAssumption DEF NoOffset
  <2>2. ASSUME NEW r \in Lost' \ Lost
        PROVE  r.offset = o
    <3>1. CASE \E j \in Instances : r \in InHand(j)
      <4>1. r \in InHand(i)
        BY <1>3, <3>1
      <4> QED
        BY <4>1, HandRow
    <3>2. CASE committed[r.partition] <= r.offset
      BY <1>1, <1>3, <1>5, <2>1, <3>2 DEF NoOffset
    <3> QED
      BY <1>3, <3>1, <3>2
  <2>3. \A r, s \in Lost' \ Lost : r.partition = s.partition /\ r.offset = s.offset
    BY <1>5, <2>2
  <2>4. Delivery!Lose
    BY <1>4, <2>3 DEF Delivery!Lose
  <2>5. \A r \in Lost' \ Lost : r \in InHand(i) /\ r \notin InHand(i)'
    BY <1>3, <1>6, <2>2
  <2> QED
    BY <2>4, <2>5 DEF Delivery!Next
<1> QED
  BY <1>7, <1>8

-----------------------------------------------------------------------------
(* Every step publishes, stores or loses, or does none of these.           *)

LEMMA ProduceDelivers ==
    ASSUME DeliveryInv, NEW p \in Partitions, NEW m \in Payloads, Produce(p, m), TypeOK'
    PROVE  Delivery!Next /\ LossIsExcused
<1> DEFINE RowSet == [partition : Partitions, offset : Nat, event : RatingEvent]
<1>1. TypeOK /\ table' = table /\ committed' = committed
  BY DEF DeliveryInv, IngestionInv, Produce
<1>2. ASSUME NEW q \in Partitions
      PROVE  /\ Len(log[q]) \in Nat /\ Len(log'[q]) \in Nat
             /\ Len(log[q]) <= Len(log'[q])
             /\ \A n \in 1..Len(log[q]) : log'[q][n] = log[q][n]
  <2>1. log[q] \in Seq(Payloads)
    BY <1>1 DEF TypeOK
  <2>2. log'[q] = log[q] \/ log'[q] = Append(log[q], m)
    BY <1>1 DEF TypeOK, Produce
  <2> QED
    BY <2>1, <2>2, AppendProperties
<1>3. \A r : r \in Published' <=>
        \E q \in Partitions : \E o \in 0..(Len(log'[q]) - 1) :
            \E e \in ParsedEvents(log'[q][o + 1]) :
                e.eventType = "put" /\ r = Row(q, o, e)
  BY PublishedIsPrimed
<1>4. ASSUME NEW r \in Published
      PROVE  r \in Published' /\ r.partition \in Partitions
  <2>1. /\ r.partition \in Partitions
        /\ r.offset \in Nat /\ r.offset < Len(log[r.partition])
        /\ r.event \in ParsedEvents(log[r.partition][r.offset + 1])
        /\ r.event.eventType = "put"
        /\ r = Row(r.partition, r.offset, r.event)
    BY <1>1, PublishedRow
  <2>2. /\ r.offset \in 0..(Len(log'[r.partition]) - 1)
        /\ log'[r.partition][r.offset + 1] = log[r.partition][r.offset + 1]
    <3> DEFINE old == log[r.partition]
               new == log'[r.partition]
    <3>1. Len(old) \in Nat /\ Len(new) \in Nat /\ Len(old) <= Len(new)
      BY <1>2, <2>1
    <3>2. \A n \in 1..Len(old) : new[n] = old[n]
      BY <1>2, <2>1
    <3>3. r.offset \in Nat /\ r.offset < Len(old)
      BY <2>1
    <3> HIDE DEF old, new
    <3>4. r.offset + 1 \in 1..Len(old) /\ r.offset \in 0..(Len(new) - 1)
      BY <3>1, <3>3
    <3>5. new[r.offset + 1] = old[r.offset + 1]
      BY <3>2, <3>4
    <3> QED
      BY <3>4, <3>5 DEF old, new
  <2>3. r.event \in ParsedEvents(log'[r.partition][r.offset + 1])
    BY <2>1, <2>2
  <2>4. \E q \in Partitions : \E o \in 0..(Len(log'[q]) - 1) :
            \E e \in ParsedEvents(log'[q][o + 1]) :
                e.eventType = "put" /\ r = Row(q, o, e)
    <3>1. \E e \in ParsedEvents(log'[r.partition][r.offset + 1]) :
              e.eventType = "put" /\ r = Row(r.partition, r.offset, e)
      BY <2>1, <2>3
    <3> QED
      BY <2>1, <2>2, <3>1
  <2> QED
    BY <1>3, <2>1, <2>4
<1>5. ASSUME NEW r \in Published'
      PROVE  /\ r \in RowSet
             /\ r.partition \in Partitions
             /\ r \in Published \/ r.offset >= Len(log[r.partition])
  <2>1. PICK q \in Partitions : \E o \in 0..(Len(log'[q]) - 1) :
            \E e \in ParsedEvents(log'[q][o + 1]) :
                e.eventType = "put" /\ r = Row(q, o, e)
    BY <1>3
  <2>2. PICK o \in 0..(Len(log'[q]) - 1) :
            \E e \in ParsedEvents(log'[q][o + 1]) :
                e.eventType = "put" /\ r = Row(q, o, e)
    BY <2>1
  <2>3. PICK e \in ParsedEvents(log'[q][o + 1]) :
                e.eventType = "put" /\ r = Row(q, o, e)
    BY <2>2
  <2>4. log'[q][o + 1] \in Payloads
    <3>1. log'[q] \in Seq(Payloads)
      BY DEF TypeOK
    <3>2. o + 1 \in 1..Len(log'[q])
      BY <1>2
    <3> QED
      BY <3>1, <3>2, ElementOfSeq
  <2>5. r.partition = q /\ r.offset = o /\ r.event = e
    BY <2>3, RowFields
  <2>6. e \in RatingEvent
    BY <2>3, <2>4, ParsedEventsType
  <2>7. r \in RowSet
    BY <1>2, <2>3, <2>6 DEF Row
  <2>8. o < Len(log[q]) => r \in Published
    <3> SUFFICES ASSUME o < Len(log[q]) PROVE r \in Published
      OBVIOUS
    <3>1. o \in 0..(Len(log[q]) - 1) /\ log'[q][o + 1] = log[q][o + 1]
      BY <1>2
    <3> QED
      BY <2>3, <3>1, PublishedIs
  <2> QED
    BY <1>2, <2>5, <2>7, <2>8
<1>6. \A i \in Instances : InHand(i)' = InHand(i)
  BY InHandKept DEF Produce, threadVars
<1>7. Lost' = Lost
  <2>1. ASSUME NEW r \in Lost PROVE r \in Lost'
    BY <1>1, <1>4, <1>6, LostIs, LostIsPrimed, StoredKept
  <2>2. ASSUME NEW r \in Lost' PROVE r \in Lost
    <3>1. /\ r \in Published' /\ r.offset < committed[r.partition]
          /\ r \notin Stored
          /\ \A i \in Instances : r \notin InHand(i)
      BY <1>1, <1>6, LostIsPrimed, StoredKept
    <3>2. r.partition \in Partitions /\ r.offset \in Nat
      BY <1>5, <3>1
    <3>3. committed[r.partition] <= Len(log[r.partition])
      BY <3>2 DEF DeliveryInv, CommitsInLog
    <3>4. committed[r.partition] \in Int /\ Len(log[r.partition]) \in Nat
      BY <1>1, <1>2, <3>2, OffsetType
    <3>5. r \in Published
      BY <1>5, <3>1, <3>2, <3>3, <3>4
    <3> QED
      BY <3>1, <3>5, LostIs
  <2> QED
    BY <2>1, <2>2
<1>8. Delivery!Publish
  BY <1>1, <1>4, <1>5, <1>7 DEF Delivery!Publish
<1> QED
  BY <1>7, <1>8 DEF Delivery!Next, LossIsExcused

\* The row that is inserted was in one hand, and leaves it.
LEMMA InsertDelivers ==
    ASSUME DeliveryInv, NEW i \in Instances, NEW e \in todo[i], Insert(i, e)
    PROVE  Delivery!Next /\ LossIsExcused
<1> DEFINE r == Row(held[i][1], held[i][2], e)
           RowSet == [partition : Partitions, offset : Nat, event : RatingEvent]
<1>1. /\ pc[i] = "apply" /\ Applying(i) /\ e.eventType = "put"
      /\ table' = Append(table, r)
      /\ todo' = [todo EXCEPT ![i] = @ \ {e}]
      /\ UNCHANGED <<log, committed, owner, pc, held, events>>
      /\ TypeOK
  BY DEF Insert, Applying, brokerVars, DeliveryInv, IngestionInv
<1>2. /\ held[i][1] \in Partitions /\ held[i][2] \in Nat
      /\ held[i][2] < Len(log[held[i][1]])
      /\ e \in ParsedEvents(log[held[i][1]][held[i][2] + 1])
  BY <1>1, OffsetType DEF DeliveryInv, HeldIsParsed
<1>3. r \in Published
  <2>1. held[i][2] \in 0..(Len(log[held[i][1]]) - 1)
    BY <1>1, <1>2 DEF TypeOK
  <2> QED
    BY <1>1, <1>2, <2>1, PublishedIs
<1>4. r \in InHand(i)
  BY <1>1, InHandIs
<1>5. r \notin Lost
  BY <1>4, LostIs
<1>6. \A k \in DOMAIN table : table[k] # r
  BY <1>1 DEF DeliveryInv, IngestionInv, ApplyingFresh
<1>7. Stored' = Stored \cup {r}
  <2>1. /\ table \in Seq(RowSet)
        /\ r \in RowSet
    BY <1>1, <1>2 DEF TypeOK, Row
  <2> HIDE DEF r, RowSet
  <2>2. /\ DOMAIN table' = 1..(Len(table) + 1)
        /\ \A k \in 1..Len(table) : table'[k] = table[k]
        /\ table'[Len(table) + 1] = r
        /\ DOMAIN table = 1..Len(table) /\ Len(table) \in Nat
    BY <1>1, <2>1, AppendProperties
  <2>3. Stored' = {table'[k] : k \in DOMAIN table'}
    BY DEF Stored
  <2> QED
    BY <2>2, <2>3 DEF Stored
<1>8. /\ \A j \in Instances \ {i} : InHand(j)' = InHand(j)
      /\ InHand(i)' \cup {r} = InHand(i)
      /\ r \notin InHand(i)'
  <2>1. \A j \in Instances \ {i} : InHand(j)' = InHand(j)
    BY <1>1, InHandKept DEF TypeOK
  <2>2. /\ InHand(i) = {Row(held[i][1], held[i][2], f) : f \in todo[i]}
        /\ InHand(i)' = {Row(held[i][1], held[i][2], f) : f \in todo[i] \ {e}}
    <3>1. InHand(i)' = {Row(held'[i][1], held'[i][2], f) : f \in todo'[i]}
      BY <1>1, InHandIsPrimed
    <3>2. held'[i] = held[i] /\ todo'[i] = todo[i] \ {e}
      BY <1>1 DEF TypeOK
    <3> QED
      BY <1>1, <3>1, <3>2, InHandIs
  <2>3. \A f : Row(held[i][1], held[i][2], f) = r => f = e
    BY RowFields
  <2> QED
    BY <2>1, <2>2, <2>3
<1>9. Published' = Published
  BY <1>1, PublishedKept
<1>10. Lost' = Lost
  <2>1. ASSUME NEW s PROVE s \in Lost' <=> s \in Lost
    BY <1>1, <1>4, <1>7, <1>8, <1>9, LostIs, LostIsPrimed
  <2> QED
    BY <2>1
<1>11. Delivery!Store
  <2>1. r \in Delivery!Waiting
    BY <1>3, <1>5, <1>6 DEF Delivery!Waiting, Delivery!Settled
  <2> HIDE DEF r
  <2> QED
    BY <1>1, <1>9, <1>10, <2>1 DEF Delivery!Store
<1> QED
  BY <1>10, <1>11 DEF Delivery!Next, LossIsExcused

\* The end of a process, which the broker may have taken a commit of.
LEMMA EndedDelivers ==
    ASSUME DeliveryInv, NEW i \in Instances, Ended(i),
           \/ UNCHANGED committed
           \/ /\ pc[i] = "commit"
              /\ owner[held[i][1]] = i
              /\ committed' = [committed EXCEPT ![held[i][1]] = held[i][2] + 1]
    PROVE  Delivery!Next /\ LossIsExcused
<1>1. TypeOK /\ pc'[i] = "down" /\ UNCHANGED <<log, table>>
  BY DEF DeliveryInv, IngestionInv, TypeOK, Ended
<1>2. InHand(i)' = {}
  BY <1>1, InHandIsPrimed
<1>3. ASSUME NEW j \in Instances \ {i} PROVE InHand(j)' = InHand(j)
  <2>1. /\ pc'[j] = pc[j] /\ held'[j] = held[j]
        /\ events'[j] = events[j] /\ todo'[j] = todo[j]
    BY <1>1 DEF TypeOK, Ended
  <2>2. pc[j] = "commit" => (owner'[held[j][1]] = j <=> owner[held[j][1]] = j)
    <3> SUFFICES ASSUME pc[j] = "commit"
                 PROVE  owner'[held[j][1]] = j <=> owner[held[j][1]] = j
      OBVIOUS
    <3>1. held[j][1] \in Partitions
      BY OffsetType DEF DeliveryInv, IngestionInv, HeldIsNew
    <3>2. owner'[held[j][1]] =
                IF owner[held[j][1]] = i THEN None ELSE owner[held[j][1]]
      BY <3>1 DEF Ended
    <3> QED
      BY <3>2, IngestionAssumption
  <2> QED
    BY <2>1, <2>2, InHandKept
<1>4. CASE UNCHANGED committed
  <2>1. Delivery!Next /\ \A r \in Lost' \ Lost : r \in InHand(i)
    BY <1>1, <1>2, <1>3, <1>4, HandLoses
  <2> QED
    BY <1>1, <2>1 DEF LossIsExcused
<1>5. CASE /\ pc[i] = "commit"
           /\ owner[held[i][1]] = i
           /\ committed' = [committed EXCEPT ![held[i][1]] = held[i][2] + 1]
  <2>1. /\ Delivery!Next
        /\ \A r \in Lost' \ Lost :
             \/ OffsetReset = "latest" /\ committed[r.partition] = NoOffset
             \/ r \in InHand(i)
    BY <1>1, <1>2, <1>3, <1>5, CommitLoses
  <2> QED
    BY <1>1, <2>1 DEF LossIsExcused
<1> QED
  BY <1>4, <1>5

\* An evicted owner whose message the timer has committed holds it in vain.
LEMMA EvictDelivers ==
    ASSUME DeliveryInv, NEW p \in Partitions, Evict(p)
    PROVE  Delivery!Next /\ LossIsExcused
<1>1. /\ TypeOK /\ owner[p] \in Instances
      /\ UNCHANGED <<log, committed, pc, held, events, todo, table>>
      /\ owner' = [owner EXCEPT ![p] = None]
  BY DEF DeliveryInv, IngestionInv, TypeOK, Evict, threadVars
<1>2. \A j \in Instances : pc[j] = "commit" => held[j][1] \in Partitions
  BY OffsetType DEF DeliveryInv, IngestionInv, HeldIsNew
<1>3. \A q \in Partitions : owner'[q] = IF q = p THEN None ELSE owner[q]
  BY <1>1 DEF TypeOK
<1> PICK i \in Instances : owner[p] = i
  BY <1>1
<1>4. ASSUME NEW j \in Instances, j # i
      PROVE  InHand(j)' = InHand(j)
  <2>1. pc[j] = "commit" => (owner'[held[j][1]] = j <=> owner[held[j][1]] = j)
    BY <1>2, <1>3, <1>4, IngestionAssumption
  <2> QED
    BY <1>1, <2>1, InHandKept
<1>5. pc[i] # "commit" => InHand(i)' = InHand(i)
  BY <1>1, InHandKept
<1>6. pc[i] = "commit" /\ held[i][1] # p => InHand(i)' = InHand(i)
  <2> SUFFICES ASSUME pc[i] = "commit", held[i][1] # p
               PROVE  InHand(i)' = InHand(i)
    OBVIOUS
  <2>1. owner'[held[i][1]] = owner[held[i][1]]
    BY <1>1, <1>2, <1>3
  <2> QED
    BY <1>1, <2>1, InHandKept
<1>7. pc[i] = "commit" /\ held[i][1] = p => InHand(i)' = {}
  <2> SUFFICES ASSUME pc[i] = "commit", held[i][1] = p
               PROVE  InHand(i)' = {}
    OBVIOUS
  <2>1. owner'[held'[i][1]] = None /\ None # i
    BY <1>1, <1>2, <1>3, IngestionAssumption
  <2> QED
    BY <1>1, <2>1, InHandIsPrimed
<1>8. InHand(i)' \subseteq InHand(i)
  BY <1>5, <1>6, <1>7
<1>9. /\ Delivery!Next
      /\ \A r \in Lost' \ Lost :
            /\ r \in InHand(i) /\ r \notin InHand(i)'
            /\ r.offset < committed[r.partition]
  BY <1>1, <1>4, <1>8, HandLoses
<1>10. ASSUME NEW r \in Lost' \ Lost
       PROVE  AutoCommit /\ pc[i] = "commit" /\ r.partition = p
  <2>1. pc[i] = "commit" /\ held[i][1] = p
    BY <1>5, <1>6, <1>9
  <2>2. /\ r.partition = held[i][1] /\ r.offset = held[i][2]
        /\ held[i][1] \in Partitions /\ held[i][2] \in Nat
        /\ owner[held[i][1]] = i
    BY <1>1, <1>9, <2>1, HandRow
  <2>3. ~(committed[held[i][1]] <= held[i][2])
    BY <1>9, <2>2, OffsetType DEF DeliveryInv, IngestionInv
  <2>4. AutoCommit
    BY <1>1, <2>1, <2>2, <2>3 DEF DeliveryInv, HeldIsUncommitted
  <2> QED
    BY <2>1, <2>2, <2>4
<1>11. LossIsExcused
  BY <1>1, <1>9, <1>10 DEF LossIsExcused
<1> QED
  BY <1>9, <1>11

\* A failed INSERT loses its rating, and an event that is no rating loses none.
LEMMA DropDelivers ==
    ASSUME DeliveryInv, NEW i \in Instances, NEW e \in todo[i],
           InsertFails(i, e) \/ SkipEvent(i, e)
    PROVE  Delivery!Next /\ LossIsExcused
<1>1. /\ TypeOK /\ pc[i] = "apply"
      /\ todo' = [todo EXCEPT ![i] = @ \ {e}]
      /\ UNCHANGED <<log, committed, owner, pc, held, events, table>>
  BY DEF InsertFails, SkipEvent, brokerVars, DeliveryInv, IngestionInv
<1>2. \A j \in Instances \ {i} : InHand(j)' = InHand(j)
  BY <1>1, InHandKept DEF TypeOK
<1>3. /\ InHand(i) = {Row(held[i][1], held[i][2], f) : f \in todo[i]}
      /\ InHand(i)' = {Row(held[i][1], held[i][2], f) : f \in todo[i] \ {e}}
  <2>1. InHand(i)' = {Row(held'[i][1], held'[i][2], f) : f \in todo'[i]}
    BY <1>1, InHandIsPrimed
  <2>2. held'[i] = held[i] /\ todo'[i] = todo[i] \ {e}
    BY <1>1 DEF TypeOK
  <2> QED
    BY <1>1, <2>1, <2>2, InHandIs
<1>4. InHand(i)' \subseteq InHand(i)
  BY <1>3
<1>5. /\ Delivery!Next
      /\ \A r \in Lost' \ Lost :
            r \in Published /\ r \in InHand(i) /\ r \notin InHand(i)'
  BY <1>1, <1>2, <1>4, HandLoses
<1>6. ASSUME NEW r \in Lost' \ Lost
      PROVE  InsertFails(i, r.event)
  <2>1. r = Row(held[i][1], held[i][2], e)
    BY <1>3, <1>5
  <2>2. r.event = e
    BY <2>1, RowFields
  <2>3. r.event.eventType = "put"
    BY <1>1, <1>5, PublishedRow
  <2> QED
    BY <2>2, <2>3 DEF SkipEvent
<1> QED
  BY <1>5, <1>6 DEF LossIsExcused

\* The commits that go on with the message.
LEMMA CommitDelivers ==
    ASSUME DeliveryInv, NEW i \in Instances, TimerCommits(i) \/ CommitOffset(i)
    PROVE  Delivery!Next /\ LossIsExcused
<1>1. /\ TypeOK /\ pc[i] = "commit" /\ owner[held[i][1]] = i
      /\ committed' = [committed EXCEPT ![held[i][1]] = held[i][2] + 1]
      /\ UNCHANGED <<log, owner, held, events, table>>
      /\ \A j \in Instances \ {i} : pc'[j] = pc[j] /\ todo'[j] = todo[j]
      /\ \/ pc'[i] = "commit"
         \/ pc'[i] = "apply" /\ todo'[i] = events[i]
  BY DEF DeliveryInv, IngestionInv, TypeOK, TimerCommits, CommitOffset, threadVars
<1>2. \A j \in Instances \ {i} : InHand(j)' = InHand(j)
  BY <1>1, InHandKept
<1>3. InHand(i)' = InHand(i)
  <2>1. InHand(i) = {Row(held[i][1], held[i][2], e) : e \in events[i]}
    BY <1>1, InHandIs
  <2>2. CASE pc'[i] = "commit"
    BY <1>1, <2>2, InHandKept
  <2>3. CASE pc'[i] = "apply" /\ todo'[i] = events[i]
    <3>1. InHand(i)' = {Row(held'[i][1], held'[i][2], e) : e \in todo'[i]}
      BY <2>3, InHandIsPrimed
    <3> QED
      BY <1>1, <2>1, <2>3, <3>1
  <2> QED
    BY <1>1, <2>2, <2>3
<1>4. /\ Delivery!Next
      /\ \A r \in Lost' \ Lost :
            OffsetReset = "latest" /\ committed[r.partition] = NoOffset
  BY <1>1, <1>2, <1>3, CommitLoses
<1> QED
  BY <1>4 DEF LossIsExcused

\* The message that Poll gets is past the committed offset: nothing of it is
\* lost.
LEMMA PollDelivers ==
    ASSUME DeliveryInv, NEW i \in Instances, NEW p \in Partitions, PollMessage(i, p)
    PROVE  UNCHANGED <<Published, table, Lost>>
<1> DEFINE o == position[i][p]
<1>1. /\ TypeOK /\ pc[i] = "poll" /\ o \in Nat
      /\ held'[i] = <<p, o>> /\ pc'[i] = "commit"
      /\ UNCHANGED <<log, committed, owner, table>>
      /\ \A j \in Instances \ {i} :
            /\ held'[j] = held[j] /\ pc'[j] = pc[j]
            /\ events'[j] = events[j] /\ todo'[j] = todo[j]
  BY OffsetType
  DEF DeliveryInv, IngestionInv, TypeOK, PollMessage, brokerVars, NoOffset
<1>2. Published' = Published /\ Stored' = Stored
  BY <1>1, PublishedKept, StoredKept
<1>3. \A j \in Instances \ {i} : InHand(j)' = InHand(j)
  BY <1>1, InHandKept
<1>4. InHand(i) = {}
  BY <1>1, InHandIs
<1>5. ASSUME NEW r \in InHand(i)'
      PROVE  ~(r.offset < committed[r.partition])
  <2>1. held'[i][1] = p /\ held'[i][2] = o
    BY <1>1
  <2>2. owner[p] = i
    BY <1>1, <1>5, <2>1, InHandIsPrimed
  <2>3. InHand(i)' = {Row(held'[i][1], held'[i][2], e) : e \in events'[i]}
    BY <1>1, <2>1, <2>2, InHandIsPrimed
  <2>4. r.partition = p /\ r.offset = o
    <3>1. PICK e \in events'[i] : r = Row(held'[i][1], held'[i][2], e)
      BY <1>5, <2>3
    <3> QED
      BY <2>1, <3>1, RowFields
  <2>5. committed[p] = NoOffset \/ committed[p] = o
    BY <1>1, <2>2 DEF DeliveryInv, IngestionInv, OwnerInStep, Holds
  <2> QED
    BY <1>1, <2>4, <2>5 DEF NoOffset
<1>6. \A r : r \in Lost' <=> r \in Lost
  BY <1>1, <1>2, <1>3, <1>4, <1>5, LostIs, LostIsPrimed
<1> QED
  BY <1>1, <1>2, <1>6

\* The steps that leave hands and offsets alone.
LEMMA OtherDelivers ==
    ASSUME DeliveryInv, UNCHANGED <<log, committed, table>>,
           \A j \in Instances : InHand(j)' = InHand(j)
    PROVE  UNCHANGED <<Published, table, Lost>>
<1>1. Published' = Published /\ Stored' = Stored
  BY PublishedKept, StoredKept
<1>2. \A r : r \in Lost' <=> r \in Lost
  BY <1>1, LostIs, LostIsPrimed
<1> QED
  BY <1>1, <1>2

LEMMA ThreadRests ==
    ASSUME DeliveryInv, NEW i \in Instances,
           Start(i) \/ PollNothing(i) \/ EndOfBatch(i) \/ Stop(i)
    PROVE  UNCHANGED <<Published, table, Lost>>
<1>1. /\ TypeOK
      /\ UNCHANGED <<log, committed, owner, table>>
      /\ \A j \in Instances \ {i} :
            /\ held'[j] = held[j] /\ pc'[j] = pc[j]
            /\ events'[j] = events[j] /\ todo'[j] = todo[j]
  BY DEF DeliveryInv, IngestionInv, TypeOK, Start, PollNothing, EndOfBatch, Stop,
         brokerVars, threadVars
<1>2. \A j \in Instances \ {i} : InHand(j)' = InHand(j)
  BY <1>1, InHandKept
<1>3. CASE Stop(i)
  BY <1>1, <1>2, <1>3, InHandKept, OtherDelivers DEF Stop, threadVars
<1>4. CASE Start(i) \/ PollNothing(i) \/ EndOfBatch(i)
  <2>1. /\ pc[i] \notin {"apply", "commit"} \/ (pc[i] = "apply" /\ todo[i] = {})
        /\ pc'[i] \notin {"apply", "commit"} \/ (pc'[i] = "apply" /\ todo'[i] = {})
    BY <1>1, <1>4 DEF TypeOK, Start, PollNothing, EndOfBatch
  <2>2. InHand(i) = {}
    BY <2>1, InHandIs
  <2>3. InHand(i)' = {}
    BY <2>1, InHandIsPrimed
  <2> QED
    BY <1>1, <1>2, <2>2, <2>3, OtherDelivers
<1> QED
  BY <1>3, <1>4

LEMMA StepDelivers ==
    ASSUME DeliveryInv, [Next]_vars
    PROVE  /\ [Delivery!Next]_<<Published, table, Lost>>
           /\ LossIsExcused
<1>1. TypeOK /\ TypeOK'
  BY NextInv DEF DeliveryInv, IngestionInv
<1>2. SUFFICES \/ Delivery!Next /\ LossIsExcused
               \/ UNCHANGED <<Published, table, Lost>>
  BY DEF LossIsExcused
<1>3. ASSUME NEW i \in Instances, NEW p \in Partitions, Assign(i, p) \/ Revoked(i, p)
      PROVE  UNCHANGED <<Published, table, Lost>>
  <2>1. /\ UNCHANGED <<log, committed, pc, held, events, todo, table>>
        /\ pc[i] = "poll"
        /\ owner' = owner \/ (owner[p] = None /\ owner' = [owner EXCEPT ![p] = i])
    BY <1>3 DEF Assign, Revoked, brokerVars, threadVars
  <2>2. ASSUME NEW j \in Instances, pc[j] = "commit"
        PROVE  owner'[held[j][1]] = j <=> owner[held[j][1]] = j
    <3>1. held[j][1] \in Partitions /\ j # i
      BY <2>1, <2>2, OffsetType DEF DeliveryInv, IngestionInv, HeldIsNew
    <3> QED
      BY <1>1, <2>1, <3>1, IngestionAssumption DEF TypeOK
  <2>3. \A j \in Instances : InHand(j)' = InHand(j)
    BY <2>1, <2>2, InHandKept
  <2> QED
    BY <2>1, <2>3, OtherDelivers
<1>4. CASE Broker
  BY <1>1, <1>3, <1>4, ProduceDelivers, EvictDelivers, CommitDelivers DEF Broker
<1>5. ASSUME NEW i \in Instances, NEW e \in todo[i],
             \/ Insert(i, e) \/ InsertFails(i, e)
             \/ PutThrows(i, e) \/ SkipEvent(i, e)
      PROVE  Delivery!Next /\ LossIsExcused
  BY <1>5, InsertDelivers, DropDelivers, EndedDelivers DEF PutThrows
<1>6. ASSUME NEW i \in Instances, CommitFails(i) \/ Exit(i)
      PROVE  Delivery!Next /\ LossIsExcused
  BY <1>6, EndedDelivers DEF CommitFails, Exit
<1>7. ASSUME NEW i \in Instances, ThreadStep(i)
      PROVE  \/ Delivery!Next /\ LossIsExcused
             \/ UNCHANGED <<Published, table, Lost>>
  BY <1>5, <1>6, <1>7, ThreadRests, PollDelivers, CommitDelivers DEF ThreadStep
<1>8. CASE UNCHANGED vars
  <2>1. \A j \in Instances : InHand(j)' = InHand(j)
    BY <1>8, InHandKept DEF vars, brokerVars, threadVars
  <2> QED
    BY <1>8, <2>1, OtherDelivers DEF vars, brokerVars
<1> QED
  BY <1>4, <1>6, <1>7, <1>8, ThreadRests DEF Next

LEMMA StartsDelivery == Init => Delivery!Init
<1> SUFFICES ASSUME Init PROVE Delivery!Init
  OBVIOUS
<1>1. \A p \in Partitions : Len(log[p]) = 0
  BY DEF Init
<1>2. Published = {}
  BY <1>1, PublishedIs
<1>3. Lost = {}
  BY <1>2, LostIs
<1> QED
  BY <1>2, <1>3 DEF Delivery!Init, Init

\* Poll, commits, inserts, rebalances, stops and crashes do to a published
\* rating what EventDelivery allows: they store it once or lose it for good,
\* and one incident costs at most a message.
THEOREM DeliversEvents == Spec => EventDeliverySpec
<1>1. DeliveryInv /\ [Next]_vars => DeliveryInv'
  BY NextDelivery
<1>2. DeliveryInv /\ [Next]_vars => [Delivery!Next]_<<Published, table, Lost>>
  BY StepDelivers
<1> QED
  BY <1>1, <1>2, InitDelivery, StartsDelivery, PTL
  DEF Spec, EventDeliverySpec, Delivery!Spec

\* A rating of a committed message is lost only from the hands of an instance
\* that ends, by a failed INSERT, or between the timer's commit and the owner's
\* eviction; and before the group's first commit with the reset "latest".
THEOREM LossIsOfFaults == Spec => LossNeedsFault
<1>1. DeliveryInv /\ [Next]_vars => DeliveryInv'
  BY NextDelivery
<1>2. DeliveryInv /\ [Next]_vars => [LossIsExcused]_vars
  BY StepDelivers
<1>3. LossNeedsFault <=> [][LossIsExcused]_vars
  BY DEF LossNeedsFault, LossIsExcused
<1> QED
  BY <1>1, <1>2, <1>3, InitDelivery, PTL DEF Spec

-----------------------------------------------------------------------------
(* Stop returns and an owner works its partition off.                      *)

\* What the thread of i has yet to visit of its batch.
Batch(i) == todo[i]

\* Offsets that the consumer of i has yet to pass in partition p.
Ahead(i, p) == (position[i][p] + 1)..MaxLog

\* The thread of i can go on.
CanStep(i) == pc[i] = "poll" \/ pc[i] = "commit" \/ pc[i] = "apply"

CanPoll(i, p) ==
    /\ pc[i] = "poll"
    /\ position[i][p] # NoOffset
    /\ position[i][p] < Len(log[p])

\* Weak fairness of the thread of i, and strong fairness of its polls of p.
ThreadRuns(i) == []<>~CanStep(i) \/ []<><<ThreadStep(i)>>_vars
PollsFairly(i, p) == <>[]~CanPoll(i, p) \/ []<><<PollMessage(i, p)>>_vars

FairThreads ==
    \A i \in Instances : ThreadRuns(i) /\ \A p \in Partitions : PollsFairly(i, p)

\* No behavior takes elements from these finite sets for ever.
SetsComeToRest ==
    \A i \in Instances :
        /\ ComesToRest(Batch(i), vars)
        /\ \A p \in Partitions : ComesToRest(Ahead(i, p), vars)

-----------------------------------------------------------------------------
\* A set of events that Poll fills is finite.
BatchesFinite == \A i \in Instances : IsFiniteSet(events[i]) /\ IsFiniteSet(todo[i])

\* Only a process that runs owns partitions.
OwnersRun == \A i \in Instances, p \in Partitions : owner[p] = i => pc[i] # "down"

\* A consumer is nowhere past the end of a log.
PositionsInLog ==
    /\ \A p \in Partitions : Len(log[p]) <= MaxLog
    /\ \A i \in Instances, p \in Partitions : position[i][p] <= Len(log[p])

RunInv == DeliveryInv /\ BatchesFinite /\ OwnersRun /\ PositionsInLog

LEMMA ParsedFinite ==
    ASSUME NEW m \in Payloads
    PROVE  IsFiniteSet(ParsedEvents(m))
<1>1. PICK n \in Nat : m \in [1..n -> RatingEvent \cup {Malformed}]
  BY IngestionAssumption
<1>2. DOMAIN m = 1..n
  BY <1>1
<1> DEFINE items == {m[k] : k \in 1..n}
<1>3. m \in Surjection(1..n, items)
  BY <1>1 DEF Surjection
<1>4. ParsedEvents(m) \subseteq items
  BY <1>2 DEF ParsedEvents, KeyedSet
<1> HIDE DEF items
<1>5. IsFiniteSet(1..n)
  BY FS_Interval
<1>6. IsFiniteSet(items)
  BY <1>3, <1>5, FS_Surjection
<1> QED
  BY <1>4, <1>6, FS_Subset

LEMMA BatchesStep ==
    ASSUME DeliveryInv, BatchesFinite, [Next]_vars
    PROVE  BatchesFinite'
<1> USE DEF BatchesFinite
<1>1. TypeOK
  BY DEF DeliveryInv, IngestionInv
<1>2. ASSUME NEW i \in Instances, NEW p \in Partitions, PollMessage(i, p)
      PROVE  BatchesFinite'
  <2>1. log[p][position[i][p] + 1] \in Payloads
    <3>1. log[p] \in Seq(Payloads) /\ position[i][p] + 1 \in 1..Len(log[p])
      BY <1>1, <1>2 DEF TypeOK, PollMessage, NoOffset
    <3> QED
      BY <3>1, ElementOfSeq
  <2>2. IsFiniteSet(ParsedEvents(log[p][position[i][p] + 1]))
    BY <2>1, ParsedFinite
  <2>3. /\ events' = [events EXCEPT ![i] = ParsedEvents(log[p][position[i][p] + 1])]
        /\ todo' = todo
    BY <1>2 DEF PollMessage
  <2> HIDE DEF BatchesFinite
  <2>4. ASSUME NEW j \in Instances PROVE IsFiniteSet(events'[j]) /\ IsFiniteSet(todo'[j])
    <3>1. events'[j] = events[j] \/ events'[j] = ParsedEvents(log[p][position[i][p] + 1])
      BY <1>1, <2>3 DEF TypeOK
    <3> QED
      BY <2>2, <2>3, <3>1 DEF BatchesFinite
  <2> QED
    BY <2>4 DEF BatchesFinite
<1>3. ASSUME NEW i \in Instances,
             \A j \in Instances :
                /\ events'[j] = events[j] \/ events'[j] = {}
                /\ todo'[j] \in {todo[j], events[j], {}} \/ \E e : todo'[j] = todo[j] \ {e}
      PROVE  BatchesFinite'
  <2> SUFFICES ASSUME NEW j \in Instances
               PROVE  IsFiniteSet(events'[j]) /\ IsFiniteSet(todo'[j])
    OBVIOUS
  <2>1. IsFiniteSet(events[j]) /\ IsFiniteSet(todo[j]) /\ IsFiniteSet({})
    BY FS_EmptySet
  <2>2. \A e : IsFiniteSet(todo[j] \ {e})
    BY <2>1, FS_RemoveElement
  <2> QED
    BY <1>3, <2>1, <2>2
<1> DEFINE Others(i) == \A j \in Instances :
                /\ events'[j] = events[j] \/ events'[j] = {}
                /\ todo'[j] \in {todo[j], events[j], {}} \/ \E e : todo'[j] = todo[j] \ {e}
<1>4. ASSUME NEW i \in Instances, Ended(i) PROVE Others(i)
  BY <1>1, <1>4 DEF TypeOK, Ended
<1>5. ASSUME NEW i \in Instances,
             \/ Start(i) \/ PollNothing(i) \/ CommitOffset(i)
             \/ EndOfBatch(i) \/ Stop(i) \/ TimerCommits(i)
      PROVE  Others(i)
  BY <1>1, <1>5
  DEF TypeOK, Start, PollNothing, CommitOffset, EndOfBatch, Stop, TimerCommits, threadVars
<1>6. ASSUME NEW i \in Instances, NEW e \in todo[i],
             Insert(i, e) \/ InsertFails(i, e) \/ SkipEvent(i, e)
      PROVE  Others(i)
  <2>1. events' = events /\ todo' = [todo EXCEPT ![i] = @ \ {e}]
    BY <1>6 DEF Insert, InsertFails, SkipEvent
  <2>2. \A j \in Instances : todo'[j] = todo[j] \/ todo'[j] = todo[j] \ {e}
    BY <1>1, <2>1 DEF TypeOK
  <2> QED
    BY <2>1, <2>2
<1>7. ASSUME NEW i \in Instances,
             CommitFails(i) \/ Exit(i) \/ \E e \in todo[i] : PutThrows(i, e)
      PROVE  Others(i)
  BY <1>4, <1>7 DEF CommitFails, Exit, PutThrows
<1>8. ASSUME UNCHANGED threadVars PROVE BatchesFinite'
  BY <1>8 DEF threadVars
<1>9. CASE UNCHANGED vars
  BY <1>8, <1>9 DEF vars
<1>10. ASSUME NEW p \in Partitions,
              \/ \E m \in Payloads : Produce(p, m)
              \/ Evict(p) \/ \E i \in Instances : Assign(i, p) \/ Revoked(i, p)
       PROVE  BatchesFinite'
  BY <1>8, <1>10 DEF Produce, Evict, Assign, Revoked
<1> HIDE DEF BatchesFinite
<1> QED
  BY <1>2, <1>3, <1>5, <1>6, <1>7, <1>9, <1>10 DEF Next, Broker, ThreadStep

LEMMA OwnersStep ==
    ASSUME DeliveryInv, OwnersRun, [Next]_vars
    PROVE  OwnersRun'
<1> SUFFICES ASSUME NEW i \in Instances, NEW p \in Partitions, owner'[p] = i
             PROVE  pc'[i] # "down"
  BY DEF OwnersRun
<1> USE IngestionAssumption
<1>1. TypeOK
  BY DEF DeliveryInv, IngestionInv
<1>2. ASSUME NEW j \in Instances, Ended(j) PROVE pc'[i] # "down"
  BY <1>1, <1>2 DEF TypeOK, Ended, OwnersRun
<1>3. ASSUME NEW j \in Instances, NEW q \in Partitions, Assign(j, q)
      PROVE  pc'[i] # "down"
  BY <1>1, <1>3 DEF TypeOK, Assign, OwnersRun, threadVars
<1>4. ASSUME owner' = owner, pc'[i] # "down" \/ pc'[i] = pc[i] PROVE pc'[i] # "down"
  BY <1>4 DEF OwnersRun
<1>5. ASSUME NEW j \in Instances,
             \/ Start(j) \/ PollNothing(j) \/ CommitOffset(j) \/ EndOfBatch(j)
             \/ Stop(j) \/ TimerCommits(j) \/ \E q \in Partitions : PollMessage(j, q)
             \/ \E e \in todo[j] : Insert(j, e) \/ InsertFails(j, e) \/ SkipEvent(j, e)
      PROVE  pc'[i] # "down"
  <2>1. owner' = owner
    BY <1>5 DEF Start, PollNothing, CommitOffset, EndOfBatch, Stop, TimerCommits,
                PollMessage, Insert, InsertFails, SkipEvent, brokerVars
  <2>2. pc'[i] # "down" \/ pc'[i] = pc[i]
    BY <1>1, <1>5 DEF TypeOK, Start, PollNothing, CommitOffset, EndOfBatch, Stop,
                TimerCommits, PollMessage, Insert, InsertFails, SkipEvent, threadVars
  <2> QED
    BY <1>4, <2>1, <2>2
<1>6. ASSUME NEW j \in Instances,
             CommitFails(j) \/ Exit(j) \/ \E e \in todo[j] : PutThrows(j, e)
      PROVE  pc'[i] # "down"
  BY <1>2, <1>6 DEF CommitFails, Exit, PutThrows
<1>7. ASSUME NEW q \in Partitions,
             \/ \E m \in Payloads : Produce(q, m)
             \/ Evict(q) \/ \E j \in Instances : Revoked(j, q)
      PROVE  pc'[i] # "down"
  BY <1>1, <1>7 DEF TypeOK, Produce, Evict, Revoked, OwnersRun, threadVars, brokerVars
<1>8. CASE UNCHANGED vars
  BY <1>4, <1>8 DEF vars, brokerVars, threadVars
<1> QED
  BY <1>3, <1>5, <1>6, <1>7, <1>8 DEF Next, Broker, ThreadStep

LEMMA PositionsStep ==
    ASSUME DeliveryInv, DeliveryInv', PositionsInLog, [Next]_vars
    PROVE  PositionsInLog'
<1> USE IngestionAssumption
<1>1. TypeOK /\ TypeOK'
  BY DEF DeliveryInv, IngestionInv
<1>2. \A p \in Partitions : Len(log[p]) \in Nat /\ Len(log'[p]) \in Nat
  BY <1>1 DEF TypeOK
<1>3. ASSUME NEW q \in Partitions, NEW m \in Payloads, Produce(q, m) PROVE PositionsInLog'
  <2>1. ASSUME NEW p \in Partitions
        PROVE  Len(log'[p]) = Len(log[p]) \/ (p = q /\ Len(log'[p]) = Len(log[p]) + 1)
    <3>1. \/ log'[p] = log[p]
          \/ p = q /\ log'[p] = Append(log[p], m) /\ log[p] \in Seq(Payloads)
      BY <1>1, <1>3 DEF TypeOK, Produce
    <3> QED
      BY <3>1, AppendProperties
  <2>2. Len(log[q]) < MaxLog /\ position' = position
    BY <1>3 DEF Produce
  <2>3. \A p \in Partitions : Len(log[p]) <= Len(log'[p]) /\ Len(log'[p]) <= MaxLog
    BY <1>2, <2>1, <2>2 DEF PositionsInLog
  <2>4. \A i \in Instances, p \in Partitions : position[i][p] \in Int
    BY <1>1 DEF TypeOK, NoOffset
  <2> QED
    BY <1>2, <2>2, <2>3, <2>4 DEF PositionsInLog
<1>4. ASSUME log' = log,
             \A i \in Instances, p \in Partitions : position'[i][p] <= Len(log[p])
      PROVE  PositionsInLog'
  BY <1>4 DEF PositionsInLog
<1>5. ASSUME NEW i \in Instances, NEW q \in Partitions, Assign(i, q) PROVE PositionsInLog'
  <2>1. StartOffset(q) <= Len(log[q])
    BY <1>1, <1>2 DEF StartOffset, DeliveryInv, CommitsInLog, TypeOK, NoOffset
  <2>2. \A j \in Instances, p \in Partitions :
            position'[j][p] = position[j][p] \/ (p = q /\ position'[j][p] = StartOffset(q))
    BY <1>1, <1>5 DEF Assign, TypeOK
  <2> QED
    BY <1>4, <1>5, <2>1, <2>2 DEF Assign, PositionsInLog
<1>6. ASSUME NEW i \in Instances, NEW q \in Partitions, PollMessage(i, q)
      PROVE  PositionsInLog'
  <2>1. \A j \in Instances, p \in Partitions :
            \/ position'[j][p] = position[j][p]
            \/ j = i /\ p = q /\ position'[j][p] = position[i][q] + 1
    BY <1>1, <1>6 DEF PollMessage, TypeOK
  <2>2. position[i][q] + 1 <= Len(log[q])
    BY <1>1, <1>2, <1>6 DEF PollMessage, TypeOK, NoOffset
  <2> QED
    BY <1>4, <1>6, <2>1, <2>2 DEF PollMessage, PositionsInLog, brokerVars
<1>7. ASSUME log' = log,
             \A i \in Instances, p \in Partitions :
                position'[i][p] = position[i][p] \/ position'[i][p] = NoOffset
      PROVE  PositionsInLog'
  BY <1>2, <1>4, <1>7 DEF PositionsInLog, NoOffset
<1>8. ASSUME NEW j \in Instances, Ended(j) PROVE PositionsInLog'
  BY <1>1, <1>7, <1>8 DEF Ended, TypeOK
<1>9. ASSUME NEW j \in Instances,
             CommitFails(j) \/ Exit(j) \/ \E e \in todo[j] : PutThrows(j, e)
      PROVE  PositionsInLog'
  BY <1>8, <1>9 DEF CommitFails, Exit, PutThrows
<1>10. ASSUME NEW i \in Instances, NEW q \in Partitions, Revoked(i, q) PROVE PositionsInLog'
  BY <1>1, <1>7, <1>10 DEF Revoked, TypeOK, brokerVars
<1>11. ASSUME NEW j \in Instances,
             \/ Start(j) \/ PollNothing(j) \/ CommitOffset(j) \/ EndOfBatch(j)
             \/ Stop(j) \/ TimerCommits(j)
             \/ \E e \in todo[j] : Insert(j, e) \/ InsertFails(j, e) \/ SkipEvent(j, e)
       PROVE  PositionsInLog'
  BY <1>7, <1>11 DEF Start, PollNothing, CommitOffset, EndOfBatch, Stop, TimerCommits,
                Insert, InsertFails, SkipEvent, brokerVars
<1>12. ASSUME NEW q \in Partitions, Evict(q) PROVE PositionsInLog'
  BY <1>7, <1>12 DEF Evict
<1>13. CASE UNCHANGED vars
  BY <1>7, <1>13 DEF vars, brokerVars
<1> QED
  BY <1>3, <1>5, <1>6, <1>9, <1>10, <1>11, <1>12, <1>13 DEF Next, Broker, ThreadStep

LEMMA RunInvariant == Spec => []RunInv
<1>1. Init => RunInv
  <2>1. Init => BatchesFinite
    BY FS_EmptySet DEF Init, BatchesFinite
  <2>2. Init => OwnersRun /\ PositionsInLog
    BY IngestionAssumption DEF Init, OwnersRun, PositionsInLog, NoOffset
  <2> QED
    BY <2>1, <2>2, InitDelivery DEF RunInv
<1>2. RunInv /\ [Next]_vars => RunInv'
  BY NextDelivery, BatchesStep, OwnersStep, PositionsStep DEF RunInv
<1> QED
  BY <1>1, <1>2, PTL DEF Spec

-----------------------------------------------------------------------------
\* Where a step of its thread takes an instance.
LEMMA ThreadGoesAhead ==
    ASSUME TypeOK, NEW i \in Instances, ThreadStep(i)
    PROVE  /\ pc[i] = "poll" => pc'[i] \in {"commit", "apply"}
           /\ pc[i] = "commit" => pc'[i] \in {"apply", "down"}
           /\ pc[i] = "apply" =>
                \/ pc'[i] = "down"
                \/ /\ pc'[i] = "apply"
                   /\ Batch(i)' \subseteq Batch(i) /\ Batch(i)' # Batch(i)
                \/ pc'[i] = IF stopping[i] THEN "stopped" ELSE "poll"
           /\ pc'[i] # "down" => stopping'[i] = stopping[i]
<1> USE DEF TypeOK, Batch
<1>1. CASE PollNothing(i)
  BY <1>1 DEF PollNothing
<1>2. ASSUME NEW p \in Partitions, PollMessage(i, p)
      PROVE  pc[i] = "poll" /\ pc'[i] = "commit" /\ stopping' = stopping
  BY <1>2 DEF PollMessage
<1>3. CASE CommitOffset(i)
  BY <1>3 DEF CommitOffset
<1>4. ASSUME Ended(i) PROVE pc'[i] = "down"
  BY <1>4 DEF Ended
<1>5. CASE CommitFails(i)
  BY <1>4, <1>5 DEF CommitFails
<1>6. ASSUME NEW e \in todo[i], Insert(i, e) \/ InsertFails(i, e) \/ SkipEvent(i, e)
      PROVE  /\ pc[i] = "apply" /\ pc' = pc /\ stopping' = stopping
             /\ Batch(i)' \subseteq Batch(i) /\ Batch(i)' # Batch(i)
  BY <1>6 DEF Insert, InsertFails, SkipEvent
<1>7. ASSUME NEW e \in todo[i], PutThrows(i, e)
      PROVE  pc[i] = "apply" /\ pc'[i] = "down"
  BY <1>4, <1>7 DEF PutThrows
<1>8. CASE EndOfBatch(i)
  BY <1>8 DEF EndOfBatch
<1> QED
  BY <1>1, <1>2, <1>3, <1>5, <1>6, <1>7, <1>8 DEF ThreadStep

\* Other steps end the process or leave its thread where it is.
LEMMA OthersHoldUp ==
    ASSUME TypeOK, NEW i \in Instances, [Next]_vars, ~ThreadStep(i), CanStep(i)
    PROVE  \/ pc'[i] = "down"
           \/ /\ pc'[i] = pc[i]
              /\ Batch(i)' = Batch(i)
              /\ held'[i] = held[i]
              /\ stopping[i] => stopping'[i]
<1> USE DEF TypeOK, CanStep, Batch
<1> DEFINE Rests == /\ pc'[i] = pc[i] /\ todo'[i] = todo[i] /\ held'[i] = held[i]
                    /\ stopping[i] => stopping'[i]
<1>1. ASSUME NEW j \in Instances, Ended(j) PROVE Rests \/ pc'[i] = "down"
  BY <1>1 DEF Ended
<1>2. ASSUME NEW j \in Instances, ThreadStep(j) PROVE Rests \/ pc'[i] = "down"
  <2>1. j # i
    BY <1>2
  <2>2. CASE PollNothing(j) \/ CommitOffset(j) \/ EndOfBatch(j)
    BY <2>1, <2>2 DEF PollNothing, CommitOffset, EndOfBatch
  <2>3. ASSUME NEW p \in Partitions, PollMessage(j, p) PROVE Rests
    BY <2>1, <2>3 DEF PollMessage
  <2>4. ASSUME NEW e \in todo[j], Insert(j, e) \/ InsertFails(j, e) \/ SkipEvent(j, e)
        PROVE  Rests
    BY <2>1, <2>4 DEF Insert, InsertFails, SkipEvent
  <2>5. CASE CommitFails(j) \/ \E e \in todo[j] : PutThrows(j, e)
    BY <1>1, <2>5 DEF CommitFails, PutThrows
  <2> QED
    BY <1>2, <2>2, <2>3, <2>4, <2>5 DEF ThreadStep
<1>3. ASSUME NEW j \in Instances, Start(j) \/ Stop(j) \/ Exit(j)
      PROVE  Rests \/ pc'[i] = "down"
  BY <1>1, <1>3 DEF Start, Stop, Exit, threadVars
<1>4. CASE Broker
  BY <1>4 DEF Broker, Produce, Evict, Assign, Revoked, TimerCommits, threadVars
<1>5. CASE UNCHANGED vars
  BY <1>5 DEF vars, threadVars
<1> QED
  BY <1>2, <1>3, <1>4, <1>5 DEF Next

\* A thread goes through poll, commit and its batch, and looks at the stop token.
LEMMA ThreadMoves ==
    ASSUME TypeOK, NEW i \in Instances, [Next]_vars
    PROVE  /\ pc[i] = "poll" /\ stopping[i] =>
                \/ (pc[i] = "poll")' /\ stopping'[i]
                \/ (pc[i] = "commit")' /\ stopping'[i]
                \/ (pc[i] = "apply")' /\ stopping'[i]
                \/ (pc[i] = "down")'
           /\ pc[i] = "commit" /\ stopping[i] =>
                \/ (pc[i] = "commit")' /\ stopping'[i]
                \/ (pc[i] = "apply")' /\ stopping'[i]
                \/ (pc[i] = "down")'
           /\ pc[i] = "apply" /\ stopping[i] =>
                \/ (pc[i] = "apply")' /\ stopping'[i]
                \/ (pc[i] = "stopped")'
                \/ (pc[i] = "down")'
           /\ pc[i] = "commit" =>
                (pc[i] = "commit")' \/ (pc[i] = "apply")' \/ (pc[i] = "down")'
           /\ pc[i] = "apply" =>
                \/ (pc[i] = "apply")' \/ (pc[i] = "poll")'
                \/ (pc[i] = "stopped")' \/ (pc[i] = "down")'
           /\ <<ThreadStep(i)>>_vars /\ pc[i] = "poll" => ~(pc[i] = "poll")'
           /\ <<ThreadStep(i)>>_vars /\ pc[i] = "commit" => ~(pc[i] = "commit")'
           /\ pc[i] = "apply" /\ (pc[i] = "apply")' => Batch(i)' \subseteq Batch(i)
           /\ <<ThreadStep(i)>>_vars /\ pc[i] = "apply" /\ (pc[i] = "apply")'
                => ~(Batch(i)' = Batch(i))
<1>1. CASE ThreadStep(i)
  BY <1>1, ThreadGoesAhead
<1>2. CASE ~ThreadStep(i)
  BY <1>2, OthersHoldUp DEF CanStep
<1> QED
  BY <1>1, <1>2

\* Stop's thread looks at the token once its batch is visited.
LEMMA ThreadStops ==
    ASSUME NEW i \in Instances
    PROVE  Spec /\ ThreadRuns(i) /\ ComesToRest(Batch(i), vars) =>
              (stopping[i] ~> pc[i] \in {"stopped", "down"})
<1>1. RunInv => IsFiniteSet(Batch(i))
  BY DEF RunInv, BatchesFinite, Batch
<1>2. RunInv => \/ pc[i] = "poll" \/ pc[i] = "commit" \/ pc[i] = "apply"
                \/ pc[i] = "stopped" \/ pc[i] = "down"
  BY DEF RunInv, DeliveryInv, IngestionInv, TypeOK
<1>3. pc[i] = "poll" \/ pc[i] = "commit" \/ pc[i] = "apply" => CanStep(i)
  BY DEF CanStep
<1>4. (pc[i] = "stopped" \/ pc[i] = "down") => pc[i] \in {"stopped", "down"}
  OBVIOUS
<1>5. RunInv /\ [Next]_vars =>
         /\ pc[i] = "poll" /\ stopping[i] =>
              \/ (pc[i] = "poll")' /\ (stopping[i])'
              \/ (pc[i] = "commit")' /\ (stopping[i])'
              \/ (pc[i] = "apply")' /\ (stopping[i])'
              \/ (pc[i] = "down")'
         /\ pc[i] = "commit" /\ stopping[i] =>
              \/ (pc[i] = "commit")' /\ (stopping[i])'
              \/ (pc[i] = "apply")' /\ (stopping[i])'
              \/ (pc[i] = "down")'
         /\ pc[i] = "apply" /\ stopping[i] =>
              \/ (pc[i] = "apply")' /\ (stopping[i])'
              \/ (pc[i] = "stopped")'
              \/ (pc[i] = "down")'
         /\ <<ThreadStep(i)>>_vars /\ pc[i] = "poll" => ~(pc[i] = "poll")'
         /\ <<ThreadStep(i)>>_vars /\ pc[i] = "commit" => ~(pc[i] = "commit")'
  BY ThreadMoves DEF RunInv, DeliveryInv, IngestionInv
<1>6. RunInv /\ [Next]_vars /\ pc[i] = "apply" /\ (pc[i] = "apply")' =>
         /\ [Batch(i)' \subseteq Batch(i)]_vars
         /\ <<ThreadStep(i)>>_vars => ~[Batch(i)' = Batch(i)]_vars
  BY ThreadMoves DEF RunInv, DeliveryInv, IngestionInv
<1> QED
  BY <1>1, <1>2, <1>3, <1>4, <1>5, <1>6, RunInvariant, PTL
  DEF Spec, ThreadRuns, ComesToRest

\* Stop returns, whatever the broker, the other instances and the database do:
\* its thread comes to the end of the batch that it is about, and there looks
\* at the stop token.
THEOREM StopEndsIngestion ==
    Spec /\ FairThreads /\ SetsComeToRest => StopReturns
BY ThreadStops DEF StopReturns, FairThreads, SetsComeToRest

-----------------------------------------------------------------------------
\* The instance owns the partition and goes on.
Works(i, p) == owner[p] = i /\ pc[i] # "stopped"

Behind(i, p) == position[i][p] < Len(log[p])

\* Nothing of the partition is about to be committed or applied.
HandsOff(i, p) == pc[i] = "commit" \/ Applying(i) => held[i][1] # p

Drained(i, p) ==
    /\ position[i][p] = Len(log[p])
    /\ \A r \in Published : r.partition = p => r \notin InHand(i)

\* An owner's position moves only when it polls a message, and what it polls of
\* other partitions is none of this one.
LEMMA OwnerMoves ==
    ASSUME RunInv, RunInv', NEW i \in Instances, NEW p \in Partitions,
           Works(i, p), Works(i, p)', [Next]_vars
    PROVE  /\ PollMessage(i, p) =>
                Ahead(i, p)' \subseteq Ahead(i, p) /\ Ahead(i, p)' # Ahead(i, p)
           /\ ~PollMessage(i, p) =>
                /\ Ahead(i, p)' = Ahead(i, p)
                /\ Behind(i, p) => Behind(i, p)'
                /\ HandsOff(i, p) => HandsOff(i, p)'
<1>1. TypeOK /\ TypeOK' /\ PositionsInLog /\ PositionsInLog'
  BY DEF RunInv, DeliveryInv, IngestionInv
<1>2. /\ position[i][p] \in Int /\ Len(log[p]) \in Nat /\ Len(log'[p]) \in Nat
      /\ position[i][p] <= Len(log[p]) /\ Len(log[p]) <= MaxLog
  BY <1>1 DEF TypeOK, NoOffset, PositionsInLog
<1>3. pc[i] \in {"poll", "commit", "apply"} /\ pc'[i] \in {"poll", "commit", "apply"}
  BY <1>1 DEF TypeOK, RunInv, OwnersRun, Works
<1>4. CASE PollMessage(i, p)
  <2>1. position'[i][p] = position[i][p] + 1 /\ position[i][p] < Len(log[p])
    BY <1>1, <1>4 DEF TypeOK, PollMessage
  <2>2. /\ position[i][p] + 1 \in Ahead(i, p)
        /\ position[i][p] + 1 \notin Ahead(i, p)'
        /\ Ahead(i, p)' \subseteq Ahead(i, p)
    BY <1>2, <2>1, IngestionAssumption DEF Ahead
  <2> QED
    BY <1>4, <2>2
<1>5. CASE ~PollMessage(i, p)
  <2>1. position'[i][p] = position[i][p]
    <3>1. ASSUME NEW j \in Instances, Ended(j) PROVE position'[i][p] = position[i][p]
      <4>1. j # i
        BY <1>1, <1>3, <3>1 DEF Ended, TypeOK
      <4> QED
        BY <1>1, <3>1, <4>1 DEF Ended, TypeOK
    <3>2. ASSUME NEW j \in Instances, ThreadStep(j) PROVE position'[i][p] = position[i][p]
      <4>1. ASSUME NEW q \in Partitions, PollMessage(j, q)
            PROVE  position'[i][p] = position[i][p]
        <5>1. position' = [position EXCEPT ![j][q] = @ + 1]
          BY <4>1 DEF PollMessage
        <5>2. j # i \/ q # p
          BY <1>5, <4>1
        <5>3. position \in [Instances -> [Partitions -> Int]]
          BY <1>1 DEF TypeOK, NoOffset
        <5> QED
          BY <5>1, <5>2, <5>3
      <4>2. CASE CommitFails(j) \/ \E e \in todo[j] : PutThrows(j, e)
        BY <3>1, <4>2 DEF CommitFails, PutThrows
      <4> QED
        BY <3>2, <4>1, <4>2
        DEF ThreadStep, PollNothing, CommitOffset, Insert, InsertFails, SkipEvent, EndOfBatch
    <3>3. ASSUME NEW j \in Instances, Start(j) \/ Stop(j) \/ Exit(j)
          PROVE  position'[i][p] = position[i][p]
      BY <3>1, <3>3 DEF Start, Stop, Exit
    <3>4. ASSUME NEW j \in Instances, NEW q \in Partitions, Assign(j, q) \/ Revoked(j, q)
          PROVE  position'[i][p] = position[i][p]
      <4>1. j # i \/ q # p
        BY <3>4, IngestionAssumption DEF Assign, Revoked, Works
      <4> QED
        BY <1>1, <3>4, <4>1 DEF Assign, Revoked, TypeOK
    <3>5. CASE Broker
      BY <3>4, <3>5 DEF Broker, Produce, Evict, TimerCommits
    <3>6. CASE UNCHANGED vars
      BY <3>6 DEF vars
    <3> QED
      BY <3>2, <3>3, <3>5, <3>6 DEF Next
  <2>2. Len(log[p]) <= Len(log'[p])
    <3>1. ASSUME NEW q \in Partitions, NEW m \in Payloads, Produce(q, m)
          PROVE  Len(log[p]) <= Len(log'[p])
      <4>1. log[p] \in Seq(Payloads) /\ (log'[p] = log[p] \/ log'[p] = Append(log[p], m))
        BY <1>1, <3>1 DEF Produce, TypeOK
      <4> QED
        BY <4>1, AppendProperties
    <3>2. CASE log' = log
      BY <1>2, <3>2
    <3> QED
      BY <3>1, <3>2
      DEF Next, Broker, ThreadStep, Evict, Assign, Revoked, TimerCommits, Start, PollNothing,
          PollMessage, CommitOffset, CommitFails, Insert, InsertFails, PutThrows, SkipEvent,
          EndOfBatch, Stop, Exit, Ended, vars, brokerVars
  <2>3. HandsOff(i, p) => HandsOff(i, p)'
    <3>1. CASE ThreadStep(i)
      <4> USE DEF HandsOff, Applying
      <4>1. CASE PollNothing(i)
        BY <1>1, <4>1 DEF PollNothing, TypeOK
      <4>2. ASSUME NEW q \in Partitions, PollMessage(i, q) PROVE HandsOff(i, p)'
        <5>1. q # p /\ held'[i] = <<q, position[i][q]>>
          BY <1>1, <1>5, <4>2 DEF PollMessage, TypeOK
        <5> QED
          BY <5>1
      <4>3. CASE CommitOffset(i)
        BY <1>1, <4>3 DEF CommitOffset, TypeOK
      <4>4. ASSUME NEW e \in todo[i], Insert(i, e) \/ InsertFails(i, e) \/ SkipEvent(i, e)
            PROVE  HandsOff(i, p) => HandsOff(i, p)'
        BY <1>1, <4>4 DEF Insert, InsertFails, SkipEvent, TypeOK
      <4>5. CASE EndOfBatch(i)
        BY <1>1, <4>5 DEF EndOfBatch, TypeOK
      <4>6. ASSUME Ended(i) PROVE FALSE
        BY <1>1, <1>3, <4>6 DEF Ended, TypeOK
      <4> QED
        BY <3>1, <4>1, <4>2, <4>3, <4>4, <4>5, <4>6 DEF ThreadStep, CommitFails, PutThrows
    <3>2. CASE ~ThreadStep(i)
      <4>1. pc'[i] = pc[i] /\ Batch(i)' = Batch(i) /\ held'[i] = held[i]
        BY <1>1, <1>3, <3>2, OthersHoldUp DEF CanStep
      <4> QED
        BY <4>1 DEF HandsOff, Applying, Batch
    <3> QED
      BY <3>1, <3>2
  <2> QED
    BY <1>2, <1>5, <2>1, <2>2, <2>3 DEF Ahead, Behind
<1> QED
  BY <1>4, <1>5

\* Without a message to poll and to apply the partition is drained.
LEMMA OwnerRests ==
    ASSUME RunInv, NEW i \in Instances, NEW p \in Partitions, Works(i, p)
    PROVE  /\ pc[i] = "poll" \/ pc[i] = "commit" \/ pc[i] = "apply"
           /\ pc[i] = "poll" /\ Behind(i, p) => CanPoll(i, p)
           /\ pc[i] = "poll" => HandsOff(i, p)
           /\ ~Behind(i, p) /\ HandsOff(i, p) => Drained(i, p)
<1>1. TypeOK /\ PositionsInLog /\ DeliveryInv
  BY DEF RunInv, DeliveryInv, IngestionInv
<1>2. position[i][p] \in Int /\ Len(log[p]) \in Nat /\ position[i][p] <= Len(log[p])
  BY <1>1 DEF TypeOK, NoOffset, PositionsInLog
<1>3. pc[i] = "poll" \/ pc[i] = "commit" \/ pc[i] = "apply"
  BY <1>1 DEF TypeOK, RunInv, OwnersRun, Works
<1>4. pc[i] = "poll" => position[i][p] # NoOffset
  <2>1. OwnerInStep
    BY <1>1 DEF DeliveryInv, IngestionInv
  <2>2. pc[i] = "poll" => position[i][p] \in Nat
    BY <2>1 DEF OwnerInStep, Holds, Works
  <2> QED
    BY <2>2 DEF NoOffset
<1>5. ~Behind(i, p) /\ HandsOff(i, p) => Drained(i, p)
  <2> SUFFICES ASSUME ~Behind(i, p), HandsOff(i, p) PROVE Drained(i, p)
    OBVIOUS
  <2>1. position[i][p] = Len(log[p])
    BY <1>2 DEF Behind
  <2>2. ASSUME NEW r \in InHand(i) PROVE r.partition # p
    BY <1>1, HandRow DEF HandsOff
  <2> QED
    BY <2>1, <2>2 DEF Drained
<1> QED
  BY <1>3, <1>4, <1>5 DEF CanPoll, Behind, HandsOff, Applying

LEMMA OwnerComesToTheEnd ==
    ASSUME NEW i \in Instances, NEW p \in Partitions
    PROVE  Spec /\ ThreadRuns(i) /\ PollsFairly(i, p)
               /\ ComesToRest(Batch(i), vars) /\ ComesToRest(Ahead(i, p), vars)
               => (<>[]Works(i, p) => <>[]Drained(i, p))
<1>1. RunInv /\ Works(i, p) =>
         /\ pc[i] = "poll" \/ pc[i] = "commit" \/ pc[i] = "apply"
         /\ pc[i] = "poll" /\ Behind(i, p) => CanPoll(i, p)
         /\ pc[i] = "poll" => HandsOff(i, p)
         /\ ~Behind(i, p) /\ HandsOff(i, p) => Drained(i, p)
  BY OwnerRests
<1>2. RunInv => IsFiniteSet(Batch(i))
  BY DEF RunInv, BatchesFinite, Batch
<1>3. RunInv => IsFiniteSet(Ahead(i, p))
  <2> SUFFICES ASSUME RunInv PROVE IsFiniteSet(Ahead(i, p))
    OBVIOUS
  <2>1. position[i][p] \in Int
    BY OffsetType DEF RunInv, DeliveryInv, IngestionInv
  <2>2. position[i][p] + 1 \in Int /\ MaxLog \in Int
    BY <2>1, IngestionAssumption
  <2>3. IsFiniteSet((position[i][p] + 1)..MaxLog)
    BY <2>2, FS_Interval
  <2> QED
    BY <2>3 DEF Ahead
<1>4. pc[i] = "poll" \/ pc[i] = "commit" \/ pc[i] = "apply" => CanStep(i)
  BY DEF CanStep
<1>5. RunInv /\ [Next]_vars =>
         /\ pc[i] = "commit" =>
              (pc[i] = "commit")' \/ (pc[i] = "apply")' \/ (pc[i] = "down")'
         /\ pc[i] = "apply" =>
              \/ (pc[i] = "apply")' \/ (pc[i] = "poll")'
              \/ (pc[i] = "stopped")' \/ (pc[i] = "down")'
         /\ <<ThreadStep(i)>>_vars /\ pc[i] = "poll" => ~(pc[i] = "poll")'
         /\ <<ThreadStep(i)>>_vars /\ pc[i] = "commit" => ~(pc[i] = "commit")'
  BY ThreadMoves DEF RunInv, DeliveryInv, IngestionInv
<1>6. RunInv /\ [Next]_vars /\ pc[i] = "apply" /\ (pc[i] = "apply")' =>
         /\ [Batch(i)' \subseteq Batch(i)]_vars
         /\ <<ThreadStep(i)>>_vars => ~[Batch(i)' = Batch(i)]_vars
  BY ThreadMoves DEF RunInv, DeliveryInv, IngestionInv
<1>7. (pc[i] = "poll" \/ pc[i] = "commit" \/ pc[i] = "apply") =>
         ~(pc[i] = "stopped") /\ ~(pc[i] = "down")
  OBVIOUS
<1>8. RunInv /\ RunInv' /\ Works(i, p) /\ Works(i, p)' /\ [Next]_vars =>
         /\ [Ahead(i, p)' \subseteq Ahead(i, p)]_vars
         /\ <<PollMessage(i, p)>>_vars => ~[Ahead(i, p)' = Ahead(i, p)]_vars
  BY OwnerMoves
<1>9. RunInv /\ RunInv' /\ Works(i, p) /\ Works(i, p)' /\ [Next]_vars
          /\ ~<<PollMessage(i, p)>>_vars =>
         /\ Behind(i, p) => Behind(i, p)'
         /\ HandsOff(i, p) => HandsOff(i, p)'
  BY OwnerMoves DEF Behind, HandsOff, Applying, vars, brokerVars, threadVars
<1> QED
  BY <1>1, <1>2, <1>3, <1>4, <1>5, <1>6, <1>7, <1>8, <1>9, RunInvariant, PTL
  DEF Spec, ThreadRuns, PollsFairly, ComesToRest

\* An instance that keeps a partition comes to its end and applies everything,
\* however the partition is refilled up to its bound and whatever the other
\* partitions and instances do.
THEOREM OwnersDrain ==
    Spec /\ FairThreads /\ SetsComeToRest => OwnerDrains
BY OwnerComesToTheEnd DEF OwnerDrains, FairThreads, SetsComeToRest, Works, Drained

=============================================================================
