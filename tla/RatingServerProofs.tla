------------------------- MODULE RatingServerProofs -------------------------
(***************************************************************************)
(* Proofs about RatingServer: however many threads share the connection,   *)
(* it is free when no thread is inside, a PutRating that was alone and did *)
(* not fail has stored its rating when it answers, and every call ends.    *)
(* The process implements RatingService.                                   *)
(***************************************************************************)
EXTENDS RatingServer, SequenceTheorems, TLAPS

\* A process that has ended runs nothing.
EndedIsIdle == ~up => \A t \in Threads : pc[t] = "idle"

\* A rollback follows a failed statement or commit.
RollbackFailed == \A t \in Threads : pc[t] = "rollback" => failed[t]

\* An undisturbed transaction is the only one.
Alone ==
    \A t \in InTransaction : ~disturbed[t] => \A s \in InTransaction : s = t

\* It has an open block, unless the connection broke.
BlockOpen ==
    \A t \in Threads :
        pc[t] \in {"exec", "commit"} /\ ~disturbed[t] /\ connected => session = "open"

\* Before its COMMIT, the rating of an undisturbed Put waits in the block.
RowWaits ==
    \A t \in Threads :
        pc[t] = "commit" /\ ~disturbed[t] /\ connected /\ call[t] \in Puts =>
            \E k \in DOMAIN uncommitted : uncommitted[k] = call[t].rating

ServerInv ==
    /\ TypeOK
    /\ ConnectionReleased
    /\ EndedIsIdle
    /\ RollbackFailed
    /\ Alone
    /\ BlockOpen
    /\ RowWaits
    /\ CleanPutStored

LEMMA GetIsNoPut == Gets \cap Puts = {}
BY DEF Gets, Puts

\* The table before and after a step, when it only grows.
Grown == \A k \in DOMAIN table : k \in DOMAIN table' /\ table'[k] = table[k]

LEMMA AppendGrows ==
    ASSUME TypeOK, NEW r \in Rating, table' = Append(table, r)
    PROVE  Grown /\ table' \in Seq(Rating)
<1>1. table \in Seq(Rating)
  BY DEF TypeOK
<1>2. /\ Append(table, r) \in Seq(Rating)
      /\ Len(Append(table, r)) = Len(table) + 1
      /\ \A k \in 1..Len(table) : Append(table, r)[k] = table[k]
  BY <1>1, AppendProperties
<1>3. DOMAIN table = 1..Len(table) /\ Len(table) \in Nat
  BY <1>1
<1>4. DOMAIN table' = 1..(Len(table) + 1)
  BY <1>2
<1> QED
  BY <1>2, <1>3, <1>4 DEF Grown

\* COMMIT makes the waiting rows rows of the table.
LEMMA ConcatGrows ==
    ASSUME TypeOK, table' = table \o uncommitted
    PROVE  /\ Grown
           /\ table' \in Seq(Rating)
           /\ \A j \in DOMAIN uncommitted :
                \E k \in DOMAIN table' : table'[k] = uncommitted[j]
<1>1. /\ table \in Seq(Rating) /\ Len(table) \in Nat
      /\ uncommitted \in Seq(Rating) /\ Len(uncommitted) \in Nat
  BY DEF TypeOK
<1>2. /\ table' \in Seq(Rating)
      /\ Len(table') = Len(table) + Len(uncommitted)
      /\ \A i \in 1..(Len(table) + Len(uncommitted)) :
            table'[i] = IF i <= Len(table) THEN table[i]
                        ELSE uncommitted[i - Len(table)]
  BY <1>1, ConcatProperties
<1>3. /\ DOMAIN table = 1..Len(table)
      /\ DOMAIN uncommitted = 1..Len(uncommitted)
      /\ DOMAIN table' = 1..(Len(table) + Len(uncommitted))
  BY <1>1, <1>2
<1>4. Grown
  BY <1>1, <1>2, <1>3 DEF Grown
<1>5. ASSUME NEW j \in DOMAIN uncommitted
      PROVE  \E k \in DOMAIN table' : table'[k] = uncommitted[j]
  <2>1. Len(table) + j \in DOMAIN table' /\ (Len(table) + j) - Len(table) = j
    BY <1>1, <1>3, <1>5
  <2>2. table'[Len(table) + j] = uncommitted[j]
    BY <1>1, <1>2, <1>3, <2>1
  <2> QED
    BY <2>1, <2>2
<1> QED
  BY <1>2, <1>4, <1>5

LEMMA CommitGrows ==
    ASSUME TypeOK, RowsCommit
    PROVE  Grown /\ table' \in Seq(Rating)
<1>1. CASE session = "open"
  BY <1>1, ConcatGrows DEF RowsCommit
<1>2. CASE session # "open"
  BY <1>2 DEF RowsCommit, Grown, TypeOK
<1> QED
  BY <1>1, <1>2

-----------------------------------------------------------------------------
(* Types.                                                                  *)

LEMMA InitType == Init => TypeOK
<1> SUFFICES ASSUME Init PROVE TypeOK
  OBVIOUS
<1>1. table \in Seq(Rating) /\ uncommitted \in Seq(Rating)
  BY DEF Init
<1>2. call \in [Threads -> Gets \cup Puts \cup {None}]
  BY DEF Init
<1>3. found \in [Threads -> (SUBSET Rating) \cup {None}]
  BY DEF Init
<1> QED
  BY <1>1, <1>2, <1>3 DEF Init, TypeOK

LEMMA EndType ==
    ASSUME TypeOK, ProcessEnds, table' \in Seq(Rating)
    PROVE  TypeOK'
<1>1. uncommitted' \in Seq(Rating)
  BY DEF ProcessEnds
<1> QED
  BY <1>1 DEF TypeOK, ProcessEnds, notes

LEMMA TypeStep ==
    ASSUME TypeOK, NEW t \in Threads, Step(t)
    PROVE  TypeOK'
<1> USE DEF conn, notes, Replies
<1>1. CASE CheckBusy(t)
  <2>1. CASE t = Ingest
    BY <1>1, <2>1, EndType DEF CheckBusy, Refused, TypeOK
  <2>2. CASE t # Ingest
    BY <1>1, <2>2 DEF CheckBusy, Refused, TypeOK
  <2> QED
    BY <2>1, <2>2
<1>2. CASE CheckFree(t)
  BY <1>2 DEF CheckFree, TypeOK
<1>3. CASE Register(t)
  <2>1. disturbed' \in [Threads -> BOOLEAN]
    BY <1>3 DEF Register, TypeOK
  <2> QED
    BY <1>3, <2>1 DEF Register, TypeOK
<1>4. CASE BeginFails(t)
  <2>1. CASE t = Ingest
    BY <1>4, <2>1, EndType DEF BeginFails, TypeOK
  <2>2. CASE t # Ingest
    BY <1>4, <2>2 DEF BeginFails, TypeOK
  <2> QED
    BY <2>1, <2>2
<1>5. CASE ExecInsert(t)
  <2>1. call[t].rating \in Rating
    BY <1>5 DEF ExecInsert, Puts
  <2>2. table' \in Seq(Rating)
    BY <1>5, <2>1, AppendGrows DEF ExecInsert, TypeOK
  <2>3. uncommitted' \in Seq(Rating)
    <3>1. uncommitted \in Seq(Rating)
      BY DEF TypeOK
    <3>2. Append(uncommitted, call[t].rating) \in Seq(Rating)
      BY <2>1, <3>1, AppendProperties
    <3> QED
      BY <1>5, <3>1, <3>2 DEF ExecInsert
  <2> QED
    BY <1>5, <2>2, <2>3 DEF ExecInsert, TypeOK
<1>6. CASE ExecSelect(t)
  <2> DEFINE stored == {table[k] : k \in DOMAIN table}
                       \cup {uncommitted[k] : k \in DOMAIN uncommitted}
  <2>1. stored \subseteq Rating
    <3>1. \A k \in DOMAIN table : table[k] \in Rating
      BY ElementOfSeq DEF TypeOK
    <3>2. \A k \in DOMAIN uncommitted : uncommitted[k] \in Rating
      BY ElementOfSeq DEF TypeOK
    <3> QED
      BY <3>1, <3>2
  <2>2. PICK S \in Selected(t) : found' = [found EXCEPT ![t] = S]
    BY <1>6 DEF ExecSelect
  <2>3. S \subseteq Rating
    BY <2>1, <2>2 DEF Selected
  <2> HIDE DEF stored
  <2>4. found' \in [Threads -> (SUBSET Rating) \cup {None}]
    BY <2>2, <2>3 DEF TypeOK
  <2> QED
    BY <1>6, <2>4 DEF ExecSelect, TypeOK
<1>7. CASE ExecFails(t)
  BY <1>7 DEF ExecFails, TypeOK
<1>8. CASE Commit(t)
  <2>1. Answer(t) \in {"OK", "NOT_FOUND"}
    BY DEF Answer
  <2>2. table' \in Seq(Rating) /\ uncommitted' \in Seq(Rating)
    BY <1>8, CommitGrows DEF Commit
  <2> QED
    BY <1>8, <2>1, <2>2 DEF Commit, TypeOK
<1>9. CASE CommitThenAborts(t)
  BY <1>9, CommitGrows, EndType DEF CommitThenAborts
<1>10. CASE CommitFails(t)
  BY <1>10 DEF CommitFails, TypeOK
<1>11. CASE Rollback(t)
  <2>1. uncommitted' \in Seq(Rating)
    BY <1>11 DEF Rollback
  <2> QED
    BY <1>11, <2>1 DEF Rollback, TypeOK
<1> QED
  BY <1>1, <1>2, <1>3, <1>4, <1>5, <1>6, <1>7, <1>8, <1>9, <1>10, <1>11 DEF Step

LEMMA TypeNext == TypeOK /\ [Next]_vars => TypeOK'
<1> SUFFICES ASSUME TypeOK, [Next]_vars PROVE TypeOK'
  OBVIOUS
<1> USE DEF conn, notes
<1>1. CASE \E t \in Threads : Step(t)
  BY <1>1, TypeStep
<1>2. ASSUME NEW t \in Threads, NEW c \in Gets \cup Puts, Call(t, c)
      PROVE  TypeOK'
  <2>1. KeysOf(table) \subseteq Keys
    <3>1. \A k \in DOMAIN table : table[k] \in Rating
      BY ElementOfSeq DEF TypeOK
    <3> QED
      BY <3>1 DEF KeysOf, Rating
  <2>2. call' \in [Threads -> Gets \cup Puts \cup {None}]
    BY <1>2 DEF Call, TypeOK
  <2>3. found' \in [Threads -> (SUBSET Rating) \cup {None}]
    BY <1>2 DEF Call, TypeOK
  <2>4. known' \in [Threads -> SUBSET Keys]
    BY <1>2, <2>1 DEF Call, TypeOK
  <2> QED
    BY <1>2, <2>2, <2>3, <2>4 DEF Call, TypeOK
<1>3. CASE Disconnect
  <2>1. table' \in Seq(Rating) /\ uncommitted' \in Seq(Rating)
    BY <1>3, ConcatGrows DEF Disconnect, TypeOK
  <2> QED
    BY <1>3, <2>1 DEF Disconnect, TypeOK
<1>4. CASE Restart
  <2>1. call' \in [Threads -> Gets \cup Puts \cup {None}]
    BY <1>4 DEF Restart
  <2>2. found' \in [Threads -> (SUBSET Rating) \cup {None}]
    BY <1>4 DEF Restart
  <2> QED
    BY <1>4, <2>1, <2>2 DEF Restart, TypeOK
<1>5. CASE UNCHANGED vars
  BY <1>5 DEF vars, TypeOK
<1> QED
  BY <1>1, <1>2, <1>3, <1>4, <1>5 DEF Next

-----------------------------------------------------------------------------
(* The invariant.                                                          *)

Stored(s) ==
    Clean(s) /\ call[s] \in Puts /\ reply[s] = "OK" =>
        \E k \in DOMAIN table : table[k] = call[s].rating

LEMMA InitInv == Init => ServerInv
<1> SUFFICES ASSUME Init PROVE ServerInv
  OBVIOUS
<1>1. TypeOK
  BY InitType
<1>2. \A t \in Threads : pc[t] = "idle" /\ reply[t] = "none"
  BY DEF Init
<1>3. InTransaction = {}
  BY <1>2 DEF InTransaction
<1>4. ConnectionReleased
  BY DEF Init, ConnectionReleased
<1>5. EndedIsIdle /\ RollbackFailed /\ BlockOpen /\ RowWaits /\ CleanPutStored
  BY <1>2 DEF EndedIsIdle, RollbackFailed, BlockOpen, RowWaits, CleanPutStored, Clean
<1>6. Alone
  BY <1>3 DEF Alone
<1> QED
  BY <1>1, <1>4, <1>5, <1>6 DEF ServerInv

\* A thread that a step does not touch keeps what it stored.
LEMMA StoredKept ==
    ASSUME CleanPutStored, Grown, NEW s \in Threads,
           pc'[s] = pc[s], call'[s] = call[s], reply'[s] = reply[s],
           failed'[s] = failed[s], disturbed[s] => disturbed'[s]
    PROVE  Stored(s)'
<1> SUFFICES ASSUME Clean(s)', call'[s] \in Puts, reply'[s] = "OK"
             PROVE  \E k \in DOMAIN table' : table'[k] = call'[s].rating
  BY DEF Stored
<1>1. Clean(s) /\ call[s] \in Puts /\ reply[s] = "OK"
  BY DEF Clean
<1>2. PICK k \in DOMAIN table : table[k] = call[s].rating
  BY <1>1 DEF CleanPutStored
<1> QED
  BY <1>2 DEF Grown

\* The end of the process releases everything.
LEMMA EndInv ==
    ASSUME ServerInv, ProcessEnds, Grown, TypeOK'
    PROVE  ServerInv'
<1> USE DEF ServerInv
<1>1. \A t \in Threads : pc'[t] = "idle"
  BY DEF ProcessEnds
<1>2. InTransaction' = {}
  BY <1>1 DEF InTransaction
<1>3. ConnectionReleased'
  BY DEF ProcessEnds, ConnectionReleased
<1>4. /\ EndedIsIdle' /\ RollbackFailed' /\ Alone' /\ BlockOpen' /\ RowWaits'
  BY <1>1, <1>2 DEF EndedIsIdle, RollbackFailed, Alone, BlockOpen, RowWaits
<1>5. ASSUME NEW s \in Threads PROVE Stored(s)'
  <2>1. CASE pc[s] = "idle"
    <3>1. /\ pc'[s] = pc[s] /\ call'[s] = call[s] /\ reply'[s] = reply[s]
          /\ failed'[s] = failed[s] /\ disturbed'[s] = disturbed[s]
      BY <1>1, <2>1 DEF ProcessEnds, notes
    <3> QED
      BY <3>1, StoredKept
  <2>2. CASE pc[s] # "idle"
    BY <2>2 DEF ProcessEnds, Stored, Clean
  <2> QED
    BY <2>1, <2>2
<1>6. CleanPutStored'
  BY <1>5 DEF Stored, CleanPutStored
<1> QED
  BY <1>3, <1>4, <1>6

\* t moves among the places outside of a transaction: the session and the
\* other threads stay as they are, and t has not just stored anything.
LEMMA OutsideInv ==
    ASSUME ServerInv, TypeOK', NEW t \in Threads, NEW p,
           pc' = [pc EXCEPT ![t] = p],
           pc[t] \in {"idle", "check", "register"},
           p \in {"idle", "check", "register"},
           UNCHANGED <<up, connected, session, uncommitted, table>>,
           up \/ p = "idle",
           current' = current \/ current' = None,
           \A s \in Threads \ {t} :
                /\ call'[s] = call[s] /\ reply'[s] = reply[s]
                /\ failed'[s] = failed[s] /\ disturbed'[s] = disturbed[s],
           p = "idle" => reply'[t] # "OK"
    PROVE  ServerInv'
<1> USE DEF ServerInv
<1>1. /\ pc'[t] = p
      /\ \A s \in Threads \ {t} : pc'[s] = pc[s]
  BY DEF TypeOK
<1>2. t \notin InTransaction /\ InTransaction' = InTransaction
  BY <1>1 DEF InTransaction
<1>3. ConnectionReleased'
  BY <1>2 DEF ConnectionReleased
<1>4. EndedIsIdle'
  BY <1>1 DEF EndedIsIdle
<1>5. RollbackFailed'
  BY <1>1 DEF RollbackFailed
<1>6. Alone'
  <2>1. \A s \in InTransaction : disturbed'[s] = disturbed[s]
    BY <1>2 DEF InTransaction
  <2> QED
    BY <1>2, <2>1 DEF Alone
<1>7. BlockOpen'
  BY <1>1 DEF BlockOpen
<1>8. RowWaits'
  BY <1>1 DEF RowWaits
<1>9. ASSUME NEW s \in Threads PROVE Stored(s)'
  <2>1. CASE s = t
    BY <1>1, <2>1 DEF Stored, Clean
  <2>2. CASE s # t
    BY <1>1, <2>2, StoredKept DEF Grown
  <2> QED
    BY <2>1, <2>2
<1>10. CleanPutStored'
  BY <1>9 DEF Stored, CleanPutStored
<1> QED
  BY <1>3, <1>4, <1>5, <1>6, <1>7, <1>8, <1>10

\* t, inside of a transaction that is not the last step of its call, is the
\* only undisturbed one there can be.
LEMMA OthersDisturbed ==
    ASSUME Alone, NEW t \in InTransaction, NEW s \in InTransaction, s # t
    PROVE  disturbed[s]
BY DEF Alone, InTransaction

\* t leaves its transaction: the block is closed and the connection free.
LEMMA LeaveInv ==
    ASSUME ServerInv, TypeOK', NEW t \in Threads, Grown,
           t \in InTransaction,
           pc' = [pc EXCEPT ![t] = "idle"],
           session' = "idle", uncommitted' = <<>>, current' = None,
           UNCHANGED <<up, connected, call, failed, disturbed>>,
           \A s \in Threads \ {t} : reply'[s] = reply[s],
           Stored(t)'
    PROVE  ServerInv'
<1> USE DEF ServerInv
<1>1. /\ pc'[t] = "idle"
      /\ \A s \in Threads \ {t} : pc'[s] = pc[s]
  BY DEF TypeOK
<1>2. InTransaction' = InTransaction \ {t}
  BY <1>1 DEF InTransaction
<1>3. \A s \in InTransaction' : disturbed'[s]
  BY <1>2, OthersDisturbed
<1>4. ConnectionReleased'
  BY DEF ConnectionReleased
<1>5. EndedIsIdle' /\ RollbackFailed'
  BY <1>1 DEF EndedIsIdle, RollbackFailed
<1>6. Alone'
  BY <1>3 DEF Alone
<1>7. BlockOpen' /\ RowWaits'
  BY <1>3 DEF BlockOpen, RowWaits, InTransaction
<1>8. ASSUME NEW s \in Threads PROVE Stored(s)'
  <2>1. CASE s # t
    BY <1>1, <2>1, StoredKept
  <2> QED
    BY <2>1
<1>9. CleanPutStored'
  BY <1>8 DEF Stored, CleanPutStored
<1> QED
  BY <1>4, <1>5, <1>6, <1>7, <1>9

\* t goes on inside of its transaction.
LEMMA InsideInv ==
    ASSUME ServerInv, TypeOK', NEW t \in Threads, NEW p, Grown,
           t \in InTransaction, p \in {"commit", "rollback"},
           pc' = [pc EXCEPT ![t] = p],
           UNCHANGED <<up, connected, call, reply, disturbed>>,
           \A s \in Threads \ {t} : failed'[s] = failed[s],
           p = "rollback" => failed'[t],
           ~disturbed[t] /\ p = "commit" /\ connected =>
                /\ session' = "open"
                /\ call[t] \in Puts =>
                     \E k \in DOMAIN uncommitted' : uncommitted'[k] = call[t].rating
    PROVE  ServerInv'
<1> USE DEF ServerInv
<1>1. /\ pc'[t] = p
      /\ \A s \in Threads \ {t} : pc'[s] = pc[s]
  BY DEF TypeOK
<1>2. InTransaction' = InTransaction
  BY <1>1 DEF InTransaction
<1>3. ConnectionReleased'
  BY <1>2 DEF ConnectionReleased
<1>4. EndedIsIdle' /\ RollbackFailed'
  BY <1>1 DEF EndedIsIdle, RollbackFailed, InTransaction
<1>5. Alone'
  BY <1>2 DEF Alone
<1>6. \A s \in InTransaction \ {t} : disturbed'[s]
  BY OthersDisturbed
<1>7. BlockOpen'
  BY <1>1, <1>6 DEF BlockOpen, InTransaction
<1>8. RowWaits'
  BY <1>1, <1>6 DEF RowWaits, InTransaction
<1>9. ASSUME NEW s \in Threads PROVE Stored(s)'
  <2>1. CASE s = t
    BY <1>1, <2>1 DEF Stored, Clean
  <2>2. CASE s # t
    BY <1>1, <2>2, StoredKept
  <2> QED
    BY <2>1, <2>2
<1>10. CleanPutStored'
  BY <1>9 DEF Stored, CleanPutStored
<1> QED
  BY <1>3, <1>4, <1>5, <1>7, <1>8, <1>10

\* Registration disturbs every transaction that is open, and is disturbed by
\* them: only a first one finds the session its own.
LEMMA RegisterInv ==
    ASSUME ServerInv, TypeOK', NEW t \in Threads, Register(t)
    PROVE  ServerInv'
<1> USE DEF ServerInv
<1>1. /\ pc'[t] = "exec" /\ pc[t] = "register"
      /\ \A s \in Threads \ {t} : pc'[s] = pc[s]
  BY DEF Register, TypeOK
<1>2. t \notin InTransaction /\ InTransaction' = InTransaction \cup {t}
  BY <1>1 DEF InTransaction
<1>3. \A s \in Threads : disturbed[s] => disturbed'[s]
  BY DEF Register
<1>4. /\ \A s \in InTransaction : disturbed'[s]
      /\ InTransaction # {} => disturbed'[t]
  BY DEF Register, InTransaction
<1>5. ConnectionReleased'
  BY <1>2 DEF ConnectionReleased
<1>6. EndedIsIdle' /\ RollbackFailed'
  BY <1>1 DEF Register, EndedIsIdle, RollbackFailed
<1>7. Alone'
  BY <1>2, <1>4 DEF Alone
<1>8. BlockOpen'
  BY DEF Register, BlockOpen
<1>9. RowWaits'
  <2>1. \A s \in Threads : pc'[s] = "commit" => s \in InTransaction
    BY <1>1 DEF InTransaction
  <2> QED
    BY <1>4, <2>1 DEF RowWaits
<1>10. ASSUME NEW s \in Threads PROVE Stored(s)'
  <2>1. CASE s = t
    BY <1>1, <2>1 DEF Stored, Clean
  <2>2. CASE s # t
    BY <1>1, <1>3, <2>2, StoredKept DEF Register, Grown
  <2> QED
    BY <2>1, <2>2
<1>11. CleanPutStored'
  BY <1>10 DEF Stored, CleanPutStored
<1> QED
  BY <1>5, <1>6, <1>7, <1>8, <1>9, <1>11

LEMMA StepInv ==
    ASSUME ServerInv, TypeOK', NEW t \in Threads, Step(t)
    PROVE  ServerInv'
<1>1. TypeOK
  BY DEF ServerInv
<1>2. UNCHANGED table => Grown
  BY DEF Grown
<1>3. up \/ pc[t] = "idle"
  BY DEF ServerInv, EndedIsIdle
<1>4. CASE CheckBusy(t)
  <2>1. CASE t = Ingest
    BY <1>2, <1>4, <2>1, EndInv DEF CheckBusy, Refused
  <2>2. CASE t # Ingest
    <3>1. /\ reply' = [reply EXCEPT ![t] = "UNKNOWN"]
          /\ pc' = [pc EXCEPT ![t] = "idle"]
          /\ pc[t] = "check"
          /\ UNCHANGED <<conn, call, found, notes>>
      BY <1>4, <2>2 DEF CheckBusy, Refused, Replies
    <3>2. reply'[t] = "UNKNOWN" /\ \A s \in Threads \ {t} : reply'[s] = reply[s]
      BY <1>1, <3>1 DEF TypeOK
    <3> QED
      BY <3>1, <3>2, OutsideInv DEF conn, notes
  <2> QED
    BY <2>1, <2>2
<1>5. CASE CheckFree(t)
  BY <1>3, <1>5, OutsideInv DEF CheckFree, conn, notes
<1>6. CASE Register(t)
  BY <1>6, RegisterInv
<1>7. CASE BeginFails(t)
  <2>1. CASE t = Ingest
    BY <1>2, <1>7, <2>1, EndInv DEF BeginFails
  <2>2. CASE t # Ingest
    <3>1. /\ reply' = [reply EXCEPT ![t] = "UNKNOWN"]
          /\ pc' = [pc EXCEPT ![t] = "idle"]
          /\ pc[t] = "register"
          /\ current' = None
          /\ UNCHANGED <<up, connected, session, uncommitted, table, call, found, notes>>
      BY <1>7, <2>2 DEF BeginFails, Replies
    <3>2. reply'[t] = "UNKNOWN" /\ \A s \in Threads \ {t} : reply'[s] = reply[s]
      BY <1>1, <3>1 DEF TypeOK
    <3> QED
      BY <3>1, <3>2, OutsideInv DEF notes
  <2> QED
    BY <2>1, <2>2
<1>8. CASE ExecInsert(t)
  <2>1. call[t].rating \in Rating /\ t \in InTransaction
    BY <1>8 DEF ExecInsert, Puts, InTransaction
  <2>2. Grown
    BY <1>1, <1>2, <1>8, <2>1, AppendGrows DEF ExecInsert
  <2>3. ASSUME ~disturbed[t], connected
        PROVE  /\ session' = "open"
               /\ \E k \in DOMAIN uncommitted' : uncommitted'[k] = call[t].rating
    <3>1. session = "open"
      BY <1>8, <2>3 DEF ServerInv, BlockOpen, ExecInsert
    <3>2. uncommitted' = Append(uncommitted, call[t].rating) /\ session' = session
      BY <1>8, <3>1 DEF ExecInsert
    <3>3. uncommitted \in Seq(Rating) /\ Len(uncommitted) \in Nat
      BY <1>1 DEF TypeOK
    <3>4. /\ Len(uncommitted') = Len(uncommitted) + 1
          /\ uncommitted' \in Seq(Rating)
          /\ uncommitted'[Len(uncommitted) + 1] = call[t].rating
      BY <2>1, <3>2, <3>3, AppendProperties
    <3>5. Len(uncommitted) + 1 \in DOMAIN uncommitted'
      BY <3>3, <3>4
    <3> QED
      BY <3>1, <3>2, <3>4, <3>5
  <2>4. /\ pc' = [pc EXCEPT ![t] = "commit"]
        /\ UNCHANGED <<up, connected, call, reply, failed, disturbed>>
    BY <1>8 DEF ExecInsert, notes
  <2> QED
    BY <2>1, <2>2, <2>3, <2>4, InsideInv
<1>9. CASE ExecSelect(t)
  <2>1. /\ t \in InTransaction /\ call[t] \notin Puts
        /\ pc' = [pc EXCEPT ![t] = "commit"]
        /\ UNCHANGED <<up, connected, session, table, call, reply, failed, disturbed>>
    BY <1>9, GetIsNoPut DEF ExecSelect, InTransaction, conn, notes
  <2>2. ~disturbed[t] /\ connected => session' = "open"
    BY <1>9, <2>1 DEF ServerInv, BlockOpen, ExecSelect
  <2> QED
    BY <1>2, <2>1, <2>2, InsideInv
<1>10. CASE ExecFails(t) \/ CommitFails(t)
  <2>1. /\ t \in InTransaction
        /\ pc' = [pc EXCEPT ![t] = "rollback"]
        /\ failed' = [failed EXCEPT ![t] = TRUE]
        /\ UNCHANGED <<up, connected, table, call, reply, disturbed>>
    BY <1>10 DEF ExecFails, CommitFails, InTransaction, conn
  <2>2. failed'[t] /\ \A s \in Threads \ {t} : failed'[s] = failed[s]
    BY <1>1, <2>1 DEF TypeOK
  <2> QED
    BY <1>2, <2>1, <2>2, InsideInv
<1>11. CASE Commit(t)
  <2>1. /\ t \in InTransaction /\ connected
        /\ pc' = [pc EXCEPT ![t] = "idle"]
        /\ reply' = [reply EXCEPT ![t] = Answer(t)]
        /\ session' = "idle" /\ uncommitted' = <<>> /\ current' = None
        /\ UNCHANGED <<up, connected, call, failed, disturbed>>
    BY <1>11 DEF Commit, Replies, InTransaction, notes
  <2>2. Grown
    BY <1>1, <1>11, CommitGrows DEF Commit
  <2>3. \A s \in Threads \ {t} : reply'[s] = reply[s]
    BY <1>1, <2>1 DEF TypeOK
  <2>4. Stored(t)'
    <3>1. SUFFICES ASSUME ~disturbed[t], call[t] \in Puts
                   PROVE  \E k \in DOMAIN table' : table'[k] = call'[t].rating
      BY <2>1 DEF Stored, Clean
    <3>2. pc[t] = "commit"
      BY <1>11 DEF Commit
    <3>3. session = "open"
      BY <2>1, <3>1, <3>2 DEF ServerInv, BlockOpen
    <3>4. PICK j \in DOMAIN uncommitted : uncommitted[j] = call[t].rating
      BY <2>1, <3>1, <3>2 DEF ServerInv, RowWaits
    <3>5. table' = table \o uncommitted
      BY <1>11, <3>3 DEF Commit, RowsCommit
    <3>6. \E k \in DOMAIN table' : table'[k] = uncommitted[j]
      BY <1>1, <3>5, ConcatGrows
    <3> QED
      BY <2>1, <3>4, <3>6
  <2> QED
    BY <2>1, <2>2, <2>3, <2>4, LeaveInv
<1>12. CASE CommitThenAborts(t)
  BY <1>1, <1>12, CommitGrows, EndInv DEF CommitThenAborts
<1>13. CASE Rollback(t)
  <2>1. /\ t \in InTransaction /\ failed[t]
        /\ pc' = [pc EXCEPT ![t] = "idle"]
        /\ session' = "idle" /\ uncommitted' = <<>> /\ current' = None
        /\ UNCHANGED <<up, connected, table, call, failed, disturbed>>
    BY <1>13 DEF Rollback, Replies, InTransaction, notes, ServerInv, RollbackFailed
  <2>2. \A s \in Threads \ {t} : reply'[s] = reply[s]
    BY <1>1, <1>13 DEF Rollback, Replies, TypeOK
  <2>3. Stored(t)'
    BY <2>1 DEF Stored, Clean
  <2> QED
    BY <1>2, <2>1, <2>2, <2>3, LeaveInv
<1> QED
  BY <1>4, <1>5, <1>6, <1>7, <1>8, <1>9, <1>10, <1>11, <1>12, <1>13 DEF Step

LEMMA NextInv == ServerInv /\ [Next]_vars => ServerInv'
<1> SUFFICES ASSUME ServerInv, [Next]_vars PROVE ServerInv'
  OBVIOUS
<1>1. TypeOK /\ TypeOK'
  BY TypeNext DEF ServerInv
<1>2. CASE \E t \in Threads : Step(t)
  BY <1>1, <1>2, StepInv
<1>3. ASSUME NEW t \in Threads, NEW c \in Gets \cup Puts, Call(t, c)
      PROVE  ServerInv'
  <2>1. /\ up /\ pc[t] = "idle"
        /\ pc' = [pc EXCEPT ![t] = "check"]
        /\ UNCHANGED conn
    BY <1>3 DEF Call
  <2>2. \A s \in Threads \ {t} :
            /\ call'[s] = call[s] /\ reply'[s] = reply[s]
            /\ failed'[s] = failed[s] /\ disturbed'[s] = disturbed[s]
    BY <1>1, <1>3 DEF Call, TypeOK
  <2> QED
    BY <1>1, <2>1, <2>2, OutsideInv DEF conn
<1>4. CASE Disconnect
  <2>1. Grown
    BY <1>1, <1>4, ConcatGrows DEF Disconnect, Grown
  <2>2. InTransaction' = InTransaction
    BY <1>4 DEF Disconnect, InTransaction
  <2>3. ConnectionReleased' /\ EndedIsIdle' /\ RollbackFailed' /\ Alone'
    BY <1>4, <2>2 DEF ServerInv, Disconnect, notes, ConnectionReleased, EndedIsIdle,
                      RollbackFailed, Alone
  <2>4. BlockOpen' /\ RowWaits'
    BY <1>4 DEF Disconnect, BlockOpen, RowWaits
  <2>5. ASSUME NEW s \in Threads PROVE Stored(s)'
    BY <1>4, <2>1, StoredKept DEF ServerInv, Disconnect, notes
  <2>6. CleanPutStored'
    BY <2>5 DEF Stored, CleanPutStored
  <2> QED
    BY <1>1, <2>3, <2>4, <2>6 DEF ServerInv
<1>5. CASE Restart
  <2>1. \A s \in Threads : pc[s] = "idle" /\ pc'[s] = "idle" /\ reply'[s] = "none"
    BY <1>5 DEF Restart, ServerInv, EndedIsIdle
  <2>2. InTransaction = {} /\ InTransaction' = {}
    BY <2>1 DEF InTransaction
  <2>3. ConnectionReleased'
    BY <1>5, <2>2 DEF Restart, ServerInv, ConnectionReleased
  <2>4. /\ EndedIsIdle' /\ RollbackFailed' /\ Alone' /\ BlockOpen' /\ RowWaits'
        /\ CleanPutStored'
    BY <2>1, <2>2 DEF EndedIsIdle, RollbackFailed, Alone, BlockOpen, RowWaits,
                      CleanPutStored, Clean
  <2> QED
    BY <1>1, <2>3, <2>4 DEF ServerInv
<1>6. CASE UNCHANGED vars
  BY <1>6 DEF vars, conn, notes, ServerInv, TypeOK, ConnectionReleased, InTransaction,
              EndedIsIdle, RollbackFailed, Alone, BlockOpen, RowWaits, CleanPutStored, Clean
<1> QED
  BY <1>2, <1>3, <1>4, <1>5, <1>6 DEF Next

LEMMA ServerInvariant == Spec => []ServerInv
<1> QED
  BY InitInv, NextInv, PTL DEF Spec

\* However many threads race for the connection, and whatever fails, it is
\* free again when no thread is inside a transaction (the destructor of
\* pqxx::work in Repository::Get and Repository::Put).
THEOREM ConnectionIsReleased == Spec => []ConnectionReleased
<1>1. ServerInv => ConnectionReleased
  BY DEF ServerInv
<1> QED
  BY <1>1, ServerInvariant, PTL

\* A PutRating whose transaction was the only one, and whose statements did
\* not fail, has its rating in the table when it is answered OK.
THEOREM CleanPutIsStored == Spec => []CleanPutStored
<1>1. ServerInv => CleanPutStored
  BY DEF ServerInv
<1> QED
  BY <1>1, ServerInvariant, PTL

-----------------------------------------------------------------------------
(* Rows are added at the end, and only rows that were asked for.           *)

AddsAccepted ==
    \E t \in InTransaction :
        /\ SubSeq(table', 1, Len(table)) = table
        /\ \A k \in (Len(table) + 1)..Len(table') :
             \/ \E j \in DOMAIN uncommitted : uncommitted[j] = table'[k]
             \/ call[t] \in Puts /\ call[t].rating = table'[k]

\* A table that grew begins with the old one.
LEMMA GrownPrefix ==
    ASSUME TypeOK, table' \in Seq(Rating), Grown, Len(table') >= Len(table)
    PROVE  SubSeq(table', 1, Len(table)) = table
<1>1. /\ table \in Seq(Rating) /\ Len(table) \in Nat /\ Len(table') \in Nat
      /\ DOMAIN table = 1..Len(table)
  BY DEF TypeOK
<1> DEFINE prefix == SubSeq(table', 1, Len(table))
<1>2. /\ prefix \in Seq(Rating)
      /\ Len(prefix) = Len(table)
      /\ \A i \in 1..Len(table) : prefix[i] = table'[i]
  BY <1>1, SubSeqProperties
<1>3. \A i \in 1..Len(table) : prefix[i] = table[i]
  BY <1>1, <1>2 DEF Grown
<1> HIDE DEF prefix
<1>4. prefix = table
  BY <1>1, <1>2, <1>3, SeqEqual
<1> QED
  BY <1>4 DEF prefix

LEMMA CommitAdds ==
    ASSUME TypeOK, NEW t \in InTransaction, table' = table \o uncommitted
    PROVE  AddsAccepted
<1>1. /\ table \in Seq(Rating) /\ Len(table) \in Nat
      /\ uncommitted \in Seq(Rating) /\ Len(uncommitted) \in Nat
      /\ DOMAIN uncommitted = 1..Len(uncommitted)
  BY DEF TypeOK
<1>2. /\ table' \in Seq(Rating)
      /\ Len(table') = Len(table) + Len(uncommitted)
      /\ \A i \in 1..(Len(table) + Len(uncommitted)) :
            table'[i] = IF i <= Len(table) THEN table[i]
                        ELSE uncommitted[i - Len(table)]
  BY <1>1, ConcatProperties
<1>3. SubSeq(table', 1, Len(table)) = table
  BY <1>1, <1>2, ConcatGrows, GrownPrefix
<1>4. ASSUME NEW k \in (Len(table) + 1)..Len(table')
      PROVE  \E j \in DOMAIN uncommitted : uncommitted[j] = table'[k]
  <2>1. k - Len(table) \in DOMAIN uncommitted
    BY <1>1, <1>2, <1>4
  <2>2. table'[k] = uncommitted[k - Len(table)]
    BY <1>1, <1>2, <1>4
  <2> QED
    BY <2>1, <2>2
<1> QED
  BY <1>3, <1>4 DEF AddsAccepted

LEMMA InsertAdds ==
    ASSUME TypeOK, NEW t \in InTransaction, call[t] \in Puts,
           table' = Append(table, call[t].rating)
    PROVE  AddsAccepted
<1>1. call[t].rating \in Rating
  BY DEF Puts
<1>2. table \in Seq(Rating) /\ Len(table) \in Nat
  BY DEF TypeOK
<1>3. /\ table' \in Seq(Rating)
      /\ Len(table') = Len(table) + 1
      /\ table'[Len(table) + 1] = call[t].rating
  BY <1>1, <1>2, AppendProperties
<1>4. SubSeq(table', 1, Len(table)) = table
  BY <1>1, <1>2, <1>3, AppendGrows, GrownPrefix
<1>5. \A k \in (Len(table) + 1)..Len(table') : call[t].rating = table'[k]
  BY <1>2, <1>3
<1> QED
  BY <1>4, <1>5 DEF AddsAccepted

LEMMA NextAdds == TypeOK /\ [Next]_vars => table' = table \/ AddsAccepted
<1> SUFFICES ASSUME TypeOK, [Next]_vars PROVE table' = table \/ AddsAccepted
  OBVIOUS
<1> USE DEF conn, InTransaction
<1>1. ASSUME NEW t \in Threads, ExecInsert(t)
      PROVE  table' = table \/ AddsAccepted
  BY <1>1, InsertAdds DEF ExecInsert
<1>2. ASSUME NEW t \in Threads, Commit(t) \/ CommitThenAborts(t)
      PROVE  table' = table \/ AddsAccepted
  BY <1>2, CommitAdds DEF Commit, CommitThenAborts, RowsCommit
<1>3. CASE Disconnect
  BY <1>3, CommitAdds DEF Disconnect
<1>4. ASSUME NEW t \in Threads,
             \/ CheckBusy(t) \/ CheckFree(t) \/ Register(t) \/ BeginFails(t)
             \/ ExecSelect(t) \/ ExecFails(t) \/ CommitFails(t) \/ Rollback(t)
      PROVE  table' = table
  BY <1>4 DEF CheckBusy, Refused, CheckFree, Register, BeginFails, ExecSelect,
              ExecFails, CommitFails, Rollback
<1>5. ASSUME NEW t \in Threads, NEW c \in Gets \cup Puts, Call(t, c)
      PROVE  table' = table
  BY <1>5 DEF Call
<1>6. CASE Restart \/ UNCHANGED vars
  BY <1>6 DEF Restart, vars
<1> QED
  BY <1>1, <1>2, <1>3, <1>4, <1>5, <1>6 DEF Next, Step

\* Repository::Put only inserts: no step changes or removes a committed row,
\* and the rows that a step adds were asked for by calls.
THEOREM RowsOnlyAdded == Spec => OnlyAcceptedRowsAdded
<1>1. TypeOK /\ [Next]_vars => [table' = table \/ AddsAccepted]_vars
  BY NextAdds
<1>2. ServerInv => TypeOK
  BY DEF ServerInv
<1> QED
  BY <1>1, <1>2, ServerInvariant, PTL DEF Spec, OnlyAcceptedRowsAdded, AddsAccepted

-----------------------------------------------------------------------------
(* What an undisturbed Get answers.                                        *)

\* Rows wait in the block only for a Put that is still to commit or to roll back.
RowsHaveOwner ==
    uncommitted # <<>> =>
        \E s \in Threads : pc[s] \in {"commit", "rollback"} /\ call[s] \in Puts

\* Of a thread t: the keys it knew are still there, and what it has read as
\* the only transaction is what the table has.
ReadsCurrent(t) ==
    /\ known[t] \subseteq KeysOf(table)
    /\ pc[t] = "commit" /\ ~disturbed[t] /\ call[t] \in Gets =>
         /\ found[t] # {} => \E k \in DOMAIN table :
                found[t] = {table[k]} /\ table[k].key = call[t].key
         /\ found[t] = {} => call[t].key \notin known[t]
    /\ Clean(t) /\ call[t] \in Gets =>
         /\ reply[t] = "OK" => \E k \in DOMAIN table :
                found[t] = {table[k]} /\ table[k].key = call[t].key
         /\ reply[t] = "NOT_FOUND" => call[t].key \notin known[t]

GetInv == RowsHaveOwner /\ \A t \in Threads : ReadsCurrent(t)

LEMMA NextGrows == TypeOK /\ [Next]_vars => Grown
<1> SUFFICES ASSUME TypeOK, [Next]_vars PROVE Grown
  OBVIOUS
<1> USE DEF conn
<1>1. ASSUME NEW t \in Threads, ExecInsert(t) PROVE Grown
  <2>1. call[t].rating \in Rating
    BY <1>1 DEF ExecInsert, Puts
  <2>2. table' = table \/ table' = Append(table, call[t].rating)
    BY <1>1 DEF ExecInsert
  <2> QED
    BY <2>1, <2>2, AppendGrows DEF Grown
<1>2. ASSUME NEW t \in Threads, Commit(t) \/ CommitThenAborts(t) PROVE Grown
  BY <1>2, CommitGrows DEF Commit, CommitThenAborts
<1>3. CASE Disconnect
  BY <1>3, ConcatGrows DEF Disconnect, Grown
<1>4. ASSUME NEW t \in Threads,
             \/ CheckBusy(t) \/ CheckFree(t) \/ Register(t) \/ BeginFails(t)
             \/ ExecSelect(t) \/ ExecFails(t) \/ CommitFails(t) \/ Rollback(t)
      PROVE  Grown
  BY <1>4 DEF CheckBusy, Refused, CheckFree, Register, BeginFails, ExecSelect,
              ExecFails, CommitFails, Rollback, Grown
<1>5. ASSUME NEW t \in Threads, NEW c \in Gets \cup Puts, Call(t, c) PROVE Grown
  BY <1>5 DEF Call, Grown
<1>6. CASE Restart \/ UNCHANGED vars
  BY <1>6 DEF Restart, vars, Grown
<1> QED
  BY <1>1, <1>2, <1>3, <1>4, <1>5, <1>6 DEF Next, Step

LEMMA GrownKeys == Grown => KeysOf(table) \subseteq KeysOf(table)'
BY DEF Grown, KeysOf

\* A thread that a step does not touch goes on knowing and having answered.
LEMMA ReadsKept ==
    ASSUME NEW s \in Threads, ReadsCurrent(s), Grown,
           pc'[s] = pc[s], call'[s] = call[s], found'[s] = found[s], reply'[s] = reply[s],
           failed'[s] = failed[s], known'[s] = known[s],
           disturbed[s] => disturbed'[s]
    PROVE  ReadsCurrent(s)'
<1>1. KeysOf(table) \subseteq KeysOf(table)'
  BY GrownKeys
<1>2. \A k \in DOMAIN table : k \in DOMAIN table' /\ table'[k] = table[k]
  BY DEF Grown
<1>3. Clean(s)' => Clean(s)
  BY DEF Clean
<1> QED
  BY <1>1, <1>2, <1>3 DEF ReadsCurrent

\* A thread that is neither at its commit nor through with a clean answer.
LEMMA ReadsNothing ==
    ASSUME NEW s \in Threads, ReadsCurrent(s), Grown, known'[s] = known[s],
           pc'[s] # "commit",
           pc'[s] = "idle" /\ reply'[s] \in {"OK", "NOT_FOUND"} => failed'[s] \/ disturbed'[s]
    PROVE  ReadsCurrent(s)'
<1>1. KeysOf(table) \subseteq KeysOf(table)'
  BY GrownKeys
<1> QED
  BY <1>1 DEF ReadsCurrent, Clean

LEMMA EndReads ==
    ASSUME TypeOK, GetInv, ProcessEnds, Grown
    PROVE  GetInv'
<1>1. RowsHaveOwner'
  BY DEF ProcessEnds, RowsHaveOwner
<1>2. ASSUME NEW s \in Threads PROVE ReadsCurrent(s)'
  <2>1. CASE pc[s] = "idle"
    <3>1. /\ pc'[s] = pc[s] /\ call'[s] = call[s] /\ found'[s] = found[s]
          /\ reply'[s] = reply[s] /\ failed'[s] = failed[s] /\ known'[s] = known[s]
          /\ disturbed'[s] = disturbed[s]
      BY <2>1 DEF ProcessEnds, notes
    <3> QED
      BY <3>1, ReadsKept DEF GetInv
  <2>2. CASE pc[s] # "idle"
    <3>1. pc'[s] = "idle" /\ reply'[s] = "none" /\ known'[s] = known[s]
      BY <2>2 DEF ProcessEnds, notes
    <3> QED
      BY <3>1, ReadsNothing DEF GetInv
  <2> QED
    BY <2>1, <2>2
<1> QED
  BY <1>1, <1>2 DEF GetInv

\* t moves, reads or answers; the other threads do not notice.
LEMMA OneThreadReads ==
    ASSUME TypeOK, GetInv, Grown, NEW t \in Threads, NEW p,
           pc' = [pc EXCEPT ![t] = p],
           \A s \in Threads \ {t} :
                /\ call'[s] = call[s] /\ found'[s] = found[s] /\ reply'[s] = reply[s]
                /\ failed'[s] = failed[s] /\ known'[s] = known[s]
                /\ disturbed[s] => disturbed'[s],
           RowsHaveOwner', ReadsCurrent(t)'
    PROVE  GetInv'
<1>1. ASSUME NEW s \in Threads, s # t PROVE ReadsCurrent(s)'
  <2>1. pc'[s] = pc[s]
    BY <1>1 DEF TypeOK
  <2> QED
    BY <1>1, <2>1, ReadsKept DEF GetInv
<1> QED
  BY <1>1 DEF GetInv

\* A step of t outside of commit and rollback leaves the rows to their owner.
LEMMA OwnerStays ==
    ASSUME TypeOK, RowsHaveOwner, NEW t \in Threads,
           pc[t] \notin {"commit", "rollback"}, UNCHANGED uncommitted,
           \A s \in Threads \ {t} : pc'[s] = pc[s] /\ call'[s] = call[s]
    PROVE  RowsHaveOwner'
BY DEF RowsHaveOwner

LEMMA SelectReads ==
    ASSUME ServerInv, GetInv, NEW t \in Threads, ExecSelect(t)
    PROVE  ReadsCurrent(t)'
<1> USE DEF ServerInv
<1>1. /\ pc[t] = "exec" /\ call[t] \in Gets /\ call[t] \notin Puts
      /\ pc'[t] = "commit"
      /\ UNCHANGED <<table, call, reply, failed, disturbed, known>>
  BY GetIsNoPut DEF ExecSelect, conn, notes, TypeOK
<1>2. ASSUME ~disturbed[t] PROVE uncommitted = <<>>
  <2>1. t \in InTransaction
    BY <1>1 DEF InTransaction
  <2>2. \A s \in Threads : pc[s] \in {"commit", "rollback"} => s = t
    BY <1>2, <2>1 DEF Alone, InTransaction
  <2> QED
    BY <1>1, <2>2 DEF GetInv, RowsHaveOwner
<1> DEFINE rows == {r \in {table[k] : k \in DOMAIN table}
                         \cup {uncommitted[k] : k \in DOMAIN uncommitted} :
                        r.key = call[t].key}
<1>3. PICK S \in Selected(t) : found' = [found EXCEPT ![t] = S]
  BY DEF ExecSelect
<1>4. /\ found'[t] = S
      /\ ~disturbed[t] => S \in IF rows = {} THEN {{}} ELSE {{r} : r \in rows}
  BY <1>3 DEF TypeOK, Selected
<1>5. ASSUME ~disturbed[t] PROVE \A r \in rows : /\ r.key = call[t].key
                                            /\ \E k \in DOMAIN table : r = table[k]
  BY <1>2, <1>5
<1>6. \A k \in DOMAIN table : table[k].key = call[t].key => table[k] \in rows
  OBVIOUS
<1> HIDE DEF rows
<1>7. ASSUME ~disturbed[t], found'[t] # {}
      PROVE  \E k \in DOMAIN table :
                found'[t] = {table[k]} /\ table[k].key = call[t].key
  BY <1>4, <1>5, <1>7
<1>8. ASSUME ~disturbed[t], found'[t] = {} PROVE call[t].key \notin known[t]
  <2>1. rows = {}
    BY <1>4, <1>8
  <2>2. call[t].key \notin KeysOf(table)
    BY <1>6, <2>1 DEF KeysOf
  <2> QED
    BY <2>2 DEF GetInv, ReadsCurrent
<1>9. known[t] \subseteq KeysOf(table)
  BY DEF GetInv, ReadsCurrent
<1>10. ~Clean(t)'
  BY <1>1 DEF Clean
<1> QED
  BY <1>1, <1>7, <1>8, <1>9, <1>10 DEF ReadsCurrent, KeysOf

LEMMA CommitReads ==
    ASSUME ServerInv, GetInv, NEW t \in Threads, Commit(t), Grown
    PROVE  ReadsCurrent(t)'
<1>1. /\ pc[t] = "commit" /\ pc'[t] = "idle" /\ reply'[t] = Answer(t)
      /\ UNCHANGED <<call, found, failed, disturbed, known>>
  BY DEF Commit, Replies, notes, ServerInv, TypeOK
<1>2. ReadsCurrent(t)
  BY DEF GetInv
<1>3. known[t] \subseteq KeysOf(table)'
  BY <1>2, GrownKeys DEF ReadsCurrent
<1>4. CASE call[t] \in Gets /\ ~disturbed[t]
  <2>1. Answer(t) = IF found[t] # {} THEN "OK" ELSE "NOT_FOUND"
    BY <1>4, GetIsNoPut DEF Answer
  <2>2. found[t] # {} => \E k \in DOMAIN table' :
           found[t] = {table'[k]} /\ table'[k].key = call[t].key
    BY <1>1, <1>2, <1>4 DEF ReadsCurrent, Grown
  <2>3. found[t] = {} => call[t].key \notin known[t]
    BY <1>1, <1>2, <1>4 DEF ReadsCurrent
  <2> QED
    BY <1>1, <1>3, <2>1, <2>2, <2>3 DEF ReadsCurrent
<1>5. CASE ~(call[t] \in Gets /\ ~disturbed[t])
  BY <1>1, <1>3, <1>5 DEF ReadsCurrent, Clean
<1> QED
  BY <1>4, <1>5

LEMMA StepReads ==
    ASSUME ServerInv, GetInv, Grown, TypeOK', NEW t \in Threads, Step(t)
    PROVE  GetInv'
<1>1. TypeOK /\ RowsHaveOwner /\ ReadsCurrent(t)
  BY DEF ServerInv, GetInv
<1>2. CASE ProcessEnds
  BY <1>1, <1>2, EndReads
<1>3. CASE ~ProcessEnds /\ (CheckBusy(t) \/ BeginFails(t))
  <2>1. /\ pc[t] \in {"check", "register"}
        /\ pc' = [pc EXCEPT ![t] = "idle"] /\ reply' = [reply EXCEPT ![t] = "UNKNOWN"]
        /\ UNCHANGED <<uncommitted, call, found, notes>>
    BY <1>3 DEF CheckBusy, Refused, BeginFails, Replies, conn
  <2>2. /\ pc'[t] = "idle" /\ reply'[t] = "UNKNOWN"
        /\ \A s \in Threads \ {t} : pc'[s] = pc[s] /\ reply'[s] = reply[s]
    BY <1>1, <2>1 DEF TypeOK
  <2>3. ReadsCurrent(t)'
    BY <1>1, <2>1, <2>2, ReadsNothing DEF notes
  <2>4. RowsHaveOwner'
    BY <1>1, <2>1, <2>2, OwnerStays
  <2> QED
    BY <1>1, <2>1, <2>2, <2>3, <2>4, OneThreadReads DEF notes
<1>4. CASE CheckFree(t) \/ Register(t)
  <2>1. PICK p \in {"register", "exec"} :
            /\ pc[t] \in {"check", "register"} /\ pc' = [pc EXCEPT ![t] = p]
            /\ UNCHANGED <<uncommitted, call, found, reply, failed, known>>
    BY <1>4 DEF CheckFree, Register, conn, notes
  <2>2. \A s \in Threads : disturbed[s] => disturbed'[s]
    BY <1>1, <1>4 DEF CheckFree, Register, notes, TypeOK
  <2>3. pc'[t] = p /\ \A s \in Threads \ {t} : pc'[s] = pc[s]
    BY <1>1, <2>1 DEF TypeOK
  <2>4. ReadsCurrent(t)'
    BY <1>1, <2>1, <2>3, ReadsNothing
  <2>5. RowsHaveOwner'
    BY <1>1, <2>1, <2>3, OwnerStays
  <2> QED
    BY <1>1, <2>1, <2>2, <2>4, <2>5, OneThreadReads
<1>5. CASE ExecInsert(t)
  <2>1. /\ pc[t] = "exec" /\ call[t] \in Puts /\ call[t] \notin Gets
        /\ pc' = [pc EXCEPT ![t] = "commit"]
        /\ UNCHANGED <<call, found, reply, failed, disturbed, known>>
    BY <1>5, GetIsNoPut DEF ExecInsert, notes
  <2>2. pc'[t] = "commit"
    BY <1>1, <2>1 DEF TypeOK
  <2>3. RowsHaveOwner'
    BY <2>1, <2>2 DEF RowsHaveOwner
  <2>4. ReadsCurrent(t)'
    BY <1>1, <2>1, <2>2, GrownKeys DEF ReadsCurrent
  <2> QED
    BY <1>1, <2>1, <2>3, <2>4, OneThreadReads
<1>6. CASE ExecSelect(t)
  <2>1. /\ pc[t] = "exec" /\ pc' = [pc EXCEPT ![t] = "commit"]
        /\ UNCHANGED <<uncommitted, call, reply, failed, disturbed, known>>
        /\ \E S : found' = [found EXCEPT ![t] = S]
    BY <1>6 DEF ExecSelect, conn, notes
  <2>2. \A s \in Threads \ {t} : pc'[s] = pc[s] /\ found'[s] = found[s]
    BY <1>1, <2>1 DEF TypeOK
  <2>3. RowsHaveOwner'
    BY <1>1, <2>1, <2>2, OwnerStays
  <2> QED
    BY <1>1, <1>6, <2>1, <2>2, <2>3, SelectReads, OneThreadReads
<1>7. CASE ExecFails(t) \/ CommitFails(t)
  <2>1. /\ pc[t] \in {"exec", "commit"} /\ pc' = [pc EXCEPT ![t] = "rollback"]
        /\ failed' = [failed EXCEPT ![t] = TRUE]
        /\ UNCHANGED <<uncommitted, call, found, reply, disturbed, known>>
    BY <1>7 DEF ExecFails, CommitFails, conn
  <2>2. /\ pc'[t] = "rollback"
        /\ \A s \in Threads \ {t} : pc'[s] = pc[s] /\ failed'[s] = failed[s]
    BY <1>1, <2>1 DEF TypeOK
  <2>3. RowsHaveOwner'
    BY <1>1, <2>1, <2>2 DEF RowsHaveOwner
  <2>4. ReadsCurrent(t)'
    BY <1>1, <2>1, <2>2, ReadsNothing
  <2> QED
    BY <1>1, <2>1, <2>2, <2>3, <2>4, OneThreadReads
<1>8. CASE Commit(t)
  <2>1. /\ pc' = [pc EXCEPT ![t] = "idle"] /\ uncommitted' = <<>>
        /\ reply' = [reply EXCEPT ![t] = Answer(t)]
        /\ UNCHANGED <<call, found, failed, disturbed, known>>
    BY <1>8 DEF Commit, Replies, notes
  <2>2. \A s \in Threads \ {t} : reply'[s] = reply[s]
    BY <1>1, <2>1 DEF TypeOK
  <2>3. RowsHaveOwner'
    BY <2>1 DEF RowsHaveOwner
  <2> QED
    BY <1>1, <1>8, <2>1, <2>2, <2>3, CommitReads, OneThreadReads
<1>9. CASE Rollback(t)
  <2>1. /\ failed[t] /\ pc' = [pc EXCEPT ![t] = "idle"] /\ uncommitted' = <<>>
        /\ UNCHANGED <<call, found, failed, disturbed, known>>
    BY <1>9 DEF Rollback, Replies, notes, ServerInv, RollbackFailed
  <2>2. pc'[t] = "idle" /\ \A s \in Threads \ {t} : reply'[s] = reply[s]
    BY <1>1, <1>9, <2>1 DEF Rollback, Replies, TypeOK
  <2>3. RowsHaveOwner'
    BY <2>1 DEF RowsHaveOwner
  <2>4. ReadsCurrent(t)'
    BY <1>1, <2>1, <2>2, ReadsNothing
  <2> QED
    BY <1>1, <2>1, <2>2, <2>3, <2>4, OneThreadReads
<1> QED
  BY <1>2, <1>3, <1>4, <1>5, <1>6, <1>7, <1>8, <1>9 DEF Step, CommitThenAborts

LEMMA InitReads == Init => GetInv
<1> SUFFICES ASSUME Init PROVE GetInv
  OBVIOUS
<1>1. \A t \in Threads : pc[t] = "idle" /\ reply[t] = "none" /\ known[t] = {}
  BY DEF Init
<1> QED
  BY <1>1 DEF Init, GetInv, RowsHaveOwner, ReadsCurrent, Clean

LEMMA NextReads == ServerInv /\ GetInv /\ [Next]_vars => GetInv'
<1> SUFFICES ASSUME ServerInv, GetInv, [Next]_vars PROVE GetInv'
  OBVIOUS
<1>1. TypeOK /\ TypeOK' /\ Grown
  BY TypeNext, NextGrows DEF ServerInv
<1>2. CASE \E t \in Threads : Step(t)
  BY <1>1, <1>2, StepReads
<1>3. ASSUME NEW t \in Threads, NEW c \in Gets \cup Puts, Call(t, c)
      PROVE  GetInv'
  <2>1. /\ pc[t] = "idle" /\ pc' = [pc EXCEPT ![t] = "check"]
        /\ UNCHANGED <<uncommitted, table>>
    BY <1>3 DEF Call, conn
  <2>2. \A s \in Threads \ {t} :
            /\ pc'[s] = pc[s] /\ call'[s] = call[s] /\ found'[s] = found[s]
            /\ reply'[s] = reply[s] /\ failed'[s] = failed[s]
            /\ disturbed'[s] = disturbed[s] /\ known'[s] = known[s]
    BY <1>1, <1>3 DEF Call, TypeOK
  <2>3. pc'[t] = "check" /\ known'[t] = KeysOf(table)
    BY <1>1, <1>3 DEF Call, TypeOK
  <2>4. RowsHaveOwner'
    BY <1>1, <2>1, <2>2, OwnerStays DEF GetInv
  <2>5. ReadsCurrent(t)'
    BY <2>1, <2>3 DEF ReadsCurrent, Clean, KeysOf
  <2> QED
    BY <1>1, <2>1, <2>2, <2>4, <2>5, OneThreadReads
<1>4. CASE Disconnect
  <2>1. RowsHaveOwner'
    BY <1>4 DEF Disconnect, RowsHaveOwner
  <2>2. ASSUME NEW s \in Threads PROVE ReadsCurrent(s)'
    BY <1>1, <1>4, ReadsKept DEF Disconnect, notes, GetInv
  <2> QED
    BY <2>1, <2>2 DEF GetInv
<1>5. CASE Restart
  <2>1. \A s \in Threads : pc[s] = "idle" /\ pc'[s] = "idle" /\ reply'[s] = "none"
    BY <1>5 DEF Restart, ServerInv, EndedIsIdle
  <2>2. UNCHANGED <<uncommitted, table, known>>
    BY <1>5 DEF Restart, notes
  <2>3. RowsHaveOwner'
    BY <2>1, <2>2 DEF GetInv, RowsHaveOwner
  <2>4. ASSUME NEW s \in Threads PROVE ReadsCurrent(s)'
    BY <1>1, <2>1, <2>2, ReadsNothing DEF GetInv
  <2> QED
    BY <2>3, <2>4 DEF GetInv
<1>6. CASE UNCHANGED vars
  <2>1. RowsHaveOwner'
    BY <1>6 DEF vars, conn, GetInv, RowsHaveOwner
  <2>2. ASSUME NEW s \in Threads PROVE ReadsCurrent(s)'
    BY <1>1, <1>6, ReadsKept DEF vars, notes, GetInv
  <2> QED
    BY <2>1, <2>2 DEF GetInv
<1> QED
  BY <1>2, <1>3, <1>4, <1>5, <1>6 DEF Next

\* A Get whose transaction was the only one, and whose statements did not
\* fail, answers with a committed rating of the table; it answers NOT_FOUND
\* only for a key that had none when the call came in (Repository::Get).
THEOREM CleanGetIsCurrent == Spec => []CleanGetCurrent
<1>1. GetInv => CleanGetCurrent
  BY DEF GetInv, ReadsCurrent, CleanGetCurrent
<1> QED
  BY <1>1, InitReads, NextReads, ServerInvariant, PTL DEF Spec

\* The state of the connection, the session and the threads is of its types.
THEOREM ServerTyped == Spec => []TypeOK
<1>1. ServerInv => TypeOK
  BY DEF ServerInv
<1> QED
  BY <1>1, ServerInvariant, PTL

-----------------------------------------------------------------------------
(* Every call has its end.                                                *)

\* Weak fairness of the steps of a thread, with the condition under which one
\* is enabled written out: the thread has a call.
Scheduled(t) == []<>(pc[t] = "idle") \/ []<><<Step(t)>>_vars

\* Where a step of its call takes a thread.
LEMMA StepGoesAhead ==
    ASSUME TypeOK, NEW t \in Threads, Step(t)
    PROVE  /\ pc[t] # "idle"
           /\ pc[t] = "check"    => pc'[t] \in {"register", "idle"}
           /\ pc[t] = "register" => pc'[t] \in {"exec", "idle"}
           /\ pc[t] = "exec"     => pc'[t] \in {"commit", "rollback"}
           /\ pc[t] = "commit"   => pc'[t] \in {"rollback", "idle"}
           /\ pc[t] = "rollback" => pc'[t] = "idle"
<1> USE DEF TypeOK
<1>1. CASE CheckBusy(t) \/ CheckFree(t)
  BY <1>1 DEF CheckBusy, CheckFree, Refused, Replies, ProcessEnds
<1>2. CASE Register(t) \/ BeginFails(t)
  BY <1>2 DEF Register, BeginFails, Replies, ProcessEnds
<1>3. CASE ExecInsert(t) \/ ExecSelect(t) \/ ExecFails(t)
  BY <1>3 DEF ExecInsert, ExecSelect, ExecFails
<1>4. CASE Commit(t) \/ CommitThenAborts(t) \/ CommitFails(t)
  BY <1>4 DEF Commit, CommitThenAborts, CommitFails, Replies, ProcessEnds
<1>5. CASE Rollback(t)
  BY <1>5 DEF Rollback, Replies
<1> QED
  BY <1>1, <1>2, <1>3, <1>4, <1>5 DEF Step

\* The steps of the others leave it where it is, or end the process.
LEMMA OthersHoldUp ==
    ASSUME TypeOK, [Next]_vars, NEW t \in Threads, ~Step(t), pc[t] # "idle"
    PROVE  pc'[t] \in {pc[t], "idle"}
<1> USE DEF TypeOK
<1>1. ASSUME NEW s \in Threads \ {t}, Step(s) PROVE pc'[t] \in {pc[t], "idle"}
  BY <1>1 DEF Step, CheckBusy, CheckFree, Register, BeginFails, ExecInsert, ExecSelect, ExecFails,
     Commit, CommitThenAborts, CommitFails, Rollback, Refused, Replies, ProcessEnds
<1>2. ASSUME NEW s \in Threads, NEW c \in Gets \cup Puts, Call(s, c) PROVE pc'[t] = pc[t]
  BY <1>2 DEF Call
<1>3. CASE Disconnect \/ Restart \/ UNCHANGED vars
  BY <1>3 DEF Disconnect, Restart, vars
<1> QED
  BY <1>1, <1>2, <1>3 DEF Next

\* The stages that a call goes through, each left for a later one.
LEMMA CallEnds ==
    ASSUME NEW t \in Threads
    PROVE  Spec /\ Scheduled(t) => (pc[t] # "idle" ~> pc[t] = "idle")
<1>1. TypeOK => \/ pc[t] = "idle" \/ pc[t] = "check" \/ pc[t] = "register"
                \/ pc[t] = "exec" \/ pc[t] = "commit" \/ pc[t] = "rollback"
  BY DEF TypeOK
<1>2. /\ TypeOK /\ pc[t] = "check" /\ [Next]_vars =>
           (pc[t] = "check")' \/ (pc[t] = "register")' \/ (pc[t] = "idle")'
      /\ TypeOK /\ pc[t] = "check" /\ <<Step(t)>>_vars =>
           (pc[t] = "register")' \/ (pc[t] = "idle")'
  BY StepGoesAhead, OthersHoldUp
<1>3. /\ TypeOK /\ pc[t] = "register" /\ [Next]_vars =>
           (pc[t] = "register")' \/ (pc[t] = "exec")' \/ (pc[t] = "idle")'
      /\ TypeOK /\ pc[t] = "register" /\ <<Step(t)>>_vars =>
           (pc[t] = "exec")' \/ (pc[t] = "idle")'
  BY StepGoesAhead, OthersHoldUp
<1>4. /\ TypeOK /\ pc[t] = "exec" /\ [Next]_vars =>
           (pc[t] = "exec")' \/ (pc[t] = "commit")' \/ (pc[t] = "rollback")' \/ (pc[t] = "idle")'
      /\ TypeOK /\ pc[t] = "exec" /\ <<Step(t)>>_vars =>
           (pc[t] = "commit")' \/ (pc[t] = "rollback")'
  BY StepGoesAhead, OthersHoldUp
<1>5. /\ TypeOK /\ pc[t] = "commit" /\ [Next]_vars =>
           (pc[t] = "commit")' \/ (pc[t] = "rollback")' \/ (pc[t] = "idle")'
      /\ TypeOK /\ pc[t] = "commit" /\ <<Step(t)>>_vars =>
           (pc[t] = "rollback")' \/ (pc[t] = "idle")'
  BY StepGoesAhead, OthersHoldUp
<1>6. /\ TypeOK /\ pc[t] = "rollback" /\ [Next]_vars =>
           (pc[t] = "rollback")' \/ (pc[t] = "idle")'
      /\ TypeOK /\ pc[t] = "rollback" /\ <<Step(t)>>_vars =>
           (pc[t] = "idle")'
  BY StepGoesAhead, OthersHoldUp
<1> QED
  BY <1>1, <1>2, <1>3, <1>4, <1>5, <1>6, ServerTyped, PTL DEF Spec, Scheduled

\* Every call that a handler or the ingest thread begins has its end, whatever
\* the other threads, the database and the connection do meanwhile: no thread
\* waits for another, as a check of the connection refuses and never blocks.
THEOREM CallsEnd == Spec /\ (\A t \in Threads : Scheduled(t)) => CallsAnswered
BY CallEnds DEF CallsAnswered

-----------------------------------------------------------------------------
(* The process keeps the promise of RatingService.                         *)

\* The stage of a call, as callers see it, of a thread at p.
StageAt(p) ==
    IF p = "idle" THEN "idle"
    ELSE IF p \in {"check", "register"} THEN "asked"
    ELSE IF p = "exec" THEN "begun" ELSE "done"

\* A process that has ended has no connection.
EndedIsCutOff == ~up => ~connected

LEMMA NextEnded == EndedIsCutOff /\ [Next]_vars => EndedIsCutOff'
<1> SUFFICES ASSUME EndedIsCutOff, [Next]_vars PROVE EndedIsCutOff'
  OBVIOUS
<1> USE DEF EndedIsCutOff
<1>1. CASE ProcessEnds
  BY <1>1 DEF ProcessEnds
<1>2. ASSUME NEW t \in Threads, Step(t), ~ProcessEnds PROVE UNCHANGED <<up, connected>>
  BY <1>2 DEF Step, CheckBusy, CheckFree, Register, BeginFails, ExecInsert, ExecSelect, ExecFails,
              Commit, CommitThenAborts, CommitFails, Rollback, Refused, conn
<1>3. ASSUME NEW t \in Threads, NEW c \in Gets \cup Puts, Call(t, c)
      PROVE  UNCHANGED <<up, connected>>
  BY <1>3 DEF Call, conn
<1>4. CASE Disconnect \/ Restart
  BY <1>4 DEF Disconnect, Restart
<1>5. CASE UNCHANGED vars
  BY <1>5 DEF vars, conn
<1> QED
  BY <1>1, <1>2, <1>3, <1>4, <1>5 DEF Next

LEMMA SameNames ==
    /\ Service!Threads = Threads
    /\ Service!Gets = Gets
    /\ Service!Puts = Puts
BY DEF Threads, Gets, Puts, Rating, Service!Threads, Service!Gets, Service!Puts, Service!Rating

\* A thread that moves takes its call to the stage of its new place.
LEMMA StageMoves ==
    ASSUME TypeOK, NEW t \in Threads, NEW p, pc' = [pc EXCEPT ![t] = p]
    PROVE  /\ Stage' = [Stage EXCEPT ![t] = StageAt(p)]
           /\ Stage[t] = StageAt(pc[t])
BY DEF Stage, StageAt, TypeOK

LEMMA ServedIsInTransaction == TypeOK => Service!Served = InTransaction
BY DEF TypeOK, Service!Served, InTransaction, Stage, Service!Threads, Threads

LEMMA SpoiltKept == UNCHANGED <<failed, disturbed>> => Spoilt' = Spoilt
BY DEF Spoilt

LEMMA ConditionKept == UNCHANGED <<up, connected>> => Condition' = Condition
BY DEF Condition

\* A thread at work belongs to a process that runs.
LEMMA AtWork ==
    ASSUME ServerInv, NEW t \in Threads, pc[t] # "idle"
    PROVE  /\ up
           /\ connected => Condition = "working"
           /\ ~connected => Condition = "cut off"
BY DEF ServerInv, EndedIsIdle, Condition

\* The rows of a block may be lost when the transaction that ends it was not
\* the only one, or failed: the others were not alone either.
LEMMA NoneReliesOn ==
    ASSUME ServerInv, NEW t \in InTransaction, failed[t] \/ disturbed[t]
    PROVE  Service!NoneRelies
<1>1. ASSUME NEW s \in InTransaction PROVE failed[s] \/ disturbed[s]
  BY <1>1 DEF ServerInv, Alone
<1>2. \A s \in Threads : Stage[s] = "done" => s \in InTransaction
  BY DEF Stage, InTransaction, ServerInv, TypeOK
<1> QED
  BY <1>1, <1>2, SameNames DEF Service!NoneRelies, Spoilt

\* COMMIT settles the rows of the block.
LEMMA CommitSettles ==
    ASSUME ServerInv, NEW t \in Threads, pc[t] = "commit", connected, RowsCommit,
           uncommitted' = <<>>
    PROVE  Service!Settle
<1>1. CASE session = "open"
  BY <1>1 DEF RowsCommit, Service!Settle
<1>2. CASE session # "open"
  <2>1. t \in InTransaction /\ disturbed[t]
    BY <1>2 DEF ServerInv, BlockOpen, InTransaction
  <2>2. Service!NoneRelies
    BY <2>1, NoneReliesOn
  <2> QED
    BY <1>2, <2>2 DEF RowsCommit, Service!Settle
<1> QED
  BY <1>1, <1>2

-----------------------------------------------------------------------------
LEMMA CallImplements ==
    ASSUME ServerInv, NEW t \in Threads, NEW c \in Gets \cup Puts, Call(t, c)
    PROVE  Service!Ask(t, c)
<1> USE DEF Call, conn
<1>1. Stage[t] = "idle" /\ Stage' = [Stage EXCEPT ![t] = "asked"]
  BY StageMoves DEF StageAt, ServerInv
<1>2. Spoilt' = Spoilt \ {t}
  BY DEF Spoilt, ServerInv, TypeOK
<1>3. Condition' = Condition
  BY ConditionKept
<1> QED
  BY <1>1, <1>2, <1>3, SameNames DEF Service!Ask, Service!database

\* A handler that is refused.
LEMMA RefusalImplements ==
    ASSUME ServerInv, NEW t \in Threads, t # Ingest, pc[t] \in {"check", "register"},
           Service!Refusable, Replies(t, "UNKNOWN"),
           UNCHANGED <<up, connected, session, uncommitted, table, call, found, notes>>
    PROVE  Service!Refuse(t)
<1>1. Stage[t] = "asked" /\ Stage' = [Stage EXCEPT ![t] = "idle"]
  BY StageMoves DEF Replies, StageAt, ServerInv
<1>2. Spoilt' = Spoilt /\ Condition' = Condition
  BY SpoiltKept, ConditionKept DEF notes
<1> QED
  BY <1>1, <1>2 DEF Service!Refuse, Service!Ends, Service!database, Replies

\* What the end of the process looks like.
LEMMA EndLooks ==
    ASSUME TypeOK, ProcessEnds
    PROVE  /\ Condition' = "ended"
           /\ Stage' = [s \in Service!Threads |-> "idle"]
           /\ reply' = [s \in Service!Threads |-> IF Stage[s] = "idle" THEN reply[s] ELSE "none"]
           /\ uncommitted' = <<>>
           /\ call' = call /\ found' = found /\ Spoilt' = Spoilt
<1>1. \A s \in Threads : Stage[s] = "idle" <=> pc[s] = "idle"
  BY DEF Stage
<1>2. Stage' = [s \in Threads |-> "idle"]
  BY DEF Stage, ProcessEnds
<1>3. reply' = [s \in Threads |-> IF Stage[s] = "idle" THEN reply[s] ELSE "none"]
  BY <1>1 DEF ProcessEnds
<1>4. Spoilt' = Spoilt
  BY SpoiltKept DEF ProcessEnds, notes
<1> QED
  BY <1>2, <1>3, <1>4, SameNames DEF ProcessEnds, Condition

\* A look at a connection that has a transaction, and a BEGIN that fails, have
\* found a transaction or a broken connection.
LEMMA RefusedImplements ==
    ASSUME ServerInv, NEW t \in Threads, CheckBusy(t) \/ BeginFails(t)
    PROVE  Service!Refuse(t) \/ Service!End(t)
<1>1. TypeOK
  BY DEF ServerInv
<1>2. pc[t] \in {"check", "register"}
  BY DEF CheckBusy, BeginFails
<1>3. InTransaction # {} \/ ~connected
  BY DEF CheckBusy, BeginFails, ServerInv, ConnectionReleased
<1>4. Service!Refusable
  BY <1>1, <1>2, <1>3, AtWork, ServedIsInTransaction DEF Service!Refusable
<1>5. CASE t = Ingest
  <2>1. ProcessEnds /\ table' = table
    BY <1>5 DEF CheckBusy, BeginFails, Refused
  <2>2. Stage[t] = "asked"
    BY <1>2 DEF Stage
  <2> QED
    BY <1>1, <1>4, <1>5, <2>1, <2>2, EndLooks DEF Service!End
<1>6. CASE t # Ingest
  BY <1>2, <1>4, <1>6, RefusalImplements DEF CheckBusy, BeginFails, Refused, conn
<1> QED
  BY <1>5, <1>6

LEMMA RegisterImplements ==
    ASSUME ServerInv, NEW t \in Threads, Register(t)
    PROVE  Service!Begin(t)
<1> USE DEF Register
<1>1. TypeOK
  BY DEF ServerInv
<1>2. Stage[t] = "asked" /\ Stage' = [Stage EXCEPT ![t] = "begun"]
  BY <1>1, StageMoves DEF StageAt
<1>3. Condition = "working" /\ Condition' = Condition
  BY AtWork, ConditionKept
<1>4. Spoilt' = IF InTransaction = {} THEN Spoilt ELSE Spoilt \cup InTransaction \cup {t}
  <2>1. \A s \in Threads : disturbed'[s] <=> \/ disturbed[s]
                                             \/ s \in InTransaction
                                             \/ s = t /\ InTransaction # {}
    OBVIOUS
  <2>2. InTransaction \subseteq Threads /\ failed' = failed
    BY DEF InTransaction
  <2> HIDE DEF Register
  <2> QED
    BY <2>1, <2>2 DEF Spoilt
<1> QED
  BY <1>1, <1>2, <1>3, <1>4, ServedIsInTransaction DEF Service!Begin, Service!database

\* The statement of a transaction succeeds.
LEMMA ProceedsImplements ==
    ASSUME ServerInv, NEW t \in Threads, pc[t] = "exec", connected,
           pc' = [pc EXCEPT ![t] = "commit"],
           UNCHANGED <<up, connected, call, reply, failed, disturbed>>
    PROVE  Service!Proceeds(t)
<1>1. Stage[t] = "begun" /\ Stage' = [Stage EXCEPT ![t] = "done"]
  <2>1. TypeOK
    BY DEF ServerInv
  <2>2. Stage' = [Stage EXCEPT ![t] = StageAt("commit")] /\ Stage[t] = StageAt("exec")
    BY <2>1, StageMoves
  <2> QED
    BY <2>2 DEF StageAt
<1>2. Condition = "working" /\ Condition' = Condition /\ Spoilt' = Spoilt
  BY AtWork, ConditionKept, SpoiltKept
<1> QED
  BY <1>1, <1>2 DEF Service!Proceeds

LEMMA InsertImplements ==
    ASSUME ServerInv, NEW t \in Threads, ExecInsert(t)
    PROVE  Service!Write(t)
<1> USE DEF ExecInsert, CanExecute
<1>1. Service!Proceeds(t)
  BY ProceedsImplements DEF notes
<1>2. session # "open" => t \in Spoilt
  BY DEF ServerInv, BlockOpen, Spoilt
<1> QED
  BY <1>1, <1>2, SameNames DEF Service!Write

LEMMA SelectImplements ==
    ASSUME ServerInv, GetInv, NEW t \in Threads, ExecSelect(t)
    PROVE  Service!Read(t)
<1> USE DEF ExecSelect, CanExecute, conn
<1>1. Service!Proceeds(t)
  BY ProceedsImplements DEF notes
<1>2. ASSUME ~disturbed[t] PROVE uncommitted = <<>>
  <2>1. t \in InTransaction
    BY DEF InTransaction
  <2>2. \A s \in Threads : pc[s] \in {"commit", "rollback"} => s = t
    BY <1>2, <2>1 DEF ServerInv, Alone, InTransaction
  <2> QED
    BY <2>2 DEF GetInv, RowsHaveOwner
<1>3. Service!Readable(t) = {table[k] : k \in DOMAIN table}
                            \cup {uncommitted[k] : k \in DOMAIN uncommitted}
  <2>1. CASE t \in Spoilt
    BY <2>1 DEF Service!Readable
  <2>2. CASE t \notin Spoilt
    BY <1>2, <2>2 DEF Service!Readable, Spoilt
  <2> QED
    BY <2>1, <2>2
<1> DEFINE rows == {r \in Service!Readable(t) : r.key = call[t].key \/ t \in Spoilt}
<1>4. \/ \E r \in rows : found' = [found EXCEPT ![t] = {r}]
      \/ (rows = {} \/ t \in Spoilt) /\ found' = [found EXCEPT ![t] = {}]
  <2>1. PICK S \in Selected(t) : found' = [found EXCEPT ![t] = S]
    OBVIOUS
  <2>2. CASE \E r \in rows : S = {r}
    BY <2>1, <2>2
  <2>3. CASE S = {} /\ (rows = {} \/ t \in Spoilt)
    BY <2>1, <2>3
  <2>4. disturbed[t] => t \in Spoilt
    BY DEF Spoilt
  <2> QED
    BY <1>3, <2>1, <2>2, <2>3, <2>4 DEF Selected
<1> QED
  BY <1>1, <1>4, SameNames DEF Service!Read

LEMMA FailsImplements ==
    ASSUME ServerInv, NEW t \in Threads, ExecFails(t) \/ CommitFails(t)
    PROVE  Service!Fail(t)
<1>1. /\ pc[t] = "exec" \/ (pc[t] = "commit" /\ ~connected)
      /\ pc' = [pc EXCEPT ![t] = "rollback"]
      /\ failed' = [failed EXCEPT ![t] = TRUE]
      /\ UNCHANGED <<up, connected, uncommitted, table, call, found, reply, disturbed>>
  BY DEF ExecFails, CommitFails, conn
<1>2. /\ Stage[t] = "begun" \/ (Stage[t] = "done" /\ Condition = "cut off")
      /\ Stage' = [Stage EXCEPT ![t] = "done"]
  BY <1>1, StageMoves, AtWork DEF StageAt, ServerInv
<1>3. failed'[t] /\ \A s \in Threads \ {t} : failed'[s] = failed[s]
  BY <1>1 DEF ServerInv, TypeOK
<1>4. Spoilt' = Spoilt \cup {t}
  BY <1>1, <1>3 DEF Spoilt
<1> QED
  BY <1>1, <1>2, <1>4, ConditionKept DEF Service!Fail, Service!database

LEMMA CommitImplements ==
    ASSUME ServerInv, NEW t \in Threads, Commit(t)
    PROVE  Service!Answer(t)
<1> USE DEF Commit
<1>1. Stage[t] = "done" /\ Stage' = [Stage EXCEPT ![t] = "idle"]
  BY StageMoves DEF StageAt, Replies, ServerInv
<1>2. Condition = "working" /\ Condition' = Condition /\ Spoilt' = Spoilt
  BY AtWork, ConditionKept, SpoiltKept DEF notes
<1>3. Service!Settle
  BY CommitSettles
<1>4. Service!Ends(t, Answer(t))
  BY <1>1, <1>2 DEF Service!Ends, Replies
<1> QED
  BY <1>1, <1>2, <1>3, <1>4, SameNames DEF Service!Answer, Answer

LEMMA AbortImplements ==
    ASSUME ServerInv, NEW t \in Threads, CommitThenAborts(t)
    PROVE  Service!End(t)
<1> USE DEF CommitThenAborts
<1>1. Stage[t] = "done" /\ Condition = "working"
  BY AtWork DEF Stage
<1>2. TypeOK /\ uncommitted' = <<>>
  BY DEF ServerInv, ProcessEnds
<1>3. Service!Settle
  BY <1>2, CommitSettles
<1> QED
  BY <1>1, <1>2, <1>3, EndLooks DEF Service!End

LEMMA RollbackImplements ==
    ASSUME ServerInv, NEW t \in Threads, Rollback(t)
    PROVE  Service!GiveUp(t)
<1> USE DEF Rollback
<1>1. Stage[t] = "done" /\ Stage' = [Stage EXCEPT ![t] = "idle"]
  BY StageMoves DEF StageAt, Replies, ServerInv
<1>2. failed[t] /\ t \in InTransaction
  BY DEF ServerInv, RollbackFailed, InTransaction
<1>3. t \in Spoilt /\ Service!NoneRelies
  BY <1>2, NoneReliesOn DEF Spoilt
<1>4. Condition' = Condition /\ Spoilt' = Spoilt
  BY ConditionKept, SpoiltKept DEF notes
<1>5. Service!Ends(t, IF call[t] \in Puts THEN "OK" ELSE "NOT_FOUND")
  BY <1>1, <1>4 DEF Service!Ends, Replies
<1> QED
  BY <1>1, <1>3, <1>4, <1>5, SameNames DEF Service!GiveUp

LEMMA DisconnectImplements ==
    ASSUME EndedIsCutOff, Disconnect
    PROVE  Service!CutOff
<1> USE DEF Disconnect
<1>1. Condition = "working" /\ Condition' = "cut off"
  BY DEF Condition, EndedIsCutOff
<1>2. Stage' = Stage /\ Spoilt' = Spoilt
  BY SpoiltKept DEF Stage, notes
<1>3. \A t \in Threads : pc[t] = "commit" => Stage[t] = "done"
  BY DEF Stage
<1> QED
  BY <1>1, <1>2, <1>3, SameNames DEF Service!CutOff

LEMMA RestartImplements == Restart => Service!Restart
<1> SUFFICES ASSUME Restart PROVE Service!Restart
  OBVIOUS
<1> USE DEF Restart
<1>1. Condition = "ended" /\ Condition' = "working"
  BY DEF Condition
<1>2. Stage' = Stage /\ Spoilt' = Spoilt
  BY SpoiltKept DEF Stage, notes
<1> QED
  BY <1>1, <1>2, SameNames DEF Service!Restart

\* A look at a free connection, and a step of something else, callers do not see.
LEMMA UnseenImplements ==
    ASSUME TypeOK, (\E t \in Threads : CheckFree(t)) \/ UNCHANGED vars
    PROVE  UNCHANGED Service!vars
<1>1. UNCHANGED <<up, connected, uncommitted, table, call, found, reply, failed, disturbed>>
  BY DEF CheckFree, vars, conn, notes
<1>2. Stage' = Stage
  <2>1. ASSUME NEW t \in Threads, CheckFree(t) PROVE Stage' = Stage
    <3>1. pc[t] = "check" /\ pc' = [pc EXCEPT ![t] = "register"]
      BY <2>1 DEF CheckFree
    <3> QED
      BY <3>1 DEF Stage, TypeOK
  <2>2. CASE UNCHANGED vars
    BY <2>2 DEF vars, Stage
  <2> QED
    BY <2>1, <2>2
<1> QED
  BY <1>1, <1>2, SpoiltKept, ConditionKept DEF Service!vars, Service!database

LEMMA NextImplements ==
    ServerInv /\ GetInv /\ EndedIsCutOff /\ [Next]_vars => [Service!Next]_(Service!vars)
<1> SUFFICES ASSUME ServerInv, GetInv, EndedIsCutOff, [Next]_vars
             PROVE  Service!Next \/ UNCHANGED Service!vars
  OBVIOUS
<1>1. ASSUME NEW t \in Threads, Step(t), ~CheckFree(t) PROVE Service!Next
  <2>1. CASE CheckBusy(t) \/ BeginFails(t)
    BY <2>1, RefusedImplements, SameNames DEF Service!Next
  <2>2. CASE Register(t)
    BY <2>2, RegisterImplements, SameNames DEF Service!Next
  <2>3. CASE ExecInsert(t)
    BY <2>3, InsertImplements, SameNames DEF Service!Next
  <2>4. CASE ExecSelect(t)
    BY <2>4, SelectImplements, SameNames DEF Service!Next
  <2>5. CASE ExecFails(t) \/ CommitFails(t)
    BY <2>5, FailsImplements, SameNames DEF Service!Next
  <2>6. CASE Commit(t)
    BY <2>6, CommitImplements, SameNames DEF Service!Next
  <2>7. CASE CommitThenAborts(t)
    BY <2>7, AbortImplements, SameNames DEF Service!Next
  <2>8. CASE Rollback(t)
    BY <2>8, RollbackImplements, SameNames DEF Service!Next
  <2> QED
    BY <1>1, <2>1, <2>2, <2>3, <2>4, <2>5, <2>6, <2>7, <2>8 DEF Step
<1>2. ASSUME NEW t \in Threads, NEW c \in Gets \cup Puts, Call(t, c) PROVE Service!Next
  BY <1>2, CallImplements, SameNames DEF Service!Next
<1>3. CASE Disconnect
  BY <1>3, DisconnectImplements DEF Service!Next
<1>4. CASE Restart
  BY <1>4, RestartImplements DEF Service!Next
<1>5. CASE (\E t \in Threads : CheckFree(t)) \/ UNCHANGED vars
  BY <1>5, UnseenImplements DEF ServerInv
<1> QED
  BY <1>1, <1>2, <1>3, <1>4, <1>5 DEF Next

LEMMA InitImplements == Init => Service!Init
<1> SUFFICES ASSUME Init PROVE Service!Init
  OBVIOUS
<1>1. Condition = "working" /\ Spoilt = {} /\ Stage = [t \in Threads |-> "idle"]
  BY DEF Init, Condition, Spoilt, Stage
<1> QED
  BY <1>1, SameNames DEF Init, Service!Init

\* For any number of threads, keys and rows, the process keeps the promise of
\* RatingService: Repository::Get and Repository::Put, on the one connection
\* that all threads share, are atomic for a call that is alone, no row is
\* inserted twice, and a call is refused only because of another one in its
\* transaction or of a broken connection.
THEOREM ServerImplements == Spec => RatingServiceSpec
<1>1. Init => EndedIsCutOff
  BY DEF Init, EndedIsCutOff
<1>2. Init => Service!Init
  BY InitImplements
<1>3. ServerInv /\ GetInv /\ EndedIsCutOff /\ [Next]_vars => [Service!Next]_(Service!vars)
  BY NextImplements
<1> QED
  BY <1>1, <1>2, <1>3, NextEnded, InitReads, NextReads, ServerInvariant, PTL
  DEF Spec, RatingServiceSpec, Service!Spec

=============================================================================
