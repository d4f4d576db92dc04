-------------------------- MODULE EventBatchProofs --------------------------
(***************************************************************************)
(* Proofs about EventBatch: the loops of parseRatingEvents and of Poll     *)
(* compute ParsedEvents of the message, for messages of every length.      *)
(***************************************************************************)
EXTENDS EventBatch, SequenceTheorems, TLAPS

\* The first item of each key among the first m of the message.
KeyedPrefix(m) ==
    {payload[k] : k \in {n \in 1..m : \A j \in 1..(n-1) : ~SameKey(payload[j], payload[n])}}

\* What the loops have done of the message: parsed a prefix of it without a
\* malformed item, or all of it and copied a prefix.  KeysCovered is what the
\* next insertion needs to know of those before it.
Parsing ==
    /\ ~array => Len(payload) = 1 /\ next = 1
    /\ \A k \in DOMAIN res : res[k] = payload[k]
    /\ Len(res) = next - 1
    /\ events = {}

KeysCovered == \A k \in 1..(next - 1) : \E x \in events : SameKey(x, payload[k])

Copying ==
    /\ \A k \in DOMAIN res : res[k] = payload[k]
    /\ Len(res) = Len(payload)
    /\ events = KeyedPrefix(next - 1)
    /\ KeysCovered

BatchInv ==
    /\ TypeOK
    /\ pc = "parse" => Parsing
    /\ pc = "copy" => Copying
    /\ PollYieldsParsedEvents

\* An item that parses is a rating event.
LEMMA ItemParses ==
    ASSUME TypeOK, NEW k \in DOMAIN payload, payload[k] # Malformed
    PROVE  payload[k] \in RatingEvent
BY DEF TypeOK, Items

\* One insertion takes the keyed prefix to the next.
LEMMA PrefixGrows ==
    ASSUME NEW n \in Nat, n >= 1,
           events = KeyedPrefix(n - 1),
           \A k \in 1..(n - 1) : \E x \in events : SameKey(x, payload[k])
    PROVE  Inserted(events, payload[n]) = KeyedPrefix(n)
<1> DEFINE First(k) == \A j \in 1..(k - 1) : ~SameKey(payload[j], payload[k])
<1>1. 1..n = (1..(n - 1)) \cup {n}
  OBVIOUS
<1>2. KeyedPrefix(n) = KeyedPrefix(n - 1) \cup (IF First(n) THEN {payload[n]} ELSE {})
  BY <1>1 DEF KeyedPrefix
<1>3. CASE First(n)
  <2>1. ASSUME NEW x \in events, SameKey(x, payload[n])
        PROVE  FALSE
    BY <1>3, <2>1 DEF KeyedPrefix
  <2> QED
    BY <1>2, <1>3, <2>1 DEF Inserted
<1>4. CASE ~First(n)
  <2>1. PICK j \in 1..(n - 1) : SameKey(payload[j], payload[n])
    BY <1>4
  <2>2. PICK x \in events : SameKey(x, payload[j])
    BY <2>1
  <2>3. SameKey(x, payload[n])
    BY <2>1, <2>2 DEF SameKey
  <2> QED
    BY <1>2, <1>4, <2>3 DEF Inserted
<1> QED
  BY <1>3, <1>4

LEMMA InitInv == Init => BatchInv
<1> SUFFICES ASSUME Init PROVE BatchInv
  OBVIOUS
<1>1. payload \in Seq(Items) /\ (~array => Len(payload) = 1)
  <2>1. CASE array
    BY <2>1, MaxItemsAssumption DEF Init
  <2>2. CASE ~array
    <3>1. payload \in [1..1 -> Items]
      BY <2>2 DEF Init
    <3>2. 1 \in Nat
      OBVIOUS
    <3>3. payload \in Seq(Items)
      BY <3>1, <3>2, SeqDef
    <3>4. Len(payload) = 1
      BY <3>1, <3>3, LenProperties
    <3> QED
      BY <3>3, <3>4
  <2> QED
    BY <2>1, <2>2
<1> QED
  BY <1>1 DEF Init, BatchInv, TypeOK, Parsing, PollYieldsParsedEvents

LEMMA NextInv == BatchInv /\ [Next]_vars => BatchInv'
<1> SUFFICES ASSUME BatchInv, [Next]_vars PROVE BatchInv'
  OBVIOUS
<1> USE DEF BatchInv, PollYieldsParsedEvents
<1>7. CASE ParseSingle
  <2>1. Len(payload) = 1 /\ next = 1 /\ events = {}
    BY <1>7 DEF ParseSingle, Parsing
  <2>2. payload[1] \in RatingEvent
    BY <1>7, <2>1, ItemParses DEF ParseSingle, TypeOK
  <2>3. TypeOK'
    BY <1>7, <2>1, <2>2 DEF ParseSingle, TypeOK
  <2>4. Copying'
    BY <1>7, <2>1 DEF ParseSingle, Copying, KeysCovered, KeyedPrefix
  <2> QED
    BY <1>7, <2>3, <2>4 DEF ParseSingle
<1>1. CASE ParseItem
  <2>1. payload[next] \in RatingEvent
    BY <1>1, ItemParses DEF ParseItem
  <2>2. /\ res' \in Seq(RatingEvent)
        /\ Len(res') = next
        /\ \A k \in DOMAIN res' : res'[k] = payload[k]
    <3>1. res \in Seq(RatingEvent) /\ Len(res) = next - 1
      BY <1>1 DEF ParseItem, TypeOK, Parsing
    <3>2. /\ res' = Append(res, payload[next])
          /\ next \in Nat
          /\ \A k \in 1..Len(res) : res[k] = payload[k]
      <4>1. res' = Append(res, payload[next])
        BY <1>1 DEF ParseItem
      <4>2. next \in Nat
        BY DEF TypeOK
      <4>3. DOMAIN res = 1..Len(res)
        BY <3>1
      <4>4. \A k \in DOMAIN res : res[k] = payload[k]
        BY <1>1 DEF ParseItem, Parsing
      <4> QED
        BY <4>1, <4>2, <4>3, <4>4
    <3>3. /\ res' \in Seq(RatingEvent)
          /\ Len(res') = Len(res) + 1
          /\ \A k \in 1..Len(res) : res'[k] = res[k]
          /\ res'[Len(res) + 1] = payload[next]
      BY <2>1, <3>1, <3>2, AppendProperties
    <3>4. DOMAIN res' = 1..next /\ Len(res') = next
      BY <3>1, <3>2, <3>3
    <3> QED
      BY <3>1, <3>2, <3>3, <3>4
  <2>3. next + 1 \in 1..(Len(payload) + 1)
    BY <1>1 DEF ParseItem, TypeOK
  <2>4. TypeOK'
    BY <1>1, <2>2, <2>3 DEF ParseItem, TypeOK
  <2> QED
    BY <1>1, <2>2, <2>3, <2>4 DEF ParseItem, Parsing
<1>2. CASE ParseFails
  BY <1>2 DEF ParseFails, TypeOK, Parsing, ParsedEvents
<1>3. CASE ParseEnds
  <2>1. next = Len(payload) + 1
    BY <1>3 DEF ParseEnds, TypeOK
  <2>2. TypeOK'
    BY <1>3 DEF ParseEnds, TypeOK
  <2>3. Copying'
    <3>1. /\ \A k \in DOMAIN res : res[k] = payload[k]
          /\ Len(res) = Len(payload)
          /\ events = {}
      BY <1>3, <2>1 DEF ParseEnds, Parsing, TypeOK
    <3>2. next' - 1 = 0
      BY <1>3 DEF ParseEnds
    <3>3. KeysCovered'
      BY <3>2 DEF KeysCovered
    <3>4. KeyedPrefix(next - 1)' = {}
      BY <3>2 DEF KeyedPrefix
    <3> QED
      BY <1>3, <3>1, <3>3, <3>4 DEF ParseEnds, Copying
  <2> QED
    BY <1>3, <2>2, <2>3 DEF ParseEnds
<1>4. CASE CopyItem
  <2>1. /\ next \in DOMAIN payload
        /\ res[next] = payload[next]
        /\ res[next] \in RatingEvent
    BY <1>4 DEF CopyItem, Copying, TypeOK
  <2>2. events' = KeyedPrefix(next)
    <3>1. payload \in Seq(Items) /\ next \in DOMAIN payload
      BY <2>1 DEF TypeOK
    <3>2. events = KeyedPrefix(next - 1) /\ KeysCovered
      BY <1>4 DEF CopyItem, Copying
    <3>3. events' = Inserted(events, payload[next])
      BY <1>4, <2>1 DEF CopyItem
    <3> QED
      BY <3>1, <3>2, <3>3, PrefixGrows DEF KeysCovered
  <2>3. \A k \in 1..next : \E x \in events' : SameKey(x, payload[k])
    <3>1. \E x \in events' : SameKey(x, payload[next])
      BY <1>4, <2>1 DEF CopyItem, Inserted, SameKey
    <3>2. events \subseteq events'
      BY <1>4 DEF CopyItem, Inserted
    <3> QED
      BY <1>4, <3>1, <3>2 DEF CopyItem, Copying, KeysCovered, TypeOK
  <2>4. TypeOK'
    <3>1. next' \in 1..(Len(payload) + 1)
      BY <1>4, <2>1 DEF CopyItem, TypeOK
    <3>2. events' \subseteq RatingEvent
      BY <1>4, <2>1 DEF CopyItem, TypeOK, Inserted
    <3> QED
      BY <1>4, <3>1, <3>2 DEF CopyItem, TypeOK
  <2>5. Copying'
    <3>1. next' - 1 = next /\ UNCHANGED <<payload, res>>
      BY <1>4 DEF CopyItem, TypeOK
    <3>2. (\A k \in DOMAIN res : res[k] = payload[k]) /\ Len(res) = Len(payload)
      BY <1>4 DEF CopyItem, Copying
    <3>3. KeyedPrefix(next - 1)' = KeyedPrefix(next)
      BY <3>1 DEF KeyedPrefix
    <3>4. KeysCovered'
      BY <2>3, <3>1 DEF KeysCovered
    <3> QED
      BY <2>2, <3>1, <3>2, <3>3, <3>4 DEF Copying
  <2> QED
    BY <1>4, <2>4, <2>5 DEF CopyItem
<1>5. CASE CopyEnds
  <2>1. next = Len(payload) + 1
    BY <1>5 DEF CopyEnds, Copying, TypeOK
  <2>2. \A k \in DOMAIN payload : payload[k] # Malformed
    <3>1. \A k \in DOMAIN payload : payload[k] \in RatingEvent
      BY <1>5 DEF CopyEnds, Copying, TypeOK
    <3> QED
      BY <3>1, MalformedAssumption
  <2>3. KeyedPrefix(Len(payload)) = KeyedSet(payload)
    BY DEF KeyedPrefix, KeyedSet, TypeOK
  <2>4. events = ParsedEvents(payload)
    BY <1>5, <2>1, <2>2, <2>3 DEF CopyEnds, Copying, ParsedEvents, TypeOK
  <2> QED
    BY <1>5, <2>4 DEF CopyEnds, TypeOK, ParsedEvents, KeyedSet, SameKey
<1>6. CASE UNCHANGED vars
  BY <1>6 DEF vars, TypeOK, Parsing, Copying, KeysCovered, KeyedPrefix, ParsedEvents
<1> QED
  BY <1>1, <1>2, <1>3, <1>4, <1>5, <1>6, <1>7 DEF Next

LEMMA BatchInvariant == Spec => []BatchInv
<1> QED
  BY InitInv, NextInv, PTL DEF Spec

\* The vector, the index and the set of the two loops keep their types.
THEOREM BatchTyped == Spec => []TypeOK
<1>1. BatchInv => TypeOK
  BY DEF BatchInv
<1> QED
  BY <1>1, BatchInvariant, PTL

\* For messages of every length, what Poll leaves in events is what the
\* operator ParsedEvents says, with which RatingIngestion takes a message in
\* one step.
THEOREM PollCorrect == Spec => []PollYieldsParsedEvents
<1>1. BatchInv => PollYieldsParsedEvents
  BY DEF BatchInv
<1> QED
  BY <1>1, BatchInvariant, PTL

=============================================================================
