---------------------------- MODULE RatingModel ----------------------------
(***************************************************************************)
(* The data of the rating service (src/rating/model/rating.h): rating      *)
(* events, the equality that the unordered sets of events and of ratings   *)
(* use, and the contents of such a set after a sequence of insertions.     *)
(***************************************************************************)
EXTENDS Integers, Sequences

CONSTANTS RecordIds,    \* identifiers of rated things
          RecordTypes,  \* kinds of rated things ("movie")
          Users,        \* identifiers of users
          Values,       \* rating values
          Malformed     \* a JSON value that RatingEvent::FromJSON rejects

RatingEvent == [recordId   : RecordIds,
                recordType : RecordTypes,
                userId     : Users,
                value      : Values,
                eventType  : {"put", "delete"}]

ASSUME MalformedAssumption == Malformed \notin RatingEvent

\* operator== of Rating and of RatingEvent, the equality of both unordered
\* sets: the user and the value do not count.
SameKey(a, b) ==
    /\ a.recordId   = b.recordId
    /\ a.recordType = b.recordType

\* std::unordered_set::insert: an element that equals one already there is
\* dropped.
Inserted(S, e) == IF \E x \in S : SameKey(x, e) THEN S ELSE S \cup {e}

\* The set that inserting the elements of s one by one leaves: of each key,
\* the first element of s.
KeyedSet(s) ==
    {s[k] : k \in {n \in DOMAIN s : \A j \in 1..(n-1) : ~SameKey(s[j], s[n])}}

\* What Ingester::Poll leaves in events for a message: nothing when one item
\* of the JSON array is rejected (parseRatingEvents returns an error and
\* map() is not run), the keyed set of the items otherwise.  A message that is
\* no array is its own only item.
ParsedEvents(payload) ==
    IF \E k \in DOMAIN payload : payload[k] = Malformed
    THEN {}
    ELSE KeyedSet(payload)

=============================================================================
