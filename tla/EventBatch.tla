----------------------------- MODULE EventBatch -----------------------------
(***************************************************************************)
(* One message through parseRatingEvents and Ingester::Poll                *)
(* (src/rating/ingester/kafka/ingester.cpp), an item at a time: the loop   *)
(* that parses the JSON array into a vector, or the one event of a message *)
(* that is no array, then std::copy with an inserter into the set of       *)
(* events that Poll has cleared.                                           *)
(*                                                                         *)
(* RatingIngestion takes the whole of it as one step, with the operator    *)
(* ParsedEvents; the properties below are what justifies that.             *)
(***************************************************************************)
EXTENDS RatingModel

CONSTANT MaxItems   \* bound on the items of a message

ASSUME MaxItemsAssumption == MaxItems \in Nat

VARIABLES array,    \* the message is a JSON array
          payload,  \* its items, or the message itself as the only one
          pc,       \* "parse", "copy" or "done"
          next,     \* index of the next item to parse, or to copy
          res,      \* the vector parseRatingEvents builds
          events    \* the caller's RatingEventSet

vars == <<array, payload, pc, next, res, events>>

Items == RatingEvent \cup {Malformed}

Init ==
    /\ array \in BOOLEAN
    /\ payload \in IF array THEN UNION {[1..n -> Items] : n \in 0..MaxItems}
                            ELSE [1..1 -> Items]
    /\ pc = "parse"
    /\ next = 1
    /\ res = <<>>
    /\ events = {}

\* A message that is no array is parsed as one event, and returned at once.
ParseSingle ==
    /\ pc = "parse"
    /\ ~array
    /\ payload[1] # Malformed
    /\ res' = <<payload[1]>>
    /\ pc' = "copy"
    /\ UNCHANGED <<array, payload, next, events>>

\* res.emplace_back(RatingEvent::FromJSON(o))
ParseItem ==
    /\ pc = "parse"
    /\ array
    /\ next \in DOMAIN payload
    /\ payload[next] # Malformed
    /\ res' = Append(res, payload[next])
    /\ next' = next + 1
    /\ UNCHANGED <<array, payload, pc, events>>

\* FromJSON throws, or parse of a text that is no JSON, and the catch returns an
\* unexpected: what was parsed so far is thrown away and Poll's map() does not run.
ParseFails ==
    /\ pc = "parse"
    /\ next \in DOMAIN payload
    /\ payload[next] = Malformed
    /\ pc' = "done"
    /\ res' = <<>>
    /\ UNCHANGED <<array, payload, next, events>>

ParseEnds ==
    /\ pc = "parse"
    /\ array
    /\ next \notin DOMAIN payload
    /\ pc' = "copy"
    /\ next' = 1
    /\ UNCHANGED <<array, payload, res, events>>

\* One assignment of std::copy through std::inserter.
CopyItem_ComparesUser ==
    /\ pc = "copy"
    /\ next \in DOMAIN res
    /\ events' = IF \E x \in events : SameKey(x, res[next]) /\ x.userId = res[next].userId
                 THEN events ELSE events \cup {res[next]}
    /\ next' = next + 1
    /\ UNCHANGED <<array, payload, pc, res>>
CopyItem ==
    /\ pc = "copy"
    /\ next \in DOMAIN res
    /\ events' = Inserted(events, res[next])
    /\ next' = next + 1
    /\ UNCHANGED <<array, payload, pc, res>>

CopyEnds ==
    /\ pc = "copy"
    /\ next \notin DOMAIN res
    /\ pc' = "done"
    /\ UNCHANGED <<array, payload, next, res, events>>

Next == ParseSingle \/ ParseItem \/ ParseFails \/ ParseEnds \/ CopyItem \/ CopyEnds

Spec == Init /\ [][Next]_vars

-----------------------------------------------------------------------------
\* The types of the variables of the parse and copy loops of
\* parseRatingEvents and Poll.
TypeOK ==
    /\ array \in BOOLEAN
    /\ payload \in Seq(Items)
    /\ pc \in {"parse", "copy", "done"}
    /\ next \in 1..(Len(payload) + 1)
    /\ res \in Seq(RatingEvent)
    /\ events \subseteq RatingEvent

\* Whatever the message, Poll returns with events equal to ParsedEvents of
\* it: all of the message or nothing of it, and of each key the first event.
PollYieldsParsedEvents == pc = "done" => events = ParsedEvents(payload)

=============================================================================
