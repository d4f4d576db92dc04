--------------------------- MODULE EventDelivery ---------------------------
(***************************************************************************)
(* What the ingestion of rating events promises: a rating that is          *)
(* published is stored once or lost, and that is final.  One incident      *)
(* loses ratings of a single message; the consumer group may moreover      *)
(* begin late in a partition and pass over what was there before.          *)
(***************************************************************************)
EXTENDS Integers, Sequences

CONSTANTS Ratings,     \* ratings, with the partition and offset they come in
          MayJoinLate  \* the group begins at the end of a partition

VARIABLES published,  \* the ratings of the messages published so far
          stored,     \* those that were inserted, in order
          lost        \* those that never will be

Settled == {stored[k] : k \in DOMAIN stored} \cup lost

Waiting == published \ Settled

Init ==
    /\ published = {}
    /\ stored = <<>>
    /\ lost = {}

\* Producers only add ratings.
Publish ==
    /\ published \subseteq published'
    /\ published' \subseteq Ratings
    /\ UNCHANGED <<stored, lost>>

Store ==
    /\ \E r \in Waiting : stored' = Append(stored, r)
    /\ UNCHANGED <<published, lost>>

\* A set of ratings of one message is lost.
Lose ==
    /\ \E S \in SUBSET Waiting :
         /\ \A r, s \in S : r.partition = s.partition /\ r.offset = s.offset
         /\ lost' = lost \cup S
    /\ UNCHANGED <<published, stored>>

\* The group begins late in a partition of which nothing is settled yet.
JoinLate ==
    /\ MayJoinLate
    /\ \E S \in SUBSET Waiting :
         /\ \A r, s \in S : r.partition = s.partition
         /\ \A r \in S, s \in Settled : r.partition # s.partition
         /\ lost' = lost \cup S
    /\ UNCHANGED <<published, stored>>

Next == Publish \/ Store \/ Lose \/ JoinLate

Spec == Init /\ [][Next]_<<published, stored, lost>>

=============================================================================
