----------------------------- MODULE HttpDetails -----------------------------
(***************************************************************************)
(* The HTTP side: the movie service's handler over the two HTTP gateways,  *)
(* the metadata and the rating service with their memory repositories, and *)
(* the writers of ratings, PUT requests and the ingest thread.             *)
(*                                                                         *)
(* Nothing locks the rating repository.  Two accesses that overlap, one of *)
(* them a Put, are undefined: until the process ends a read may give       *)
(* anything and a Put may be lost.                                         *)
(***************************************************************************)
EXTENDS Naturals, Sequences

CONSTANTS Requests,  \* GET requests to the movie service
          Puts,      \* calls of RatingGateway::PutRating
          Events,    \* rating events that the ingest thread applies
          Movies,    \* movie ids
          Decoded,   \* what a service reads in a query that is sent as it is
          Catalog,   \* the movies of the metadata repository
          About,     \* the movie of a Put or an event
          None       \* no movie

Writers == Puts \cup Events

\* The gateways put an id into a query as it is, which the service decodes: the
\* movie service has decoded it already.  None: that fails, or leaves no id.
\* Ids that set another parameter, as "x&type=y", are left out.

ASSUME HttpAssumption ==
    /\ Catalog \subseteq Movies
    /\ Decoded \in [Movies -> Movies \cup {None}]
    /\ About \in [Writers -> Movies]
    /\ Puts \cap Events = {}
    /\ None \notin Movies

VARIABLES registry,  \* "memory" or "consul"
          listed,    \* the registry has a rating service
          movieUp,   \* the process of the movie service
          ratingUp,  \* the process of the rating service
          ratings,   \* repository_: the ratings of a movie, in the order of Put
          reading,   \* requests whose Get copies from it
          torn,      \* accesses to it have overlapped
          at,        \* where a request is
          movie,     \* the movie of a request
          reply,     \* its answer
          rating,    \* the ratings that were averaged for it; {} gives 0
          absent,    \* requests that were answered from absent details
          writer,    \* where a writer is
          settled,   \* the ratings that an answer was of
          acked,     \* Puts that were answered OK
          calm,      \* requests without a crash or a torn access
          floor,     \* settled and acked when a request began
          missed     \* requests for whose time the rating service was unlisted

repository == <<ratings, reading, torn, ratingUp>>
requests == <<at, movie, reply, rating, absent, movieUp>>
notes == <<settled, acked, calm, floor, missed>>
vars == <<registry, listed, repository, requests, writer, notes>>

Init ==
    /\ registry \in {"memory", "consul"}
    /\ listed \in BOOLEAN
    /\ movieUp = TRUE /\ ratingUp = TRUE
    /\ ratings = [m \in Movies |-> <<>>]
    /\ reading = {} /\ torn = FALSE
    /\ at = [r \in Requests |-> "idle"]
    /\ movie = [r \in Requests |-> None]
    /\ reply = [r \in Requests |-> "none"]
    /\ rating = [r \in Requests |-> {}] /\ absent = {}
    /\ writer = [w \in Writers |-> "idle"]
    /\ settled = [m \in Movies |-> {}]
    /\ acked = {} /\ calm = {} /\ missed = {}
    /\ floor = [r \in Requests |-> [settled |-> {}, acked |-> {}]]

-----------------------------------------------------------------------------
(* The rating service and its repository.                                  *)

\* The movie that a writer rates in the repository: an event is not decoded.
Rated(w) == IF w \in Puts THEN Decoded[About[w]] ELSE About[w]

\* Keys of Rating: a Put carries the record type, an ingested rating does not.
SameKey_IgnoresType(v, w) == TRUE
SameKey(v, w) == v \in Puts <=> w \in Puts

\* Get copies the vector into a set, the first rating of a key stays.
Copied(s) ==
    {s[i] : i \in {j \in 1..Len(s) : \A k \in 1..(j - 1) : ~SameKey(s[k], s[j])}}

\* The first Put of a movie inserts into the map that all accesses walk.
Touches(w) == IF ratings[Rated(w)] = <<>> THEN Movies ELSE {Rated(w)}

Writing == {w \in Writers : writer[w] = "writing"}

ReadTears(r) == \E w \in Writing : Decoded[movie[r]] \in Touches(w)
WriteTears(w) ==
    \/ \E r \in reading : Decoded[movie[r]] \in Touches(w)
    \/ \E v \in Writing : Rated(v) \in Touches(w) \/ Rated(w) \in Touches(v)

\* What the observers keep over a crash or a torn access: nothing.
Disturbed ==
    /\ settled' = [m \in Movies |-> {}]
    /\ acked' = {}
    /\ calm' = {}
    /\ UNCHANGED <<floor, missed>>

Accesses(tears) ==
    /\ torn' = (torn \/ tears)
    /\ IF tears THEN Disturbed ELSE UNCHANGED notes
    /\ UNCHANGED <<ratings, ratingUp>>

Writes(w, from) ==
    /\ ratingUp /\ writer[w] = from
    /\ writer' = [writer EXCEPT ![w] = "writing"]
    /\ Accesses(WriteTears(w))
    /\ UNCHANGED <<registry, listed, reading, requests>>

PushBack_Assigns(w) == ratings' = [ratings EXCEPT ![Rated(w)] = <<w>>]
PushBack(w) == ratings' = [ratings EXCEPT ![Rated(w)] = Append(@, w)]

Written(w) ==
    /\ writer[w] = "writing"
    /\ writer' = [writer EXCEPT ![w] = "done"]
    /\ PushBack(w) \/ (torn /\ UNCHANGED ratings)
    /\ acked' = IF w \in Puts /\ ~torn THEN acked \cup {w} ELSE acked
    /\ UNCHANGED <<registry, listed, reading, torn, ratingUp, requests, settled, calm, floor,
                   missed>>

\* handle_put; the ingest thread applies one event after the other.
BeginPut(p) == Rated(p) # None /\ Writes(p, "put")
Ingest(e) == Writes(e, "idle") /\ Writing \cap Events = {}

\* The gateway looks the service up.  It returns, or throws, without a Put when
\* there is none, and whatever comes of the call it does not look at the answer.
FindForPut(p) ==
    /\ writer[p] = "idle" /\ listed
    /\ writer' = [writer EXCEPT ![p] = "put"]
    /\ UNCHANGED <<registry, listed, repository, requests, notes>>

PutNotMade(p) ==
    /\ \/ writer[p] = "idle" /\ (~listed \/ registry = "consul")
       \/ writer[p] = "put"
    /\ writer' = [writer EXCEPT ![p] = "done"]
    /\ UNCHANGED <<registry, listed, repository, requests, notes>>

\* The process ends with what it has in memory, and its handlers.
Crash ==
    /\ ratingUp
    /\ ratingUp' = FALSE
    /\ torn' = FALSE
    /\ ratings' = [m \in Movies |-> <<>>] /\ reading' = {}
    /\ at' = [r \in Requests |-> IF at[r] = "copying" THEN "broken" ELSE at[r]]
    /\ writer' = [w \in Writers |-> IF w \in Writing THEN "done" ELSE writer[w]]
    /\ Disturbed
    /\ UNCHANGED <<registry, listed, movie, reply, rating, absent, movieUp>>

Restart ==
    /\ ~ratingUp
    /\ ratingUp' = TRUE
    /\ UNCHANGED <<registry, listed, ratings, reading, torn, requests, writer, notes>>

\* A copy for a request that has given up ends.
EndCopy(r) ==
    /\ r \in reading /\ at[r] # "copying"
    /\ reading' = reading \ {r}
    /\ UNCHANGED <<registry, listed, ratings, torn, ratingUp, requests, writer, notes>>

\* The entry of the rating service comes and goes.
ListOrUnlist ==
    /\ listed' = ~listed
    /\ missed' = IF listed
                 THEN missed \cup {r \in Requests : at[r] \notin {"idle", "replied"}}
                 ELSE missed
    /\ UNCHANGED <<registry, repository, requests, writer, settled, acked, calm, floor>>

-----------------------------------------------------------------------------
(* A request: handle_get of the movie service and its two calls.           *)

Moves(r, from, to) ==
    /\ movieUp /\ at[r] = from
    /\ at' = [at EXCEPT ![r] = to]
    /\ UNCHANGED <<registry, listed, movieUp, writer>>

Step(r, from, to) ==
    /\ Moves(r, from, to)
    /\ UNCHANGED <<repository, movie, reply, rating, absent, notes>>

Answers(r, from, status) ==
    /\ Moves(r, from, "replied")
    /\ reply' = [reply EXCEPT ![r] = status]
    /\ UNCHANGED <<repository, movie, rating, absent, notes>>

\* The listener answers an exception of a handler.
Throws(r, from) == Answers(r, from, "InternalError")

Get(r, m) ==
    /\ Moves(r, "idle", "find")
    /\ movie' = [movie EXCEPT ![r] = m]
    /\ calm' = IF torn \/ ~ratingUp THEN calm ELSE calm \cup {r}
    /\ missed' = IF listed THEN missed ELSE missed \cup {r}
    /\ floor' = [floor EXCEPT ![r] =
           [settled |-> UNION {settled[n] : n \in {Decoded[m]} \ {None}},
            acked |-> {p \in acked : Rated(p) = Decoded[m]}]]
    /\ UNCHANGED <<repository, reply, rating, absent, settled, acked>>

\* The query has no id, or cannot be decoded.
GetWithoutId(r) == Answers(r, "idle", "NotFound") \/ Throws(r, "idle")

\* The registry has a metadata service, or the gateway takes the value of an error.
FindMetadata(r) == Step(r, "find", "metadata")
FindNoMetadata(r) == Throws(r, "find")

\* The metadata service looks up the id that it reads, of whatever movie it is.
MetadataAnswers(r) == Step(r, "metadata", "ask") /\ Decoded[movie[r]] \in Catalog

\* 404 has no JSON: the members of null are no strings.
MetadataNotFound_LeavesEmpty(r) ==
    Step(r, "metadata", "ask") /\ Decoded[movie[r]] \notin Catalog
MetadataNotFound(r) == Throws(r, "metadata") /\ Decoded[movie[r]] \notin Catalog

\* Refused, broken or timed out.
CallBreaks_WhenUnlisted(r) ==
    \/ Throws(r, "metadata")
    \/ ~listed /\ Throws(r, "rating")
    \/ Throws(r, "copying") \/ Throws(r, "broken")
CallBreaks(r) ==
    \E from \in {"metadata", "rating", "copying", "broken"} : Throws(r, from)

FindRating(r) == listed /\ Step(r, "ask", "rating")

\* Consul has an error for no service: addrs.value() throws.
FindRatingThrows(r) == registry = "consul" /\ Throws(r, "ask")

\* The memory registry has an empty list: Get returns an error, and handle_get
\* writes details that are not there.  That is undefined: it answers, throws, or
\* the process ends.
Absent(r) ==
    /\ movieUp /\ at[r] = "ask"
    /\ \/ /\ at' = [at EXCEPT ![r] = "replied"]
          /\ reply' = [reply EXCEPT ![r] = "OK"]
          /\ absent' = absent \cup {r}
          /\ UNCHANGED movieUp
       \/ /\ at' = [at EXCEPT ![r] = "replied"]
          /\ reply' = [reply EXCEPT ![r] = "InternalError"]
          /\ UNCHANGED <<absent, movieUp>>
       \/ movieUp' = FALSE /\ UNCHANGED <<at, reply, absent>>
    /\ UNCHANGED <<registry, listed, repository, movie, rating, writer, notes>>

FindNoRating_AnyRegistry(r) == ~listed /\ Absent(r)
FindNoRating(r) == ~listed /\ registry = "memory" /\ Absent(r)

\* The rating service's handle_get, up to the copy and after it.
BeginGet(r) ==
    /\ ratingUp
    /\ Moves(r, "rating", "copying")
    /\ reading' = reading \cup {r}
    /\ Accesses(ReadTears(r))
    /\ UNCHANGED <<movie, reply, rating, absent>>

RatingAnswers(r) ==
    /\ Moves(r, "copying", "replied")
    /\ reply' = [reply EXCEPT ![r] = "OK"]
    /\ reading' = reading \ {r}
    /\ \E a \in (IF torn THEN SUBSET Writers ELSE {Copied(ratings[Decoded[movie[r]]])}) :
           /\ rating' = [rating EXCEPT ![r] = a]
           /\ settled' = IF torn THEN settled
                         ELSE [settled EXCEPT ![Decoded[movie[r]]] = @ \cup a]
    /\ UNCHANGED <<ratings, torn, ratingUp, movie, absent, acked, calm, floor, missed>>

Handle(r) ==
    \/ FindMetadata(r) \/ FindNoMetadata(r)
    \/ MetadataAnswers(r) \/ MetadataNotFound(r) \/ CallBreaks(r)
    \/ FindRating(r) \/ FindRatingThrows(r) \/ FindNoRating(r)
    \/ BeginGet(r) \/ RatingAnswers(r)

Next ==
    \/ \E r \in Requests : \/ Handle(r) \/ GetWithoutId(r) \/ EndCopy(r)
                            \/ \E m \in Movies : Get(r, m)
    \/ \E p \in Puts : FindForPut(p) \/ PutNotMade(p) \/ BeginPut(p)
    \/ \E e \in Events : Ingest(e)
    \/ \E w \in Writers : Written(w)
    \/ Crash \/ Restart \/ ListOrUnlist

Spec == Init /\ [][Next]_vars

\* Handlers are scheduled; a call returns, breaks or times out.
FairSpec == Spec /\ \A r \in Requests : WF_vars(Handle(r))

-----------------------------------------------------------------------------
\* The types of the state of the processes and of the requests; a handler that
\* is through has replied.
TypeOK ==
    /\ registry \in {"memory", "consul"}
    /\ listed \in BOOLEAN /\ movieUp \in BOOLEAN /\ ratingUp \in BOOLEAN /\ torn \in BOOLEAN
    /\ ratings \in [Movies -> Seq(Writers)] /\ reading \subseteq Requests
    /\ at \in [Requests -> {"idle", "find", "metadata", "ask", "rating", "copying",
                            "broken", "replied"}]
    /\ movie \in [Requests -> Movies \cup {None}]
    /\ reply \in [Requests -> {"none", "OK", "NotFound", "InternalError"}]
    /\ \A r \in Requests : reply[r] = "none" <=> at[r] # "replied"
    /\ rating \in [Requests -> SUBSET Writers] /\ absent \subseteq Requests
    /\ writer \in [Writers -> {"idle", "put", "writing", "done"}]
    /\ settled \in [Movies -> SUBSET Writers]
    /\ acked \subseteq Puts /\ calm \subseteq Requests /\ missed \subseteq Requests
    /\ floor \in [Requests -> [settled : SUBSET Writers, acked : SUBSET Puts]]

\* A request is answered OK only for an id that the metadata service reads as
\* that of a movie which it has, though the gateway looks at no status of a
\* response.  The movie may be another one than the client asked for: "m%2531"
\* is decoded to "m%31" by the movie service and to "m1" by the metadata service.
OKIsInCatalog ==
    \A r \in Requests : reply[r] = "OK" => Decoded[movie[r]] \in Catalog

\* The value of an absent MovieDetails is used only when the registry is in
\* memory and had no rating service at a moment of the request.
AbsentNeedsAbsence ==
    /\ \A r \in absent : registry = "memory" /\ r \in missed
    /\ ~movieUp => registry = "memory" /\ \E r \in missed : at[r] = "ask"

\* A Put that was answered OK is in the repository until the process crashes,
\* unless accesses overlapped.
AckedIsStored ==
    \A p \in acked : \E i \in DOMAIN ratings[Rated(p)] : ratings[Rated(p)][i] = p

\* The ratings that went into an answer go into every later answer for an id
\* that the rating service reads as that movie's, and so does a rating of the
\* key of a Put that was answered before.
AnsweredIsKept ==
    \A r \in calm :
        reply[r] = "OK" /\ r \notin absent =>
            /\ floor[r].settled \subseteq rating[r]
            /\ floor[r].acked # {} => rating[r] \cap Puts # {}

\* Every request is answered, whatever becomes of the services, unless the
\* movie service itself ends.
RequestsEnd ==
    \A r \in Requests : (at[r] = "find") ~> (at[r] = "replied" \/ ~movieUp)

=============================================================================
