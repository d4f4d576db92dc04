---------------------------- MODULE MovieDetails ----------------------------
(***************************************************************************)
(* GetMovieDetails end to end: a thread of the movie service looks up an   *)
(* instance of the metadata service and calls it, then does the same with  *)
(* the rating service, and answers.  Neither call has a deadline.          *)
(*                                                                         *)
(* The metadata service is modelled down to the transaction that its Get   *)
(* opens on the one connection of an instance, and to the results that the *)
(* connection has received: threads that use it at the same time may take  *)
(* each other's.  The registry is ServiceRegistry, which module Discovery  *)
(* implements; the rating service is RatingService, which RatingServer     *)
(* implements, seen from here through its answers to a Get.                *)
(***************************************************************************)
EXTENDS Integers

CONSTANTS Handlers,           \* gRPC threads of the movie service
          Movies,             \* movie ids
          Values,             \* ratings
          MetadataInstances,  \* processes of the metadata service
          RatingInstances,    \* processes of the rating service
          Shared,             \* those whose id was another one's too
          None                \* no movie, no instance, no answer

Instances == MetadataInstances \cup RatingInstances

ASSUME DetailsAssumption ==
    /\ Values \subseteq Int
    /\ MetadataInstances \cap RatingInstances = {}
    /\ Shared \subseteq Instances
    /\ None \notin Instances \cup Movies

VARIABLES status,     \* of an instance: "starting", "up", "hung" or "down"
          connected,  \* its connection to the database is usable
          listed,     \* instances that the registry lists as passing
          unread,     \* results on that connection that no handler has taken
          movies,     \* ids with a row in table movies
          ratings,    \* the rating values that table ratings has for an id
          pc,         \* where each handler is
          movie,      \* the id of its request
          target,     \* the instance it calls
          metadata,   \* the movie whose metadata it received
          answer,     \* the last answer of a handler
          excused,    \* it was given by a lookup that threw or a busy service
          steady,     \* the instance called has had no fault since it was found
          unlisted,   \* services to be found yet that have been without an instance
          crossed     \* its transaction met another one

services == <<status, connected, listed, unread>>
tables == <<movies, ratings>>
request == <<pc, movie, target, metadata>>
reply == <<answer, excused>>
notes == <<steady, unlisted, crossed>>
vars == <<services, tables, request, reply, notes>>

Services == {"metadata", "rating"}
NameOf == [i \in Instances |-> IF i \in MetadataInstances THEN "metadata" ELSE "rating"]
Running == {i \in Instances : status[i] # "down"}

\* The process has ended, or has registered and does not listen yet.
NotListening(i) == status[i] \in {"starting", "down"}

\* The result of a SELECT: who sent it, and the movie of its row, or None.
Results == [of : Handlers, row : Movies \cup {None}]

Registry == INSTANCE ServiceRegistry WITH
    Names <- Services, running <- Running, shared <- Shared, lookup <- "none"

\* What a lookup may answer.
ServiceAddress(name) == Registry!Answers(name)
NotListed(name) == Registry!Listed(name) = {}

\* NOT_FOUND and UNKNOWN answers carry no details.
Answers == [code : {"NOT_FOUND", "UNKNOWN"}]
           \cup [code : {"OK"}, metadata : Movies, rating : Values \cup {0}]
NotFound == [code |-> "NOT_FOUND"]
OKWith(h, value) == [code |-> "OK", metadata |-> metadata[h], rating |-> value]

Init ==
    /\ status = [i \in Instances |-> "down"]
    /\ connected = [i \in Instances |-> FALSE]
    /\ listed = {}
    /\ unread = [i \in Instances |-> {}]
    /\ movies \in SUBSET Movies
    /\ ratings = [m \in Movies |-> {}]
    /\ pc = [h \in Handlers |-> "idle"]
    /\ movie = [h \in Handlers |-> None]
    /\ target = [h \in Handlers |-> None]
    /\ metadata = [h \in Handlers |-> None]
    /\ answer = [h \in Handlers |-> None]
    /\ excused = [h \in Handlers |-> FALSE]
    /\ steady = [h \in Handlers |-> FALSE]
    /\ unlisted = [h \in Handlers |-> {}]
    /\ crossed = [h \in Handlers |-> FALSE]

-----------------------------------------------------------------------------
(* The handler of the movie service.                                       *)

\* A request with an id.  One without is answered INVALID_ARGUMENT at once,
\* and is left out.
GetMovieDetails(h, m) ==
    /\ pc[h] = "idle"
    /\ pc' = [pc EXCEPT ![h] = "findMetadata"]
    /\ movie' = [movie EXCEPT ![h] = m]
    /\ answer' = [answer EXCEPT ![h] = None]
    /\ excused' = [excused EXCEPT ![h] = FALSE]
    /\ unlisted' = [unlisted EXCEPT ![h] = {n \in Services : NotListed(n)}]
    /\ UNCHANGED <<services, tables, target, metadata, steady, crossed>>

\* The answer, with which the request and what was noted of it are over.
Ends(h, a, excuse) ==
    /\ pc' = [pc EXCEPT ![h] = "idle"]
    /\ movie' = [movie EXCEPT ![h] = None]
    /\ target' = [target EXCEPT ![h] = None]
    /\ metadata' = [metadata EXCEPT ![h] = None]
    /\ answer' = [answer EXCEPT ![h] = a]
    /\ excused' = [excused EXCEPT ![h] = excuse]
    /\ steady' = [steady EXCEPT ![h] = FALSE]
    /\ unlisted' = [unlisted EXCEPT ![h] = {}]

Replies(h, a) ==
    /\ Ends(h, a, FALSE)
    /\ crossed' = [crossed EXCEPT ![h] = FALSE]

RepliesExcused(h, a) ==
    /\ Ends(h, a, TRUE)
    /\ crossed' = [crossed EXCEPT ![h] = FALSE]

\* ServiceConnection makes a channel to one of the addresses.
Connects(h, name) ==
    /\ \E a \in ServiceAddress(name) : \E i \in a.addresses :
           /\ target' = [target EXCEPT ![h] = i]
           /\ steady' = [steady EXCEPT ![h] = ~NotListening(i) /\ connected[i]]
    /\ unlisted' = [unlisted EXCEPT ![h] = @ \ {name}]
    /\ UNCHANGED <<services, tables, movie, metadata, reply, crossed>>

FindMetadata(h) ==
    /\ pc[h] = "findMetadata"
    /\ pc' = [pc EXCEPT ![h] = "callMetadata"]
    /\ Connects(h, "metadata")

\* The error of the lookup passes through and_then and map: "not found".
FindNoMetadata(h) ==
    /\ pc[h] = "findMetadata"
    /\ Registry!Unexpected \in ServiceAddress("metadata")
    /\ Replies(h, NotFound)
    /\ UNCHANGED <<services, tables>>

FindRating(h) ==
    /\ pc[h] = "findRating"
    /\ pc' = [pc EXCEPT ![h] = "callRating"]
    /\ Connects(h, "rating")

\* The gateway replaces the error of the lookup by the rating 0.
FindNoRating(h) ==
    /\ pc[h] = "findRating"
    /\ Registry!Unexpected \in ServiceAddress("rating")
    /\ Replies(h, OKWith(h, 0))
    /\ UNCHANGED <<services, tables>>

\* ServiceAddress throws, or fails as the agent does, and nothing catches that
\* before the gRPC library.
LookupThrows(h) ==
    /\ \/ pc[h] = "findMetadata" /\ Registry!Fails \in ServiceAddress("metadata")
       \/ pc[h] = "findRating" /\ Registry!Fails \in ServiceAddress("rating")
    /\ RepliesExcused(h, [code |-> "UNKNOWN"])
    /\ UNCHANGED <<services, tables>>

\* A call to an instance that does not listen fails, and one whose instance
\* has ended in the middle of it.
CallBreaks_WaitsForReady(h) ==
    /\ pc[h] = "broken"
    /\ Replies(h, NotFound)
    /\ UNCHANGED <<services, tables>>
CallBreaks(h) ==
    /\ \/ pc[h] = "broken"
       \/ pc[h] \in {"callMetadata", "callRating"} /\ NotListening(target[h])
    /\ Replies(h, NotFound)
    /\ UNCHANGED <<services, tables>>

-----------------------------------------------------------------------------
(* GetMetadata at an instance of the metadata service.                     *)

\* The metadata service is in the middle of the call of h.
InCall(h) == pc[h] \in {"queryMetadata", "readMetadata"}

\* Other handlers whose call has a transaction on the connection of h's target.
InTransaction(h) == {s \in Handlers \ {h} : InCall(s) /\ target[s] = target[h]}

\* PQexec first reads away the results of earlier commands, all of them when
\* no other thread uses the connection.  What it leaves when one does is open.
Left_Everything(h) == {unread[target[h]]}
Left(h) == IF InTransaction(h) = {} THEN {{}} ELSE SUBSET unread[target[h]]

\* h sends a command, by which the connection holds the results S.
Executes(h, S) == unread' = [unread EXCEPT ![target[h]] = S]

\* BEGIN of h, in the middle of the transactions of others or alone.
Crosses(h, own) ==
    crossed' = [s \in Handlers |-> IF s = h THEN own ELSE crossed[s] \/ s \in InTransaction(h)]

\* The constructor of pqxx::work, alone or racing with another one.
BeginTransaction(h) ==
    /\ pc[h] = "callMetadata"
    /\ status[target[h]] = "up"
    /\ connected[target[h]]
    /\ pc' = [pc EXCEPT ![h] = "queryMetadata"]
    /\ Crosses(h, InTransaction(h) # {})
    /\ \E S \in Left(h) : Executes(h, S)
    /\ UNCHANGED <<status, connected, listed, tables, movie, target, metadata, reply,
                   steady, unlisted>>

\* It throws outside the try block, because another transaction is open or the
\* connection is broken.  The metadata service answers UNKNOWN.
BeginRefused(h) ==
    /\ pc[h] = "callMetadata"
    /\ status[target[h]] = "up"
    /\ \/ InTransaction(h) # {} /\ RepliesExcused(h, NotFound)
       \/ ~connected[target[h]] /\ Replies(h, NotFound)
    /\ UNCHANGED <<services, tables>>

\* It races with another one, and BEGIN fails.
BeginFails(h) ==
    /\ pc[h] = "callMetadata"
    /\ status[target[h]] = "up"
    /\ InTransaction(h) # {}
    /\ Ends(h, NotFound, TRUE)
    /\ Crosses(h, FALSE)
    /\ \E S \in Left(h) : Executes(h, S)
    /\ UNCHANGED <<status, connected, listed, tables>>

\* The SELECT of the row of the id is sent, and its result comes in.
SendSelect(h) ==
    /\ pc[h] = "queryMetadata"
    /\ status[target[h]] = "up"
    /\ connected[target[h]]
    /\ pc' = [pc EXCEPT ![h] = "readMetadata"]
    /\ \E S \in Left(h) :
           Executes(h, S \cup {[of |-> h, row |-> IF movie[h] \in movies
                                                 THEN movie[h] ELSE None]})
    /\ UNCHANGED <<status, connected, listed, tables, movie, target, metadata, reply, notes>>

\* h takes a result from the connection; the transaction ends by ROLLBACK.
Takes(h, result) ==
    /\ result \in unread[target[h]]
    /\ \E S \in Left(h) : Executes(h, S \ {result})

\* The row has title, description and director, which say whose metadata it
\* is.  Get does not fill in the id field of the message.
SelectMetadata(h) ==
    /\ pc[h] = "readMetadata"
    /\ status[target[h]] = "up"
    /\ connected[target[h]]
    /\ pc' = [pc EXCEPT ![h] = "findRating"]
    /\ \E result \in unread[target[h]] :
           /\ result.row # None
           /\ Takes(h, result)
           /\ metadata' = [metadata EXCEPT ![h] = result.row]
    /\ target' = [target EXCEPT ![h] = None]
    /\ steady' = [steady EXCEPT ![h] = FALSE]
    /\ UNCHANGED <<status, connected, listed, tables, movie, reply, unlisted, crossed>>

\* The result that h takes has no row.
SelectNothing_OneIsNone(h) ==
    /\ pc[h] = "readMetadata"
    /\ status[target[h]] = "up"
    /\ connected[target[h]]
    /\ \E result \in unread[target[h]] : Takes(h, result)
    /\ Replies(h, NotFound)
    /\ UNCHANGED <<status, connected, listed, tables>>
SelectNothing(h) ==
    /\ pc[h] = "readMetadata"
    /\ status[target[h]] = "up"
    /\ connected[target[h]]
    /\ \E result \in unread[target[h]] : result.row = None /\ Takes(h, result)
    /\ Replies(h, NotFound)
    /\ UNCHANGED <<status, connected, listed, tables>>

\* The statement fails: the connection is broken, or another transaction has
\* met this one, and may have taken its result.
SelectFails(h) ==
    /\ InCall(h)
    /\ status[target[h]] = "up"
    /\ ~connected[target[h]] \/ crossed[h]
    /\ Replies(h, NotFound)
    /\ \E S \in Left(h) : Executes(h, S)
    /\ UNCHANGED <<status, connected, listed, tables>>

-----------------------------------------------------------------------------
(* GetAggregatedRating at an instance of the rating service: the answers   *)
(* that RatingService allows to a Get.                                     *)

\* The answer is one of the ratings of the movie.
RatingAnswers(h) ==
    /\ pc[h] = "callRating"
    /\ status[target[h]] = "up"
    /\ connected[target[h]]
    /\ \E v \in ratings[movie[h]] : Replies(h, OKWith(h, v))
    /\ UNCHANGED <<services, tables>>

\* The Get has met a Put of the movie in its transaction, and read a rating
\* that is not durable yet and may never be.
RatingUnstored(h) ==
    /\ pc[h] = "callRating"
    /\ status[target[h]] = "up"
    /\ connected[target[h]]
    /\ \E v \in Values : RepliesExcused(h, OKWith(h, v))
    /\ UNCHANGED <<services, tables>>

\* The movie has no rating, or the connection is broken: the error of the
\* call is the value of map, which value_or does not replace.
RatingNotFound(h) ==
    /\ pc[h] = "callRating"
    /\ status[target[h]] = "up"
    /\ ~connected[target[h]] \/ ratings[movie[h]] = {}
    /\ Replies(h, NotFound)
    /\ UNCHANGED <<services, tables>>

\* The instance refuses the call or fails in it, because of other calls or
\* of the events that it stores.
RatingBusy(h) ==
    /\ pc[h] = "callRating"
    /\ status[target[h]] = "up"
    /\ RepliesExcused(h, NotFound)
    /\ UNCHANGED <<services, tables>>

-----------------------------------------------------------------------------
(* The instances, the registry and the tables.                             *)

\* i is not to be relied on by the requests under way.
Fault(i) == steady' = [h \in Handlers |-> steady[h] /\ target[h] # i]

\* The services that the request of h has not looked up yet.
ToFind(h) == {n \in Services : \/ pc[h] = "findMetadata"
                               \/ n = "rating" /\ pc[h] \notin {"idle", "callRating"}}

\* Services that have no listed instance any more.
Unlisted == unlisted' = [h \in Handlers |-> unlisted[h] \cup {n \in ToFind(h) : NotListed(n)'}]

\* The process of an instance ends: a rating instance also when a build with
\* assertions is asked for a movie without ratings.
Crash(i) ==
    /\ status' = [status EXCEPT ![i] = "down"]
    /\ connected' = [connected EXCEPT ![i] = FALSE]
    /\ unread' = [unread EXCEPT ![i] = {}]
    /\ pc' = [h \in Handlers |-> IF InCall(h) /\ target[h] = i THEN "broken" ELSE pc[h]]
    /\ Registry!End(i)
    /\ Fault(i)
    /\ UNCHANGED <<tables, movie, target, metadata, reply, unlisted, crossed>>

\* A process connects and registers, before its server listens.
Restart(i) ==
    /\ status' = [status EXCEPT ![i] = "starting"]
    /\ connected' = [connected EXCEPT ![i] = TRUE]
    /\ Registry!Start(i)
    /\ Unlisted
    /\ UNCHANGED <<unread, tables, request, reply, steady, crossed>>

Listen(i) ==
    /\ status[i] = "starting"
    /\ status' = [status EXCEPT ![i] = "up"]
    /\ UNCHANGED <<connected, listed, unread, tables, request, reply, notes>>

\* Neither answers nor breaks connections: the host or its database is cut off.
Hang(i) ==
    /\ status[i] = "up"
    /\ status' = [status EXCEPT ![i] = "hung"]
    /\ UNCHANGED <<connected, listed, unread, tables, request, reply, notes>>

Resume(i) ==
    /\ status[i] = "hung"
    /\ status' = [status EXCEPT ![i] = "up"]
    /\ UNCHANGED <<connected, listed, unread, tables, request, reply, notes>>

\* The repository opens its connection once, in its constructor.  Nobody
\* notices that it is lost before the instance answers calls.
LoseDatabase(i) ==
    /\ status[i] = "up"
    /\ connected[i]
    /\ connected' = [connected EXCEPT ![i] = FALSE]
    /\ unread' = [unread EXCEPT ![i] = {}]
    /\ Fault(i)
    /\ UNCHANGED <<status, listed, tables, request, reply, unlisted, crossed>>

\* An instance reports its health, whether or not it can answer.
List(i) ==
    /\ UNCHANGED <<status, connected, unread, tables, request, reply, notes>>
    /\ Registry!List(i)

\* Checks expire, or the agent forgets.
Unlist(S) ==
    /\ UNCHANGED <<status, connected, unread, tables, request, reply, steady, crossed>>
    /\ Registry!Unlist(S)
    /\ Unlisted

\* Ratings come from the rating service, which never removes one.  The rows of
\* movies are there since the database was set up: PutMetadata stores nothing.
Rate(m, v) ==
    /\ v \notin ratings[m]
    /\ ratings' = [ratings EXCEPT ![m] = @ \cup {v}]
    /\ UNCHANGED <<services, movies, request, reply, notes>>

-----------------------------------------------------------------------------
\* A step of the thread of h once it has a request.
Handle(h) ==
    \/ FindMetadata(h)
    \/ FindNoMetadata(h)
    \/ FindRating(h)
    \/ FindNoRating(h)
    \/ LookupThrows(h)
    \/ CallBreaks(h)
    \/ BeginTransaction(h)
    \/ BeginRefused(h)
    \/ BeginFails(h)
    \/ SendSelect(h)
    \/ SelectMetadata(h)
    \/ SelectNothing(h)
    \/ SelectFails(h)
    \/ RatingAnswers(h)
    \/ RatingUnstored(h)
    \/ RatingNotFound(h)
    \/ RatingBusy(h)

Next ==
    \/ \E h \in Handlers : Handle(h) \/ \E m \in Movies : GetMovieDetails(h, m)
    \/ \E i \in Instances : \/ Crash(i)
                            \/ Restart(i)
                            \/ Listen(i)
                            \/ Hang(i)
                            \/ Resume(i)
                            \/ LoseDatabase(i)
                            \/ List(i)
    \/ \E S \in SUBSET listed : Unlist(S)
    \/ \E m \in Movies, v \in Values : Rate(m, v)

Spec == Init /\ [][Next]_vars

-----------------------------------------------------------------------------
\* The types of the services', the tables' and the requests' state.
TypeOK ==
    /\ status \in [Instances -> {"starting", "up", "hung", "down"}]
    /\ connected \in [Instances -> BOOLEAN]
    /\ listed \subseteq Instances
    /\ unread \in [Instances -> SUBSET Results]
    /\ movies \subseteq Movies
    /\ ratings \in [Movies -> SUBSET Values]
    /\ pc \in [Handlers -> {"idle", "findMetadata", "callMetadata", "queryMetadata",
                            "readMetadata", "broken", "findRating", "callRating"}]
    /\ movie \in [Handlers -> Movies \cup {None}]
    /\ target \in [Handlers -> Instances \cup {None}]
    /\ metadata \in [Handlers -> Movies \cup {None}]
    /\ answer \in [Handlers -> Answers \cup {None}]
    /\ excused \in [Handlers -> BOOLEAN]
    /\ steady \in [Handlers -> BOOLEAN]
    /\ unlisted \in [Handlers -> SUBSET Services]
    /\ crossed \in [Handlers -> BOOLEAN]

\* A step that answers the request of h.
Answered(h) == pc[h] # "idle" /\ pc'[h] = "idle"

\* Details are those of a movie with metadata: of the movie that was asked
\* for, unless the transaction met another one at the metadata service, for
\* whatever transactions have met before left no result behind.  The rating is
\* one that is stored for the movie; or 0, which stands for a rating only if
\* the rating service was without a listed instance at some moment of the
\* request; or one that was read in a transaction with another call.
DetailsOfTheMovie(h) ==
    Answered(h) /\ answer'[h].code = "OK" =>
        /\ answer'[h].metadata \in movies
        /\ answer'[h].metadata = movie[h] \/ crossed[h]
        /\ \/ answer'[h].rating \in ratings[movie[h]]
           \/ answer'[h].rating = 0 /\ "rating" \in unlisted[h]
           \/ answer'[h].rating \in Values /\ excused'[h]

DetailsAreOfTheMovie == [][\A h \in Handlers : DetailsOfTheMovie(h)]_vars

\* The request met no fault: both services were listed throughout, the
\* instance that it calls has not failed since it was found, and its
\* transaction met no other one.
Undisturbed(h) ==
    /\ unlisted[h] = {}
    /\ target[h] = None \/ steady[h]
    /\ ~crossed[h]

\* Such a request for a movie with metadata and, by the time of the answer,
\* ratings is answered with both, unless the lookup throws or a service is busy
\* with other calls.
AnsweredIfUndisturbed(h) ==
    /\ Answered(h) /\ Undisturbed(h)
    /\ movie[h] \in movies /\ ratings[movie[h]] # {}
    => answer'[h].code = "OK" \/ excused'[h]

UndisturbedIsAnswered == [][\A h \in Handlers : AnsweredIfUndisturbed(h)]_vars

\* The instance that h has called hangs.
HeldUp(h) ==
    /\ pc[h] \in {"callMetadata", "queryMetadata", "readMetadata", "callRating"}
    /\ status[target[h]] = "hung"

\* A request can always go on, except while the instance that it called hangs:
\* neither other requests nor dead or unlisted instances hold it up.  That a
\* result taken by another request is waited for is left out: SelectFails.
OnlyHungHoldsUp ==
    \A h \in Handlers : pc[h] # "idle" /\ ~HeldUp(h) => ENABLED Handle(h)

=============================================================================
