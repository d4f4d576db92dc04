------------------------- MODULE MovieDetailsProofs -------------------------
(***************************************************************************)
(* Proofs about MovieDetails: for any number of requests and of instances, *)
(* the details that are answered belong to the movie that was asked for,   *)
(* a request that meets no fault is answered with them, and every request  *)
(* ends unless an instance hangs.                                          *)
(***************************************************************************)
EXTENDS MovieDetails, TLAPS

\* The result of the SELECT that h sends.
Own(h) == [of |-> h, row |-> IF movie[h] \in movies THEN movie[h] ELSE None]

\* A request that calls has an instance that it calls, which runs while it is
\* in the middle of the call.
CallsAnInstance ==
    \A h \in Handlers :
        /\ pc[h] \in {"callMetadata", "queryMetadata", "readMetadata", "broken", "callRating"}
                => target[h] \in Instances
        /\ InCall(h) => ~NotListening(target[h])

\* A request under way has noticed every service without a listed instance
\* that it has not found yet.
UnlistedIsNoticed ==
    \A h \in Handlers : \A n \in ToFind(h) : NotListed(n) => n \in unlisted[h]

\* The instance of a request without a fault can serve it.
SteadyIsUp ==
    \A h \in Handlers : steady[h] =>
        /\ target[h] \in Instances
        /\ ~NotListening(target[h]) /\ connected[target[h]]
        /\ pc[h] # "broken"

\* Transactions on one connection have met.
OverlapsAreNoted ==
    \A h \in Handlers : InCall(h) /\ ~crossed[h] => InTransaction(h) = {}

\* The rows on the connections are of table movies.
UnreadIsStored ==
    \A i \in Instances : \A result \in unread[i] : result.row \in movies \cup {None}

\* A transaction that has met no other finds its own result on the connection
\* and nothing else, whatever transactions before it left there.
AloneReadsItsOwn ==
    \A h \in Handlers :
        pc[h] = "readMetadata" /\ ~crossed[h] /\ connected[target[h]] =>
            unread[target[h]] = {Own(h)}

\* Once received, the metadata is of the movie of the request, or of another
\* one if the transaction met another.
ReceivedIsOfTheMovie ==
    \A h \in Handlers : pc[h] \in {"findRating", "callRating"} =>
        /\ metadata[h] \in movies
        /\ metadata[h] = movie[h] \/ crossed[h]

\* A request is for a movie.
AsksForAMovie == \A h \in Handlers : pc[h] # "idle" => movie[h] \in Movies

DetailsInv ==
    /\ TypeOK
    /\ CallsAnInstance
    /\ UnlistedIsNoticed
    /\ SteadyIsUp
    /\ OverlapsAreNoted
    /\ UnreadIsStored
    /\ AloneReadsItsOwn
    /\ ReceivedIsOfTheMovie
    /\ AsksForAMovie

LEMMA InitInv == Init => DetailsInv
<1> SUFFICES ASSUME Init PROVE DetailsInv
  OBVIOUS
<1>1. TypeOK
  BY DEF Init, TypeOK
<1>2. CallsAnInstance /\ OverlapsAreNoted /\ AloneReadsItsOwn /\ ReceivedIsOfTheMovie
  BY DEF Init, InCall, CallsAnInstance, OverlapsAreNoted, AloneReadsItsOwn,
         ReceivedIsOfTheMovie
<1>3. UnlistedIsNoticed /\ SteadyIsUp /\ UnreadIsStored /\ AsksForAMovie
  BY DEF Init, ToFind, UnlistedIsNoticed, SteadyIsUp, UnreadIsStored, AsksForAMovie
<1> QED
  BY <1>1, <1>2, <1>3 DEF DetailsInv

-----------------------------------------------------------------------------
(* The steps of a handler.                                                 *)

\* What the registry answers: addresses, unless the name has no listed instance.
LEMMA WhatIsFound ==
    ASSUME TypeOK, NEW name \in Services, NEW a \in ServiceAddress(name)
    PROVE  /\ a.addresses \subseteq Instances
           /\ a = Registry!Unexpected => NotListed(name)
<1>1. a.addresses \subseteq Instances
  BY DEF ServiceAddress, Registry!Answers, Registry!Found, Registry!Of, Registry!Unexpected,
         Registry!Throws, Registry!Fails, Registry!Addresses
<1>2. /\ Registry!Unexpected # Registry!Fails
      /\ Registry!Unexpected # Registry!Throws
      /\ \A S : Registry!Unexpected # Registry!Addresses(S)
  BY DEF Registry!Unexpected, Registry!Fails, Registry!Throws, Registry!Addresses
<1>3. a = Registry!Unexpected => NotListed(name)
  BY <1>2 DEF ServiceAddress, Registry!Answers, NotListed
<1> QED
  BY <1>1, <1>3

\* The channel is to an instance.
LEMMA ConnectsToInstance ==
    ASSUME TypeOK, NEW h \in Handlers, NEW name \in Services, Connects(h, name)
    PROVE  \E i \in Instances :
               /\ target' = [target EXCEPT ![h] = i]
               /\ steady' = [steady EXCEPT ![h] = ~NotListening(i) /\ connected[i]]
<1>1. PICK a \in ServiceAddress(name) : \E i \in a.addresses :
          /\ target' = [target EXCEPT ![h] = i]
          /\ steady' = [steady EXCEPT ![h] = ~NotListening(i) /\ connected[i]]
  BY DEF Connects
<1>2. a.addresses \subseteq Instances
  BY WhatIsFound
<1> QED
  BY <1>1, <1>2

\* The kinds of steps that a handler takes: to find an instance, to begin, to
\* send, to receive, to answer without another look at the connection, and to
\* answer after it.
LEMMA StepsOfHandle ==
    ASSUME NEW h \in Handlers, Handle(h)
    PROVE  \/ FindMetadata(h) \/ FindRating(h)
           \/ BeginTransaction(h) \/ SendSelect(h) \/ SelectMetadata(h)
           \/ /\ \E a : Replies(h, a) \/ RepliesExcused(h, a)
              /\ pc[h] # "idle"
              /\ UNCHANGED <<services, tables>>
           \/ BeginFails(h) \/ SelectNothing(h) \/ SelectFails(h)
<1>1. CASE FindNoMetadata(h) \/ FindNoRating(h) \/ LookupThrows(h) \/ CallBreaks(h)
  BY <1>1 DEF FindNoMetadata, FindNoRating, LookupThrows, CallBreaks
<1>2. CASE BeginRefused(h)
  BY <1>2 DEF BeginRefused
<1>3. CASE RatingAnswers(h) \/ RatingUnstored(h) \/ RatingNotFound(h) \/ RatingBusy(h)
  BY <1>3 DEF RatingAnswers, RatingUnstored, RatingNotFound, RatingBusy
<1> QED
  BY <1>1, <1>2, <1>3 DEF Handle

\* A step of h leaves the instances, the tables and the requests of other
\* handlers as they are; it may only meet their transactions.
LeavesOthers(h) ==
    /\ UNCHANGED <<status, connected, listed, tables>>
    /\ pc[h] # "idle"
    /\ pc'[h] = "idle" \/ movie'[h] = movie[h]
    /\ \A s \in Handlers \ {h} :
           /\ pc'[s] = pc[s] /\ movie'[s] = movie[s] /\ target'[s] = target[s]
           /\ metadata'[s] = metadata[s] /\ steady'[s] = steady[s]
           /\ unlisted'[s] = unlisted[s]
           /\ crossed[s] => crossed'[s]

LEMMA HandleFrame ==
    ASSUME TypeOK, NEW h \in Handlers, Handle(h)
    PROVE  LeavesOthers(h)
<1> USE DEF LeavesOthers, TypeOK, services
<1>1. CASE FindMetadata(h) \/ FindRating(h)
  <2>1. PICK name \in Services : Connects(h, name)
    BY <1>1 DEF FindMetadata, FindRating, Services
  <2>2. PICK i \in Instances :
            /\ target' = [target EXCEPT ![h] = i]
            /\ steady' = [steady EXCEPT ![h] = ~NotListening(i) /\ connected[i]]
    BY <2>1, ConnectsToInstance
  <2> QED
    BY <1>1, <2>1, <2>2 DEF FindMetadata, FindRating, Connects
<1>2. CASE BeginTransaction(h)
  BY <1>2 DEF BeginTransaction, Crosses
<1>3. CASE SendSelect(h)
  BY <1>3 DEF SendSelect, notes
<1>4. CASE SelectMetadata(h)
  BY <1>4 DEF SelectMetadata
<1>5. ASSUME NEW a, Replies(h, a) \/ RepliesExcused(h, a), pc[h] # "idle",
             UNCHANGED <<status, connected, listed, tables>>
      PROVE  LeavesOthers(h)
  <2>1. PICK e : Ends(h, a, e) /\ crossed' = [crossed EXCEPT ![h] = FALSE]
    BY <1>5 DEF Replies, RepliesExcused
  <2> QED
    BY <1>5, <2>1 DEF Ends
<1>6. CASE BeginFails(h)
  BY <1>6 DEF BeginFails, Ends, Crosses
<1>7. CASE SelectNothing(h) \/ SelectFails(h)
  BY <1>5, <1>7 DEF SelectNothing, SelectFails, InCall
<1> QED
  BY <1>1, <1>2, <1>3, <1>4, <1>5, <1>6, <1>7, StepsOfHandle

\* The end of a request keeps the types of everything but the connections.
EndsTyped(h) ==
    /\ pc' = [pc EXCEPT ![h] = "idle"]
    /\ movie' \in [Handlers -> Movies \cup {None}]
    /\ target' \in [Handlers -> Instances \cup {None}]
    /\ metadata' \in [Handlers -> Movies \cup {None}]
    /\ answer' \in [Handlers -> Answers \cup {None}]
    /\ excused' \in [Handlers -> BOOLEAN]
    /\ steady' \in [Handlers -> BOOLEAN]
    /\ unlisted' \in [Handlers -> SUBSET Services]

LEMMA EndsKeepsTypes ==
    ASSUME TypeOK, NEW h \in Handlers, NEW a \in Answers, NEW e \in BOOLEAN, Ends(h, a, e)
    PROVE  EndsTyped(h)
BY DEF TypeOK, Ends, EndsTyped

\* What a command leaves on the connection are results.
LEMMA LeftAreResults ==
    ASSUME TypeOK, CallsAnInstance, NEW h \in Handlers,
           pc[h] \in {"callMetadata", "queryMetadata", "readMetadata"}
    PROVE  Left(h) \subseteq SUBSET Results
BY DEF TypeOK, CallsAnInstance, Left

\* A command keeps results on the connection, and adds or takes some.
LEMMA ExecutesTyped ==
    ASSUME TypeOK, NEW h \in Handlers, NEW S \in SUBSET Results, Executes(h, S)
    PROVE  unread' \in [Instances -> SUBSET Results]
BY DEF TypeOK, Executes

LEMMA TypeHandle ==
    ASSUME DetailsInv, NEW h \in Handlers, Handle(h)
    PROVE  TypeOK'
<1> USE DEF DetailsInv, TypeOK, services, tables
<1>1. CASE FindMetadata(h) \/ FindRating(h)
  <2>1. PICK name \in Services : Connects(h, name)
    BY <1>1 DEF FindMetadata, FindRating, Services
  <2>2. PICK i \in Instances :
            /\ target' = [target EXCEPT ![h] = i]
            /\ steady' = [steady EXCEPT ![h] = ~NotListening(i) /\ connected[i]]
    BY <2>1, ConnectsToInstance
  <2>3. steady' \in [Handlers -> BOOLEAN]
    BY <2>2
  <2> QED
    BY <1>1, <2>1, <2>2, <2>3 DEF FindMetadata, FindRating, Connects, reply
<1>2. CASE BeginTransaction(h)
  <2>1. unread' \in [Instances -> SUBSET Results]
    <3>1. PICK S \in Left(h) : Executes(h, S)
      BY <1>2 DEF BeginTransaction
    <3> QED
      BY <1>2, <3>1, LeftAreResults, ExecutesTyped DEF BeginTransaction
  <2>2. crossed' \in [Handlers -> BOOLEAN]
    BY <1>2 DEF BeginTransaction, Crosses
  <2> QED
    BY <1>2, <2>1, <2>2 DEF BeginTransaction, reply
<1>3. CASE SendSelect(h)
  <2>1. [of |-> h, row |-> IF movie[h] \in movies THEN movie[h] ELSE None] \in Results
    BY DEF Results
  <2>2. unread' \in [Instances -> SUBSET Results]
    <3>1. PICK S \in Left(h) :
              Executes(h, S \cup {[of |-> h, row |-> IF movie[h] \in movies
                                                    THEN movie[h] ELSE None]})
      BY <1>3 DEF SendSelect
    <3>2. S \in SUBSET Results
      BY <1>3, LeftAreResults DEF SendSelect
    <3> QED
      BY <2>1, <3>1, <3>2, ExecutesTyped
  <2> QED
    BY <1>3, <2>2 DEF SendSelect, reply, notes
<1>4. CASE SelectMetadata(h)
  <2>1. PICK result \in unread[target[h]] :
            /\ result.row # None
            /\ Takes(h, result)
            /\ metadata' = [metadata EXCEPT ![h] = result.row]
    BY <1>4 DEF SelectMetadata
  <2>2. target[h] \in Instances
    BY <1>4 DEF SelectMetadata, CallsAnInstance
  <2>3. metadata' \in [Handlers -> Movies \cup {None}]
    BY <2>1, <2>2 DEF Results
  <2>4. unread' \in [Instances -> SUBSET Results]
    <3>1. PICK S \in Left(h) : Executes(h, S \ {result})
      BY <2>1 DEF Takes
    <3> QED
      BY <1>4, <3>1, LeftAreResults, ExecutesTyped DEF SelectMetadata
  <2> QED
    BY <1>4, <2>3, <2>4 DEF SelectMetadata, reply
<1>5. NotFound \in Answers /\ [code |-> "UNKNOWN"] \in Answers
  BY DEF NotFound, Answers
<1>6. ASSUME NEW v \in Values \cup {0}, pc[h] \in {"findRating", "callRating"}
      PROVE  OKWith(h, v) \in Answers
  BY <1>6 DEF OKWith, Answers, ReceivedIsOfTheMovie
<1>7. ASSUME NEW a \in Answers, Replies(h, a) \/ RepliesExcused(h, a),
             UNCHANGED <<status, connected, listed, tables>>,
             unread' \in [Instances -> SUBSET Results]
      PROVE  TypeOK'
  <2>1. PICK e \in BOOLEAN : Ends(h, a, e) /\ crossed' = [crossed EXCEPT ![h] = FALSE]
    BY <1>7 DEF Replies, RepliesExcused
  <2>2. EndsTyped(h)
    BY <2>1, EndsKeepsTypes
  <2> QED
    BY <1>7, <2>1, <2>2 DEF EndsTyped
<1>8. CASE FindNoMetadata(h) \/ FindNoRating(h) \/ LookupThrows(h) \/ CallBreaks(h)
  <2>1. PICK a \in Answers : Replies(h, a) \/ RepliesExcused(h, a)
    BY <1>5, <1>6, <1>8 DEF FindNoMetadata, FindNoRating, LookupThrows, CallBreaks
  <2> QED
    BY <1>7, <1>8, <2>1 DEF FindNoMetadata, FindNoRating, LookupThrows, CallBreaks
<1>9. CASE BeginRefused(h)
  BY <1>5, <1>7, <1>9 DEF BeginRefused
<1>10. CASE RatingAnswers(h)
  <2>1. PICK v \in ratings[movie[h]] : Replies(h, OKWith(h, v))
    BY <1>10 DEF RatingAnswers
  <2>2. movie[h] \in Movies
    BY <1>10 DEF RatingAnswers, AsksForAMovie
  <2>3. v \in Values
    BY <2>1, <2>2
  <2> QED
    BY <1>6, <1>7, <1>10, <2>1, <2>3 DEF RatingAnswers
<1>11. CASE RatingUnstored(h)
  BY <1>6, <1>7, <1>11 DEF RatingUnstored
<1>12. CASE RatingNotFound(h) \/ RatingBusy(h)
  BY <1>5, <1>7, <1>12 DEF RatingNotFound, RatingBusy
<1>13. CASE BeginFails(h)
  <2>1. EndsTyped(h)
    BY <1>5, <1>13, EndsKeepsTypes DEF BeginFails
  <2>2. unread' \in [Instances -> SUBSET Results]
    <3>1. PICK S \in Left(h) : Executes(h, S)
      BY <1>13 DEF BeginFails
    <3> QED
      BY <1>13, <3>1, LeftAreResults, ExecutesTyped DEF BeginFails
  <2>3. crossed' \in [Handlers -> BOOLEAN]
    BY <1>13 DEF BeginFails, Crosses
  <2> QED
    BY <1>13, <2>1, <2>2, <2>3 DEF BeginFails, EndsTyped
<1>14. CASE SelectNothing(h) \/ SelectFails(h)
  <2>1. unread' \in [Instances -> SUBSET Results]
    BY <1>14, LeftAreResults DEF SelectNothing, SelectFails, InCall, Takes, Executes
  <2> QED
    BY <1>5, <1>7, <1>14, <2>1 DEF SelectNothing, SelectFails
<1> QED
  BY <1>1, <1>2, <1>3, <1>4, <1>8, <1>9, <1>10, <1>11, <1>12, <1>13, <1>14 DEF Handle

\* A handler goes on from stage to stage, or ends its request.
LEMMA HandleGoesAhead ==
    ASSUME TypeOK, NEW h \in Handlers, Handle(h)
    PROVE  /\ pc[h] # "idle"
           /\ pc[h] = "findMetadata"  => pc'[h] \in {"callMetadata", "idle"}
           /\ pc[h] = "callMetadata"  => pc'[h] \in {"queryMetadata", "idle"}
           /\ pc[h] = "queryMetadata" => pc'[h] \in {"readMetadata", "idle"}
           /\ pc[h] = "readMetadata"  => pc'[h] \in {"findRating", "idle"}
           /\ pc[h] = "broken"        => pc'[h] = "idle"
           /\ pc[h] = "findRating"    => pc'[h] \in {"callRating", "idle"}
           /\ pc[h] = "callRating"    => pc'[h] = "idle"
<1> USE DEF TypeOK
<1>1. CASE FindMetadata(h) \/ FindRating(h)
  BY <1>1 DEF FindMetadata, FindRating
<1>2. CASE BeginTransaction(h) \/ SendSelect(h) \/ SelectMetadata(h)
  BY <1>2 DEF BeginTransaction, SendSelect, SelectMetadata
<1>3. ASSUME pc[h] # "idle", NEW a, Replies(h, a) \/ RepliesExcused(h, a)
      PROVE pc[h] # "idle" /\ pc'[h] = "idle"
  BY <1>3 DEF Replies, RepliesExcused, Ends
<1>4. CASE BeginFails(h)
  BY <1>4 DEF BeginFails, Ends
<1>5. CASE SelectNothing(h) \/ SelectFails(h)
  BY <1>3, <1>5 DEF SelectNothing, SelectFails, InCall
<1> QED
  BY <1>1, <1>2, <1>3, <1>4, <1>5, StepsOfHandle

\* What a step of h does to the connections: a command keeps some of the
\* results, and the SELECT adds its own.
LEMMA ConnectionStep ==
    ASSUME NEW h \in Handlers, Handle(h)
    PROVE  \/ unread' = unread
           \/ /\ BeginTransaction(h) \/ BeginFails(h) \/ InCall(h)
              /\ \E S \in Left(h), T \in SUBSET {Own(h)} :
                     \E U \in SUBSET (S \cup T) : Executes(h, U)
<1>1. CASE BeginTransaction(h) \/ BeginFails(h) \/ SelectFails(h)
  BY <1>1 DEF BeginTransaction, BeginFails, SelectFails
<1>2. CASE SendSelect(h)
  BY <1>2 DEF SendSelect, InCall, Own
<1>3. CASE SelectMetadata(h) \/ SelectNothing(h)
  <2>1. PICK result \in unread[target[h]] : Takes(h, result)
    BY <1>3 DEF SelectMetadata, SelectNothing
  <2>2. PICK S \in Left(h) : Executes(h, S \ {result})
    BY <2>1 DEF Takes
  <2> QED
    BY <1>3, <2>2 DEF SelectMetadata, SelectNothing, InCall
<1>4. CASE FindMetadata(h) \/ FindRating(h)
  BY <1>4 DEF FindMetadata, FindRating, Connects, services
<1> QED
  BY <1>1, <1>2, <1>3, <1>4, StepsOfHandle DEF services

\* A handler is in a call because it has begun one or goes on in it.
LEMMA InCallAfter ==
    ASSUME TypeOK, NEW h \in Handlers, Handle(h), InCall(h)'
    PROVE  /\ BeginTransaction(h) \/ SendSelect(h)
           /\ target' = target /\ movie' = movie
<1> USE DEF TypeOK
<1>1. pc'[h] \in {"queryMetadata", "readMetadata"}
  BY DEF InCall
<1>2. ASSUME NEW a, NEW e, Ends(h, a, e) PROVE FALSE
  BY <1>1, <1>2 DEF Ends
<1>3. ~(FindMetadata(h) \/ FindRating(h) \/ SelectMetadata(h))
  BY <1>1 DEF FindMetadata, FindRating, SelectMetadata
<1>4. BeginTransaction(h) \/ SendSelect(h)
  BY <1>2, <1>3, StepsOfHandle
  DEF Replies, RepliesExcused, BeginFails, SelectNothing, SelectFails
<1> QED
  BY <1>4 DEF BeginTransaction, SendSelect

LEMMA HandleCallsAnInstance ==
    ASSUME DetailsInv, NEW h \in Handlers, Handle(h)
    PROVE  CallsAnInstance' /\ SteadyIsUp'
<1> USE DEF DetailsInv, TypeOK, CallsAnInstance, SteadyIsUp, InCall, NotListening
<1>1. LeavesOthers(h)
  BY HandleFrame
<1>2. ASSUME /\ pc'[h] \in {"callMetadata", "queryMetadata", "readMetadata", "broken",
                            "callRating"} => target'[h] \in Instances
             /\ InCall(h)' => ~NotListening(target'[h])
             /\ steady'[h] => /\ target'[h] \in Instances
                              /\ ~NotListening(target'[h]) /\ connected[target'[h]]
                              /\ pc'[h] # "broken"
      PROVE  CallsAnInstance' /\ SteadyIsUp'
  BY <1>1, <1>2 DEF LeavesOthers
<1>3. CASE FindMetadata(h) \/ FindRating(h)
  <2>1. PICK name \in Services : Connects(h, name)
    BY <1>3 DEF FindMetadata, FindRating, Services
  <2>2. PICK i \in Instances :
            /\ target' = [target EXCEPT ![h] = i]
            /\ steady' = [steady EXCEPT ![h] = ~NotListening(i) /\ connected[i]]
    BY <2>1, ConnectsToInstance
  <2>3. pc'[h] \in {"callMetadata", "callRating"}
    BY <1>3 DEF FindMetadata, FindRating
  <2>4. target'[h] = i /\ (steady'[h] <=> ~NotListening(i) /\ connected[i])
    BY <2>2
  <2> QED
    BY <1>2, <2>3, <2>4
<1>4. CASE BeginTransaction(h)
  BY <1>2, <1>4 DEF BeginTransaction
<1>5. CASE SendSelect(h)
  BY <1>2, <1>5 DEF SendSelect, notes
<1>6. CASE SelectMetadata(h)
  BY <1>2, <1>6 DEF SelectMetadata
<1>7. ASSUME NEW a, NEW e, Ends(h, a, e) PROVE CallsAnInstance' /\ SteadyIsUp'
  BY <1>2, <1>7 DEF Ends
<1> QED
  BY <1>3, <1>4, <1>5, <1>6, <1>7, StepsOfHandle
  DEF Replies, RepliesExcused, BeginFails, SelectNothing, SelectFails

LEMMA HandleNotices ==
    ASSUME DetailsInv, NEW h \in Handlers, Handle(h)
    PROVE  UnlistedIsNoticed' /\ AsksForAMovie'
<1> USE DEF DetailsInv, TypeOK, UnlistedIsNoticed, ToFind, NotListed, Registry!Listed
<1>1. LeavesOthers(h)
  BY HandleFrame
<1>8. AsksForAMovie'
  BY <1>1 DEF LeavesOthers, AsksForAMovie
<1> SUFFICES UnlistedIsNoticed'
  BY <1>8
<1>2. ASSUME \A n \in ToFind(h)' : n \in ToFind(h) /\ (n \in unlisted[h] => n \in unlisted'[h])
      PROVE  UnlistedIsNoticed'
  BY <1>1, <1>2 DEF LeavesOthers
<1>3. CASE FindMetadata(h)
  BY <1>2, <1>3 DEF FindMetadata, Connects
<1>4. CASE FindRating(h)
  BY <1>2, <1>4 DEF FindRating
<1>5. CASE BeginTransaction(h) \/ SendSelect(h) \/ SelectMetadata(h)
  BY <1>2, <1>5 DEF BeginTransaction, SendSelect, SelectMetadata, notes
<1>6. ASSUME NEW a, NEW e, Ends(h, a, e) PROVE UnlistedIsNoticed'
  BY <1>2, <1>6 DEF Ends
<1> QED
  BY <1>3, <1>4, <1>5, <1>6, StepsOfHandle
  DEF Replies, RepliesExcused, BeginFails, SelectNothing, SelectFails

LEMMA HandleNotesOverlaps ==
    ASSUME DetailsInv, NEW h \in Handlers, Handle(h)
    PROVE  OverlapsAreNoted'
<1> USE DEF DetailsInv, TypeOK
<1>1. LeavesOthers(h)
  BY HandleFrame
<1> SUFFICES ASSUME NEW s \in Handlers, InCall(s)', ~crossed'[s],
                    NEW t \in Handlers \ {s}, InCall(t)', target'[t] = target'[s]
             PROVE  FALSE
  BY DEF OverlapsAreNoted, InTransaction
<1>2. CASE s = h \/ t = h
  <2>1. /\ BeginTransaction(h) \/ SendSelect(h)
        /\ target' = target
    BY <1>2, InCallAfter
  <2>2. CASE BeginTransaction(h)
    <3>1. Crosses(h, InTransaction(h) # {})
      BY <2>2 DEF BeginTransaction
    <3>2. CASE s = h
      <4>1. t \in InTransaction(h)
        BY <1>1, <2>1, <3>2 DEF LeavesOthers, InTransaction, InCall
      <4> QED
        BY <3>1, <3>2, <4>1 DEF Crosses
    <3>3. CASE s # h /\ t = h
      <4>1. s \in InTransaction(h)
        BY <1>1, <2>1, <3>3 DEF LeavesOthers, InTransaction, InCall
      <4> QED
        BY <3>1, <3>3, <4>1 DEF Crosses
    <3> QED
      BY <1>2, <3>2, <3>3
  <2>3. CASE SendSelect(h)
    <3>1. InCall(h) /\ crossed' = crossed
      BY <2>3 DEF SendSelect, InCall, notes
    <3>2. InCall(s) /\ InCall(t) /\ ~crossed[s] /\ target[t] = target[s]
      BY <1>1, <2>1, <3>1 DEF LeavesOthers, InCall
    <3> QED
      BY <3>2 DEF OverlapsAreNoted, InTransaction
  <2> QED
    BY <2>1, <2>2, <2>3
<1>3. CASE s # h /\ t # h
  BY <1>1, <1>3 DEF LeavesOthers, OverlapsAreNoted, InTransaction, InCall
<1> QED
  BY <1>2, <1>3

LEMMA HandleReads ==
    ASSUME DetailsInv, NEW h \in Handlers, Handle(h)
    PROVE  UnreadIsStored' /\ AloneReadsItsOwn'
<1> USE DEF DetailsInv, TypeOK
<1>1. LeavesOthers(h)
  BY HandleFrame
<1>2. UnreadIsStored'
  <2> SUFFICES ASSUME NEW i \in Instances, NEW result \in unread'[i]
               PROVE  result.row \in movies \cup {None}
    BY <1>1 DEF UnreadIsStored, LeavesOthers, tables
  <2>1. CASE result \in unread[i]
    BY <2>1 DEF UnreadIsStored
  <2>2. CASE result \notin unread[i]
    <3>1. PICK S \in Left(h), T \in SUBSET {Own(h)} : \E U \in SUBSET (S \cup T) : Executes(h, U)
      BY <2>2, ConnectionStep
    <3>2. i = target[h] /\ result \in S \cup T
      BY <2>2, <3>1 DEF Executes
    <3>3. result \in S => result \in unread[i]
      BY <3>1, <3>2 DEF Left
    <3>4. result = Own(h)
      BY <2>2, <3>2, <3>3
    <3> QED
      BY <3>4 DEF Own
  <2> QED
    BY <2>1, <2>2
<1>3. ASSUME NEW s \in Handlers, pc'[s] = "readMetadata", ~crossed'[s], connected'[target'[s]]
      PROVE  unread'[target'[s]] = {Own(s)'}
  <2>1. CASE s = h
    <3>1. /\ BeginTransaction(h) \/ SendSelect(h)
          /\ target' = target /\ movie' = movie
      BY <1>3, <2>1, InCallAfter DEF InCall
    <3>2. SendSelect(h)
      BY <1>3, <2>1, <3>1 DEF BeginTransaction
    <3>3. target[h] \in Instances /\ InTransaction(h) = {}
      BY <1>3, <2>1, <3>2 DEF SendSelect, CallsAnInstance, OverlapsAreNoted, InCall, notes
    <3>4. \E S \in Left(h) : Executes(h, S \cup {Own(h)})
      BY <3>2 DEF SendSelect, Own
    <3>5. Executes(h, {Own(h)})
      BY <3>3, <3>4 DEF Left
    <3>6. Own(h)' = Own(h)
      BY <1>1, <3>1 DEF Own, LeavesOthers, tables
    <3> QED
      BY <2>1, <3>1, <3>3, <3>5, <3>6 DEF Executes
  <2>2. CASE s # h
    <3>1. /\ pc[s] = "readMetadata" /\ ~crossed[s] /\ connected[target[s]]
          /\ target'[s] = target[s] /\ Own(s)' = Own(s)
      BY <1>1, <1>3, <2>2 DEF LeavesOthers, Own, tables
    <3>2. unread[target[s]] = {Own(s)} /\ InTransaction(s) = {}
      BY <3>1 DEF AloneReadsItsOwn, OverlapsAreNoted, InCall
    <3>3. CASE unread' = unread
      BY <3>1, <3>2, <3>3
    <3>4. CASE unread' # unread
      <4>1. /\ BeginTransaction(h) \/ BeginFails(h) \/ InCall(h)
            /\ \E U : Executes(h, U)
        BY <3>4, ConnectionStep
      <4>2. target[h] # target[s]
        <5>1. CASE BeginTransaction(h) \/ BeginFails(h)
          <6>1. s \notin InTransaction(h)
            BY <1>3, <2>2, <5>1 DEF BeginTransaction, BeginFails, Crosses
          <6> QED
            BY <2>2, <3>1, <6>1 DEF InTransaction, InCall
        <5>2. CASE InCall(h)
          BY <2>2, <3>2, <5>2 DEF InTransaction
        <5> QED
          BY <4>1, <5>1, <5>2
      <4> QED
        BY <3>1, <3>2, <4>1, <4>2 DEF Executes
    <3> QED
      BY <3>3, <3>4
  <2> QED
    BY <2>1, <2>2
<1> QED
  BY <1>2, <1>3 DEF AloneReadsItsOwn

LEMMA HandleReceives ==
    ASSUME DetailsInv, NEW h \in Handlers, Handle(h)
    PROVE  ReceivedIsOfTheMovie'
<1> USE DEF DetailsInv, TypeOK
<1>1. LeavesOthers(h)
  BY HandleFrame
<1>2. ASSUME pc'[h] \in {"findRating", "callRating"} =>
                 /\ metadata'[h] \in movies
                 /\ metadata'[h] = movie'[h] \/ crossed'[h]
      PROVE  ReceivedIsOfTheMovie'
  BY <1>1, <1>2 DEF LeavesOthers, ReceivedIsOfTheMovie, tables
<1>3. CASE FindMetadata(h) \/ BeginTransaction(h) \/ SendSelect(h)
  BY <1>2, <1>3 DEF FindMetadata, BeginTransaction, SendSelect
<1>4. CASE FindRating(h)
  BY <1>2, <1>4 DEF FindRating, Connects, ReceivedIsOfTheMovie
<1>5. CASE SelectMetadata(h)
  <2>1. PICK result \in unread[target[h]] :
            /\ result.row # None
            /\ metadata' = [metadata EXCEPT ![h] = result.row]
    BY <1>5 DEF SelectMetadata
  <2>2. /\ pc[h] = "readMetadata" /\ connected[target[h]] /\ target[h] \in Instances
        /\ movie' = movie /\ crossed' = crossed
    BY <1>5 DEF SelectMetadata, CallsAnInstance
  <2>3. result.row \in movies
    BY <2>1, <2>2 DEF UnreadIsStored
  <2>4. ~crossed[h] => result = Own(h)
    BY <2>1, <2>2 DEF AloneReadsItsOwn
  <2>5. ~crossed[h] => result.row = movie[h]
    BY <2>1, <2>4 DEF Own
  <2> QED
    BY <1>2, <2>1, <2>2, <2>3, <2>5
<1>6. ASSUME NEW a, NEW e, Ends(h, a, e) PROVE ReceivedIsOfTheMovie'
  BY <1>2, <1>6 DEF Ends
<1> QED
  BY <1>3, <1>4, <1>5, <1>6, StepsOfHandle
  DEF Replies, RepliesExcused, BeginFails, SelectNothing, SelectFails

LEMMA HandleInv ==
    ASSUME DetailsInv, NEW h \in Handlers, Handle(h)
    PROVE  DetailsInv'
<1>1. TypeOK'
  BY TypeHandle
<1>2. CallsAnInstance' /\ SteadyIsUp'
  BY HandleCallsAnInstance
<1>3. UnlistedIsNoticed' /\ AsksForAMovie'
  BY HandleNotices
<1>4. UnreadIsStored' /\ AloneReadsItsOwn'
  BY HandleReads
<1> QED
  BY <1>1, <1>2, <1>3, <1>4, HandleNotesOverlaps, HandleReceives DEF DetailsInv

-----------------------------------------------------------------------------
(* The steps of the environment.                                           *)

InstanceStep(i) ==
    Crash(i) \/ Restart(i) \/ Listen(i) \/ Hang(i) \/ Resume(i) \/ LoseDatabase(i) \/ List(i)

\* A step of an instance ends calls at most, and leaves the requests alone.
LEMMA InstanceFrame ==
    ASSUME TypeOK, NEW i \in Instances, InstanceStep(i)
    PROVE  /\ UNCHANGED <<tables, movie, target, metadata, reply, crossed>>
           /\ \A h \in Handlers :
                /\ \/ pc'[h] = pc[h]
                   \/ InCall(h) /\ target[h] = i /\ pc'[h] = "broken"
                /\ steady'[h] => steady[h]
           /\ \A j \in Instances \ {i} :
                status'[j] = status[j] /\ connected'[j] = connected[j] /\ unread'[j] = unread[j]
<1> USE DEF TypeOK, services, tables, request, reply, notes, Fault
<1>1. CASE Crash(i)
  BY <1>1 DEF Crash
<1>2. CASE Restart(i)
  BY <1>2 DEF Restart
<1>3. CASE Listen(i) \/ Hang(i) \/ Resume(i)
  BY <1>3 DEF Listen, Hang, Resume
<1>4. CASE LoseDatabase(i)
  BY <1>4 DEF LoseDatabase
<1>5. CASE List(i)
  BY <1>5 DEF List
<1> QED
  BY <1>1, <1>2, <1>3, <1>4, <1>5 DEF InstanceStep

LEMMA TypeInstance ==
    ASSUME TypeOK, NEW i \in Instances, InstanceStep(i)
    PROVE  TypeOK'
<1> USE DEF TypeOK, services, tables, request, reply, notes, Fault
<1>1. CASE Crash(i)
  BY <1>1 DEF Crash, Registry!End
<1>2. CASE Restart(i)
  <2>1. unlisted' \in [Handlers -> SUBSET Services]
    BY <1>2 DEF Restart, Unlisted, ToFind
  <2> QED
    BY <1>2, <2>1 DEF Restart, Registry!Start
<1>3. CASE Listen(i) \/ Hang(i) \/ Resume(i)
  BY <1>3 DEF Listen, Hang, Resume
<1>4. CASE LoseDatabase(i)
  BY <1>4 DEF LoseDatabase
<1>5. CASE List(i)
  BY <1>5 DEF List, Registry!List
<1> QED
  BY <1>1, <1>2, <1>3, <1>4, <1>5 DEF InstanceStep

\* Requests that are not idle notice a service that loses its instances.
LEMMA StillNoticed ==
    ASSUME TypeOK, UnlistedIsNoticed,
           \A h \in Handlers : pc'[h] = pc[h] \/ (InCall(h) /\ pc'[h] = "broken"),
           Unlisted \/ (UNCHANGED unlisted /\ listed \subseteq listed')
    PROVE  UnlistedIsNoticed'
<1>1. \A h \in Handlers : ToFind(h)' = ToFind(h)
  BY DEF ToFind, InCall
<1>2. CASE Unlisted
  BY <1>1, <1>2 DEF Unlisted, UnlistedIsNoticed
<1>3. CASE UNCHANGED unlisted /\ listed \subseteq listed'
  BY <1>1, <1>3 DEF UnlistedIsNoticed, NotListed, Registry!Listed
<1> QED
  BY <1>2, <1>3

LEMMA InstanceInv ==
    ASSUME DetailsInv, NEW i \in Instances, InstanceStep(i)
    PROVE  DetailsInv'
<1> USE DEF DetailsInv
<1>1. /\ UNCHANGED <<tables, movie, target, metadata, reply, crossed>>
      /\ \A h \in Handlers :
            /\ \/ pc'[h] = pc[h]
               \/ InCall(h) /\ target[h] = i /\ pc'[h] = "broken"
            /\ steady'[h] => steady[h]
      /\ \A j \in Instances \ {i} :
            status'[j] = status[j] /\ connected'[j] = connected[j] /\ unread'[j] = unread[j]
  BY InstanceFrame
<1>2. UnlistedIsNoticed'
  <2>1. Unlisted \/ (UNCHANGED unlisted /\ listed \subseteq listed')
    BY DEF InstanceStep, Crash, Restart, Listen, Hang, Resume, LoseDatabase, List, notes,
           Registry!End, Registry!List
  <2> QED
    BY <1>1, <2>1, StillNoticed
<1>3. ReceivedIsOfTheMovie' /\ AsksForAMovie' /\ OverlapsAreNoted'
  <2>1. \A h \in Handlers : InCall(h)' => InCall(h)
    BY <1>1 DEF InCall
  <2> QED
    BY <1>1, <2>1
    DEF ReceivedIsOfTheMovie, AsksForAMovie, OverlapsAreNoted, InTransaction, InCall, tables
<1>4. \A h \in Handlers : Own(h)' = Own(h)
  BY <1>1 DEF Own, tables
<1>5. CASE Crash(i)
  <2>1. /\ status'[i] = "down" /\ unread'[i] = {}
        /\ \A h \in Handlers : /\ target[h] = i => ~InCall(h)' /\ ~steady'[h]
                               /\ pc'[h] = "broken" => pc[h] = "broken" \/ target[h] = i
    BY <1>5 DEF Crash, Fault, TypeOK, InCall
  <2>2. CallsAnInstance' /\ SteadyIsUp'
    BY <1>1, <2>1 DEF CallsAnInstance, SteadyIsUp, InCall, NotListening, TypeOK
  <2>3. UnreadIsStored'
    BY <1>1, <2>1 DEF UnreadIsStored, tables
  <2>4. AloneReadsItsOwn'
    BY <1>1, <1>4, <2>1 DEF AloneReadsItsOwn, InCall, CallsAnInstance
  <2> QED
    BY <1>2, <1>3, <2>2, <2>3, <2>4, TypeInstance
<1>6. CASE LoseDatabase(i)
  <2>1. /\ status' = status /\ pc' = pc /\ ~connected'[i] /\ unread'[i] = {}
        /\ \A h \in Handlers : steady'[h] => target[h] # i
    BY <1>6 DEF LoseDatabase, Fault, TypeOK, request
  <2>2. CallsAnInstance' /\ SteadyIsUp'
    BY <1>1, <2>1 DEF CallsAnInstance, SteadyIsUp, InCall, NotListening
  <2>3. UnreadIsStored'
    BY <1>1, <2>1 DEF UnreadIsStored, tables
  <2>4. AloneReadsItsOwn'
    BY <1>1, <1>4, <2>1 DEF AloneReadsItsOwn, CallsAnInstance
  <2> QED
    BY <1>2, <1>3, <2>2, <2>3, <2>4, TypeInstance
<1>7. CASE Restart(i)
  <2>1. /\ status[i] = "down" /\ status'[i] = "starting" /\ pc' = pc
        /\ unread' = unread /\ steady' = steady
    BY <1>7 DEF Restart, Registry!Start, Running, TypeOK, request
  <2>2. \A h \in Handlers : InCall(h) \/ steady[h] => target[h] # i
    BY <2>1 DEF CallsAnInstance, SteadyIsUp, NotListening
  <2>3. CallsAnInstance' /\ SteadyIsUp'
    BY <1>1, <2>1, <2>2 DEF CallsAnInstance, SteadyIsUp, InCall, NotListening
  <2>4. UnreadIsStored'
    BY <1>1, <2>1 DEF UnreadIsStored, tables
  <2>5. AloneReadsItsOwn'
    BY <1>1, <1>4, <2>1, <2>2 DEF AloneReadsItsOwn, CallsAnInstance, InCall
  <2> QED
    BY <1>2, <1>3, <2>3, <2>4, <2>5, TypeInstance
<1>8. CASE Listen(i) \/ Hang(i) \/ Resume(i) \/ List(i)
  <2>1. /\ connected' = connected /\ unread' = unread /\ pc' = pc /\ steady' = steady
        /\ NotListening(i)' => NotListening(i)
    BY <1>8 DEF Listen, Hang, Resume, List, NotListening, TypeOK, request, notes
  <2>2. CallsAnInstance' /\ SteadyIsUp'
    BY <1>1, <2>1 DEF CallsAnInstance, SteadyIsUp, InCall, NotListening
  <2>3. UnreadIsStored' /\ AloneReadsItsOwn'
    BY <1>1, <1>4, <2>1 DEF UnreadIsStored, AloneReadsItsOwn, tables
  <2> QED
    BY <1>2, <1>3, <2>2, <2>3, TypeInstance
<1> QED
  BY <1>5, <1>6, <1>7, <1>8 DEF InstanceStep

LEMMA RequestInv ==
    ASSUME DetailsInv, NEW h \in Handlers, NEW m \in Movies, GetMovieDetails(h, m)
    PROVE  DetailsInv'
<1> USE DEF DetailsInv
<1>1. TypeOK'
  BY DEF TypeOK, GetMovieDetails, services, tables
<1>2. /\ UNCHANGED <<services, tables, target, metadata, steady, crossed>>
      /\ pc[h] = "idle" /\ pc'[h] = "findMetadata" /\ movie'[h] = m
      /\ unlisted'[h] = {n \in Services : NotListed(n)}
      /\ \A s \in Handlers \ {h} :
            pc'[s] = pc[s] /\ movie'[s] = movie[s] /\ unlisted'[s] = unlisted[s]
  BY DEF TypeOK, GetMovieDetails
<1>3. \A s \in Handlers : InCall(s)' <=> InCall(s)
  BY <1>2 DEF InCall
<1>4. CallsAnInstance' /\ SteadyIsUp'
  BY <1>2, <1>3 DEF CallsAnInstance, SteadyIsUp, NotListening, services
<1>5. UnlistedIsNoticed'
  <2>1. \A n : NotListed(n)' = NotListed(n)
    BY <1>2 DEF NotListed, Registry!Listed, services
  <2>2. \A s \in Handlers \ {h} : ToFind(s)' = ToFind(s)
    BY <1>2 DEF ToFind
  <2>3. ToFind(h)' \subseteq Services
    BY DEF ToFind
  <2> QED
    BY <1>2, <2>1, <2>2, <2>3 DEF UnlistedIsNoticed
<1>6. OverlapsAreNoted' /\ UnreadIsStored' /\ ReceivedIsOfTheMovie' /\ AsksForAMovie'
  BY <1>2, <1>3 DEF OverlapsAreNoted, InTransaction, UnreadIsStored, ReceivedIsOfTheMovie,
                    AsksForAMovie, services, tables
<1>7. AloneReadsItsOwn'
  BY <1>2 DEF AloneReadsItsOwn, Own, services, tables
<1> QED
  BY <1>1, <1>4, <1>5, <1>6, <1>7

\* What stays when neither a handler nor an instance takes a step.
LEMMA OthersInv ==
    ASSUME DetailsInv, TypeOK', UnlistedIsNoticed',
           UNCHANGED <<status, connected, unread, movies, request, steady, crossed>>
    PROVE  DetailsInv'
<1> USE DEF DetailsInv, request
<1>1. \A h \in Handlers : InCall(h)' <=> InCall(h)
  BY DEF InCall
<1>2. CallsAnInstance' /\ SteadyIsUp' /\ OverlapsAreNoted'
  BY <1>1 DEF CallsAnInstance, SteadyIsUp, NotListening, OverlapsAreNoted, InTransaction
<1>3. UnreadIsStored' /\ AloneReadsItsOwn' /\ ReceivedIsOfTheMovie' /\ AsksForAMovie'
  BY DEF UnreadIsStored, AloneReadsItsOwn, Own, ReceivedIsOfTheMovie, AsksForAMovie
<1> QED
  BY <1>2, <1>3

LEMMA NextInv ==
    ASSUME DetailsInv, [Next]_vars
    PROVE  DetailsInv'
<1>1. DetailsInv /\ TypeOK /\ UnlistedIsNoticed
  BY DEF DetailsInv
<1>2. ASSUME NEW S, Unlist(S) PROVE DetailsInv'
  <2>1. TypeOK'
    BY <1>1, <1>2 DEF TypeOK, Unlist, Registry!Unlist, Unlisted, ToFind, tables, request, reply
  <2>2. UnlistedIsNoticed'
    BY <1>1, <1>2, StillNoticed DEF Unlist, request
  <2> QED
    BY <1>2, <2>1, <2>2, OthersInv DEF Unlist, tables
<1>3. ASSUME NEW m \in Movies, NEW v \in Values, Rate(m, v) PROVE DetailsInv'
  <2>1. TypeOK'
    BY <1>1, <1>3 DEF TypeOK, Rate, services, request, reply, notes
  <2>2. UnlistedIsNoticed'
    BY <1>1, <1>3, StillNoticed DEF Rate, services, request, notes
  <2> QED
    BY <1>3, <2>1, <2>2, OthersInv DEF Rate, services, notes
<1>4. CASE UNCHANGED vars
  <2>1. TypeOK'
    BY <1>1, <1>4 DEF TypeOK, vars, services, tables, request, reply, notes
  <2>2. UnlistedIsNoticed'
    BY <1>1, <1>4, StillNoticed DEF vars, services, request, notes
  <2> QED
    BY <1>4, <2>1, <2>2, OthersInv DEF vars, services, tables, notes
<1> QED
  BY <1>2, <1>3, <1>4, HandleInv, InstanceInv, RequestInv DEF Next, InstanceStep

\* The instances, the tables and the requests of GetMovieDetails keep their
\* types, for any number of them: no request works with an address, metadata or
\* a rating that it has not received.
THEOREM DetailsTyped == Spec => []TypeOK
<1>1. DetailsInv => TypeOK
  BY DEF DetailsInv
<1>2. DetailsInv /\ [Next]_vars => DetailsInv'
  BY NextInv
<1> QED
  BY <1>1, <1>2, InitInv, PTL DEF Spec

-----------------------------------------------------------------------------
(* What requests are answered.                                             *)

\* No other step moves a handler in the middle of its request, except that the
\* end of an instance breaks its call.
LEMMA OthersHoldUp ==
    ASSUME TypeOK, NEW h \in Handlers, [Next]_vars, ~Handle(h), pc[h] # "idle"
    PROVE  pc'[h] = pc[h] \/ (InCall(h) /\ pc'[h] = "broken")
<1>1. ASSUME NEW s \in Handlers, Handle(s) PROVE pc'[h] = pc[h]
  BY <1>1, HandleFrame DEF LeavesOthers
<1>2. ASSUME NEW s \in Handlers, NEW m \in Movies, GetMovieDetails(s, m)
      PROVE  pc'[h] = pc[h]
  BY <1>2 DEF GetMovieDetails, TypeOK
<1>3. ASSUME NEW i \in Instances, InstanceStep(i)
      PROVE  pc'[h] = pc[h] \/ (InCall(h) /\ pc'[h] = "broken")
  BY <1>3, InstanceFrame
<1>4. CASE \E S \in SUBSET listed : Unlist(S)
  BY <1>4 DEF Unlist, request
<1>5. CASE \E m \in Movies, v \in Values : Rate(m, v)
  BY <1>5 DEF Rate, request
<1>6. CASE UNCHANGED vars
  BY <1>6 DEF vars, request
<1> QED
  BY <1>1, <1>2, <1>3, <1>4, <1>5, <1>6 DEF Next, InstanceStep

LEMMA RequestsAnswerThemselves ==
    ASSUME TypeOK, NEW h \in Handlers, [Next]_vars, Answered(h)
    PROVE  Handle(h)
BY OthersHoldUp DEF Answered

\* What one step of a handler may answer.
LEMMA AnswersOfHandle ==
    ASSUME DetailsInv, NEW h \in Handlers, Handle(h), Answered(h)
    PROVE  DetailsOfTheMovie(h) /\ AnsweredIfUndisturbed(h)
<1> USE DEF DetailsInv, TypeOK
<1> DEFINE Goal == DetailsOfTheMovie(h) /\ AnsweredIfUndisturbed(h)
<1>1. ASSUME NEW a, NEW e, Ends(h, a, e) PROVE answer'[h] = a /\ excused'[h] = e
  BY <1>1 DEF Ends
<1>2. ASSUME NEW a, RepliesExcused(h, a) \/ Ends(h, a, TRUE), a.code # "OK" PROVE Goal
  <2>1. answer'[h] = a /\ excused'[h]
    BY <1>1, <1>2 DEF RepliesExcused
  <2> QED
    BY <1>2, <2>1 DEF DetailsOfTheMovie, AnsweredIfUndisturbed
<1>3. ASSUME Replies(h, NotFound),
             Undisturbed(h) => movie[h] \notin movies \/ ratings[movie[h]] = {}
      PROVE  Goal
  <2>1. answer'[h] = NotFound
    BY <1>1, <1>3 DEF Replies
  <2>2. answer'[h].code # "OK"
    BY <2>1 DEF NotFound
  <2> QED
    BY <1>3, <2>2 DEF DetailsOfTheMovie, AnsweredIfUndisturbed
<1>4. ASSUME NEW v, Replies(h, OKWith(h, v)) \/ RepliesExcused(h, OKWith(h, v)),
             pc[h] \in {"findRating", "callRating"},
             \/ v \in ratings[movie[h]]
             \/ v = 0 /\ "rating" \in unlisted[h]
             \/ v \in Values /\ RepliesExcused(h, OKWith(h, v))
      PROVE  Goal
  <2>1. /\ answer'[h] = OKWith(h, v)
        /\ RepliesExcused(h, OKWith(h, v)) => excused'[h]
    BY <1>1, <1>4 DEF Replies, RepliesExcused
  <2>2. metadata[h] \in movies /\ (metadata[h] = movie[h] \/ crossed[h])
    BY <1>4 DEF ReceivedIsOfTheMovie
  <2> QED
    BY <1>4, <2>1, <2>2 DEF DetailsOfTheMovie, AnsweredIfUndisturbed, OKWith
<1>5. NotFound.code # "OK" /\ [code |-> "UNKNOWN"].code # "OK"
  BY DEF NotFound
<1>6. \A i : status[i] = "up" => ~NotListening(i)
  BY DEF NotListening
<1>7. CASE \/ FindMetadata(h) \/ FindRating(h) \/ BeginTransaction(h) \/ SendSelect(h)
           \/ SelectMetadata(h)
  BY <1>7 DEF FindMetadata, FindRating, BeginTransaction, SendSelect, SelectMetadata, Answered
<1>8. CASE FindNoMetadata(h)
  <2>1. "metadata" \in unlisted[h]
    BY <1>8, WhatIsFound DEF FindNoMetadata, UnlistedIsNoticed, ToFind, Services
  <2> QED
    BY <1>3, <1>8, <2>1 DEF FindNoMetadata, Undisturbed
<1>9. CASE FindNoRating(h)
  <2>1. "rating" \in unlisted[h]
    BY <1>9, WhatIsFound DEF FindNoRating, UnlistedIsNoticed, ToFind, Services
  <2> QED
    BY <1>4, <1>9, <2>1 DEF FindNoRating
<1>10. CASE LookupThrows(h) \/ RatingBusy(h)
  BY <1>2, <1>5, <1>10 DEF LookupThrows, RatingBusy
<1>11. CASE CallBreaks(h)
  <2>1. target[h] \in Instances /\ ~steady[h]
    BY <1>11 DEF CallBreaks, CallsAnInstance, SteadyIsUp
  <2> QED
    BY <1>3, <1>11, <2>1, DetailsAssumption DEF CallBreaks, Undisturbed
<1>12. CASE BeginRefused(h)
  <2>1. CASE RepliesExcused(h, NotFound)
    BY <1>2, <1>5, <2>1
  <2>2. CASE ~connected[target[h]] /\ Replies(h, NotFound)
    <3>1. target[h] \in Instances /\ ~steady[h]
      BY <1>12, <2>2 DEF BeginRefused, CallsAnInstance, SteadyIsUp
    <3> QED
      BY <1>3, <2>2, <3>1, DetailsAssumption DEF Undisturbed
  <2> QED
    BY <1>12, <2>1, <2>2 DEF BeginRefused
<1>13. CASE BeginFails(h)
  BY <1>2, <1>5, <1>13 DEF BeginFails
<1>14. CASE SelectNothing(h)
  <2>1. PICK result \in unread[target[h]] : result.row = None
    BY <1>14 DEF SelectNothing
  <2>2. /\ pc[h] = "readMetadata" /\ connected[target[h]]
        /\ Replies(h, NotFound)
    BY <1>14 DEF SelectNothing
  <2>3. ~crossed[h] => result = Own(h)
    BY <2>1, <2>2 DEF AloneReadsItsOwn
  <2>4. ~crossed[h] => movie[h] \notin movies
    BY <2>1, <2>3, DetailsAssumption DEF Own
  <2> QED
    BY <1>3, <2>2, <2>4 DEF Undisturbed
<1>15. CASE SelectFails(h)
  <2>1. target[h] \in Instances /\ (~steady[h] \/ crossed[h])
    BY <1>15 DEF SelectFails, CallsAnInstance, SteadyIsUp, InCall
  <2> QED
    BY <1>3, <1>15, <2>1, DetailsAssumption DEF SelectFails, Undisturbed
<1>16. CASE RatingAnswers(h)
  BY <1>4, <1>16 DEF RatingAnswers
<1>17. CASE RatingUnstored(h)
  BY <1>4, <1>17 DEF RatingUnstored
<1>18. CASE RatingNotFound(h)
  <2>1. target[h] \in Instances /\ (~steady[h] \/ ratings[movie[h]] = {})
    BY <1>18 DEF RatingNotFound, CallsAnInstance, SteadyIsUp
  <2> QED
    BY <1>3, <1>18, <2>1, DetailsAssumption DEF RatingNotFound, Undisturbed
<1> QED
  BY <1>7, <1>8, <1>9, <1>10, <1>11, <1>12, <1>13, <1>14, <1>15, <1>16, <1>17, <1>18
  DEF Handle

LEMMA StepsAnswer ==
    ASSUME DetailsInv, [Next]_vars
    PROVE  \A h \in Handlers : DetailsOfTheMovie(h) /\ AnsweredIfUndisturbed(h)
<1> SUFFICES ASSUME NEW h \in Handlers
             PROVE  DetailsOfTheMovie(h) /\ AnsweredIfUndisturbed(h)
  OBVIOUS
<1>1. CASE Answered(h)
  BY <1>1, RequestsAnswerThemselves, AnswersOfHandle DEF DetailsInv
<1>2. CASE ~Answered(h)
  BY <1>2 DEF DetailsOfTheMovie, AnsweredIfUndisturbed
<1> QED
  BY <1>1, <1>2

\* GetMovieDetails answers with metadata of the movie that it was asked for,
\* unless its transaction met another one on the connection, and with a rating
\* of that movie, or with 0 when it may have found no rating service: however
\* many requests run, whatever results transactions that met have left on the
\* connections, and whatever happens to the instances.
THEOREM DetailsBelongTogether == Spec => DetailsAreOfTheMovie
<1>1. DetailsInv /\ [Next]_vars => [\A h \in Handlers : DetailsOfTheMovie(h)]_vars
  BY StepsAnswer
<1>2. DetailsInv /\ [Next]_vars => DetailsInv'
  BY NextInv
<1> QED
  BY <1>1, <1>2, InitInv, PTL DEF Spec, DetailsAreOfTheMovie

\* A request for a movie with metadata and ratings that meets no fault, no busy
\* rating service and no other transaction is answered with both, whatever
\* happens to other requests and to the instances that it does not call.
THEOREM UndisturbedAreAnswered == Spec => UndisturbedIsAnswered
<1>1. DetailsInv /\ [Next]_vars => [\A h \in Handlers : AnsweredIfUndisturbed(h)]_vars
  BY StepsAnswer
<1>2. DetailsInv /\ [Next]_vars => DetailsInv'
  BY NextInv
<1> QED
  BY <1>1, <1>2, InitInv, PTL DEF Spec, UndisturbedIsAnswered

-----------------------------------------------------------------------------
(* Requests end, unless an instance hangs.                                 *)

\* The guards of the steps of Handle: a handler can go on when one of them
\* holds.  Those of FindMetadata, FindNoMetadata, FindRating, FindNoRating,
\* RatingAnswers, RatingUnstored and RatingNotFound are contained in these.
CanHandle(h) ==
    \/ pc[h] = "findMetadata" /\ Registry!Fails \in ServiceAddress("metadata")
    \/ pc[h] = "findRating" /\ Registry!Fails \in ServiceAddress("rating")
    \/ pc[h] = "broken"
    \/ pc[h] \in {"callMetadata", "callRating"} /\ NotListening(target[h])
    \/ /\ pc[h] = "callMetadata"
       /\ status[target[h]] = "up"
       /\ \/ connected[target[h]] /\ Left(h) # {}
          \/ ~connected[target[h]] \/ InTransaction(h) # {}
    \/ /\ InCall(h)
       /\ status[target[h]] = "up"
       /\ \/ ~connected[target[h]]
          \/ pc[h] = "queryMetadata" \/ crossed[h] \/ unread[target[h]] # {}
       /\ Left(h) # {}
    \/ pc[h] = "callRating" /\ status[target[h]] = "up"

\* They are the guards: a handler takes no step where none of them holds.
LEMMA HandleNeedsGuard ==
    ASSUME NEW h \in Handlers, Handle(h)
    PROVE  CanHandle(h)
<1>1. \A name : Registry!Fails \in ServiceAddress(name)
  BY DEF ServiceAddress, Registry!Answers
<1>2. CASE \/ FindMetadata(h) \/ FindNoMetadata(h) \/ FindRating(h) \/ FindNoRating(h)
           \/ LookupThrows(h)
  BY <1>1, <1>2 DEF CanHandle, FindMetadata, FindNoMetadata, FindRating, FindNoRating,
                    LookupThrows
<1>3. CASE CallBreaks(h)
  BY <1>3 DEF CanHandle, CallBreaks
<1>4. CASE BeginTransaction(h) \/ BeginRefused(h) \/ BeginFails(h)
  BY <1>4 DEF CanHandle, BeginTransaction, BeginRefused, BeginFails
<1>5. CASE SendSelect(h) \/ SelectFails(h)
  BY <1>5 DEF CanHandle, SendSelect, SelectFails, InCall
<1>6. CASE SelectMetadata(h) \/ SelectNothing(h)
  BY <1>6 DEF CanHandle, SelectMetadata, SelectNothing, Takes, InCall
<1>7. CASE RatingAnswers(h) \/ RatingUnstored(h) \/ RatingNotFound(h) \/ RatingBusy(h)
  BY <1>7 DEF CanHandle, RatingAnswers, RatingUnstored, RatingNotFound, RatingBusy
<1> QED
  BY <1>2, <1>3, <1>4, <1>5, <1>6, <1>7 DEF Handle

\* OnlyHungHoldsUp with the guards in the place of ENABLED.
CanGoOn == \A h \in Handlers : pc[h] # "idle" /\ ~HeldUp(h) => CanHandle(h)

\* A request of GetMovieDetails can always go on, except while the instance
\* that it called hangs: no other request, and no instance that has ended, is
\* not listed or has lost its database, takes the last step from it.
THEOREM RequestsCanGoOn == Spec => []CanGoOn
<1>1. DetailsInv => CanGoOn
  <2> SUFFICES ASSUME DetailsInv, NEW h \in Handlers, pc[h] # "idle", ~HeldUp(h)
               PROVE  CanHandle(h)
    BY DEF CanGoOn
  <2> USE DEF DetailsInv
  <2>1. \A name : Registry!Fails \in ServiceAddress(name)
    BY DEF ServiceAddress, Registry!Answers
  <2>2. Left(h) # {}
    BY DEF Left
  <2>3. CASE pc[h] \in {"findMetadata", "findRating", "broken"}
    BY <2>1, <2>3 DEF CanHandle
  <2>4. CASE pc[h] \in {"callMetadata", "callRating"}
    <3>1. target[h] \in Instances
      BY <2>4 DEF CallsAnInstance
    <3>2. status[target[h]] = "up" \/ NotListening(target[h])
      BY <2>4, <3>1 DEF HeldUp, NotListening, TypeOK
    <3> QED
      BY <2>2, <2>4, <3>2 DEF CanHandle
  <2>5. CASE InCall(h)
    <3>1. target[h] \in Instances /\ ~NotListening(target[h])
      BY <2>5 DEF CallsAnInstance, InCall
    <3>2. status[target[h]] = "up"
      BY <2>5, <3>1 DEF HeldUp, NotListening, TypeOK, InCall
    <3>3. pc[h] = "readMetadata" /\ ~crossed[h] /\ connected[target[h]]
              => unread[target[h]] # {}
      BY DEF AloneReadsItsOwn
    <3> QED
      BY <2>2, <2>5, <3>2, <3>3 DEF CanHandle, InCall
  <2> QED
    BY <2>3, <2>4, <2>5 DEF TypeOK, InCall
<1>2. DetailsInv /\ [Next]_vars => DetailsInv'
  BY NextInv
<1> QED
  BY <1>1, <1>2, InitInv, PTL DEF Spec

\* Weak fairness of the thread of h, with the guards of its steps written out:
\* it goes on, unless again and again it cannot.
Scheduled(h) == []<>~CanHandle(h) \/ []<><<Handle(h)>>_vars

\* Every request is answered or waits for an instance that hangs.
RequestsEnd ==
    \A h \in Handlers : pc[h] # "idle" ~> pc[h] = "idle" \/ HeldUp(h)

\* A request goes from stage to stage, each of which its thread leaves.
LEMMA RequestEnds ==
    ASSUME NEW h \in Handlers
    PROVE  Spec /\ Scheduled(h) => (pc[h] # "idle" ~> pc[h] = "idle" \/ HeldUp(h))
<1>1. TypeOK => \/ pc[h] = "idle" \/ pc[h] = "findMetadata" \/ pc[h] = "callMetadata"
                \/ pc[h] = "queryMetadata" \/ pc[h] = "readMetadata" \/ pc[h] = "broken"
                \/ pc[h] = "findRating" \/ pc[h] = "callRating"
  BY DEF TypeOK
<1>2. /\ TypeOK /\ pc[h] = "findMetadata" /\ [Next]_vars =>
           (pc[h] = "findMetadata")' \/ (pc[h] = "callMetadata")' \/ (pc[h] = "idle")'
      /\ TypeOK /\ pc[h] = "findMetadata" /\ <<Handle(h)>>_vars =>
           (pc[h] = "callMetadata")' \/ (pc[h] = "idle")'
  BY HandleGoesAhead, OthersHoldUp DEF InCall
<1>3. /\ TypeOK /\ pc[h] = "callMetadata" /\ [Next]_vars =>
           (pc[h] = "callMetadata")' \/ (pc[h] = "queryMetadata")' \/ (pc[h] = "idle")'
      /\ TypeOK /\ pc[h] = "callMetadata" /\ <<Handle(h)>>_vars =>
           (pc[h] = "queryMetadata")' \/ (pc[h] = "idle")'
  BY HandleGoesAhead, OthersHoldUp DEF InCall
<1>4. /\ TypeOK /\ pc[h] = "queryMetadata" /\ [Next]_vars =>
           \/ (pc[h] = "queryMetadata")' \/ (pc[h] = "readMetadata")'
           \/ (pc[h] = "broken")' \/ (pc[h] = "idle")'
      /\ TypeOK /\ pc[h] = "queryMetadata" /\ <<Handle(h)>>_vars =>
           (pc[h] = "readMetadata")' \/ (pc[h] = "idle")'
  BY HandleGoesAhead, OthersHoldUp
<1>5. /\ TypeOK /\ pc[h] = "readMetadata" /\ [Next]_vars =>
           \/ (pc[h] = "readMetadata")' \/ (pc[h] = "findRating")'
           \/ (pc[h] = "broken")' \/ (pc[h] = "idle")'
      /\ TypeOK /\ pc[h] = "readMetadata" /\ <<Handle(h)>>_vars =>
           (pc[h] = "findRating")' \/ (pc[h] = "idle")'
  BY HandleGoesAhead, OthersHoldUp
<1>6. /\ TypeOK /\ pc[h] = "broken" /\ [Next]_vars =>
           (pc[h] = "broken")' \/ (pc[h] = "idle")'
      /\ TypeOK /\ pc[h] = "broken" /\ <<Handle(h)>>_vars => (pc[h] = "idle")'
  BY HandleGoesAhead, OthersHoldUp DEF InCall
<1>7. /\ TypeOK /\ pc[h] = "findRating" /\ [Next]_vars =>
           (pc[h] = "findRating")' \/ (pc[h] = "callRating")' \/ (pc[h] = "idle")'
      /\ TypeOK /\ pc[h] = "findRating" /\ <<Handle(h)>>_vars =>
           (pc[h] = "callRating")' \/ (pc[h] = "idle")'
  BY HandleGoesAhead, OthersHoldUp DEF InCall
<1>8. /\ TypeOK /\ pc[h] = "callRating" /\ [Next]_vars =>
           (pc[h] = "callRating")' \/ (pc[h] = "idle")'
      /\ TypeOK /\ pc[h] = "callRating" /\ <<Handle(h)>>_vars => (pc[h] = "idle")'
  BY HandleGoesAhead, OthersHoldUp DEF InCall
<1>9. CanGoOn => pc[h] = "idle" \/ HeldUp(h) \/ CanHandle(h)
  BY DEF CanGoOn
<1> QED
  BY <1>1, <1>2, <1>3, <1>4, <1>5, <1>6, <1>7, <1>8, <1>9, DetailsTyped, RequestsCanGoOn, PTL
  DEF Spec, Scheduled

\* Every request of GetMovieDetails comes to its answer, or to an instance that
\* hangs: instances that end, are not listed or lose their database, and other
\* requests, only change the answer.
THEOREM RequestsEndUnlessHung == Spec /\ (\A h \in Handlers : Scheduled(h)) => RequestsEnd
BY RequestEnds DEF RequestsEnd

=============================================================================
