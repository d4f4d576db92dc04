-------------------------- MODULE HttpDetailsProofs --------------------------
(***************************************************************************)
(* Proofs about HttpDetails: the HTTP side is safe, and its requests end,  *)
(* for any number of requests, movies, Puts and events.                    *)
(***************************************************************************)
EXTENDS HttpDetails, TLAPS

Busy(r) == at[r] \notin {"idle", "replied"}

\* A request that is past the metadata service asks for what the services read
\* as the id of a movie of the catalog.
PastMetadata ==
    \A r \in Requests :
        /\ Busy(r) => movie[r] \in Movies
        /\ at[r] \in {"ask", "rating", "copying", "broken"} => Decoded[movie[r]] \in Catalog

\* A request under way has noticed that the rating service is not listed.
UnlistedIsNoticed == ~listed => \A r \in Requests : Busy(r) => r \in missed

RequestInv ==
    /\ PastMetadata
    /\ UnlistedIsNoticed
    /\ OKIsInCatalog
    /\ AbsentNeedsAbsence

\* What is written, or was, has an id that could be read.
RatedIsAMovie == \A w \in Writers : w \in Writing \cup acked => Rated(w) \in Movies

\* A rating of the key of a Put.
HasPut(m) == \E i \in DOMAIN ratings[m] : ratings[m][i] \in Puts

\* Nothing is claimed of a repository whose accesses have overlapped.
TornIsDisturbed ==
    torn => /\ \A m \in Movies : settled[m] = {}
            /\ acked = {} /\ calm = {}

\* What was averaged for an answer would be averaged again.
SettledIsCopied == \A m \in Movies : settled[m] \subseteq Copied(ratings[m])

\* With a Put in the vector there is one among those that are averaged.
PutIsCopied == \A m \in Movies : HasPut(m) => Copied(ratings[m]) \cap Puts # {}

\* What a calm request found when it began is still there.
FloorIsKept ==
    \A r \in calm : Busy(r) /\ Decoded[movie[r]] # None =>
        /\ floor[r].settled \subseteq Copied(ratings[Decoded[movie[r]]])
        /\ floor[r].acked # {} => HasPut(Decoded[movie[r]])

RatingInv ==
    /\ TornIsDisturbed
    /\ AckedIsStored
    /\ SettledIsCopied
    /\ PutIsCopied
    /\ FloorIsKept
    /\ AnsweredIsKept

HttpInv == TypeOK /\ RatedIsAMovie /\ RequestInv /\ RatingInv

-----------------------------------------------------------------------------
(* The copy of a vector.                                                   *)

\* Put at the end of a vector takes no rating away from its copy.
LEMMA CopyGrows ==
    ASSUME NEW s \in Seq(Writers), NEW w \in Writers
    PROVE  Copied(s) \subseteq Copied(Append(s, w))
<1> DEFINE t == Append(s, w)
<1>1. /\ Len(t) = Len(s) + 1
      /\ \A i \in 1..Len(s) : t[i] = s[i]
      /\ Len(s) \in Nat
  OBVIOUS
<1>2. SUFFICES ASSUME NEW j \in 1..Len(s),
                      \A k \in 1..(j - 1) : ~SameKey(s[k], s[j])
               PROVE  s[j] \in Copied(t)
  BY DEF Copied
<1>3. j \in 1..Len(t) /\ t[j] = s[j]
  BY <1>1
<1>4. \A k \in 1..(j - 1) : ~SameKey(t[k], t[j])
  BY <1>1, <1>2, <1>3
<1> QED
  BY <1>3, <1>4 DEF Copied

\* The first Put of a vector is in its copy.
LEMMA FirstPutIsCopied ==
    ASSUME NEW s \in Seq(Writers), NEW p \in Puts,
           \A i \in DOMAIN s : s[i] \notin Puts
    PROVE  p \in Copied(Append(s, p))
<1> DEFINE t == Append(s, p)
           n == Len(s) + 1
<1>1. /\ Len(t) = n /\ t[n] = p /\ n \in 1..n
      /\ \A i \in 1..(n - 1) : t[i] = s[i] /\ i \in DOMAIN s
  BY DEF Writers
<1>2. \A k \in 1..(n - 1) : ~SameKey(t[k], t[n])
  BY <1>1 DEF SameKey
<1> QED
  BY <1>1, <1>2 DEF Copied

LEMMA CopyOfNone == Copied(<<>>) = {}
BY DEF Copied

LEMMA CopyIsOfWriters == ASSUME NEW s \in Seq(Writers) PROVE Copied(s) \subseteq Writers
BY DEF Copied

-----------------------------------------------------------------------------
(* Types.                                                                  *)

LEMMA InitTyped == Init => TypeOK
<1> SUFFICES ASSUME Init PROVE TypeOK
  OBVIOUS
<1>1. ratings \in [Movies -> Seq(Writers)]
  BY DEF Init
<1>2. floor \in [Requests -> [settled : SUBSET Writers, acked : SUBSET Puts]]
  BY DEF Init
<1> QED
  BY <1>1, <1>2 DEF Init, TypeOK

LEMMA StepTyped ==
    ASSUME TypeOK, NEW r \in Requests, NEW from, from # "replied",
           NEW to \in {"find", "metadata", "ask", "rating"}, Step(r, from, to)
    PROVE  TypeOK'
BY DEF TypeOK, Step, Moves, repository, notes

LEMMA AnswersTyped ==
    ASSUME TypeOK, NEW r \in Requests, NEW from,
           NEW status \in {"OK", "NotFound", "InternalError"}, Answers(r, from, status)
    PROVE  TypeOK'
BY DEF TypeOK, Answers, Moves, repository, notes

LEMMA GetTyped ==
    ASSUME TypeOK, NEW r \in Requests, NEW m \in Movies, Get(r, m)
    PROVE  TypeOK'
<1> DEFINE f == [settled |-> UNION {settled[n] : n \in {Decoded[m]} \ {None}},
                 acked |-> {p \in acked : Rated(p) = Decoded[m]}]
<1>1. Decoded[m] \in Movies \cup {None}
  BY HttpAssumption
<1>2. UNION {settled[n] : n \in {Decoded[m]} \ {None}} \subseteq Writers
  BY <1>1 DEF TypeOK
<1>3. f \in [settled : SUBSET Writers, acked : SUBSET Puts]
  BY <1>2 DEF TypeOK
<1> QED
  BY <1>3 DEF TypeOK, Get, Moves, repository

LEMMA DisturbedTyped ==
    ASSUME TypeOK, Disturbed
    PROVE  /\ settled' \in [Movies -> SUBSET Writers]
           /\ acked' \subseteq Puts /\ calm' \subseteq Requests /\ missed' \subseteq Requests
           /\ floor' \in [Requests -> [settled : SUBSET Writers, acked : SUBSET Puts]]
BY DEF TypeOK, Disturbed

LEMMA AccessesTyped ==
    ASSUME TypeOK, NEW tears \in BOOLEAN, Accesses(tears)
    PROVE  /\ torn' \in BOOLEAN /\ UNCHANGED <<ratings, ratingUp>>
           /\ settled' \in [Movies -> SUBSET Writers]
           /\ acked' \subseteq Puts /\ calm' \subseteq Requests /\ missed' \subseteq Requests
           /\ floor' \in [Requests -> [settled : SUBSET Writers, acked : SUBSET Puts]]
<1>1. CASE tears
  BY <1>1, DisturbedTyped DEF Accesses, TypeOK
<1>2. CASE ~tears
  BY <1>2 DEF Accesses, TypeOK, notes
<1> QED
  BY <1>1, <1>2

LEMMA WritesTyped ==
    ASSUME TypeOK, NEW w \in Writers, NEW from, Writes(w, from)
    PROVE  TypeOK'
<1>1. WriteTears(w) \in BOOLEAN
  BY DEF WriteTears
<1>2. Accesses(WriteTears(w))
  BY DEF Writes
<1> QED
  BY <1>1, <1>2, AccessesTyped DEF TypeOK, Writes, requests

LEMMA BeginGetTyped ==
    ASSUME TypeOK, NEW r \in Requests, BeginGet(r)
    PROVE  TypeOK'
<1>1. ReadTears(r) \in BOOLEAN
  BY DEF ReadTears
<1>2. Accesses(ReadTears(r))
  BY DEF BeginGet
<1>3. /\ at' = [at EXCEPT ![r] = "copying"] /\ at[r] = "rating"
      /\ UNCHANGED <<registry, listed, movieUp, writer, movie, reply, rating, absent>>
      /\ reading' = reading \cup {r}
  BY DEF BeginGet, Moves
<1>4. /\ torn' \in BOOLEAN /\ UNCHANGED <<ratings, ratingUp>>
      /\ settled' \in [Movies -> SUBSET Writers]
      /\ acked' \subseteq Puts /\ calm' \subseteq Requests /\ missed' \subseteq Requests
      /\ floor' \in [Requests -> [settled : SUBSET Writers, acked : SUBSET Puts]]
  BY <1>1, <1>2, AccessesTyped
<1> QED
  BY <1>3, <1>4 DEF TypeOK

LEMMA WrittenTyped ==
    ASSUME TypeOK, RatedIsAMovie, NEW w \in Writers, Written(w)
    PROVE  TypeOK'
<1>1. Rated(w) \in Movies
  BY DEF RatedIsAMovie, Written, Writing
<1>2. ratings' \in [Movies -> Seq(Writers)]
  <2>1. Append(ratings[Rated(w)], w) \in Seq(Writers)
    BY <1>1 DEF TypeOK
  <2>2. CASE PushBack(w)
    BY <1>1, <2>1, <2>2 DEF TypeOK, PushBack
  <2>3. CASE UNCHANGED ratings
    BY <2>3 DEF TypeOK
  <2> QED
    BY <2>2, <2>3 DEF Written
<1> QED
  BY <1>2 DEF TypeOK, Written, requests

LEMMA CrashTyped ==
    ASSUME TypeOK, Crash
    PROVE  TypeOK'
<1>1. ratings' \in [Movies -> Seq(Writers)]
  BY DEF Crash
<1>2. /\ at' \in [Requests -> {"idle", "find", "metadata", "ask", "rating", "copying",
                               "broken", "replied"}]
      /\ \A r \in Requests : at'[r] = "replied" <=> at[r] = "replied"
  BY DEF TypeOK, Crash
<1>3. writer' \in [Writers -> {"idle", "put", "writing", "done"}]
  BY DEF TypeOK, Crash, Writing
<1>4. Disturbed
  BY DEF Crash
<1> QED
  BY <1>1, <1>2, <1>3, <1>4, DisturbedTyped DEF TypeOK, Crash

LEMMA RatingAnswersTyped ==
    ASSUME TypeOK, PastMetadata, NEW r \in Requests, RatingAnswers(r)
    PROVE  TypeOK'
<1> DEFINE m == Decoded[movie[r]]
<1>1. at[r] = "copying" /\ m \in Movies
  BY HttpAssumption DEF RatingAnswers, Moves, PastMetadata
<1>2. PICK a \in (IF torn THEN SUBSET Writers ELSE {Copied(ratings[m])}) :
           /\ rating' = [rating EXCEPT ![r] = a]
           /\ settled' = IF torn THEN settled ELSE [settled EXCEPT ![m] = @ \cup a]
  BY DEF RatingAnswers
<1>3. a \in SUBSET Writers
  BY <1>1, <1>2, CopyIsOfWriters DEF TypeOK
<1> QED
  BY <1>1, <1>2, <1>3 DEF TypeOK, RatingAnswers, Moves, repository

-----------------------------------------------------------------------------
(* The steps of a request and what it is answered.                         *)

LEMMA OthersKeepRequests ==
    ASSUME TypeOK, RequestInv, UNCHANGED <<registry, listed, missed>>, UNCHANGED requests
    PROVE  RequestInv'
BY DEF RequestInv, PastMetadata, UnlistedIsNoticed, OKIsInCatalog, AbsentNeedsAbsence,
       Busy, requests

LEMMA CrashKeepsRequests ==
    ASSUME TypeOK, RequestInv, Crash
    PROVE  RequestInv'
<1>1. /\ \A r \in Requests : at'[r] = at[r] \/ (at[r] = "copying" /\ at'[r] = "broken")
      /\ UNCHANGED <<registry, listed, movie, reply, rating, absent, movieUp, missed>>
  BY DEF TypeOK, Crash, Disturbed
<1>2. \A r \in Requests :
         /\ Busy(r)' => Busy(r)
         /\ at'[r] \in {"ask", "rating", "copying", "broken"} =>
                at[r] \in {"ask", "rating", "copying", "broken"}
  BY <1>1 DEF Busy
<1>3. PastMetadata'
  BY <1>1, <1>2 DEF RequestInv, PastMetadata, Busy
<1>4. UnlistedIsNoticed'
  BY <1>1, <1>2 DEF RequestInv, UnlistedIsNoticed, Busy
<1>5. OKIsInCatalog'
  BY <1>1 DEF RequestInv, OKIsInCatalog
<1>6. AbsentNeedsAbsence'
  <2>1. ~movieUp => registry = "memory" /\ \E r \in missed : at'[r] = "ask"
    BY <1>1 DEF RequestInv, AbsentNeedsAbsence, TypeOK
  <2> QED
    BY <1>1, <2>1 DEF RequestInv, AbsentNeedsAbsence
<1> QED
  BY <1>3, <1>4, <1>5, <1>6 DEF RequestInv

LEMMA ListingKeepsRequests ==
    ASSUME TypeOK, RequestInv, ListOrUnlist
    PROVE  RequestInv'
BY DEF RequestInv, PastMetadata, UnlistedIsNoticed, OKIsInCatalog, AbsentNeedsAbsence,
       Busy, TypeOK, ListOrUnlist, requests

\* A request goes on, to the rating service only with a movie of the catalog.
LEMMA GoesOnKeepsRequests ==
    ASSUME TypeOK, RequestInv, NEW r \in Requests, NEW from, NEW to, Busy(r),
           Moves(r, from, to), to \notin {"idle", "replied"},
           to \in {"ask", "rating", "copying", "broken"} => Decoded[movie[r]] \in Catalog,
           UNCHANGED <<movie, reply, absent, missed>>
    PROVE  RequestInv'
<1>1. movieUp /\ movieUp' /\ UNCHANGED <<registry, listed>>
  BY DEF Moves, TypeOK
<1>2. \A q \in Requests : at'[q] = IF q = r THEN to ELSE at[q]
  BY DEF Moves, TypeOK
<1> QED
  BY <1>1, <1>2 DEF RequestInv, PastMetadata, UnlistedIsNoticed, OKIsInCatalog,
                    AbsentNeedsAbsence, Busy

\* A request is answered, OK only for a movie of the catalog.
LEMMA AnswerKeepsRequests ==
    ASSUME TypeOK, RequestInv, NEW r \in Requests, NEW from, NEW status,
           Moves(r, from, "replied"),
           status = "OK" => Decoded[movie[r]] \in Catalog,
           reply' = [reply EXCEPT ![r] = status],
           UNCHANGED <<movie, absent, missed>>
    PROVE  RequestInv'
<1>1. movieUp /\ movieUp' /\ UNCHANGED <<registry, listed>>
  BY DEF Moves, TypeOK
<1>2. \A q \in Requests : /\ at'[q] = IF q = r THEN "replied" ELSE at[q]
                          /\ reply'[q] = IF q = r THEN status ELSE reply[q]
  BY DEF Moves, TypeOK
<1> QED
  BY <1>1, <1>2 DEF RequestInv, PastMetadata, UnlistedIsNoticed, OKIsInCatalog,
                    AbsentNeedsAbsence, Busy

LEMMA GetKeepsRequests ==
    ASSUME TypeOK, RequestInv, NEW r \in Requests, NEW m \in Movies, Get(r, m)
    PROVE  RequestInv'
<1>1. movieUp /\ movieUp' /\ UNCHANGED <<registry, listed, reply, absent>>
  BY DEF Get, Moves, TypeOK
<1>2. \A q \in Requests : /\ at'[q] = IF q = r THEN "find" ELSE at[q]
                          /\ movie'[q] = IF q = r THEN m ELSE movie[q]
  BY DEF Get, Moves, TypeOK
<1>3. missed' = IF listed THEN missed ELSE missed \cup {r}
  BY DEF Get
<1>4. reply[r] = "none"
  BY DEF Get, Moves, TypeOK
<1> QED
  BY <1>1, <1>2, <1>3, <1>4 DEF RequestInv, PastMetadata, UnlistedIsNoticed, OKIsInCatalog,
                    AbsentNeedsAbsence, Busy

LEMMA FindNoRatingKeepsRequests ==
    ASSUME TypeOK, RequestInv, NEW r \in Requests, FindNoRating(r)
    PROVE  RequestInv'
<1>1. /\ ~listed /\ registry = "memory" /\ at[r] = "ask" /\ movieUp
      /\ UNCHANGED <<registry, listed, movie, missed>>
  BY DEF FindNoRating, Absent, notes
<1>2. r \in missed /\ Decoded[movie[r]] \in Catalog
  BY <1>1 DEF RequestInv, UnlistedIsNoticed, PastMetadata, Busy
<1>3. CASE movieUp' = FALSE /\ UNCHANGED <<at, reply, absent>>
  BY <1>1, <1>2, <1>3 DEF RequestInv, PastMetadata, UnlistedIsNoticed, OKIsInCatalog,
                          AbsentNeedsAbsence, Busy
<1>4. CASE /\ at' = [at EXCEPT ![r] = "replied"]
           /\ reply' = [reply EXCEPT ![r] = "OK"]
           /\ absent' = absent \cup {r}
           /\ UNCHANGED movieUp
  <2>1. \A q \in Requests : /\ at'[q] = IF q = r THEN "replied" ELSE at[q]
                            /\ reply'[q] = IF q = r THEN "OK" ELSE reply[q]
    BY <1>4 DEF TypeOK
  <2> QED
    BY <1>1, <1>2, <1>4, <2>1 DEF RequestInv, PastMetadata, UnlistedIsNoticed,
                    OKIsInCatalog, AbsentNeedsAbsence, Busy
<1>5. CASE /\ at' = [at EXCEPT ![r] = "replied"]
           /\ reply' = [reply EXCEPT ![r] = "InternalError"]
           /\ UNCHANGED <<absent, movieUp>>
  <2>1. Moves(r, "ask", "replied")
    BY <1>1, <1>5 DEF Moves, FindNoRating, Absent
  <2> QED
    BY <1>1, <1>5, <2>1, AnswerKeepsRequests
<1> QED
  BY <1>3, <1>4, <1>5 DEF FindNoRating, Absent

-----------------------------------------------------------------------------
(* The repository and what is averaged.                                    *)

\* A step that leaves the repository alone and averages nothing.
LEMMA ElsewhereKeepsRatings ==
    ASSUME TypeOK, RatingInv,
           UNCHANGED <<ratings, torn, settled, acked, calm, floor, rating>>,
           \A r \in Requests :
                /\ Busy(r)' => Busy(r) /\ movie'[r] = movie[r]
                /\ reply'[r] = "OK" /\ r \notin absent' => reply[r] = "OK" /\ r \notin absent
    PROVE  RatingInv'
<1>1. calm \subseteq Requests
  BY DEF TypeOK
<1>2. \A m : HasPut(m)' = HasPut(m)
  BY DEF HasPut
<1>3. TornIsDisturbed' /\ AckedIsStored' /\ SettledIsCopied' /\ PutIsCopied'
  BY <1>2 DEF RatingInv, TornIsDisturbed, AckedIsStored, SettledIsCopied, PutIsCopied, Copied
<1>4. FloorIsKept'
  BY <1>1, <1>2 DEF RatingInv, FloorIsKept, Copied
<1>5. AnsweredIsKept'
  BY <1>1 DEF RatingInv, AnsweredIsKept
<1> QED
  BY <1>3, <1>4, <1>5 DEF RatingInv

\* A crash or a torn access.
LEMMA DisturbedKeepsRatings ==
    ASSUME TypeOK, RatingInv, Disturbed,
           UNCHANGED ratings \/ ratings' = [m \in Movies |-> <<>>]
    PROVE  RatingInv'
<1>1. /\ \A m \in Movies : settled'[m] = {}
      /\ acked' = {} /\ calm' = {}
  BY DEF Disturbed
<1>2. PutIsCopied'
  <2>1. CASE UNCHANGED ratings
    <3>1. \A m \in Movies : HasPut(m) => Copied(ratings[m]) \cap Puts # {}
      BY DEF RatingInv, PutIsCopied
    <3>2. SUFFICES ASSUME NEW m \in Movies, HasPut(m)'
                   PROVE  Copied(ratings'[m]) \cap Puts # {}
      BY DEF PutIsCopied, Copied
    <3>3. ratings'[m] = ratings[m] /\ HasPut(m)
      BY <2>1, <3>2 DEF HasPut
    <3> QED
      BY <3>1, <3>3
  <2>2. CASE ratings' = [m \in Movies |-> <<>>]
    BY <2>2 DEF PutIsCopied, HasPut
  <2> QED
    BY <2>1, <2>2
<1> QED
  BY <1>1, <1>2 DEF RatingInv, TornIsDisturbed, AckedIsStored, SettledIsCopied,
                    FloorIsKept, AnsweredIsKept

LEMMA AccessKeepsRatings ==
    ASSUME TypeOK, RatingInv, NEW tears \in BOOLEAN, Accesses(tears),
           UNCHANGED <<movie, reply, rating, absent>>,
           \A r \in Requests : Busy(r)' => Busy(r)
    PROVE  RatingInv'
<1>1. CASE tears
  BY <1>1, DisturbedKeepsRatings DEF Accesses
<1>2. CASE ~tears
  <2>1. UNCHANGED <<ratings, torn, settled, acked, calm, floor, rating>>
    BY <1>2 DEF Accesses, notes, TypeOK
  <2> QED
    BY <2>1, ElsewhereKeepsRatings
<1> QED
  BY <1>1, <1>2

LEMMA WrittenKeepsRatings ==
    ASSUME TypeOK, RatedIsAMovie, RatingInv, PastMetadata, NEW w \in Writers, Written(w)
    PROVE  RatingInv'
<1> DEFINE m == Rated(w)
<1>1. /\ m \in Movies /\ ratings[m] \in Seq(Writers)
      /\ UNCHANGED <<torn, requests, settled, calm, floor>>
      /\ acked' = IF w \in Puts /\ ~torn THEN acked \cup {w} ELSE acked
      /\ acked \subseteq Puts /\ calm \subseteq Requests
  BY DEF RatedIsAMovie, Written, Writing, TypeOK
<1>2. CASE torn /\ UNCHANGED ratings
  <2>1. UNCHANGED <<ratings, torn, settled, acked, calm, floor, rating>>
    BY <1>1, <1>2 DEF requests
  <2>2. UNCHANGED <<at, movie, reply, absent>>
    BY <1>1 DEF requests
  <2> QED
    BY <2>1, <2>2, ElsewhereKeepsRatings DEF Busy
<1>3. CASE PushBack(w)
  <2>1. \A k \in Movies : ratings'[k] = IF k = m THEN Append(ratings[m], w) ELSE ratings[k]
    BY <1>1, <1>3 DEF PushBack, TypeOK
  <2>2. \A k \in Movies : Copied(ratings[k]) \subseteq Copied(ratings'[k])
    BY <1>1, <2>1, CopyGrows
  <2>3. \A k \in Movies : \A i \in DOMAIN ratings[k] :
            i \in DOMAIN ratings'[k] /\ ratings'[k][i] = ratings[k][i]
    <3>1. \A i \in DOMAIN ratings[m] :
              /\ i \in DOMAIN Append(ratings[m], w)
              /\ Append(ratings[m], w)[i] = ratings[m][i]
      BY <1>1
    <3>2. ratings'[m] = Append(ratings[m], w)
      BY <1>1, <2>1
    <3>3. \A k \in Movies \ {m} : ratings'[k] = ratings[k]
      BY <2>1
    <3> QED
      BY <3>1, <3>2, <3>3
  <2>4. \A k \in Movies : HasPut(k) => HasPut(k)'
    BY <2>3 DEF HasPut
  <2>5. TornIsDisturbed'
    BY <1>1 DEF RatingInv, TornIsDisturbed
  <2>6. AckedIsStored'
    <3>1. SUFFICES ASSUME NEW p \in acked'
                   PROVE  \E i \in DOMAIN ratings'[Rated(p)] : ratings'[Rated(p)][i] = p
      BY DEF AckedIsStored, Rated
    <3>2. CASE p \in acked
      <4>1. Rated(p) \in Movies
        BY <1>1, <3>2 DEF Writers, RatedIsAMovie
      <4> QED
        BY <3>2, <4>1, <2>3 DEF RatingInv, AckedIsStored
    <3>3. CASE p = w
      <4> DEFINE n == Len(ratings[m]) + 1
      <4>1. n \in DOMAIN Append(ratings[m], w) /\ Append(ratings[m], w)[n] = w
        BY <1>1
      <4>2. ratings'[Rated(p)] = Append(ratings[m], w)
        BY <1>1, <2>1, <3>3
      <4> HIDE DEF n
      <4> QED
        BY <3>3, <4>1, <4>2
    <3> QED
      BY <1>1, <3>2, <3>3
  <2>7. SettledIsCopied'
    BY <1>1, <2>2 DEF RatingInv, SettledIsCopied
  <2>8. PutIsCopied'
    <3>1. SUFFICES ASSUME NEW k \in Movies, HasPut(k)'
                   PROVE  Copied(ratings'[k]) \cap Puts # {}
      BY DEF PutIsCopied, Copied
    <3>2. CASE HasPut(k)
      BY <2>2, <3>2 DEF RatingInv, PutIsCopied
    <3>3. CASE ~HasPut(k)
      <4>1. k = m
        BY <2>1, <3>1, <3>3 DEF HasPut
      <4>2. \A i \in DOMAIN ratings[m] : ratings[m][i] \notin Puts
        BY <3>3, <4>1 DEF HasPut
      <4>3. w \in Puts
        <5>1. PICK i \in DOMAIN Append(ratings[m], w) : Append(ratings[m], w)[i] \in Puts
          BY <1>1, <2>1, <3>1, <4>1 DEF HasPut
        <5>2. CASE i \in DOMAIN ratings[m]
          BY <1>1, <4>2, <5>1, <5>2
        <5>3. CASE i = Len(ratings[m]) + 1
          BY <1>1, <5>1, <5>3
        <5> QED
          BY <1>1, <5>1, <5>2, <5>3
      <4> QED
        BY <1>1, <2>1, <4>1, <4>2, <4>3, FirstPutIsCopied
    <3> QED
      BY <3>2, <3>3
  <2>9. FloorIsKept'
    <3> DEFINE Asks(r) == Busy(r) /\ Decoded[movie[r]] # None
    <3>1. \A r \in calm : Asks(r) => Decoded[movie[r]] \in Movies
      BY <1>1, HttpAssumption DEF PastMetadata
    <3>2. \A r \in calm : Asks(r) =>
              /\ floor[r].settled \subseteq Copied(ratings[Decoded[movie[r]]])
              /\ floor[r].acked # {} => HasPut(Decoded[movie[r]])
      BY DEF RatingInv, FloorIsKept
    <3>3. \A r \in calm : Asks(r) =>
              floor[r].settled \subseteq Copied(ratings'[Decoded[movie[r]]])
      BY <2>2, <3>1, <3>2
    <3>4. \A k \in Movies : HasPut(k) =>
              \E i \in DOMAIN ratings'[k] : ratings'[k][i] \in Puts
      BY <2>4 DEF HasPut
    <3>5. \A r \in calm : Asks(r) => (floor[r].acked # {} =>
              \E i \in DOMAIN ratings'[Decoded[movie[r]]] :
                  ratings'[Decoded[movie[r]]][i] \in Puts)
      BY <3>1, <3>2, <3>4
    <3>6. UNCHANGED <<at, movie, calm, floor>>
      BY <1>1 DEF requests
    <3> QED
      BY <3>3, <3>5, <3>6 DEF FloorIsKept, Busy, HasPut, Copied
  <2>10. AnsweredIsKept'
    BY <1>1 DEF RatingInv, AnsweredIsKept, requests
  <2> QED
    BY <2>5, <2>6, <2>7, <2>8, <2>9, <2>10 DEF RatingInv
<1> QED
  BY <1>2, <1>3 DEF Written

LEMMA GetKeepsRatings ==
    ASSUME TypeOK, RatedIsAMovie, RatingInv, NEW r \in Requests, NEW m \in Movies, Get(r, m)
    PROVE  RatingInv'
<1> DEFINE n == Decoded[m]
<1>1. /\ at[r] = "idle" /\ reply[r] = "none"
      /\ UNCHANGED <<ratings, torn, reply, rating, absent, settled, acked>>
      /\ calm' = IF torn \/ ~ratingUp THEN calm ELSE calm \cup {r}
  BY DEF Get, Moves, TypeOK, repository
<1>2. \A q \in Requests : /\ at'[q] = IF q = r THEN "find" ELSE at[q]
                          /\ movie'[q] = IF q = r THEN m ELSE movie[q]
                          /\ q # r => floor'[q] = floor[q]
  BY DEF Get, Moves, TypeOK
<1>3. /\ n # None => n \in Movies /\ floor'[r].settled = settled[n]
      /\ floor'[r].acked = {p \in acked : Rated(p) = n}
  <2>1. floor'[r] = [settled |-> UNION {settled[k] : k \in {n} \ {None}},
                     acked |-> {p \in acked : Rated(p) = n}]
    BY DEF Get, TypeOK
  <2>2. n # None => UNION {settled[k] : k \in {n} \ {None}} = settled[n]
    OBVIOUS
  <2> QED
    BY <2>1, <2>2, HttpAssumption
<1>4. calm \subseteq Requests /\ calm' \subseteq calm \cup {r} /\ acked \subseteq Puts
  BY <1>1 DEF TypeOK
<1>5. TornIsDisturbed'
  BY <1>1 DEF RatingInv, TornIsDisturbed
<1>6. AckedIsStored' /\ SettledIsCopied' /\ PutIsCopied'
  <2>1. \A k : HasPut(k)' = HasPut(k)
    BY <1>1 DEF HasPut
  <2> QED
    BY <1>1, <2>1 DEF RatingInv, AckedIsStored, SettledIsCopied, PutIsCopied, Copied
<1>7. FloorIsKept'
  <2> DEFINE Asks(q) == at'[q] \notin {"idle", "replied"} /\ Decoded[movie'[q]] # None
  <2>1. \A q \in calm \ {r} : Asks(q) =>
            /\ floor'[q].settled \subseteq Copied(ratings[Decoded[movie'[q]]])
            /\ floor'[q].acked # {} => HasPut(Decoded[movie'[q]])
    BY <1>2, <1>4 DEF RatingInv, FloorIsKept, Busy
  <2>2. Asks(r) => floor'[r].settled \subseteq Copied(ratings[n])
    BY <1>2, <1>3 DEF RatingInv, SettledIsCopied
  <2>3. Asks(r) => (floor'[r].acked # {} => HasPut(n))
    BY <1>2, <1>3, <1>4 DEF RatingInv, AckedIsStored, HasPut
  <2>4. \A q \in calm' : Asks(q) =>
            /\ floor'[q].settled \subseteq Copied(ratings[Decoded[movie'[q]]])
            /\ floor'[q].acked # {} => HasPut(Decoded[movie'[q]])
    <3> TAKE q \in calm'
    <3>1. CASE q = r
      BY <1>2, <2>2, <2>3, <3>1
    <3>2. CASE q \in calm \ {r}
      BY <2>1, <3>2
    <3> QED
      BY <1>4, <3>1, <3>2
  <2>5. ratings' = ratings
    BY <1>1
  <2> QED
    BY <2>4, <2>5 DEF FloorIsKept, Busy, HasPut, Copied
<1>8. AnsweredIsKept'
  <2>1. \A q \in calm' : reply'[q] = "OK" => q \in calm /\ q # r
    BY <1>1, <1>4
  <2>2. \A q \in calm : q # r => floor'[q] = floor[q] /\ movie'[q] = movie[q]
    BY <1>2, <1>4
  <2> QED
    BY <1>1, <2>1, <2>2 DEF RatingInv, AnsweredIsKept
<1> QED
  BY <1>5, <1>6, <1>7, <1>8 DEF RatingInv

LEMMA AnswerKeepsRatings ==
    ASSUME TypeOK, RatingInv, PastMetadata, NEW r \in Requests, RatingAnswers(r)
    PROVE  RatingInv'
<1> DEFINE m == Decoded[movie[r]]
<1>1. /\ at[r] = "copying" /\ m \in Movies /\ m # None
      /\ UNCHANGED <<ratings, torn, movie, absent, acked, calm, floor>>
      /\ calm \subseteq Requests
  BY HttpAssumption DEF RatingAnswers, Moves, PastMetadata, repository, TypeOK
<1>2. PICK a \in (IF torn THEN SUBSET Writers ELSE {Copied(ratings[m])}) :
           /\ rating' = [rating EXCEPT ![r] = a]
           /\ settled' = IF torn THEN settled
                         ELSE [settled EXCEPT ![m] = @ \cup a]
  BY DEF RatingAnswers
<1>3. \A q \in Requests : /\ at'[q] = IF q = r THEN "replied" ELSE at[q]
                          /\ reply'[q] = IF q = r THEN "OK" ELSE reply[q]
                          /\ rating'[q] = IF q = r THEN a ELSE rating[q]
  BY <1>2 DEF RatingAnswers, Moves, TypeOK
<1>4. torn => calm = {}
  BY DEF RatingInv, TornIsDisturbed
<1>5. TornIsDisturbed'
  BY <1>1, <1>2 DEF RatingInv, TornIsDisturbed
<1>6. AckedIsStored' /\ PutIsCopied'
  <2>1. \A k : HasPut(k)' = HasPut(k)
    BY <1>1 DEF HasPut
  <2> QED
    BY <1>1, <2>1 DEF RatingInv, AckedIsStored, PutIsCopied, Copied
<1>7. SettledIsCopied'
  <2>1. CASE torn
    BY <1>1, <1>2, <2>1 DEF RatingInv, SettledIsCopied, Copied
  <2>2. CASE ~torn
    <3>1. \A k \in Movies : settled'[k] = IF k = m THEN settled[k] \cup Copied(ratings[m])
                                                   ELSE settled[k]
      BY <1>1, <1>2, <2>2 DEF TypeOK
    <3>2. \A k \in Movies : settled'[k] \subseteq Copied(ratings[k])
      BY <3>1 DEF RatingInv, SettledIsCopied
    <3> QED
      BY <1>1, <3>2 DEF SettledIsCopied, Copied
  <2> QED
    BY <2>1, <2>2
<1>8. FloorIsKept'
  <2>1. \A q \in calm : Busy(q)' => Busy(q)
    BY <1>1, <1>3 DEF Busy
  <2> QED
    BY <1>1, <2>1 DEF RatingInv, FloorIsKept, HasPut, Copied
<1>9. AnsweredIsKept'
  <2>1. \A q \in calm \ {r} : reply'[q] = "OK" /\ q \notin absent' =>
            /\ floor'[q].settled \subseteq rating'[q]
            /\ floor'[q].acked # {} => rating'[q] \cap Puts # {}
    BY <1>1, <1>3 DEF RatingInv, AnsweredIsKept
  <2>2. ASSUME r \in calm
        PROVE  /\ floor'[r].settled \subseteq rating'[r]
               /\ floor'[r].acked # {} => rating'[r] \cap Puts # {}
    <3>1. rating'[r] = Copied(ratings[m])
      BY <1>2, <1>3, <1>4, <2>2
    <3>2. /\ floor[r].settled \subseteq Copied(ratings[m])
          /\ floor[r].acked # {} => HasPut(m)
      BY <1>1, <2>2 DEF RatingInv, FloorIsKept, Busy
    <3>3. HasPut(m) => Copied(ratings[m]) \cap Puts # {}
      BY <1>1 DEF RatingInv, PutIsCopied
    <3> QED
      BY <1>1, <3>1, <3>2, <3>3
  <2> QED
    BY <1>1, <2>1, <2>2 DEF AnsweredIsKept
<1> QED
  BY <1>5, <1>6, <1>7, <1>8, <1>9 DEF RatingInv

-----------------------------------------------------------------------------
(* The invariant.                                                          *)

\* A step with which nobody starts to write and nothing is acknowledged.
LEMMA NoNewWriter ==
    ASSUME RatedIsAMovie, Writing' \subseteq Writing, acked' \subseteq acked
    PROVE  RatedIsAMovie'
BY DEF RatedIsAMovie, Rated

LEMMA InitInv == Init => HttpInv
<1> SUFFICES ASSUME Init PROVE HttpInv
  OBVIOUS
<1>1. TypeOK
  BY InitTyped
<1>2. RequestInv
  BY DEF Init, RequestInv, PastMetadata, UnlistedIsNoticed, OKIsInCatalog,
         AbsentNeedsAbsence, Busy
<1>3. \A m \in Movies : ~HasPut(m)
  BY DEF Init, HasPut
<1>4. RatingInv
  BY <1>3 DEF Init, RatingInv, TornIsDisturbed, AckedIsStored, SettledIsCopied, PutIsCopied,
              FloorIsKept, AnsweredIsKept
<1>5. RatedIsAMovie
  BY DEF Init, RatedIsAMovie, Writing
<1> QED
  BY <1>1, <1>2, <1>4, <1>5 DEF HttpInv

\* A step that only moves a request on.
LEMMA StepInv ==
    ASSUME HttpInv, NEW r \in Requests, NEW from, from \notin {"idle", "replied"},
           NEW to \in {"find", "metadata", "ask", "rating"}, Step(r, from, to),
           to \in {"ask", "rating"} => Decoded[movie[r]] \in Catalog
    PROVE  HttpInv'
<1>1. /\ Moves(r, from, to) /\ Busy(r)
      /\ UNCHANGED <<repository, movie, reply, rating, absent, notes>>
  BY DEF Step, Moves, Busy
<1>2. TypeOK'
  BY StepTyped DEF HttpInv
<1>3. RequestInv'
  BY <1>1, GoesOnKeepsRequests DEF HttpInv, notes
<1>4. \A q \in Requests : Busy(q)' => Busy(q)
  BY <1>1 DEF Moves, Busy, HttpInv, TypeOK
<1>5. RatingInv'
  BY <1>1, <1>4, ElsewhereKeepsRatings DEF HttpInv, repository, notes
<1>6. RatedIsAMovie'
  BY <1>1, NoNewWriter DEF HttpInv, Moves, Writing, notes
<1> QED
  BY <1>2, <1>3, <1>5, <1>6 DEF HttpInv

\* An answer other than OK.
LEMMA AnswersInv ==
    ASSUME HttpInv, NEW r \in Requests, NEW from,
           NEW status \in {"NotFound", "InternalError"}, Answers(r, from, status)
    PROVE  HttpInv'
<1>1. /\ Moves(r, from, "replied") /\ reply' = [reply EXCEPT ![r] = status]
      /\ UNCHANGED <<repository, movie, rating, absent, notes>>
  BY DEF Answers
<1>2. TypeOK'
  BY AnswersTyped DEF HttpInv
<1>3. RequestInv'
  BY <1>1, AnswerKeepsRequests DEF HttpInv, notes
<1>4. \A q \in Requests : /\ Busy(q)' => Busy(q)
                          /\ reply'[q] = "OK" => reply[q] = "OK"
  BY <1>1 DEF Moves, Busy, HttpInv, TypeOK
<1>5. RatingInv'
  BY <1>1, <1>4, ElsewhereKeepsRatings DEF HttpInv, repository, notes
<1>6. RatedIsAMovie'
  BY <1>1, NoNewWriter DEF HttpInv, Moves, Writing, notes
<1> QED
  BY <1>2, <1>3, <1>5, <1>6 DEF HttpInv

LEMMA HandleInv ==
    ASSUME HttpInv, NEW r \in Requests, Handle(r)
    PROVE  HttpInv'
<1> USE DEF HttpInv
<1>1. CASE FindMetadata(r) \/ MetadataAnswers(r)
  BY <1>1, StepInv DEF FindMetadata, MetadataAnswers
<1>2. CASE FindRating(r)
  <2>1. at[r] = "ask" /\ Decoded[movie[r]] \in Catalog
    BY <1>2 DEF FindRating, Step, Moves, RequestInv, PastMetadata
  <2> QED
    BY <1>2, <2>1, StepInv DEF FindRating
<1>3. CASE FindNoMetadata(r) \/ MetadataNotFound(r) \/ CallBreaks(r) \/ FindRatingThrows(r)
  BY <1>3, AnswersInv DEF FindNoMetadata, MetadataNotFound, CallBreaks, FindRatingThrows, Throws
<1>4. CASE FindNoRating(r)
  <2>1. RequestInv'
    BY <1>4, FindNoRatingKeepsRequests
  <2>2. TypeOK'
    BY <1>4 DEF FindNoRating, Absent, TypeOK, repository, notes
  <2>3. UNCHANGED <<ratings, torn, settled, acked, calm, floor, rating, movie>>
    BY <1>4 DEF FindNoRating, Absent, repository, notes
  <2>4. \A q \in Requests :
            /\ Busy(q)' => Busy(q)
            /\ reply'[q] = "OK" /\ q \notin absent' => reply[q] = "OK" /\ q \notin absent
    BY <1>4 DEF FindNoRating, Absent, Busy, TypeOK
  <2>5. RatingInv'
    BY <2>3, <2>4, ElsewhereKeepsRatings
  <2>6. RatedIsAMovie'
    BY <1>4, NoNewWriter DEF FindNoRating, Absent, Writing, notes
  <2> QED
    BY <2>1, <2>2, <2>5, <2>6
<1>5. CASE BeginGet(r)
  <2>1. /\ Moves(r, "rating", "copying") /\ Busy(r) /\ Decoded[movie[r]] \in Catalog
        /\ UNCHANGED <<movie, reply, rating, absent>>
    BY <1>5 DEF BeginGet, Moves, Busy, RequestInv, PastMetadata
  <2>2. Accesses(ReadTears(r)) /\ ReadTears(r) \in BOOLEAN
    BY <1>5 DEF BeginGet, ReadTears
  <2>3. UNCHANGED missed
    BY <2>2 DEF Accesses, Disturbed, notes
  <2>4. RequestInv'
    BY <2>1, <2>3, GoesOnKeepsRequests
  <2>5. \A q \in Requests : Busy(q)' => Busy(q)
    BY <2>1 DEF Moves, Busy, TypeOK
  <2>6. RatingInv'
    BY <2>1, <2>2, <2>5, AccessKeepsRatings
  <2>7. acked' \subseteq acked /\ UNCHANGED writer
    BY <2>1, <2>2 DEF Accesses, Disturbed, notes, Moves
  <2>8. RatedIsAMovie'
    BY <2>7, NoNewWriter DEF Writing
  <2> QED
    BY <1>5, <2>4, <2>6, <2>8, BeginGetTyped
<1>6. CASE RatingAnswers(r)
  <2>1. TypeOK'
    BY <1>6, RatingAnswersTyped DEF RequestInv
  <2>2. /\ Moves(r, "copying", "replied") /\ reply' = [reply EXCEPT ![r] = "OK"]
        /\ Decoded[movie[r]] \in Catalog /\ UNCHANGED <<movie, absent, missed>>
    BY <1>6 DEF RatingAnswers, Moves, RequestInv, PastMetadata
  <2>3. RequestInv'
    BY <2>2, AnswerKeepsRequests
  <2>4. RatingInv'
    BY <1>6, AnswerKeepsRatings DEF RequestInv
  <2>5. RatedIsAMovie'
    BY <1>6, NoNewWriter DEF RatingAnswers, Moves, Writing
  <2> QED
    BY <2>1, <2>3, <2>4, <2>5
<1> QED
  BY <1>1, <1>2, <1>3, <1>4, <1>5, <1>6 DEF Handle

LEMMA GetInv ==
    ASSUME HttpInv, NEW r \in Requests, NEW m \in Movies, Get(r, m)
    PROVE  HttpInv'
<1>1. RatedIsAMovie'
  BY NoNewWriter DEF HttpInv, Get, Moves, Writing
<1> QED
  BY <1>1, GetTyped, GetKeepsRequests, GetKeepsRatings DEF HttpInv

LEMMA WritesInv ==
    ASSUME HttpInv, NEW w \in Writers, Rated(w) \in Movies, NEW from, Writes(w, from)
    PROVE  HttpInv'
<1>1. /\ Accesses(WriteTears(w)) /\ WriteTears(w) \in BOOLEAN
      /\ UNCHANGED <<registry, listed>> /\ UNCHANGED requests
  BY DEF Writes, WriteTears
<1>2. UNCHANGED missed
  BY <1>1 DEF Accesses, Disturbed, notes
<1>3. RequestInv'
  BY <1>1, <1>2, OthersKeepRequests DEF HttpInv
<1>4. /\ UNCHANGED <<movie, reply, rating, absent>>
      /\ \A q \in Requests : Busy(q)' => Busy(q)
  BY <1>1 DEF requests, Busy
<1>5. RatingInv'
  BY <1>1, <1>4, AccessKeepsRatings DEF HttpInv
<1>6. RatedIsAMovie'
  <2>1. acked' \subseteq acked
    BY <1>1 DEF Accesses, Disturbed, notes
  <2>2. Writing' \subseteq Writing \cup {w}
    BY DEF HttpInv, TypeOK, Writes, Writing
  <2> QED
    BY <2>1, <2>2 DEF HttpInv, RatedIsAMovie, Rated
<1> QED
  BY <1>3, <1>5, <1>6, WritesTyped DEF HttpInv

LEMMA WrittenInv ==
    ASSUME HttpInv, NEW w \in Writers, Written(w)
    PROVE  HttpInv'
<1>1. RequestInv'
  BY OthersKeepRequests DEF HttpInv, Written
<1>2. RatingInv'
  BY WrittenKeepsRatings DEF HttpInv, RequestInv
<1>3. RatedIsAMovie'
  <2>1. w \in Writing /\ Writing' \subseteq Writing /\ acked' \subseteq acked \cup {w}
    BY DEF HttpInv, TypeOK, Written, Writing
  <2> QED
    BY <2>1 DEF HttpInv, RatedIsAMovie, Rated
<1> QED
  BY <1>1, <1>2, <1>3, WrittenTyped DEF HttpInv

\* Steps that change neither the ratings nor a request.
LEMMA QuietInv ==
    ASSUME HttpInv, TypeOK', Writing' \subseteq Writing,
           UNCHANGED <<registry, listed, ratings, torn, requests, notes>>
    PROVE  HttpInv'
<1>1. RequestInv'
  BY OthersKeepRequests DEF HttpInv, notes
<1>2. RatingInv'
  BY ElsewhereKeepsRatings DEF HttpInv, notes, requests, Busy
<1>3. RatedIsAMovie'
  BY NoNewWriter DEF HttpInv, notes
<1> QED
  BY <1>1, <1>2, <1>3 DEF HttpInv

LEMMA PutWithoutAccessInv ==
    ASSUME HttpInv, NEW p \in Puts, FindForPut(p) \/ PutNotMade(p)
    PROVE  HttpInv'
<1>1. /\ UNCHANGED <<registry, listed, repository, requests, notes>>
      /\ writer' = [writer EXCEPT ![p] = "put"] \/ writer' = [writer EXCEPT ![p] = "done"]
  BY DEF FindForPut, PutNotMade
<1>2. TypeOK'
  BY <1>1 DEF HttpInv, TypeOK, repository, requests, notes
<1>3. Writing' \subseteq Writing
  BY <1>1 DEF HttpInv, TypeOK, Writing
<1> QED
  BY <1>1, <1>2, <1>3, QuietInv DEF repository

LEMMA CrashInv ==
    ASSUME HttpInv, Crash
    PROVE  HttpInv'
<1>1. Disturbed /\ ratings' = [m \in Movies |-> <<>>]
  BY DEF Crash
<1>2. RatingInv'
  BY <1>1, DisturbedKeepsRatings DEF HttpInv
<1>3. RatedIsAMovie'
  <2>1. Writing' \subseteq Writing /\ acked' = {}
    BY DEF Crash, Disturbed, Writing
  <2> QED
    BY <2>1, NoNewWriter DEF HttpInv
<1> QED
  BY <1>2, <1>3, CrashTyped, CrashKeepsRequests DEF HttpInv

LEMMA RestartInv ==
    ASSUME HttpInv, Restart
    PROVE  HttpInv'
<1>1. TypeOK' /\ Writing' = Writing
  BY DEF HttpInv, TypeOK, Restart, Writing, requests, notes
<1> QED
  BY <1>1, QuietInv DEF Restart

LEMMA EndCopyInv ==
    ASSUME HttpInv, NEW r \in Requests, EndCopy(r)
    PROVE  HttpInv'
<1>1. TypeOK' /\ Writing' = Writing
  BY DEF HttpInv, TypeOK, EndCopy, Writing, requests, notes
<1> QED
  BY <1>1, QuietInv DEF EndCopy

LEMMA ListOrUnlistInv ==
    ASSUME HttpInv, ListOrUnlist
    PROVE  HttpInv'
<1>1. TypeOK'
  BY DEF HttpInv, TypeOK, ListOrUnlist, repository, requests
<1>2. RequestInv'
  BY ListingKeepsRequests DEF HttpInv
<1>3. RatingInv'
  BY ElsewhereKeepsRatings DEF HttpInv, ListOrUnlist, repository, requests, Busy
<1>4. RatedIsAMovie'
  BY NoNewWriter DEF HttpInv, ListOrUnlist, Writing
<1> QED
  BY <1>1, <1>2, <1>3, <1>4 DEF HttpInv

LEMMA NextInv == HttpInv /\ [Next]_vars => HttpInv'
<1> SUFFICES ASSUME HttpInv, [Next]_vars PROVE HttpInv'
  OBVIOUS
<1>1. ASSUME NEW r \in Requests, Handle(r) PROVE HttpInv'
  BY <1>1, HandleInv
<1>2. ASSUME NEW r \in Requests, GetWithoutId(r) PROVE HttpInv'
  BY <1>2, AnswersInv DEF GetWithoutId, Throws
<1>3. ASSUME NEW r \in Requests, NEW m \in Movies, Get(r, m) PROVE HttpInv'
  BY <1>3, GetInv
<1>4. ASSUME NEW p \in Puts, FindForPut(p) \/ PutNotMade(p) PROVE HttpInv'
  BY <1>4, PutWithoutAccessInv
<1>5. ASSUME NEW p \in Puts, BeginPut(p) PROVE HttpInv'
  <2>1. p \in Writers /\ Rated(p) \in Movies
    BY <1>5, HttpAssumption DEF BeginPut, Rated, Writers
  <2> QED
    BY <1>5, <2>1, WritesInv DEF BeginPut
<1>6. ASSUME NEW e \in Events, Ingest(e) PROVE HttpInv'
  <2>1. e \in Writers /\ Rated(e) \in Movies
    BY HttpAssumption DEF Rated, Writers
  <2> QED
    BY <1>6, <2>1, WritesInv DEF Ingest
<1>7. ASSUME NEW w \in Writers, Written(w) PROVE HttpInv'
  BY <1>7, WrittenInv
<1>8. CASE Crash \/ Restart \/ ListOrUnlist
  BY <1>8, CrashInv, RestartInv, ListOrUnlistInv
<1>9. CASE UNCHANGED vars
  <2>1. TypeOK' /\ Writing' = Writing
    BY <1>9 DEF HttpInv, TypeOK, Writing, vars, repository, requests, notes
  <2> QED
    BY <1>9, <2>1, QuietInv DEF vars, repository
<1>10. ASSUME NEW r \in Requests, EndCopy(r) PROVE HttpInv'
  BY <1>10, EndCopyInv
<1> QED
  BY <1>1, <1>2, <1>3, <1>4, <1>5, <1>6, <1>7, <1>8, <1>9, <1>10 DEF Next

\* The invariant holds in every reachable state.
THEOREM HttpInvariant == Spec => []HttpInv
<1> QED
  BY InitInv, NextInv, PTL DEF Spec

\* The state of the HTTP side is of its types.
THEOREM HttpTyped == Spec => []TypeOK
<1>1. HttpInv => TypeOK
  BY DEF HttpInv
<1> QED
  BY <1>1, HttpInvariant, PTL

\* OK is answered only for an id that the metadata service reads as that of a
\* movie which it has: handle_get of the movie service goes on to the ratings
\* only then, whatever it had decoded itself.
THEOREM AnsweredIsKnown == Spec => []OKIsInCatalog
<1>1. HttpInv => OKIsInCatalog
  BY DEF HttpInv, RequestInv
<1> QED
  BY <1>1, HttpInvariant, PTL

\* Absent details are used only with the memory registry and without a rating
\* service (handle_get of the movie service).
THEOREM AbsenceIsExcused == Spec => []AbsentNeedsAbsence
<1>1. HttpInv => AbsentNeedsAbsence
  BY DEF HttpInv, RequestInv
<1> QED
  BY <1>1, HttpInvariant, PTL

\* A Put that was answered OK is stored (handle_put and Repository::Put).
THEOREM AckedStaysStored == Spec => []AckedIsStored
<1>1. HttpInv => AckedIsStored
  BY DEF HttpInv, RatingInv
<1> QED
  BY <1>1, HttpInvariant, PTL

\* Later answers average what earlier ones did (handle_get of the rating
\* service and Repository::Get), for any number of ratings.
THEOREM AnswersGrow == Spec => []AnsweredIsKept
<1>1. HttpInv => AnsweredIsKept
  BY DEF HttpInv, RatingInv
<1> QED
  BY <1>1, HttpInvariant, PTL

-----------------------------------------------------------------------------
(* Every request has its end.                                             *)

\* Weak fairness of the steps of a request, with the condition under which
\* one is enabled written out: the movie service is up and the request is
\* neither before its beginning nor answered.
Scheduled(r) == []<>(at[r] = "idle" \/ at[r] = "replied" \/ ~movieUp) \/ []<><<Handle(r)>>_vars

\* Where a step of the request takes it.
LEMMA HandleGoesAhead ==
    ASSUME TypeOK, NEW r \in Requests, Handle(r)
    PROVE  /\ movieUp
           /\ at[r] \in {"find", "metadata", "ask", "rating", "copying", "broken"}
           /\ at[r] = "find"     => at'[r] \in {"metadata", "replied"}
           /\ at[r] = "metadata" => at'[r] \in {"ask", "replied"}
           /\ at[r] = "ask"      => at'[r] \in {"rating", "replied"} \/ ~movieUp'
           /\ at[r] = "rating"   => at'[r] \in {"copying", "replied"}
           /\ at[r] \in {"copying", "broken"} => at'[r] = "replied"
<1> USE DEF TypeOK
<1>1. CASE \E from, to : Step(r, from, to) /\ <<from, to>> \in
               {<<"find", "metadata">>, <<"metadata", "ask">>, <<"ask", "rating">>}
  BY <1>1 DEF Step, Moves
<1>2. CASE \E from \in {"find", "metadata", "ask", "rating", "copying", "broken"} : Throws(r, from)
  BY <1>2 DEF Throws, Answers, Moves
<1>3. CASE FindNoRating(r)
  BY <1>3 DEF FindNoRating, Absent
<1>4. CASE BeginGet(r)
  BY <1>4 DEF BeginGet, Moves
<1>5. CASE RatingAnswers(r)
  BY <1>5 DEF RatingAnswers, Moves
<1> QED
  BY <1>1, <1>2, <1>3, <1>4, <1>5
     DEF Handle, FindMetadata, FindNoMetadata, MetadataAnswers, MetadataNotFound, CallBreaks,
         FindRating, FindRatingThrows

\* The steps of the others leave it where it is, or break its call.
LEMMA OthersHoldUp ==
    ASSUME TypeOK, [Next]_vars, NEW r \in Requests, ~Handle(r), at[r] \notin {"idle", "replied"}
    PROVE  \/ at'[r] = at[r]
           \/ at[r] = "copying" /\ at'[r] = "broken"
<1> USE DEF TypeOK
<1>1. ASSUME NEW s \in Requests \ {r}, Handle(s) PROVE at'[r] = at[r]
  <2>1. \/ at' = at \/ \E p : at' = [at EXCEPT ![s] = p]
    BY <1>1 DEF Handle, FindMetadata, FindNoMetadata, MetadataAnswers, MetadataNotFound,
       CallBreaks, FindRating, FindRatingThrows, FindNoRating, Absent, BeginGet, RatingAnswers,
       Step, Throws, Answers, Moves
  <2> QED
    BY <1>1, <2>1
<1>3. ASSUME \/ \E p \in Puts : FindForPut(p) \/ PutNotMade(p) \/ BeginPut(p)
             \/ \E e \in Events : Ingest(e)
             \/ \E w \in Writers : Written(w)
             \/ \E q \in Requests : EndCopy(q)
             \/ Restart \/ ListOrUnlist \/ UNCHANGED vars
      PROVE  at' = at
  BY <1>3 DEF FindForPut, PutNotMade, BeginPut, Ingest, Writes, Written, EndCopy, Restart,
              ListOrUnlist, requests, vars
<1>4. CASE Crash
  BY <1>4 DEF Crash
<1>5. CASE \E s \in Requests : Handle(s) \/ GetWithoutId(s) \/ \E m \in Movies : Get(s, m)
  <2>1. PICK s \in Requests : Handle(s) \/ GetWithoutId(s) \/ \E m \in Movies : Get(s, m)
    BY <1>5
  <2>2. CASE Handle(s)
    <3>1. s # r
      BY <2>2
    <3> QED
      BY <1>1, <2>2, <3>1
  <2>3. CASE GetWithoutId(s)
    BY <2>3 DEF GetWithoutId, Throws, Answers, Moves
  <2>4. CASE \E m \in Movies : Get(s, m)
    BY <2>4 DEF Get, Moves
  <2> QED
    BY <2>1, <2>2, <2>3, <2>4
<1>6. CASE ~(\E s \in Requests : Handle(s) \/ GetWithoutId(s) \/ \E m \in Movies : Get(s, m))
  <2>1. at' = at \/ Crash
    BY <1>3, <1>6 DEF Next
  <2> QED
    BY <1>4, <2>1
<1> QED
  BY <1>5, <1>6

\* The stages that a request goes through, each left for a later one.
LEMMA RequestEnds ==
    ASSUME NEW r \in Requests
    PROVE  Spec /\ Scheduled(r) => ((at[r] = "find") ~> (at[r] = "replied" \/ ~movieUp))
<1>1. /\ TypeOK /\ at[r] = "find" /\ [Next]_vars =>
             (at[r] = "find")' \/ (at[r] = "metadata")' \/ (at[r] = "replied")'
      /\ TypeOK /\ at[r] = "find" /\ <<Handle(r)>>_vars =>
             (at[r] = "metadata")' \/ (at[r] = "replied")'
  BY HandleGoesAhead, OthersHoldUp
<1>2. /\ TypeOK /\ at[r] = "metadata" /\ [Next]_vars =>
             (at[r] = "metadata")' \/ (at[r] = "ask")' \/ (at[r] = "replied")'
      /\ TypeOK /\ at[r] = "metadata" /\ <<Handle(r)>>_vars =>
             (at[r] = "ask")' \/ (at[r] = "replied")'
  BY HandleGoesAhead, OthersHoldUp
<1>3. /\ TypeOK /\ at[r] = "ask" /\ [Next]_vars =>
             (at[r] = "ask")' \/ (at[r] = "rating")' \/ (at[r] = "replied")' \/ (~movieUp)'
      /\ TypeOK /\ at[r] = "ask" /\ <<Handle(r)>>_vars =>
             (at[r] = "rating")' \/ (at[r] = "replied")' \/ (~movieUp)'
  BY HandleGoesAhead, OthersHoldUp
<1>4. /\ TypeOK /\ at[r] = "rating" /\ [Next]_vars =>
             (at[r] = "rating")' \/ (at[r] = "copying")' \/ (at[r] = "replied")'
      /\ TypeOK /\ at[r] = "rating" /\ <<Handle(r)>>_vars =>
             (at[r] = "copying")' \/ (at[r] = "replied")'
  BY HandleGoesAhead, OthersHoldUp
<1>5. /\ TypeOK /\ at[r] = "copying" /\ [Next]_vars =>
             (at[r] = "copying")' \/ (at[r] = "broken")' \/ (at[r] = "replied")'
      /\ TypeOK /\ at[r] = "copying" /\ <<Handle(r)>>_vars => (at[r] = "replied")'
  BY HandleGoesAhead, OthersHoldUp
<1>6. /\ TypeOK /\ at[r] = "broken" /\ [Next]_vars =>
             (at[r] = "broken")' \/ (at[r] = "replied")'
      /\ TypeOK /\ at[r] = "broken" /\ <<Handle(r)>>_vars => (at[r] = "replied")'
  BY HandleGoesAhead, OthersHoldUp
<1>7. /\ ~(at[r] = "find" /\ (at[r] = "idle" \/ at[r] = "replied"))
      /\ ~(at[r] = "metadata" /\ (at[r] = "idle" \/ at[r] = "replied"))
      /\ ~(at[r] = "ask" /\ (at[r] = "idle" \/ at[r] = "replied"))
      /\ ~(at[r] = "rating" /\ (at[r] = "idle" \/ at[r] = "replied"))
      /\ ~(at[r] = "copying" /\ (at[r] = "idle" \/ at[r] = "replied"))
      /\ ~(at[r] = "broken" /\ (at[r] = "idle" \/ at[r] = "replied"))
  OBVIOUS
<1> QED
  BY <1>1, <1>2, <1>3, <1>4, <1>5, <1>6, <1>7, HttpTyped, PTL DEF Spec, Scheduled

\* Every request is answered unless the movie service ends, for any number of
\* requests, Puts and events: a call that breaks, a service that is not listed
\* and a crash under way all lead the handler on to an answer.
THEOREM AllRequestsEnd == Spec /\ (\A r \in Requests : Scheduled(r)) => RequestsEnd
BY RequestEnds DEF RequestsEnd

=============================================================================
