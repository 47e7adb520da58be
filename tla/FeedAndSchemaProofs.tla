------------------------- MODULE FeedAndSchemaProofs -------------------------
(***************************************************************************)
(* Proofs about HazardFeed and about Schema, two components that share no  *)
(* state.                                                                  *)
(*                                                                         *)
(* HazardFeed: how old an answer may be, how far answers may go back, when *)
(* a failure of the feed is hidden, and that what is shown is true of the  *)
(* feed, for any number of requests at a time, any time to live and any    *)
(* time-out below it, whatever the feed lists.                             *)
(*                                                                         *)
(* Schema: that the tables are those of the revision the database is       *)
(* stamped with and that every word stored fits them, for any number of    *)
(* runs of alembic at a time between any revisions, and whatever words the *)
(* handlers write.  SchemaRunsProofs builds on that.                       *)
(***************************************************************************)
EXTENDS HazardFeed, Schema, SequenceTheorems, WellFoundedInduction,
        NaturalsInduction, TLAPS

(***************************************************************************)
(* HazardFeed                                                              *)
(***************************************************************************)

KeyType == [taken : Time, until : 0..(MaxNow + Ttl)]

\* Members of the sets that make up the types.
LEMMA Literals ==
  /\ 0 \in Time
  /\ "idle" \in Step /\ "read" \in Step /\ "fetch" \in Step
  /\ "store" \in Step /\ "again" \in Step
  /\ 0 \in Status /\ 200 \in Status /\ 400 \in Status
  /\ 500 \in Status /\ 503 \in Status
BY HazardConstants DEF Time, Step, Status

LEMMA Values ==
  /\ \A t : t \in Time <=> t \in Nat /\ t <= MaxNow
  /\ 0 \in Time
  /\ "idle" \in Step /\ "read" \in Step /\ "fetch" \in Step
  /\ "store" \in Step /\ "again" \in Step
  /\ 0 \in Status /\ 200 \in Status /\ 400 \in Status
  /\ 500 \in Status /\ 503 \in Status
BY HazardConstants, Literals DEF Time

\* What steps make of a request has the type of a request.
LEMMA MovedType ==
  ASSUME NEW q \in RequestType, NEW at \in Step, NEW since \in Time
  PROVE  [q EXCEPT !.at = at, !.since = since] \in RequestType
BY DEF RequestType

LEMMA FetchedType ==
  ASSUME NEW q \in RequestType, NEW at \in Step, NEW since \in Time, NEW taken \in Time
  PROVE  [q EXCEPT !.at = at, !.since = since, !.taken = taken] \in RequestType
BY DEF RequestType

LEMMA FailedType ==
  ASSUME NEW q \in RequestType, NEW at \in Step, NEW since \in Time,
         NEW status \in Status
  PROVE  [q EXCEPT !.at = at, !.since = since, !.status = status] \in RequestType
BY DEF RequestType

LEMMA AskedType ==
  ASSUME NEW q \in RequestType, NEW query \in Query
  PROVE  [q EXCEPT !.at = "read", !.query = query, !.taken = 0, !.status = 0,
                   !.age = 0, !.filled = FALSE] \in RequestType
<1>1. "read" \in Step /\ 0 \in Time /\ 0 \in Status /\ FALSE \in BOOLEAN
  BY Literals
<1> QED
  BY <1>1 DEF RequestType

LEMMA Parts ==
  IInv <=> /\ now \in Time
           /\ cache \in KeyType
           /\ req \in [Slot -> RequestType]
           /\ newest \in -1..MaxNow
           /\ CacheInv
           /\ \A r \in Slot : RequestOK(req[r], now, cache)
BY DEF IInv, TypeOK, RequestInv, KeyType

LEMMA PartsNext ==
  ASSUME now' \in Time,
         cache' \in KeyType,
         req' \in [Slot -> RequestType],
         newest' \in -1..MaxNow,
         CacheInv',
         \A r \in Slot : RequestOK(req'[r], now', cache')
  PROVE  IInv'
BY DEF IInv, TypeOK, RequestInv, KeyType, RequestOK

THEOREM Initially == Init => IInv
<1> SUFFICES ASSUME Init PROVE IInv
  OBVIOUS
<1>1. (CHOOSE q \in Query : TRUE) \in Query
  BY HazardConstants, Values
<1>2. now \in Time /\ cache \in KeyType /\ newest \in -1..MaxNow
  BY HazardConstants, Values DEF Init, KeyType
<1>3. req \in [Slot -> RequestType]
  BY <1>1, HazardConstants, Values DEF Init, RequestType
<1>4. CacheInv
  BY HazardConstants, Values DEF Init, CacheInv
<1>5. ASSUME NEW r \in Slot PROVE RequestOK(req[r], now, cache)
  BY DEF Init, RequestOK
<1> QED
  BY <1>2, <1>3, <1>4, <1>5, Parts

-----------------------------------------------------------------------------
(* What a step may do to the request in one slot.                          *)

\* A step that changes one request, and what has been shown.
LEMMA OneRequest ==
  ASSUME IInv, NEW r \in Slot, NEW q \in RequestType, RequestOK(q, now, cache),
         req' = [req EXCEPT ![r] = q], now' = now, cache' = cache,
         newest' \in -1..MaxNow, newest' <= now, newest' - cache.taken <= Patience
  PROVE  IInv'
<1>1. req' \in [Slot -> RequestType] /\ \A s \in Slot : RequestOK(req'[s], now, cache)
  BY Parts
<1>2. CacheInv'
  BY Parts DEF CacheInv
<1> QED
  BY <1>1, <1>2, Parts, PartsNext

\* The answer to a request is a request that is done.
LEMMA Replied ==
  ASSUME IInv, NEW q \in RequestType, NEW taken \in 0..now,
         now - taken <= Ttl + Patience
  PROVE  /\ Reply(q, taken) \in RequestType
         /\ \A key : RequestOK(Reply(q, taken), now, key)
         /\ Reply(q, taken).taken = taken
<1>1. now \in Time /\ now - taken \in Time /\ taken \in Time
  BY Parts, HazardConstants, Values
<1> DEFINE s == IF Parses(q.query) THEN 200 ELSE 400
<1>2. /\ s \in Status /\ s # 503 /\ (s = 200 => Parses(q.query))
      /\ Reply(q, taken) = [q EXCEPT !.at = "idle", !.since = 0, !.taken = taken,
                                     !.age = now - taken, !.status = s]
  BY Values DEF Reply
<1> HIDE DEF s
<1>3. Reply(q, taken) \in RequestType
  <2>1. now - taken \in Time /\ taken \in Time /\ 0 \in Time /\ "idle" \in Step
    BY <1>1, Values
  <2> DEFINE age == now - taken
  <2> HIDE DEF age
  <2>2. [q EXCEPT !.at = "idle", !.since = 0, !.taken = taken, !.age = age,
                  !.status = s] \in RequestType
    BY <1>2, <2>1 DEF RequestType, age
  <2> QED
    BY <1>2, <2>2 DEF age
<1>4. ASSUME NEW key PROVE RequestOK(Reply(q, taken), now, key)
  BY <1>1, <1>2 DEF RequestType, RequestOK
<1>5. Reply(q, taken).taken = taken
  BY <1>2 DEF RequestType
<1> QED
  BY <1>3, <1>4, <1>5

LEMMA ShownBound ==
  ASSUME IInv, NEW taken \in 0..now, Showing(taken)
  PROVE  /\ newest' \in -1..MaxNow /\ newest' <= now
         /\ newest' = taken \/ newest' = newest
BY Parts, HazardConstants, Values DEF Showing, CacheInv

\* An answer from the key.
LEMMA AnswerCached ==
  ASSUME IInv, NEW r \in Slot, Cached, Answer(r, cache.taken),
         now' = now, cache' = cache
  PROVE  IInv'
<1>1. /\ cache.taken \in 0..now /\ req[r] \in RequestType
      /\ now - cache.taken <= Ttl + Patience
  <2>1. now \in Time /\ cache \in KeyType /\ CacheInv /\ req[r] \in RequestType
    BY Parts
  <2>2. now \in Nat /\ cache.taken \in Nat /\ cache.until \in Nat
    BY <2>1, HazardConstants DEF KeyType, Time
  <2> QED
    BY <2>1, <2>2, HazardConstants DEF CacheInv, Cached
<1>2. /\ Reply(req[r], cache.taken) \in RequestType
      /\ RequestOK(Reply(req[r], cache.taken), now, cache)
  BY <1>1, Replied
<1>3. req' = [req EXCEPT ![r] = Reply(req[r], cache.taken)]
  BY DEF Answer
<1>4. newest' \in -1..MaxNow /\ newest' <= now /\ newest' - cache.taken <= Patience
  <2>1. /\ newest' \in -1..MaxNow /\ newest' <= now
        /\ newest' = cache.taken \/ newest' = newest
    BY <1>1, ShownBound DEF Answer
  <2>2. /\ newest \in Int /\ cache.taken \in Int /\ Patience \in Nat
        /\ newest - cache.taken <= Patience
    <3>1. newest \in -1..MaxNow /\ cache \in KeyType /\ CacheInv
      BY Parts
    <3> QED
      BY <3>1, <1>1, HazardConstants DEF CacheInv
  <2>3. newest' - cache.taken <= Patience
    BY <2>1, <2>2
  <2> QED
    BY <2>1, <2>3
<1> QED
  BY <1>2, <1>3, <1>4, OneRequest

\* A step that shows nothing.
LEMMA Silent ==
  ASSUME IInv, NEW r \in Slot, NEW q \in RequestType, RequestOK(q, now, cache),
         req' = [req EXCEPT ![r] = q], now' = now, cache' = cache, newest' = newest
  PROVE  IInv'
BY OneRequest, Parts DEF CacheInv

LEMMA AnswerErrorStep ==
  ASSUME IInv, NEW r \in Slot, NEW status \in Status, status \notin {200, 400},
         status = 503 => ~ req[r].filled,
         AnswerError(r, status), now' = now, cache' = cache
  PROVE  IInv'
<1> DEFINE q == [req[r] EXCEPT !.at = "idle", !.since = 0, !.status = status]
<1>1. req[r] \in RequestType
  BY Parts, HazardConstants, Values
<1>2a. q \in RequestType
  <2> DEFINE at == "idle"
             since == 0
  <2>1. at \in Step /\ since \in Time
    BY Literals
  <2>2. q = [req[r] EXCEPT !.at = at, !.since = since, !.status = status]
    OBVIOUS
  <2> HIDE DEF at, since, q
  <2> QED
    BY <1>1, <2>1, <2>2, FailedType
<1>2. q \in RequestType /\ RequestOK(q, now, cache)
  BY <1>1, <1>2a DEF RequestType, RequestOK
<1>3. req' = [req EXCEPT ![r] = q]
  BY DEF AnswerError
<1> QED
  BY <1>2, <1>3, Silent DEF AnswerError

-----------------------------------------------------------------------------
(* One lemma per action.                                                   *)

LEMMA AskStep ==
  ASSUME IInv, NEW r \in Slot, Ask(r)
  PROVE  IInv'
<1>1. PICK query \in Query :
        req' = [req EXCEPT ![r].at = "read", ![r].query = query, ![r].taken = 0,
                           ![r].status = 0, ![r].age = 0, ![r].filled = FALSE]
  BY DEF Ask
<1> DEFINE q == [req[r] EXCEPT !.at = "read", !.query = query, !.taken = 0,
                               !.status = 0, !.age = 0, !.filled = FALSE]
<1>2. req[r] \in RequestType
  BY Parts, HazardConstants, Values
<1>3a. q \in RequestType
  BY <1>2, AskedType
<1>3. q \in RequestType /\ RequestOK(q, now, cache)
  BY <1>2, <1>3a DEF RequestType, RequestOK
<1>4. req' = [req EXCEPT ![r] = q]
  BY <1>1, <1>2, Parts DEF RequestType
<1> QED
  BY <1>3, <1>4, Silent DEF Ask

LEMMA ReadCacheStep ==
  ASSUME IInv, NEW r \in Slot, ReadCache(r)
  PROVE  IInv'
<1>1. CASE Cached
  BY <1>1, AnswerCached DEF ReadCache
<1>2. CASE ~ Cached
  <2> DEFINE q == [req[r] EXCEPT !.at = "fetch", !.since = now]
  <2>1. /\ req[r] \in RequestType /\ RequestOK(req[r], now, cache)
        /\ req[r].at = "read" /\ now \in Time
    BY Parts DEF ReadCache
  <2>2a. q \in RequestType
    BY <2>1, Literals, MovedType
  <2>2. q \in RequestType /\ RequestOK(q, now, cache)
    BY <2>1, <2>2a, HazardConstants, Values DEF RequestType, RequestOK
  <2>3. req' = [req EXCEPT ![r] = q]
    BY <1>2, <2>1, Parts DEF ReadCache, RequestType
  <2> QED
    BY <1>2, <2>2, <2>3, Silent DEF ReadCache
<1> QED
  BY <1>1, <1>2

LEMMA FeedAnswersStep ==
  ASSUME IInv, NEW r \in Slot, FeedAnswers(r)
  PROVE  IInv'
<1>1. PICK taken \in req[r].since..now :
        req' = [req EXCEPT ![r].at = "store", ![r].since = 0, ![r].taken = taken]
  BY DEF FeedAnswers
<1> DEFINE q == [req[r] EXCEPT !.at = "store", !.since = 0, !.taken = taken]
<1>2. /\ req[r] \in RequestType /\ RequestOK(req[r], now, cache)
      /\ req[r].at = "fetch" /\ now \in Time
  BY Parts, HazardConstants, Values DEF FeedAnswers
<1>3. req[r].since \in Time /\ now <= req[r].since + Patience
  BY <1>2, Values DEF RequestType, RequestOK
<1>4. taken \in Time /\ taken <= now /\ now <= taken + Patience
  BY <1>2, <1>3, HazardConstants, Values
<1>5a. q \in RequestType
  BY <1>2, <1>4, Literals, FetchedType
<1>5. q \in RequestType /\ RequestOK(q, now, cache)
  BY <1>2, <1>4, <1>5a DEF RequestType, RequestOK
<1>6. req' = [req EXCEPT ![r] = q]
  BY <1>1, <1>2, Parts DEF RequestType
<1> QED
  BY <1>5, <1>6, Silent DEF FeedAnswers

LEMMA FeedFailsStep ==
  ASSUME IInv, NEW r \in Slot, FeedFails(r)
  PROVE  IInv'
<1> DEFINE q == [req[r] EXCEPT !.at = "again", !.since = 0]
<1>1. /\ req[r] \in RequestType /\ RequestOK(req[r], now, cache)
      /\ req[r].at = "fetch" /\ now \in Time
      /\ cache.until \in Nat
  BY Parts, HazardConstants, Values DEF FeedFails, KeyType
<1>2. req[r].filled => now < cache.until
  BY <1>1, HazardConstants, Values DEF RequestType, RequestOK
<1>3a. q \in RequestType
  BY <1>1, Literals, MovedType
<1>3. q \in RequestType /\ RequestOK(q, now, cache)
  BY <1>1, <1>2, <1>3a DEF RequestType, RequestOK
<1>4. req' = [req EXCEPT ![r] = q]
  BY <1>1, Parts DEF FeedFails, RequestType
<1> QED
  BY <1>3, <1>4, Silent DEF FeedFails

LEMMA ReadAgainStep ==
  ASSUME IInv, NEW r \in Slot, ReadAgain(r)
  PROVE  IInv'
<1>1. CASE Cached
  BY <1>1, AnswerCached DEF ReadAgain
<1>2. CASE ~ Cached
  <2>1. ~ req[r].filled
    BY <1>2, Parts DEF ReadAgain, RequestOK, Cached
  <2> QED
    BY <1>2, <2>1, AnswerErrorStep, Values DEF ReadAgain
<1> QED
  BY <1>1, <1>2

LEMMA StoreStep ==
  ASSUME IInv, NEW r \in Slot, Store(r)
  PROVE  IInv'
<1> DEFINE taken == req[r].taken
<1>1. /\ now \in Time /\ taken \in Time
      /\ taken <= now /\ now <= taken + Patience
      /\ \A s \in Slot : req[s] \in RequestType /\ RequestOK(req[s], now, cache)
  BY Parts DEF Store, RequestType, RequestOK
<1>2. cache' = [taken |-> taken, until |-> now + Ttl] /\ now' = now
  BY DEF Store, Fill
<1>3. cache' \in KeyType
  BY <1>1, <1>2, HazardConstants, Values DEF KeyType
<1>4. /\ newest' \in -1..MaxNow /\ newest' <= now
      /\ newest' = taken \/ newest' = newest
  BY <1>1, ShownBound, Values DEF Store, Stored
<1>5. CacheInv'
  <2>1. /\ now \in Nat /\ taken \in Nat /\ Patience \in Nat /\ Ttl \in Nat
        /\ newest \in Int /\ newest <= now
    BY <1>1, Parts, HazardConstants DEF Time, CacheInv
  <2>2. taken <= now /\ now + Ttl <= taken + Ttl + Patience
    BY <1>1, <2>1
  <2>3. newest' <= now /\ newest' - taken <= Patience
    BY <1>1, <1>4, <2>1
  <2>4. cache'.taken = taken /\ cache'.until = now + Ttl
    BY <1>2
  <2> HIDE DEF taken
  <2> QED
    BY <1>2, <2>2, <2>3, <2>4 DEF CacheInv
<1>6. Reply(req[r], taken) \in RequestType /\ RequestOK(Reply(req[r], taken), now, cache')
  BY <1>1, Replied, HazardConstants, Values
<1>7. ASSUME NEW s \in Slot
      PROVE  req'[s] \in RequestType /\ RequestOK(req'[s], now, cache')
  <2>1. CASE s = r
    BY <1>6, <2>1 DEF Store, Stored
  <2>2. CASE s # r /\ req[s].at \in {"fetch", "again"}
    <3>1. req'[s] = [req[s] EXCEPT !.filled = TRUE]
      BY <2>2 DEF Store, Stored
    <3>2. req'[s] \in RequestType
      <4>1. req[s] \in RequestType
        BY <1>1
      <4> QED
        BY <3>1, <4>1 DEF RequestType
    <3>3. req[s].at = "fetch" => req[s].since \in Time /\ req[s].since <= now
      BY <1>1, Values DEF RequestType, RequestOK
    <3>4. now < cache'.until /\ (req[s].at = "fetch" => req[s].since + Ttl <= cache'.until)
      BY <1>1, <1>2, <3>3, HazardConstants, Values
    <3> QED
      BY <1>1, <2>2, <3>1, <3>2, <3>4 DEF RequestOK, RequestType
  <2>3. CASE s # r /\ req[s].at \notin {"fetch", "again"}
    <3>1. req'[s] = req[s]
      BY <2>3 DEF Store, Stored
    <3> QED
      BY <1>1, <2>3, <3>1 DEF RequestOK
  <2> QED
    BY <2>1, <2>2, <2>3
<1>8. req' \in [Slot -> RequestType]
  BY <1>7 DEF Store, Stored
<1> QED
  BY <1>1, <1>2, <1>3, <1>4, <1>5, <1>7, <1>8, PartsNext

LEMMA TickStep ==
  ASSUME IInv, Tick
  PROVE  IInv'
<1>1. /\ now \in Time /\ now < MaxNow /\ now' = now + 1
      /\ cache' = cache /\ req' = req /\ newest' = newest
  BY Parts DEF Tick
<1>2. now' \in Time
  BY <1>1, HazardConstants DEF Time
<1>3. CacheInv'
  <2>1. cache \in KeyType /\ newest \in -1..MaxNow /\ CacheInv
    BY Parts
  <2>2. cache.taken \in Nat /\ newest \in Int /\ now \in Nat
    BY <1>1, <2>1, Values DEF KeyType
  <2> QED
    BY <1>1, <2>1, <2>2 DEF CacheInv
<1>4. ASSUME NEW r \in Slot PROVE RequestOK(req[r], now', cache)
  <2>1. /\ RequestOK(req[r], now, cache) /\ req[r] \in RequestType
        /\ req[r].at = "fetch" => now < req[r].since + Patience
        /\ req[r].at \notin {"store", "again"}
    BY Parts DEF Tick
  <2>2. req[r].since \in Time
    BY <2>1 DEF RequestType
  <2>3. req[r].at = "fetch" => req[r].since <= now' /\ now' <= req[r].since + Patience
    BY <1>1, <2>1, <2>2, HazardConstants, Values DEF RequestOK
  <2> QED
    BY <2>1, <2>3 DEF RequestOK
<1> QED
  BY <1>1, <1>2, <1>3, <1>4, Parts, PartsNext

-----------------------------------------------------------------------------
\* The inductive invariant of HazardFeed holds in every behaviour.
THEOREM Invariance == Spec => []IInv
<1>1. IInv /\ [Next]_vars => IInv'
  <2> SUFFICES ASSUME IInv, [Next]_vars PROVE IInv'
    OBVIOUS
  <2>1. ASSUME NEW r \in Slot, Ask(r) PROVE IInv'
    BY <2>1, AskStep
  <2>2. ASSUME NEW r \in Slot, Serve(r) PROVE IInv'
    <3>1. CASE ReadCache(r)
      BY <3>1, ReadCacheStep
    <3>2. CASE FeedAnswers(r)
      BY <3>2, FeedAnswersStep
    <3>3. CASE FeedGarbled(r)
      BY <3>3, AnswerErrorStep, Values DEF FeedGarbled
    <3>4. CASE FeedFails(r)
      BY <3>4, FeedFailsStep
    <3>5. CASE Store(r)
      BY <3>5, StoreStep
    <3>6. CASE ReadAgain(r)
      BY <3>6, ReadAgainStep
    <3> QED
      BY <2>2, <3>1, <3>2, <3>3, <3>4, <3>5, <3>6 DEF Serve
  <2>3. CASE Tick
    BY <2>3, TickStep
  <2>4. CASE UNCHANGED vars
    BY <2>4, Parts, PartsNext DEF vars, CacheInv
  <2> QED
    BY <2>1, <2>2, <2>3, <2>4 DEF Next
<1> QED
  BY <1>1, Initially, PTL DEF Spec

\* Requests, the key and the clock keep their types.
THEOREM TypeCorrect == Spec => []TypeOK
BY Invariance, PTL DEF IInv

\* No answer is older than the time to live and the longest request to the feed.
THEOREM AnswersAreFresh == Spec => []AgeBounded
<1>1. IInv => AgeBounded
  BY DEF IInv, RequestInv, RequestOK, AgeBounded
<1> QED
  BY <1>1, Invariance, PTL

\* A failure of the feed reaches a client only if nobody has filled the key since
\* that client's request missed it.
THEOREM FailuresAreHidden == Spec => []FailureHidden
<1>1. IInv => FailureHidden
  BY DEF IInv, RequestInv, RequestOK, FailureHidden
<1> QED
  BY <1>1, Invariance, PTL

\* What a step shows is older than what was shown before by no more than a request
\* to the feed may take.
THEOREM GoesBackLittle == Spec => BackwardsBounded
<1> DEFINE Little == \A r \in Slot :
             (req[r].status = 0 /\ req'[r].status \in {200, 400})
               => newest - req'[r].taken <= Patience
<1>1. ASSUME IInv, Next PROVE Little
  <2> SUFFICES ASSUME NEW r \in Slot, req[r].status = 0, req'[r].status \in {200, 400}
               PROVE  newest - req'[r].taken <= Patience
    OBVIOUS
  <2>1. /\ \A s \in Slot : req[s] \in RequestType /\ RequestOK(req[s], now, cache)
        /\ req \in [Slot -> RequestType]
        /\ newest \in -1..MaxNow /\ now \in Time /\ cache \in KeyType
        /\ newest <= now /\ newest - cache.taken <= Patience
    BY <1>1, Parts DEF CacheInv
  <2>2. ASSUME NEW s \in Slot, Answer(s, cache.taken)
        PROVE  newest - req'[r].taken <= Patience
    <3>1. req' = [req EXCEPT ![s] = Reply(req[s], cache.taken)]
      BY <2>2 DEF Answer
    <3>2. r = s
      BY <2>1, <3>1
    <3>3. req'[r].taken = cache.taken
      BY <2>1, <3>1, <3>2 DEF Reply, RequestType
    <3> QED
      BY <2>1, <3>3
  <2>3. ASSUME NEW s \in Slot, Store(s)
        PROVE  newest - req'[r].taken <= Patience
    <3>1. r = s
      <4>1. CASE r # s
        <5>1. req'[r] = req[r] \/ req'[r] = [req[r] EXCEPT !.filled = TRUE]
          BY <2>3, <4>1 DEF Store, Stored
        <5>2. req'[r].status = req[r].status
          BY <2>1, <5>1 DEF RequestType
        <5> QED
          BY <5>2
      <4> QED
        BY <4>1
    <3>2. req'[r] = Reply(req[s], req[s].taken)
      BY <2>3, <3>1 DEF Store, Stored
    <3>3. req'[r].taken = req[s].taken
      BY <2>1, <3>2 DEF Reply, RequestType
    <3>4. req[s].taken \in Time /\ now <= req[s].taken + Patience
      BY <2>1, <2>3 DEF Store, RequestType, RequestOK
    <3> QED
      BY <2>1, <3>3, <3>4, HazardConstants, Values
  <2>5. ASSUME NEW s \in Slot, NEW status \in {500, 503}, AnswerError(s, status)
        PROVE  FALSE
    BY <2>1, <2>5 DEF AnswerError, RequestType
  <2>6. ASSUME NEW s \in Slot, Ask(s) PROVE FALSE
    <3>1. PICK query \in Query :
            req' = [req EXCEPT ![s].at = "read", ![s].query = query, ![s].taken = 0,
                               ![s].status = 0, ![s].age = 0, ![s].filled = FALSE]
      BY <2>6 DEF Ask
    <3>2. req'[r].status = req[r].status \/ req'[r].status = 0
      BY <2>1, <3>1 DEF RequestType
    <3> QED
      BY <3>2
  <2>7. ASSUME NEW s \in Slot, FeedAnswers(s) PROVE FALSE
    <3>1. PICK taken \in req[s].since..now :
            req' = [req EXCEPT ![s].at = "store", ![s].since = 0, ![s].taken = taken]
      BY <2>7 DEF FeedAnswers
    <3>2. req'[r].status = req[r].status
      BY <2>1, <3>1 DEF RequestType
    <3> QED
      BY <3>2
  <2>8. ASSUME NEW s \in Slot,
               req' = [req EXCEPT ![s].at = "fetch", ![s].since = now]
        PROVE  FALSE
    <3>1. req'[r].status = req[r].status
      BY <2>1, <2>8 DEF RequestType
    <3> QED
      BY <3>1
  <2>9. ASSUME NEW s \in Slot, FeedFails(s) PROVE FALSE
    <3>1. req'[r].status = req[r].status
      BY <2>1, <2>9 DEF FeedFails, RequestType
    <3> QED
      BY <3>1
  <2>10. ASSUME Tick PROVE FALSE
    BY <2>10 DEF Tick
  <2>11. PICK s \in Slot : Ask(s) \/ Serve(s)
    BY <1>1, <2>10 DEF Next
  <2> QED
    BY <2>2, <2>3, <2>5, <2>6, <2>7, <2>8, <2>9, <2>11
       DEF Serve, ReadCache, FeedGarbled, ReadAgain
<1>2. IInv /\ [Next]_vars => [Little]_vars
  BY <1>1
<1> QED
  BY <1>2, Invariance, PTL DEF Spec, BackwardsBounded

-----------------------------------------------------------------------------
(* What a slice shows.                                                     *)

\* The first geometry of those that were measured is one of them.
LEMMA FirstMeasured ==
  ASSUME NEW S, S \subseteq Nat, S # {}
  PROVE  Min(S) \in S
<1> DEFINE R == OpToRel(<, Nat)
<1>1. IsWellFoundedOn(R, Nat)
  BY NatLessThanWellFounded DEF R
<1> HIDE DEF R
<1>2. PICK x \in S : \A y \in S : ~(<<y, x>> \in R)
  BY <1>1, WFMin
<1>3. \A y \in S : ~(y < x)
  BY <1>2 DEF R, OpToRel
<1>4. \A y \in S : x <= y
  BY <1>3
<1> QED
  BY <1>4 DEF Min

\* What the severity of an earthquake is decided by: one of the magnitudes.
LEMMA Quake ==
  ASSUME NEW geometry \in Seq(Geometry), Measured(geometry) # {}
  PROVE  \E k \in Measured(geometry) :
           /\ geometry[k].magnitude \in Int
           /\ InferSeverity("earthquakes", geometry)
                = IF geometry[k].magnitude >= 60 THEN "severe"
                  ELSE IF geometry[k].magnitude >= 45 THEN "warning" ELSE "info"
<1> DEFINE first == Min(Measured(geometry))
<1>1. first \in Measured(geometry)
  <2>1. Measured(geometry) \subseteq Nat
    BY DEF Measured
  <2> QED
    BY <2>1, FirstMeasured
<1>2. geometry[first] \in Geometry
  BY <1>1 DEF Measured
<1>3. geometry[first].magnitude \in Int
  BY <1>2 DEF Geometry
<1>4. InferSeverity("earthquakes", geometry)
        = IF geometry[first].magnitude >= 60 THEN "severe"
          ELSE IF geometry[first].magnitude >= 45 THEN "warning" ELSE "info"
  BY DEF InferSeverity
<1> QED
  BY <1>1, <1>3, <1>4

\* A hazard is made from an event the feed lists.
LEMMA Origin ==
  ASSUME NEW t \in Time, NEW h \in FetchUpstream(t)
  PROVE  \E e \in Range(Feed[t]) : e \in Event /\ h = NormalizeEvent(e)
<1>1. PICK e \in Range(Feed[t]) : h = NormalizeEvent(e)
  BY DEF FetchUpstream
<1>2. Feed[t] \in Seq(Event)
  BY HazardData DEF Time
<1>3. e \in Event
  BY <1>1, <1>2 DEF Range
<1> QED
  BY <1>1, <1>3

\* A severity is one that was measured.
SeverityTold(t, h) ==
  \E e \in Range(Feed[t]) :
    LET all == {e.geometry[k].magnitude : k \in Measured(e.geometry)}
    IN  /\ e.id = h.id
        /\ (all # {} /\ h.severity = "severe") => \E m \in all : m >= 60
        /\ (all # {} /\ h.severity = "info") => \E m \in all : m < 45
        /\ (all # {} /\ h.severity = "warning") => /\ \E m \in all : m < 60
                                                  /\ \E m \in all : m >= 45

LEMMA Severities ==
  ASSUME NEW t \in Time, NEW h \in FetchUpstream(t), h.category = "earthquakes"
  PROVE  SeverityTold(t, h)
<1>1. PICK e \in Range(Feed[t]) : e \in Event /\ h = NormalizeEvent(e)
  BY Origin
<1> DEFINE all == {e.geometry[k].magnitude : k \in Measured(e.geometry)}
<1>2. /\ e.geometry \in Seq(Geometry) /\ h.id = e.id
      /\ h.severity = InferSeverity("earthquakes", e.geometry)
  BY <1>1 DEF Event, NormalizeEvent
<1>3. ASSUME all # {}
      PROVE  \E m \in all : /\ m \in Int
                            /\ h.severity = IF m >= 60 THEN "severe"
                                            ELSE IF m >= 45 THEN "warning" ELSE "info"
  <2>1. Measured(e.geometry) # {}
    BY <1>3
  <2> QED
    BY <1>2, <2>1, Quake
<1>4. /\ (all # {} /\ h.severity = "severe") => \E m \in all : m >= 60
      /\ (all # {} /\ h.severity = "info") => \E m \in all : m < 45
      /\ (all # {} /\ h.severity = "warning") => /\ \E m \in all : m < 60
                                                /\ \E m \in all : m >= 45
  <2> SUFFICES ASSUME all # {}
               PROVE  /\ h.severity = "severe" => \E m \in all : m >= 60
                      /\ h.severity = "info" => \E m \in all : m < 45
                      /\ h.severity = "warning" => /\ \E m \in all : m < 60
                                                  /\ \E m \in all : m >= 45
    OBVIOUS
  <2>1. PICK m \in all : /\ m \in Int
                         /\ h.severity = IF m >= 60 THEN "severe"
                                         ELSE IF m >= 45 THEN "warning" ELSE "info"
    BY <1>3
  <2> HIDE DEF all
  <2> QED
    BY <2>1
<1> QED
  BY <1>1, <1>2, <1>4 DEF SeverityTold

\* Points have coordinates.
LEMMA Pointed ==
  ASSUME NEW t \in Time, NEW h \in FetchUpstream(t), NEW g \in h.geometries,
         NEW p \in Range(g.points)
  PROVE  p \in Int \X Int
<1>1. PICK e \in Range(Feed[t]) : e \in Event /\ h = NormalizeEvent(e)
  BY Origin
<1>2. g \in Range(e.geometry) /\ e.geometry \in Seq(Geometry)
  BY <1>1 DEF NormalizeEvent, Shapes, Event
<1>3. g \in Geometry
  BY <1>2 DEF Range
<1>4. g.points \in Seq(Int \X Int)
  BY <1>3 DEF Geometry
<1> QED
  BY <1>4 DEF Range

Cut(box, cut, west, east) ==
  west = [box EXCEPT ![4] = cut] /\ east = [box EXCEPT ![2] = cut]

\* A box cut in two shows what lies in it.
LEMMA Halves ==
  ASSUME NEW t \in Time, NEW h \in FetchUpstream(t), NEW box \in Seq(Int),
         Len(box) = 4, NEW cut \in box[2]..box[4], NEW west, NEW east,
         Cut(box, cut, west, east)
  PROVE  AnyGeometryInBbox(h.geometries, box)
           <=> \/ AnyGeometryInBbox(h.geometries, west)
               \/ AnyGeometryInBbox(h.geometries, east)
<1>1. /\ box[1] \in Int /\ box[2] \in Int /\ box[3] \in Int /\ box[4] \in Int
      /\ cut \in Int /\ box[2] <= cut /\ cut <= box[4]
      /\ box \in [1..4 -> Int]
  <2>1. box \in [1..4 -> Int]
    BY LenProperties
  <2>2. box[1] \in Int /\ box[2] \in Int /\ box[3] \in Int /\ box[4] \in Int
    BY <2>1
  <2> QED
    BY <2>1, <2>2
<1>2. /\ west[1] = box[1] /\ west[2] = box[2] /\ west[3] = box[3] /\ west[4] = cut
      /\ east[1] = box[1] /\ east[2] = cut /\ east[3] = box[3] /\ east[4] = box[4]
  BY <1>1 DEF Cut
<1>3. ASSUME NEW g \in h.geometries, NEW p \in Range(g.points)
      PROVE  Inside(p, box) <=> Inside(p, west) \/ Inside(p, east)
  <2>1. p \in Int \X Int
    BY <1>3, Pointed
  <2>2. p[1] \in Int /\ p[2] \in Int
    BY <2>1
  <2> QED
    BY <1>1, <1>2, <2>2 DEF Inside
<1> QED
  BY <1>3 DEF AnyGeometryInBbox

\* What a client is shown is true of the feed: a severity is one that was measured,
\* and what a box shows is what its two halves show.
THEOREM SlicesAreTrue == Spec => []SliceTrue
<1>1. ASSUME IInv, NEW r \in Slot, req[r].status = 200
      PROVE  /\ req[r].taken \in Time
             /\ req[r].query.bbox \in Seq(Int)
             /\ req[r].query \in [bbox : Seq(Int), categories : SUBSET STRING]
             /\ Parses(req[r].query)
  <2>1. req[r] \in RequestType /\ RequestOK(req[r], now, cache)
    BY <1>1, Parts
  <2>2. req[r].taken \in Time /\ req[r].query \in Query
    BY <2>1 DEF RequestType
  <2>3. req[r].query \in [bbox : Seq(Int), categories : SUBSET STRING]
    BY <2>2, HazardData
  <2> QED
    BY <1>1, <2>1, <2>2, <2>3 DEF RequestOK
<1>2. IInv => SeverityWithin
  <2> SUFFICES ASSUME IInv, NEW r \in Slot, req[r].status = 200,
                      NEW h \in Shown(r), h.category = "earthquakes"
               PROVE  SeverityTold(req[r].taken, h)
    BY DEF SeverityWithin, SeverityTold
  <2> DEFINE t == req[r].taken
  <2>1. t \in Time
    BY <1>1
  <2>2. h \in FetchUpstream(t)
    BY DEF Shown, Slice
  <2> HIDE DEF t
  <2>3. SeverityTold(t, h)
    BY <2>1, <2>2, Severities
  <2> QED
    BY <2>3 DEF t
<1>3. IInv => BoxesTile
  <2> SUFFICES ASSUME IInv, NEW r \in Slot, req[r].status = 200,
                      req[r].query.bbox # NoBox,
                      NEW cut \in req[r].query.bbox[2]..req[r].query.bbox[4]
               PROVE  Shown(r)
                        = Slice(FetchUpstream(req[r].taken),
                                [req[r].query EXCEPT
                                   !.bbox = [req[r].query.bbox EXCEPT ![4] = cut]])
                          \cup
                          Slice(FetchUpstream(req[r].taken),
                                [req[r].query EXCEPT
                                   !.bbox = [req[r].query.bbox EXCEPT ![2] = cut]])
    BY DEF BoxesTile
  <2> DEFINE t == req[r].taken
             query == req[r].query
             box == query.bbox
             west == [box EXCEPT ![4] = cut]
             east == [box EXCEPT ![2] = cut]
             W == [query EXCEPT !.bbox = west]
             E == [query EXCEPT !.bbox = east]
  <2>1. /\ t \in Time /\ box \in Seq(Int)
        /\ query \in [bbox : Seq(Int), categories : SUBSET STRING]
        /\ Parses(query)
    BY <1>1
  <2>2. Len(box) = 4
    BY <2>1 DEF Parses, BoxParses
  <2>3. west # NoBox /\ east # NoBox
    BY <2>1, <2>2 DEF NoBox
  <2>4. /\ W.bbox = west /\ W.categories = query.categories
        /\ E.bbox = east /\ E.categories = query.categories
    BY <2>1
  <2>5. ASSUME NEW h \in FetchUpstream(t)
        PROVE  AnyGeometryInBbox(h.geometries, box)
                 <=> \/ AnyGeometryInBbox(h.geometries, west)
                     \/ AnyGeometryInBbox(h.geometries, east)
    <3>1. cut \in box[2]..box[4]
      OBVIOUS
    <3>2. Cut(box, cut, west, east)
      BY DEF Cut
    <3> HIDE DEF t, box, west, east
    <3> QED
      BY <2>1, <2>2, <2>5, <3>1, <3>2, Halves
  <2> HIDE DEF t, query, box, west, east, W, E
  <2>6. box = query.bbox /\ box # NoBox
    BY DEF box, query
  <2>7. Slice(FetchUpstream(t), query)
          = Slice(FetchUpstream(t), W) \cup Slice(FetchUpstream(t), E)
    BY <2>3, <2>4, <2>5, <2>6 DEF Slice
  <2> QED
    BY <2>7 DEF Shown, t, query, box, west, east, W, E
<1> QED
  BY <1>2, <1>3, Invariance, PTL DEF SliceTrue

(***************************************************************************)
(* Schema.  A table is followed through the statements of a script (its    *)
(* course); the course of every table through every script ends where the  *)
(* script is meant to lead; and what a transaction sees is, at every       *)
(* moment, where the committed tables are on their course.                 *)
(***************************************************************************)

LEMMA Upwards ==
  ASSUME NEW m \in Nat, NEW n \in Nat, NEW T, m \in T,
         \A i \in m..(n - 1) : i \in T => i + 1 \in T
  PROVE  \A i \in m..n : i \in T
<1> DEFINE B == {i \in m..n : i \notin T}
           Less == OpToRel(<, Nat)
<1>1. SUFFICES ASSUME B # {} PROVE FALSE
  OBVIOUS
<1>2. IsWellFoundedOn(Less, Nat)
  BY NatLessThanWellFounded DEF Less
<1>3. B \subseteq Nat
  OBVIOUS
<1> HIDE DEF Less, B
<1>4. PICK i \in B : \A j \in B : ~ (<<j, i>> \in Less)
  BY <1>1, <1>2, <1>3, WFMin
<1>5. i \in m..n /\ i \notin T /\ i # m
  BY DEF B
<1>6. i - 1 \in m..(n - 1) /\ (i - 1) + 1 = i
  BY <1>5
<1>7. i - 1 \notin T
  BY <1>5, <1>6
<1>8. i - 1 \in B
  BY <1>6, <1>7 DEF B
<1>9. <<i - 1, i>> \in Less
  <2>1. i \in Nat /\ i - 1 \in Nat /\ i - 1 < i
    BY <1>5, <1>6
  <2> QED
    BY <2>1 DEF Less, OpToRel
<1> QED
  BY <1>4, <1>8, <1>9

-----------------------------------------------------------------------------
(* A statement works on one table: what it makes of that table, and that   *)
(* it leaves the others alone as long as none refers to a table it drops.  *)

\* The shape the tables f have at t, as a set that is empty when t is not there.
At(f, t) == IF t \in DOMAIN f THEN {f[t]} ELSE {}

\* What s makes of the table t, whose shape is in o.
StepOn(t, o, s) ==
  IF s.on # t THEN o
  ELSE CASE s.do = "create" -> IF o = {} THEN {s.shape} ELSE o
         [] s.do \in {"add", "drop"} -> {Altered(x, s) : x \in o}
         [] s.do = "droptable" -> {}
         [] s.do = "stamp" -> o

Verbs == {"create", "add", "drop", "droptable", "stamp"}

\* No other table refers to the one that s drops.
Loose(f, s) ==
  s.do = "droptable" => \A t \in DOMAIN f \ {s.on} : s.on \notin Targets(f[t])

LEMMA EffectAt ==
  ASSUME NEW f, NEW s, s.do \in Verbs, Loose(f, s), NEW t
  PROVE  At(Effect(f, s), t) = StepOn(t, At(f, t), s)
<1>1. CASE s.do = "create"
  BY <1>1 DEF At, StepOn, Effect
<1>2. CASE s.do \in {"add", "drop"}
  <2>1. Effect(f, s) = [f EXCEPT ![s.on] = Altered(@, s)]
    BY <1>2 DEF Effect
  <2>2. s.on = t => StepOn(t, At(f, t), s) = {Altered(x, s) : x \in At(f, t)}
    BY <1>2 DEF StepOn
  <2>3. s.on # t => StepOn(t, At(f, t), s) = At(f, t)
    BY DEF StepOn
  <2> QED
    BY <2>1, <2>2, <2>3 DEF At
<1>3. CASE s.do = "droptable"
  <2> DEFINE g == Effect(f, s)
  <2>1. /\ DOMAIN g = DOMAIN f \ {s.on}
        /\ \A x \in DOMAIN g : g[x] = {o \in f[x] : ~(o.is = "fk" /\ o.to = s.on)}
    BY <1>3 DEF Effect
  <2>2. ASSUME t \in DOMAIN g PROVE g[t] = f[t]
    <3>1. s.on \notin Targets(f[t])
      BY <1>3, <2>1, <2>2 DEF Loose
    <3>2. \A o \in f[t] : ~(o.is = "fk" /\ o.to = s.on)
      BY <3>1 DEF Targets
    <3>3. g[t] = {o \in f[t] : ~(o.is = "fk" /\ o.to = s.on)}
      BY <2>1, <2>2
    <3> HIDE DEF g
    <3> QED
      BY <3>2, <3>3
  <2>3. StepOn(t, At(f, t), s) = IF s.on = t THEN {} ELSE At(f, t)
    BY <1>3 DEF StepOn
  <2> HIDE DEF g
  <2> QED
    BY <2>1, <2>2, <2>3 DEF At, g
<1>4. CASE s.do = "stamp"
  BY <1>4 DEF At, StepOn, Effect
<1> QED
  BY <1>1, <1>2, <1>3, <1>4 DEF Verbs

\* What is the same at every table is the same.
IsTables(f) == f = [t \in DOMAIN f |-> f[t]]

LEMMA SameTables ==
  ASSUME NEW f, NEW g, IsTables(f), IsTables(g), \A t : At(f, t) = At(g, t)
  PROVE  f = g
<1>1. DOMAIN f = DOMAIN g
  BY DEF At
<1>2. \A t \in DOMAIN f : f[t] = g[t]
  BY <1>1 DEF At
<1> QED
  BY <1>1, <1>2 DEF IsTables

LEMMA EffectIsTables ==
  ASSUME NEW f, NEW s, s.do \in Verbs, IsTables(f)
  PROVE  IsTables(Effect(f, s))
<1>1. CASE s.do = "create"
  BY <1>1 DEF Effect, IsTables
<1>2. CASE s.do \in {"add", "drop"}
  <2>1. Effect(f, s) = [f EXCEPT ![s.on] = Altered(@, s)]
    BY <1>2 DEF Effect
  <2> QED
    BY <2>1 DEF IsTables
<1>3. CASE s.do = "droptable"
  BY <1>3 DEF Effect, IsTables
<1>4. CASE s.do = "stamp"
  BY <1>4 DEF Effect, IsTables
<1> QED
  BY <1>1, <1>2, <1>3, <1>4 DEF Verbs

-----------------------------------------------------------------------------
(* The course of a table through statements.                               *)

Follows(h, t, ss, n) == \A k \in 1..n : h[k] = StepOn(t, h[k - 1], ss[k])
IsCourse(h, t, o, ss) ==
  /\ DOMAIN h = 0..Len(ss)
  /\ h[0] = o
  /\ Follows(h, t, ss, Len(ss))
Course(t, o, ss) == CHOOSE h : IsCourse(h, t, o, ss)
End(t, o, ss) == Course(t, o, ss)[Len(ss)]

LEMMA CourseExists ==
  ASSUME NEW V, NEW ss \in Seq(V), NEW t, NEW o
  PROVE  IsCourse(Course(t, o, ss), t, o, ss)
<1> DEFINE n == Len(ss)
           Grown(h, m) == DOMAIN h = 0..m /\ h[0] = o /\ Follows(h, t, ss, m)
           T == {m \in 0..n : \E h : Grown(h, m)}
<1>1. n \in Nat
  OBVIOUS
<1>2. 0 \in T
  <2>1. Grown([k \in 0..0 |-> o], 0)
    BY DEF Follows
  <2>2. 0 \in 0..n
    BY <1>1
  <2> HIDE DEF Grown, n
  <2> QED
    BY <2>1, <2>2
<1>3. ASSUME NEW m \in 0..(n - 1), m \in T PROVE m + 1 \in T
  <2>1. PICK h : Grown(h, m)
    BY <1>3
  <2> DEFINE g == [k \in 0..(m + 1) |-> IF k <= m THEN h[k] ELSE StepOn(t, h[m], ss[m + 1])]
  <2>2. \A k \in 0..m : g[k] = h[k]
    BY <1>1
  <2>3. g[m + 1] = StepOn(t, h[m], ss[m + 1])
    BY <1>1
  <2>4. DOMAIN g = 0..(m + 1)
    OBVIOUS
  <2> HIDE DEF g
  <2>5. ASSUME NEW k \in 1..(m + 1) PROVE g[k] = StepOn(t, g[k - 1], ss[k])
    <3>1. CASE k <= m
      <4>1. k \in 1..m /\ k \in 0..m /\ k - 1 \in 0..m
        BY <1>1, <3>1
      <4> QED
        BY <2>1, <2>2, <4>1 DEF Follows
    <3>2. CASE k = m + 1
      <4>1. k - 1 = m /\ m \in 0..m
        BY <1>1, <3>2
      <4>2. g[k - 1] = h[m]
        BY <2>2, <4>1
      <4> QED
        BY <2>3, <3>2, <4>2
    <3> QED
      BY <1>1, <3>1, <3>2
  <2>6. g[0] = o
    <3>1. 0 \in 0..m
      BY <1>1
    <3> QED
      BY <2>1, <2>2, <3>1
  <2>7. Grown(g, m + 1)
    BY <2>4, <2>5, <2>6 DEF Follows
  <2>8. m + 1 \in 0..n
    BY <1>1
  <2> HIDE DEF Grown, n
  <2> QED
    BY <2>7, <2>8
<1>4. \A m \in 0..n : m \in T
  <2> HIDE DEF T, n
  <2>1. 0 \in Nat
    OBVIOUS
  <2> QED
    BY <1>1, <1>2, <1>3, <2>1, Upwards
<1>5. PICK h : Grown(h, n)
  BY <1>1, <1>4
<1>6. IsCourse(h, t, o, ss)
  BY <1>5 DEF IsCourse
<1> QED
  BY <1>6 DEF Course

Matches(a, b, n) == \A k \in 1..n : a[k] = b[k]

\* Where two courses through the same statements start alike, they go alike.
LEMMA CoursesAgree ==
  ASSUME NEW n \in Nat, NEW t, NEW a, NEW b, NEW g, NEW h,
         g[0] = h[0],
         Follows(g, t, a, n), Follows(h, t, b, n),
         Matches(a, b, n)
  PROVE  \A k \in 0..n : g[k] = h[k]
<1> DEFINE T == {k \in 0..n : g[k] = h[k]}
<1>1. 0 \in T
  OBVIOUS
<1>2. ASSUME NEW k \in 0..(n - 1), k \in T PROVE k + 1 \in T
  <2>1. k + 1 \in 1..n /\ (k + 1) - 1 = k /\ k + 1 \in 0..n
    OBVIOUS
  <2>2. g[k] = h[k]
    BY <1>2
  <2>3. g[k + 1] = StepOn(t, g[k], a[k + 1]) /\ h[k + 1] = StepOn(t, h[k], b[k + 1])
    BY <2>1 DEF Follows
  <2>4. a[k + 1] = b[k + 1]
    BY <2>1 DEF Matches
  <2> QED
    BY <2>1, <2>2, <2>3, <2>4
<1>3. \A k \in 0..n : k \in T
  <2> HIDE DEF T
  <2>1. 0 \in Nat
    OBVIOUS
  <2> QED
    BY <1>1, <1>2, <2>1, Upwards
<1> QED
  BY <1>3

\* Statements one after the other.
LEMMA CourseJoin ==
  ASSUME NEW V, NEW a \in Seq(V), NEW b \in Seq(V), NEW t, NEW o
  PROVE  /\ \A k \in 0..Len(a) : Course(t, o, a \o b)[k] = Course(t, o, a)[k]
         /\ \A k \in 0..Len(b) :
              Course(t, o, a \o b)[Len(a) + k] = Course(t, End(t, o, a), b)[k]
<1> DEFINE ab == a \o b
           m == Len(a)
           n == Len(b)
           h == Course(t, o, ab)
           f == Course(t, o, a)
           g == Course(t, f[m], b)
           tail == [k \in 0..n |-> h[m + k]]
<1>1. /\ ab \in Seq(V) /\ Len(ab) = m + n /\ m \in Nat /\ n \in Nat
      /\ \A k \in 1..m : ab[k] = a[k]
      /\ \A k \in 1..n : ab[m + k] = b[k]
  OBVIOUS
<1>2. IsCourse(h, t, o, ab) /\ IsCourse(f, t, o, a) /\ IsCourse(g, t, f[m], b)
  BY <1>1, CourseExists
<1> HIDE DEF ab, h, f, g, m, n
<1>3. \A k \in 0..m : h[k] = f[k]
  <2>1. h[0] = f[0] /\ Follows(f, t, a, m)
    BY <1>2 DEF IsCourse, m
  <2>2. Follows(h, t, ab, m)
    BY <1>1, <1>2 DEF IsCourse, Follows
  <2>3. Matches(ab, a, m)
    BY <1>1 DEF Matches
  <2> QED
    BY <1>1, <2>1, <2>2, <2>3, CoursesAgree
<1>4. \A k \in 0..n : tail[k] = g[k]
  <2>1. tail[0] = g[0]
    <3>1. tail[0] = h[m] /\ m \in 0..m
      BY <1>1
    <3>2. g[0] = f[m]
      BY <1>2 DEF IsCourse
    <3> QED
      BY <1>3, <3>1, <3>2
  <2>2. ASSUME NEW k \in 1..n PROVE tail[k] = StepOn(t, tail[k - 1], b[k])
    <3>1. m + k \in 1..Len(ab) /\ (m + k) - 1 = m + (k - 1) /\ k - 1 \in 0..n /\ k \in 0..n
      BY <1>1
    <3>2. h[m + k] = StepOn(t, h[m + (k - 1)], ab[m + k])
      BY <1>2, <3>1 DEF IsCourse, Follows
    <3>3. ab[m + k] = b[k]
      BY <1>1
    <3>4. tail[k] = h[m + k] /\ tail[k - 1] = h[m + (k - 1)]
      BY <3>1
    <3> QED
      BY <3>2, <3>3, <3>4
  <2> HIDE DEF tail
  <2>3. Follows(tail, t, b, n)
    BY <2>2 DEF Follows
  <2>4. Follows(g, t, b, n)
    BY <1>2 DEF IsCourse, n
  <2>5. Matches(b, b, n)
    BY DEF Matches
  <2>6. n \in Nat
    BY <1>1
  <2> QED
    BY <2>1, <2>3, <2>4, <2>5, <2>6, CoursesAgree
<1>5. f[m] = End(t, o, a)
  BY DEF End, f, m
<1>6. \A k \in 0..n : h[m + k] = g[k]
  BY <1>4
<1> QED
  BY <1>3, <1>5, <1>6 DEF ab, h, f, g, m, n

LEMMA EndJoin ==
  ASSUME NEW V, NEW a \in Seq(V), NEW b \in Seq(V), NEW t, NEW o
  PROVE  End(t, o, a \o b) = End(t, End(t, o, a), b)
<1>1. Len(a \o b) = Len(a) + Len(b) /\ Len(b) \in 0..Len(b)
  OBVIOUS
<1> QED
  BY <1>1, CourseJoin DEF End

LEMMA Greatest ==
  ASSUME NEW n \in Nat, NEW s \in SUBSET (1..n), s # {}
  PROVE  Max(s) \in s /\ \A x \in s : x <= Max(s)
<1> DEFINE B == {k \in Nat : s \subseteq 1..k}
           Less == OpToRel(<, Nat)
<1>1. n \in B /\ B \subseteq Nat
  OBVIOUS
<1>2. IsWellFoundedOn(Less, Nat)
  BY NatLessThanWellFounded DEF Less
<1> HIDE DEF B, Less
<1>3. PICK k \in B : \A j \in B : ~ (<<j, k>> \in Less)
  BY <1>1, <1>2, WFMin
<1>4. k \in Nat /\ s \subseteq 1..k
  BY <1>3 DEF B
<1>5. k \in s
  <2>1. SUFFICES ASSUME k \notin s PROVE FALSE
    OBVIOUS
  <2>2. k > 0 /\ k - 1 \in Nat /\ s \subseteq 1..(k - 1)
    <3>1. \A x \in s : x \in 1..k /\ x # k
      BY <1>4, <2>1
    <3>2. \A x \in 1..k : x # k => x \in 1..(k - 1)
      BY <1>4
    <3>3. \E x \in s : TRUE
      OBVIOUS
    <3> QED
      BY <1>4, <3>1, <3>2, <3>3
  <2>3. k - 1 \in B
    BY <2>2 DEF B
  <2>4. <<k - 1, k>> \in Less
    BY <1>4, <2>2 DEF Less, OpToRel
  <2> QED
    BY <1>3, <2>3, <2>4
<1>6. \A x \in s : x <= k /\ x \in Int
  BY <1>4
<1>7. Max(s) \in s /\ \A x \in s : Max(s) >= x
  BY <1>5, <1>6 DEF Max
<1> QED
  BY <1>6, <1>7

\* The statements whose numbers are in s, executed from the first of them on.
Executes(h, ss, s, n) ==
  /\ DOMAIN h = 0..n /\ h[0] = None
  /\ \A k \in 1..n : h[k] = IF k \in s THEN Effect(h[k - 1], ss[k]) ELSE h[k - 1]

LEMMA ExecutesExists ==
  ASSUME NEW ss, NEW s, NEW n \in Nat
  PROVE  \E h : Executes(h, ss, s, n)
<1> DEFINE T == {m \in 0..n : \E h : Executes(h, ss, s, m)}
<1>1. 0 \in T
  <2>1. Executes([k \in 0..0 |-> None], ss, s, 0)
    BY DEF Executes
  <2>2. 0 \in 0..n
    OBVIOUS
  <2> QED
    BY <2>1, <2>2
<1>2. ASSUME NEW m \in 0..(n - 1), m \in T PROVE m + 1 \in T
  <2>1. PICK h : Executes(h, ss, s, m)
    BY <1>2
  <2> DEFINE last == IF m + 1 \in s THEN Effect(h[m], ss[m + 1]) ELSE h[m]
             g == [k \in 0..(m + 1) |-> IF k <= m THEN h[k] ELSE last]
  <2> HIDE DEF last
  <2>2. /\ DOMAIN g = 0..(m + 1) /\ g[m + 1] = last
        /\ \A k \in 0..m : g[k] = h[k]
    OBVIOUS
  <2> HIDE DEF g
  <2>3. ASSUME NEW k \in 1..(m + 1)
        PROVE  g[k] = IF k \in s THEN Effect(g[k - 1], ss[k]) ELSE g[k - 1]
    <3>1. CASE k <= m
      <4>1. k \in 1..m /\ k \in 0..m /\ k - 1 \in 0..m
        BY <3>1
      <4>2. h[k] = IF k \in s THEN Effect(h[k - 1], ss[k]) ELSE h[k - 1]
        BY <2>1, <4>1 DEF Executes
      <4> QED
        BY <2>2, <4>1, <4>2
    <3>2. CASE k = m + 1
      <4>1. k - 1 = m /\ m \in 0..m
        BY <3>2
      <4>2. g[k - 1] = h[m]
        BY <2>2, <4>1
      <4> QED
        BY <2>2, <3>2, <4>2 DEF last
    <3> QED
      BY <3>1, <3>2
  <2>4. g[0] = None
    <3>1. 0 \in 0..m
      OBVIOUS
    <3> QED
      BY <2>1, <2>2, <3>1 DEF Executes
  <2>5. Executes(g, ss, s, m + 1)
    BY <2>2, <2>3, <2>4 DEF Executes
  <2>6. m + 1 \in 0..n
    OBVIOUS
  <2> QED
    BY <2>5, <2>6
<1>3. \A m \in 0..n : m \in T
  <2> HIDE DEF T
  <2>1. 0 \in Nat
    OBVIOUS
  <2> QED
    BY <1>1, <1>2, <2>1, Upwards
<1> QED
  BY <1>3

\* Up to where the same statements are executed, the tables are the same.
Alike(a, b, m) == \A k \in 1..m : k \in a <=> k \in b

LEMMA ExecutesAlike ==
  ASSUME NEW ss, NEW n \in Nat, NEW m \in 0..n, NEW a, NEW b, NEW g, NEW h,
         Executes(g, ss, a, n), Executes(h, ss, b, n),
         Alike(a, b, m)
  PROVE  \A k \in 0..m : g[k] = h[k]
<1> DEFINE T == {k \in 0..m : g[k] = h[k]}
<1>1. 0 \in T
  BY DEF Executes
<1>2. ASSUME NEW k \in 0..(m - 1), k \in T PROVE k + 1 \in T
  <2>1. k + 1 \in 1..n /\ k + 1 \in 1..m /\ (k + 1) - 1 = k /\ k + 1 \in 0..m
    OBVIOUS
  <2>5. k + 1 \in a <=> k + 1 \in b
    BY <2>1 DEF Alike
  <2>2. g[k + 1] = IF k + 1 \in a THEN Effect(g[k], ss[k + 1]) ELSE g[k]
    BY <2>1 DEF Executes
  <2>3. h[k + 1] = IF k + 1 \in b THEN Effect(h[k], ss[k + 1]) ELSE h[k]
    BY <2>1 DEF Executes
  <2>4. g[k] = h[k]
    BY <1>2
  <2> QED
    BY <2>1, <2>2, <2>3, <2>4, <2>5
<1>3. \A k \in 0..m : k \in T
  <2> HIDE DEF T
  <2>1. 0 \in Nat /\ m \in Nat
    OBVIOUS
  <2> QED
    BY <1>1, <1>2, <2>1, Upwards
<1> QED
  BY <1>3

\* After the last of them nothing changes.
LEMMA ExecutesRests ==
  ASSUME NEW ss, NEW n \in Nat, NEW m \in 0..n, NEW s, NEW h,
         Executes(h, ss, s, n), \A k \in (m + 1)..n : k \notin s
  PROVE  h[n] = h[m]
<1> DEFINE T == {k \in m..n : h[k] = h[m]}
<1>1. m \in T
  OBVIOUS
<1>2. ASSUME NEW k \in m..(n - 1), k \in T PROVE k + 1 \in T
  <2>1. k + 1 \in 1..n /\ k + 1 \in (m + 1)..n /\ (k + 1) - 1 = k /\ k + 1 \in m..n
    OBVIOUS
  <2>2. h[k + 1] = IF k + 1 \in s THEN Effect(h[k], ss[k + 1]) ELSE h[k]
    BY <2>1 DEF Executes
  <2> QED
    BY <1>2, <2>1, <2>2
<1>3. \A k \in m..n : k \in T
  <2> HIDE DEF T
  <2>1. m \in Nat
    OBVIOUS
  <2> QED
    BY <1>1, <1>2, <2>1, Upwards
<1> QED
  BY <1>3

LEMMA Prefix ==
  ASSUME NEW n \in Nat, NEW k \in 1..n
  PROVE  /\ 1..k \in SUBSET (1..n) /\ 1..k # {} /\ k \in 1..k
         /\ (1..k) \ {k} = 1..(k - 1)
OBVIOUS

\* What FoldLeft makes of statements is what they make one after the other.
IsFold(it, ss) ==
  it = [s \in SUBSET (DOMAIN ss) |->
          IF s = {} THEN None ELSE Effect(it[s \ {Max(s)}], ss[Max(s)])]

LEMMA FoldOfTables ==
  ASSUME NEW V, NEW ss \in Seq(V)
  PROVE  \E it : IsFold(it, ss)
<1> DEFINE n == Len(ss)
           G(s) == CHOOSE h : Executes(h, ss, s, n)
           it == [s \in SUBSET (1..n) |-> G(s)[n]]
<1>1. n \in Nat /\ DOMAIN ss = 1..n
  OBVIOUS
<1>2. \A s : Executes(G(s), ss, s, n)
  BY <1>1, ExecutesExists
<1> HIDE DEF G, n
<1>3. ASSUME NEW s \in SUBSET (1..n), s # {}
      PROVE  it[s] = Effect(it[s \ {Max(s)}], ss[Max(s)])
  <2> DEFINE m == Max(s)
             r == s \ {m}
  <2>1. m \in s /\ \A x \in s : x <= m
    BY <1>1, <1>3, Greatest
  <2> HIDE DEF m
  <2>2. m \in 1..n /\ r \in SUBSET (1..n) /\ m - 1 \in 0..n /\ m \in 0..n
    <3>1. m \in 1..n /\ r \in SUBSET (1..n)
      BY <2>1
    <3> QED
      BY <1>1, <3>1
  <2>3. G(s)[n] = G(s)[m]
    <3>1. \A k \in (m + 1)..n : k \notin s
      BY <1>1, <2>1, <2>2
    <3>2. Executes(G(s), ss, s, n) /\ m \in 0..n
      BY <1>2, <2>2
    <3> QED
      BY <1>1, <3>1, <3>2, ExecutesRests
  <2>4. G(s)[m] = Effect(G(s)[m - 1], ss[m])
    <3>1. Executes(G(s), ss, s, n)
      BY <1>2
    <3> QED
      BY <2>1, <2>2, <3>1 DEF Executes
  <2>5. G(r)[n] = G(r)[m - 1]
    <3>1. \A k \in ((m - 1) + 1)..n : k \notin r
      BY <1>1, <2>1, <2>2
    <3> HIDE DEF r
    <3>2. Executes(G(r), ss, r, n)
      BY <1>2
    <3> QED
      BY <1>1, <2>2, <3>1, <3>2, ExecutesRests
  <2>6. G(r)[m - 1] = G(s)[m - 1]
    <3>1. \A k \in 1..(m - 1) : k \in r <=> k \in s
      BY <1>1, <2>2
    <3> HIDE DEF r
    <3>2. Executes(G(r), ss, r, n) /\ Executes(G(s), ss, s, n)
      BY <1>2
    <3> DEFINE before == m - 1
    <3> HIDE DEF before
    <3>5. before \in 0..n /\ Alike(r, s, before)
      BY <2>2, <3>1 DEF before, Alike
    <3>6. \A k \in 0..before : G(r)[k] = G(s)[k]
      BY <1>1, <3>2, <3>5, ExecutesAlike
    <3>3. \A k \in 0..(m - 1) : G(r)[k] = G(s)[k]
      BY <3>6 DEF before
    <3>4. m - 1 \in 0..(m - 1)
      BY <1>1, <2>2
    <3> QED
      BY <3>3, <3>4
  <2>7. it[s] = G(s)[n] /\ it[r] = G(r)[n]
    BY <2>2
  <2> HIDE DEF it, r
  <2> QED
    BY <2>3, <2>4, <2>5, <2>6, <2>7 DEF m, r
<1>4. it[{}] = None
  <2>1. Executes(G({}), ss, {}, n)
    BY <1>2
  <2>2. G({})[n] = G({})[0]
    <3>1. 0 \in 0..n /\ \A k \in (0 + 1)..n : k \notin {}
      BY <1>1
    <3> QED
      BY <1>1, <2>1, <3>1, ExecutesRests
  <2>3. it[{}] = G({})[n]
    OBVIOUS
  <2> QED
    BY <2>1, <2>2, <2>3 DEF Executes
<1>5. DOMAIN it = SUBSET (1..n) /\ it = [s \in SUBSET (1..n) |-> it[s]]
  OBVIOUS
<1> HIDE DEF it
<1>6. it = [s \in SUBSET (1..n) |->
              IF s = {} THEN None ELSE Effect(it[s \ {Max(s)}], ss[Max(s)])]
  BY <1>3, <1>4, <1>5
<1> QED
  BY <1>1, <1>6 DEF IsFold

LEMMA FoldIs ==
  ASSUME NEW V, NEW ss \in Seq(V)
  PROVE  \E it : IsFold(it, ss) /\ FoldLeft(Effect, None, ss) = it[DOMAIN ss]
<1>1. FoldLeft(Effect, None, ss) = (CHOOSE it : IsFold(it, ss))[DOMAIN ss]
  BY DEF FoldLeft, MapThenFoldSet, IsFold
<1> QED
  BY <1>1, FoldOfTables

\* Statements that drop no table make of each table what its course says.
Keeps(ss) == \A k \in 1..Len(ss) : ss[k].do \in Verbs \ {"droptable"}

LEMMA FoldCourse ==
  ASSUME NEW V, NEW ss \in Seq(V), Keeps(ss)
  PROVE  /\ IsTables(FoldLeft(Effect, None, ss))
         /\ \A t : At(FoldLeft(Effect, None, ss), t) = End(t, {}, ss)
<1> DEFINE n == Len(ss)
<1>1. n \in Nat /\ DOMAIN ss = 1..n
  OBVIOUS
<1>2. PICK it : IsFold(it, ss) /\ FoldLeft(Effect, None, ss) = it[DOMAIN ss]
  BY FoldIs
<1> DEFINE F == FoldLeft(Effect, None, ss)
<1>3. F = it[1..n]
  BY <1>1, <1>2
<1>4. \A k \in 1..n : ss[k].do \in Verbs \ {"droptable"}
  BY DEF Keeps
<1> HIDE DEF n, F
<1>5. it[1..0] = None
  <2>1. 1..0 = {} /\ {} \in SUBSET (DOMAIN ss)
    OBVIOUS
  <2> QED
    BY <1>2, <2>1 DEF IsFold
<1>6. ASSUME NEW k \in 1..n PROVE it[1..k] = Effect(it[1..(k - 1)], ss[k])
  <2>1. 1..k \in SUBSET (1..n) /\ 1..k # {} /\ k \in 1..k /\ (1..k) \ {k} = 1..(k - 1)
    BY <1>1, Prefix
  <2>2. Max(1..k) \in 1..k /\ \A x \in 1..k : x <= Max(1..k)
    BY <1>1, <2>1, Greatest
  <2>3. Max(1..k) = k
    BY <1>1, <2>1, <2>2
  <2>4. it[1..k] = Effect(it[(1..k) \ {Max(1..k)}], ss[Max(1..k)])
    BY <1>1, <1>2, <2>1 DEF IsFold
  <2> QED
    BY <2>1, <2>3, <2>4
<1> DEFINE f == [k \in 0..n |-> it[1..k]]
<1>7. /\ f[0] = None /\ F = f[n]
      /\ \A k \in 1..n : f[k] = Effect(f[k - 1], ss[k])
  BY <1>1, <1>3, <1>5, <1>6
<1> HIDE DEF f
<1>8. ASSUME NEW k \in 1..n PROVE ss[k].do \in Verbs /\ Loose(f[k - 1], ss[k])
  BY <1>4 DEF Loose
<1>9. IsTables(F)
  <2> DEFINE T == {k \in 0..n : IsTables(f[k])}
  <2>1. 0 \in T
    BY <1>1, <1>7 DEF IsTables, None
  <2>2. ASSUME NEW k \in 0..(n - 1), k \in T PROVE k + 1 \in T
    <3>1. k + 1 \in 1..n /\ (k + 1) - 1 = k /\ k + 1 \in 0..n
      BY <1>1
    <3>2. f[k + 1] = Effect(f[k], ss[k + 1]) /\ ss[k + 1].do \in Verbs
      BY <1>7, <1>8, <3>1
    <3> QED
      BY <2>2, <3>1, <3>2, EffectIsTables
  <2>3. \A k \in 0..n : k \in T
    <3> HIDE DEF T
    <3>1. 0 \in Nat
      OBVIOUS
    <3> QED
      BY <1>1, <2>1, <2>2, <3>1, Upwards
  <2>4. n \in 0..n
    BY <1>1
  <2> QED
    BY <1>7, <2>3, <2>4
<1>10. ASSUME NEW t PROVE At(F, t) = End(t, {}, ss)
  <2> DEFINE g == [k \in 0..n |-> At(f[k], t)]
             h == Course(t, {}, ss)
  <2>1. h[0] = {} /\ Follows(h, t, ss, n)
    BY CourseExists DEF IsCourse, n
  <2>7. g[0] = h[0]
    <3>1. g[0] = At(None, t)
      BY <1>1, <1>7
    <3>2. At(None, t) = {}
      BY DEF At, None
    <3> QED
      BY <2>1, <3>1, <3>2
  <2>3. Follows(g, t, ss, n)
    <3>1. SUFFICES ASSUME NEW k \in 1..n PROVE g[k] = StepOn(t, g[k - 1], ss[k])
      BY DEF Follows
    <3>2. k - 1 \in 0..n /\ k \in 0..n
      BY <1>1
    <3>3. At(Effect(f[k - 1], ss[k]), t) = StepOn(t, At(f[k - 1], t), ss[k])
      BY <1>8, EffectAt
    <3> QED
      BY <1>7, <3>2, <3>3
  <2>4. g[n] = At(f[n], t) /\ n \in 0..n
    BY <1>1
  <2>5. Matches(ss, ss, n)
    BY DEF Matches
  <2> HIDE DEF g, h
  <2>6. \A k \in 0..n : g[k] = h[k]
    <3>1. n \in Nat /\ Follows(h, t, ss, n)
      BY <1>1, <2>1
    <3> QED
      BY <2>3, <2>5, <2>7, <3>1, CoursesAgree
  <2> QED
    BY <1>7, <2>4, <2>6 DEF End, h, n
<1> QED
  BY <1>9, <1>10 DEF F

-----------------------------------------------------------------------------
(* The statements there are.                                               *)

\* The tables that others refer to.
Parents == {"users", "trips", "subgroups", "expenses"}

\* Going up nothing is dropped but CHECKs; going down nothing is made but CHECKs,
\* and no table others refer to is dropped with CASCADE.
UpOnly(s) ==
  \/ s.do = "create" /\ Targets(s.shape) \subseteq Parents
  \/ s.do = "add" /\ Targets(s.shape) \subseteq Parents /\ s.how # "unchecked"
  \/ s.do = "drop" /\ s.is = "check"
DownOnly(s) ==
  \/ s.do = "drop"
  \/ s.do = "add" /\ s.how = "plain" /\ \A o \in s.shape : o.is = "check"
  \/ s.do = "droptable" /\ (s.cascade => s.on \notin Parents)

KeysIn(keys) == \A c \in DOMAIN keys : keys[c] \in Parents

LEMMA CreateIs ==
  ASSUME NEW t, NEW plain, NEW text, NEW keys, NEW allowed, KeysIn(keys)
  PROVE  /\ UpOnly(Create(t, plain, text, keys, allowed))
         /\ Create(t, plain, text, keys, allowed).on = t
<1> DEFINE s == Create(t, plain, text, keys, allowed)
<1>1. s.do = "create" /\ s.on = t
  BY DEF Create
<1>2. ASSUME NEW o \in s.shape, o.is = "fk" PROVE o.to \in Parents
  <2>1. \/ o \in Columns(plain, text)
        \/ o \in {Reference(c, keys[c]) : c \in DOMAIN keys}
        \/ o \in {Check(c, allowed[c]) : c \in DOMAIN allowed}
    BY <1>2 DEF Create
  <2>2. o \notin Columns(plain, text)
    BY <1>2 DEF Columns, Column
  <2>3. o \notin {Check(c, allowed[c]) : c \in DOMAIN allowed}
    BY <1>2 DEF Check
  <2> QED
    BY <2>1, <2>2, <2>3 DEF Reference, KeysIn
<1>3. Targets(s.shape) \subseteq Parents
  BY <1>2 DEF Targets
<1> QED
  BY <1>1, <1>3 DEF UpOnly

LEMMA AddIs ==
  ASSUME NEW t, NEW o, Targets({o}) \subseteq Parents
  PROVE  /\ UpOnly(Add(t, o, "plain")) /\ Add(t, o, "plain").on = t
         /\ UpOnly(Add(t, o, "required")) /\ Add(t, o, "required").on = t
BY DEF Add, UpOnly

LEMMA AddColumn ==
  ASSUME NEW t, NEW n, NEW w
  PROVE  /\ UpOnly(Add(t, Column(n, w), "plain")) /\ Add(t, Column(n, w), "plain").on = t
         /\ UpOnly(Add(t, Column(n, w), "required"))
         /\ Add(t, Column(n, w), "required").on = t
<1>1. Targets({Column(n, w)}) = {}
  BY DEF Targets, Column
<1> QED
  BY <1>1, AddIs

LEMMA AddIndex ==
  ASSUME NEW t, NEW n
  PROVE  UpOnly(Add(t, Index(n), "plain")) /\ Add(t, Index(n), "plain").on = t
<1>1. Targets({Index(n)}) = {}
  BY DEF Targets, Index
<1> QED
  BY <1>1, AddIs

LEMMA AddReference ==
  ASSUME NEW t, NEW n, NEW to \in Parents
  PROVE  UpOnly(Add(t, Reference(n, to), "plain")) /\ Add(t, Reference(n, to), "plain").on = t
<1>1. Targets({Reference(n, to)}) \subseteq Parents
  BY DEF Targets, Reference
<1> QED
  BY <1>1, AddIs

LEMMA AddCheck ==
  ASSUME NEW t, NEW n, NEW w
  PROVE  /\ UpOnly(Add(t, Check(n, w), "plain")) /\ Add(t, Check(n, w), "plain").on = t
         /\ DownOnly(Add(t, Check(n, w), "plain"))
<1>1. Targets({Check(n, w)}) = {}
  BY DEF Targets, Check
<1>2. DownOnly(Add(t, Check(n, w), "plain"))
  BY DEF DownOnly, Add, Check
<1> QED
  BY <1>1, <1>2, AddIs

LEMMA DropIs ==
  ASSUME NEW is, NEW t, NEW n
  PROVE  /\ DownOnly(Drop(is, t, n)) /\ Drop(is, t, n).on = t
         /\ is = "check" => UpOnly(Drop(is, t, n))
BY DEF UpOnly, DownOnly, Drop

LEMMA DropTableIs ==
  ASSUME NEW t
  PROVE  /\ DropTable(t, FALSE).do = "droptable" /\ DropTable(t, FALSE).on = t
         /\ DropTable(t, TRUE).do = "droptable" /\ DropTable(t, TRUE).on = t
         /\ DownOnly(DropTable(t, FALSE))
         /\ t \notin Parents => DownOnly(DropTable(t, TRUE))
BY DEF DownOnly, DropTable

-----------------------------------------------------------------------------
(* The parts the revisions are made of.                                    *)

IsSeq(ss) == \E V : ss \in Seq(V)
GoesUp(ss) == IsSeq(ss) /\ \A i \in 1..Len(ss) : UpOnly(ss[i])
GoesDown(ss) == IsSeq(ss) /\ \A i \in 1..Len(ss) : DownOnly(ss[i])
About(ss, X) == \A i \in 1..Len(ss) : ss[i].on \in X
Drops(ss, X) ==
  \A t \in X : \E i \in 1..Len(ss) : ss[i].do = "droptable" /\ ss[i].on = t

LEMMA Joined ==
  ASSUME NEW a, NEW b, IsSeq(a), IsSeq(b)
  PROVE  /\ IsSeq(a \o b) /\ Len(a) \in Nat /\ Len(b) \in Nat
         /\ Len(a \o b) = Len(a) + Len(b)
         /\ \A i \in 1..Len(a) : (a \o b)[i] = a[i]
         /\ \A i \in 1..Len(b) : (a \o b)[Len(a) + i] = b[i]
<1>1. PICK V : a \in Seq(V)
  BY DEF IsSeq
<1>2. PICK W : b \in Seq(W)
  BY DEF IsSeq
<1> DEFINE U == V \cup W
<1>3. a \in Seq(U) /\ b \in Seq(U)
  BY <1>1, <1>2
<1> HIDE DEF U
<1>4. a \o b \in Seq(U)
  BY <1>3
<1>5. /\ Len(a) \in Nat /\ Len(b) \in Nat
      /\ Len(a \o b) = Len(a) + Len(b)
      /\ \A i \in 1..Len(a) : (a \o b)[i] = a[i]
      /\ \A i \in 1..Len(b) : (a \o b)[Len(a) + i] = b[i]
  BY <1>3
<1> QED
  BY <1>4, <1>5 DEF IsSeq

LEMMA JoinedAt ==
  ASSUME NEW a, NEW b, IsSeq(a), IsSeq(b), NEW i \in 1..Len(a \o b)
  PROVE  \/ i \in 1..Len(a) /\ (a \o b)[i] = a[i]
         \/ \E j \in 1..Len(b) : i = Len(a) + j /\ (a \o b)[i] = b[j]
<1> DEFINE m == Len(a)
           n == Len(b)
           ab == a \o b
<1>1. m \in Nat /\ n \in Nat /\ i \in 1..(m + n)
      /\ (\A j \in 1..m : ab[j] = a[j]) /\ (\A j \in 1..n : ab[m + j] = b[j])
  BY Joined
<1> HIDE DEF m, n, ab
<1>2. CASE i <= m
  BY <1>1, <1>2 DEF m, ab
<1>3. CASE i > m
  <2>1. i - m \in 1..n /\ i = m + (i - m)
    BY <1>1, <1>3
  <2> QED
    BY <1>1, <2>1 DEF m, n, ab
<1>4. i <= m \/ i > m
  BY <1>1
<1> QED
  BY <1>2, <1>3, <1>4

LEMMA UpJoin ==
  ASSUME NEW a, NEW b, GoesUp(a), GoesUp(b)
  PROVE  GoesUp(a \o b)
BY Joined, JoinedAt DEF GoesUp

LEMMA DownJoin ==
  ASSUME NEW a, NEW b, GoesDown(a), GoesDown(b)
  PROVE  GoesDown(a \o b)
BY Joined, JoinedAt DEF GoesDown

LEMMA AboutJoin ==
  ASSUME NEW a, NEW b, NEW X, NEW Y, IsSeq(a), IsSeq(b), About(a, X), About(b, Y)
  PROVE  About(a \o b, X \cup Y)
<1>1. ASSUME NEW i \in 1..Len(a \o b) PROVE (a \o b)[i].on \in X \cup Y
  <2> DEFINE x == (a \o b)[i]
  <2>1. \/ i \in 1..Len(a) /\ x = a[i]
        \/ \E j \in 1..Len(b) : i = Len(a) + j /\ x = b[j]
    BY JoinedAt
  <2> HIDE DEF x
  <2>2. CASE i \in 1..Len(a) /\ x = a[i]
    BY <2>2 DEF About
  <2>3. CASE \E j \in 1..Len(b) : x = b[j]
    BY <2>3 DEF About
  <2>4. x.on \in X \cup Y
    BY <2>1, <2>2, <2>3
  <2> QED
    BY <2>4 DEF x
<1> QED
  BY <1>1 DEF About

LEMMA DropsJoin ==
  ASSUME NEW a, NEW b, NEW X, NEW Y, IsSeq(a), IsSeq(b), Drops(a, X), Drops(b, Y)
  PROVE  Drops(a \o b, X \cup Y)
<1> DEFINE m == Len(a)
           n == Len(b)
           ab == a \o b
<1>1. m \in Nat /\ n \in Nat /\ Len(ab) = m + n
      /\ (\A j \in 1..m : ab[j] = a[j]) /\ (\A j \in 1..n : ab[m + j] = b[j])
  BY Joined
<1> HIDE DEF ab
<1>2. ASSUME NEW t \in X PROVE \E i \in 1..Len(ab) : ab[i].do = "droptable" /\ ab[i].on = t
  <2>1. PICK i \in 1..m : a[i].do = "droptable" /\ a[i].on = t
    BY DEF Drops
  <2>2. i \in 1..(m + n)
    BY <1>1
  <2> QED
    BY <1>1, <2>1, <2>2
<1>3. ASSUME NEW t \in Y PROVE \E i \in 1..Len(ab) : ab[i].do = "droptable" /\ ab[i].on = t
  <2>1. PICK i \in 1..n : b[i].do = "droptable" /\ b[i].on = t
    BY DEF Drops
  <2>2. m + i \in 1..(m + n)
    BY <1>1
  <2> QED
    BY <1>1, <2>1, <2>2
<1> QED
  BY <1>2, <1>3 DEF Drops, ab

LEMMA Tuple1 ==
  ASSUME NEW x1
  PROVE  IsSeq(<<x1>>) /\ Len(<<x1>>) = 1
<1>1. <<x1>> \in Seq({x1})
  OBVIOUS
<1> QED
  BY <1>1 DEF IsSeq

LEMMA Tuple2 ==
  ASSUME NEW x1, NEW x2
  PROVE  IsSeq(<<x1, x2>>) /\ Len(<<x1, x2>>) = 2
<1>1. <<x1, x2>> \in Seq({x1, x2})
  OBVIOUS
<1> QED
  BY <1>1 DEF IsSeq

LEMMA Tuple3 ==
  ASSUME NEW x1, NEW x2, NEW x3
  PROVE  IsSeq(<<x1, x2, x3>>) /\ Len(<<x1, x2, x3>>) = 3
<1>1. <<x1, x2, x3>> \in Seq({x1, x2, x3})
  OBVIOUS
<1> QED
  BY <1>1 DEF IsSeq

LEMMA Tuple4 ==
  ASSUME NEW x1, NEW x2, NEW x3, NEW x4
  PROVE  IsSeq(<<x1, x2, x3, x4>>) /\ Len(<<x1, x2, x3, x4>>) = 4
<1>1. <<x1, x2, x3, x4>> \in Seq({x1, x2, x3, x4})
  OBVIOUS
<1> QED
  BY <1>1 DEF IsSeq

LEMMA Tuple5 ==
  ASSUME NEW x1, NEW x2, NEW x3, NEW x4, NEW x5
  PROVE  IsSeq(<<x1, x2, x3, x4, x5>>) /\ Len(<<x1, x2, x3, x4, x5>>) = 5
<1>1. <<x1, x2, x3, x4, x5>> \in Seq({x1, x2, x3, x4, x5})
  OBVIOUS
<1> QED
  BY <1>1 DEF IsSeq

LEMMA Tuple7 ==
  ASSUME NEW x1, NEW x2, NEW x3, NEW x4, NEW x5, NEW x6, NEW x7
  PROVE  IsSeq(<<x1, x2, x3, x4, x5, x6, x7>>) /\ Len(<<x1, x2, x3, x4, x5, x6, x7>>) = 7
<1>1. <<x1, x2, x3, x4, x5, x6, x7>> \in Seq({x1, x2, x3, x4, x5, x6, x7})
  OBVIOUS
<1> QED
  BY <1>1 DEF IsSeq

LEMMA Tuple9 ==
  ASSUME NEW x1, NEW x2, NEW x3, NEW x4, NEW x5, NEW x6, NEW x7, NEW x8, NEW x9
  PROVE  IsSeq(<<x1, x2, x3, x4, x5, x6, x7, x8, x9>>) /\ Len(<<x1, x2, x3, x4, x5, x6, x7, x8, x9>>) = 9
<1>1. <<x1, x2, x3, x4, x5, x6, x7, x8, x9>> \in Seq({x1, x2, x3, x4, x5, x6, x7, x8, x9})
  OBVIOUS
<1> QED
  BY <1>1 DEF IsSeq

LEMMA Tuple10 ==
  ASSUME NEW x1, NEW x2, NEW x3, NEW x4, NEW x5, NEW x6, NEW x7, NEW x8, NEW x9, NEW x10
  PROVE  IsSeq(<<x1, x2, x3, x4, x5, x6, x7, x8, x9, x10>>) /\ Len(<<x1, x2, x3, x4, x5, x6, x7, x8, x9, x10>>) = 10
<1>1. <<x1, x2, x3, x4, x5, x6, x7, x8, x9, x10>> \in Seq({x1, x2, x3, x4, x5, x6, x7, x8, x9, x10})
  OBVIOUS
<1> QED
  BY <1>1 DEF IsSeq

LEMMA Tuple12 ==
  ASSUME NEW x1, NEW x2, NEW x3, NEW x4, NEW x5, NEW x6, NEW x7, NEW x8, NEW x9, NEW x10, NEW x11, NEW x12
  PROVE  IsSeq(<<x1, x2, x3, x4, x5, x6, x7, x8, x9, x10, x11, x12>>) /\ Len(<<x1, x2, x3, x4, x5, x6, x7, x8, x9, x10, x11, x12>>) = 12
<1>1. <<x1, x2, x3, x4, x5, x6, x7, x8, x9, x10, x11, x12>> \in Seq({x1, x2, x3, x4, x5, x6, x7, x8, x9, x10, x11, x12})
  OBVIOUS
<1> QED
  BY <1>1 DEF IsSeq

LEMMA KeysThere ==
  /\ KeysIn(None) /\ KeysIn(TripKey) /\ KeysIn(UserKey) /\ KeysIn(TripUserKeys)
  /\ KeysIn([owner_id |-> "users"])
  /\ KeysIn([subject_user_id |-> "users", actor_user_id |-> "users", trip_id |-> "trips"])
  /\ KeysIn([trip_id |-> "trips", paid_by |-> "users"])
  /\ KeysIn([expense_id |-> "expenses", user_id |-> "users"])
BY DEF KeysIn, None, TripKey, UserKey, TripUserKeys, Parents

LEMMA Initial_TripsIs ==
  /\ GoesUp(Initial_Trips)
  /\ About(Initial_Trips, {"trip_members", "trips", "users"})
<1> DEFINE ss == Initial_Trips
<1>1. IsSeq(ss) /\ Len(ss) = 5
  BY Tuple5 DEF Initial_Trips
<1>2. ASSUME NEW i \in 1..5
      PROVE  UpOnly(ss[i]) /\ ss[i].on \in {"trip_members", "trips", "users"}
  BY CreateIs, KeysThere, AddIndex DEF Initial_Trips
<1> HIDE DEF ss
<1> QED
  BY <1>1, <1>2 DEF GoesUp, About, ss

LEMMA Initial_RestIs ==
  /\ GoesUp(Initial_Rest)
  /\ About(Initial_Rest, {"devices", "locations", "messages", "waypoints"})
<1> DEFINE ss == Initial_Rest
<1>1. IsSeq(ss) /\ Len(ss) = 10
  BY Tuple10 DEF Initial_Rest
<1>2. ASSUME NEW i \in 1..10
      PROVE  UpOnly(ss[i]) /\ ss[i].on \in {"devices", "locations", "messages", "waypoints"}
  BY CreateIs, KeysThere, AddColumn, AddIndex DEF Initial_Rest
<1> HIDE DEF ss
<1> QED
  BY <1>1, <1>2 DEF GoesUp, About, ss

LEMMA Advanced_MembersIs ==
  /\ GoesUp(Advanced_Members)
  /\ About(Advanced_Members, {"trip_members"})
<1> DEFINE ss == Advanced_Members
<1>1. IsSeq(ss) /\ Len(ss) = 5
  BY Tuple5 DEF Advanced_Members
<1>2. ASSUME NEW i \in 1..5
      PROVE  UpOnly(ss[i]) /\ ss[i].on \in {"trip_members"}
  BY AddColumn DEF Advanced_Members
<1> HIDE DEF ss
<1> QED
  BY <1>1, <1>2 DEF GoesUp, About, ss

LEMMA Advanced_RolesIs ==
  /\ GoesUp(Advanced_Roles)
  /\ About(Advanced_Roles, {"trip_members"})
<1> DEFINE ss == Advanced_Roles
<1>1. IsSeq(ss) /\ Len(ss) = 2
  BY Tuple2 DEF Advanced_Roles
<1>2. ASSUME NEW i \in 1..2
      PROVE  UpOnly(ss[i]) /\ ss[i].on \in {"trip_members"}
  BY AddCheck, DropIs DEF Advanced_Roles
<1> HIDE DEF ss
<1> QED
  BY <1>1, <1>2 DEF GoesUp, About, ss

LEMMA Advanced_TripsIs ==
  /\ GoesUp(Advanced_Trips)
  /\ About(Advanced_Trips, {"trips"})
<1> DEFINE ss == Advanced_Trips
<1>1. IsSeq(ss) /\ Len(ss) = 2
  BY Tuple2 DEF Advanced_Trips
<1>2. ASSUME NEW i \in 1..2
      PROVE  UpOnly(ss[i]) /\ ss[i].on \in {"trips"}
  BY AddColumn DEF Advanced_Trips
<1> HIDE DEF ss
<1> QED
  BY <1>1, <1>2 DEF GoesUp, About, ss

LEMMA Advanced_SafetyIs ==
  /\ GoesUp(Advanced_Safety)
  /\ About(Advanced_Safety, {"audit_logs", "safety_alerts", "subgroups", "trip_members"})
<1> DEFINE ss == Advanced_Safety
<1>1. IsSeq(ss) /\ Len(ss) = 7
  BY Tuple7 DEF Advanced_Safety
<1>2. ASSUME NEW i \in 1..7
      PROVE  UpOnly(ss[i]) /\ ss[i].on \in {"audit_logs", "safety_alerts", "subgroups", "trip_members"}
  BY CreateIs, KeysThere, AddIndex, AddReference DEF Advanced_Safety, Parents
<1> HIDE DEF ss
<1> QED
  BY <1>1, <1>2 DEF GoesUp, About, ss

LEMMA Advanced_MoneyIs ==
  /\ GoesUp(Advanced_Money)
  /\ About(Advanced_Money, {"expense_shares", "expenses", "reminders", "subscriptions"})
<1> DEFINE ss == Advanced_Money
<1>1. IsSeq(ss) /\ Len(ss) = 7
  BY Tuple7 DEF Advanced_Money
<1>2. ASSUME NEW i \in 1..7
      PROVE  UpOnly(ss[i]) /\ ss[i].on \in {"expense_shares", "expenses", "reminders", "subscriptions"}
  BY CreateIs, KeysThere, AddIndex DEF Advanced_Money
<1> HIDE DEF ss
<1> QED
  BY <1>1, <1>2 DEF GoesUp, About, ss

LEMMA Advanced_TelemetryIs ==
  /\ GoesUp(Advanced_Telemetry)
  /\ About(Advanced_Telemetry, {"events", "maps_provider_calls"})
<1> DEFINE ss == Advanced_Telemetry
<1>1. IsSeq(ss) /\ Len(ss) = 5
  BY Tuple5 DEF Advanced_Telemetry
<1>2. ASSUME NEW i \in 1..5
      PROVE  UpOnly(ss[i]) /\ ss[i].on \in {"events", "maps_provider_calls"}
  BY CreateIs, KeysThere, AddIndex DEF Advanced_Telemetry
<1> HIDE DEF ss
<1> QED
  BY <1>1, <1>2 DEF GoesUp, About, ss

LEMMA IsAdminIs ==
  /\ GoesUp(IsAdmin)
  /\ About(IsAdmin, {"users"})
<1> DEFINE ss == IsAdmin
<1>1. IsSeq(ss) /\ Len(ss) = 1
  BY Tuple1 DEF IsAdmin
<1>2. ASSUME NEW i \in 1..1
      PROVE  UpOnly(ss[i]) /\ ss[i].on \in {"users"}
  BY AddColumn DEF IsAdmin
<1> HIDE DEF ss
<1> QED
  BY <1>1, <1>2 DEF GoesUp, About, ss

LEMMA InitialDownIs ==
  /\ GoesDown(InitialDown)
  /\ About(InitialDown, {"devices", "locations", "messages", "trip_members", "trips", "users", "waypoints"})
  /\ Drops(InitialDown, {"locations", "devices", "messages", "waypoints", "trip_members", "trips", "users"})
<1> DEFINE ss == InitialDown
<1>1. IsSeq(ss) /\ Len(ss) = 12
  BY Tuple12 DEF InitialDown
<1>2. ASSUME NEW i \in 1..12
      PROVE  DownOnly(ss[i]) /\ ss[i].on \in {"devices", "locations", "messages", "trip_members", "trips", "users", "waypoints"}
  BY DropIs DEF InitialDown, DropTable, DownOnly, Parents
<1>3. /\ ss[1].do = "droptable" /\ ss[1].on = "locations"
      /\ ss[2].do = "droptable" /\ ss[2].on = "devices"
      /\ ss[4].do = "droptable" /\ ss[4].on = "messages"
      /\ ss[7].do = "droptable" /\ ss[7].on = "waypoints"
      /\ ss[9].do = "droptable" /\ ss[9].on = "trip_members"
      /\ ss[11].do = "droptable" /\ ss[11].on = "trips"
      /\ ss[12].do = "droptable" /\ ss[12].on = "users"
  BY DropTableIs DEF InitialDown
<1> HIDE DEF ss
<1> QED
  BY <1>1, <1>2, <1>3 DEF GoesDown, About, ss, Drops

LEMMA AdvancedDown_MoneyIs ==
  /\ GoesDown(AdvancedDown_Money)
  /\ About(AdvancedDown_Money, {"events", "expense_shares", "expenses", "maps_provider_calls", "reminders", "subscriptions"})
  /\ Drops(AdvancedDown_Money, {"maps_provider_calls", "events", "reminders", "subscriptions", "expense_shares", "expenses"})
<1> DEFINE ss == AdvancedDown_Money
<1>1. IsSeq(ss) /\ Len(ss) = 9
  BY Tuple9 DEF AdvancedDown_Money
<1>2. ASSUME NEW i \in 1..9
      PROVE  DownOnly(ss[i]) /\ ss[i].on \in {"events", "expense_shares", "expenses", "maps_provider_calls", "reminders", "subscriptions"}
  BY DropIs DEF AdvancedDown_Money, DropTable, DownOnly, Parents
<1>3. /\ ss[1].do = "droptable" /\ ss[1].on = "maps_provider_calls"
      /\ ss[2].do = "droptable" /\ ss[2].on = "events"
      /\ ss[4].do = "droptable" /\ ss[4].on = "reminders"
      /\ ss[6].do = "droptable" /\ ss[6].on = "subscriptions"
      /\ ss[7].do = "droptable" /\ ss[7].on = "expense_shares"
      /\ ss[9].do = "droptable" /\ ss[9].on = "expenses"
  BY DropTableIs DEF AdvancedDown_Money
<1> HIDE DEF ss
<1> QED
  BY <1>1, <1>2, <1>3 DEF GoesDown, About, ss, Drops

LEMMA AdvancedDown_SubgroupsIs ==
  /\ GoesDown(AdvancedDown_Subgroups)
  /\ About(AdvancedDown_Subgroups, {"subgroups", "trip_members"})
  /\ Drops(AdvancedDown_Subgroups, {"subgroups"})
<1> DEFINE ss == AdvancedDown_Subgroups
<1>1. IsSeq(ss) /\ Len(ss) = 3
  BY Tuple3 DEF AdvancedDown_Subgroups
<1>2. ASSUME NEW i \in 1..3
      PROVE  DownOnly(ss[i]) /\ ss[i].on \in {"subgroups", "trip_members"}
  BY DropIs DEF AdvancedDown_Subgroups, DropTable, DownOnly
<1>3. /\ ss[3].do = "droptable" /\ ss[3].on = "subgroups"
  BY DropTableIs DEF AdvancedDown_Subgroups
<1> HIDE DEF ss
<1> QED
  BY <1>1, <1>2, <1>3 DEF GoesDown, About, ss, Drops

LEMMA AdvancedDown_SafetyIs ==
  /\ GoesDown(AdvancedDown_Safety)
  /\ About(AdvancedDown_Safety, {"audit_logs", "safety_alerts"})
  /\ Drops(AdvancedDown_Safety, {"audit_logs", "safety_alerts"})
<1> DEFINE ss == AdvancedDown_Safety
<1>1. IsSeq(ss) /\ Len(ss) = 4
  BY Tuple4 DEF AdvancedDown_Safety
<1>2. ASSUME NEW i \in 1..4
      PROVE  DownOnly(ss[i]) /\ ss[i].on \in {"audit_logs", "safety_alerts"}
  BY DropIs DEF AdvancedDown_Safety, DropTable, DownOnly
<1>3. /\ ss[2].do = "droptable" /\ ss[2].on = "audit_logs"
      /\ ss[4].do = "droptable" /\ ss[4].on = "safety_alerts"
  BY DropTableIs DEF AdvancedDown_Safety
<1> HIDE DEF ss
<1> QED
  BY <1>1, <1>2, <1>3 DEF GoesDown, About, ss, Drops

LEMMA AdvancedDown_RolesIs ==
  /\ GoesDown(AdvancedDown_Roles)
  /\ About(AdvancedDown_Roles, {"trip_members", "trips"})
  /\ Drops(AdvancedDown_Roles, {})
<1> DEFINE ss == AdvancedDown_Roles
<1>1. IsSeq(ss) /\ Len(ss) = 4
  BY Tuple4 DEF AdvancedDown_Roles
<1>2. ASSUME NEW i \in 1..4
      PROVE  DownOnly(ss[i]) /\ ss[i].on \in {"trip_members", "trips"}
  BY AddCheck, DropIs DEF AdvancedDown_Roles
<1> HIDE DEF ss
<1> QED
  BY <1>1, <1>2 DEF GoesDown, About, ss, Drops

LEMMA AdvancedDown_MembersIs ==
  /\ GoesDown(AdvancedDown_Members)
  /\ About(AdvancedDown_Members, {"trip_members"})
  /\ Drops(AdvancedDown_Members, {})
<1> DEFINE ss == AdvancedDown_Members
<1>1. IsSeq(ss) /\ Len(ss) = 5
  BY Tuple5 DEF AdvancedDown_Members
<1>2. ASSUME NEW i \in 1..5
      PROVE  DownOnly(ss[i]) /\ ss[i].on \in {"trip_members"}
  BY DropIs DEF AdvancedDown_Members
<1> HIDE DEF ss
<1> QED
  BY <1>1, <1>2 DEF GoesDown, About, ss, Drops

LEMMA IsAdminDownIs ==
  /\ GoesDown(IsAdminDown)
  /\ About(IsAdminDown, {"users"})
  /\ Drops(IsAdminDown, {})
<1> DEFINE ss == IsAdminDown
<1>1. IsSeq(ss) /\ Len(ss) = 1
  BY Tuple1 DEF IsAdminDown
<1>2. ASSUME NEW i \in 1..1
      PROVE  DownOnly(ss[i]) /\ ss[i].on \in {"users"}
  BY DropIs DEF IsAdminDown
<1> HIDE DEF ss
<1> QED
  BY <1>1, <1>2 DEF GoesDown, About, ss, Drops

-----------------------------------------------------------------------------
(* The scripts alembic executes.                                           *)

IsFlattening(f, s) ==
  f = [i \in 1..Len(s) |-> IF i = 1 THEN s[i] ELSE f[i - 1] \o s[i]]

LEMMA Flattening ==
  ASSUME NEW s, NEW f, IsFlattening(f, s), Len(s) \in 1..3
  PROVE  /\ f[1] = s[1]
         /\ Len(s) >= 2 => f[2] = f[1] \o s[2]
         /\ Len(s) = 3 => f[3] = f[2] \o s[3]
<1> DEFINE n == Len(s)
<1>1. n \in 1..3 /\ f = [i \in 1..n |-> IF i = 1 THEN s[i] ELSE f[i - 1] \o s[i]]
  BY DEF IsFlattening
<1> HIDE DEF n
<1>2. \A i \in 1..n : f[i] = IF i = 1 THEN s[i] ELSE f[i - 1] \o s[i]
  BY <1>1
<1>3. ASSUME NEW i \in 2..n PROVE f[i] = f[i - 1] \o s[i]
  <2>1. i \in 1..n /\ i # 1
    BY <1>1
  <2> QED
    BY <1>2, <2>1
<1>4. f[1] = s[1]
  BY <1>1, <1>2
<1>5. n >= 2 => f[2] = f[1] \o s[2]
  <2>1. ASSUME n >= 2 PROVE 2 \in 2..n /\ 2 - 1 = 1
    BY <1>1, <2>1
  <2> QED
    BY <1>3, <2>1
<1>6. n = 3 => f[3] = f[2] \o s[3]
  <2>1. ASSUME n = 3 PROVE 3 \in 2..n /\ 3 - 1 = 2
    BY <1>1, <2>1
  <2> QED
    BY <1>3, <2>1
<1> QED
  BY <1>4, <1>5, <1>6 DEF n

LEMMA FlattenFew ==
  ASSUME NEW s
  PROVE  /\ Len(s) = 0 => FlattenSeq(s) = s
         /\ Len(s) = 1 => FlattenSeq(s) = s[1]
         /\ Len(s) = 2 => FlattenSeq(s) = s[1] \o s[2]
         /\ Len(s) = 3 => FlattenSeq(s) = (s[1] \o s[2]) \o s[3]
<1> DEFINE n == Len(s)
           f == CHOOSE f : IsFlattening(f, s)
<1>1. ASSUME n \in 1..3 PROVE FlattenSeq(s) = f[n]
  BY <1>1 DEF FlattenSeq, IsFlattening
<1>2. ASSUME n \in 1..3 PROVE \E g : IsFlattening(g, s)
  <2> DEFINE two == s[1] \o s[2]
             three == two \o s[3]
             g == [i \in 1..n |-> IF i = 1 THEN s[1] ELSE IF i = 2 THEN two ELSE three]
  <2>3. s[1] \o s[2] = two /\ two \o s[3] = three
    OBVIOUS
  <2> HIDE DEF two, three
  <2>1. g = [i \in 1..n |-> IF i = 1 THEN s[i] ELSE g[i - 1] \o s[i]]
    <3>1. ASSUME NEW i \in 1..n PROVE g[i] = IF i = 1 THEN s[i] ELSE g[i - 1] \o s[i]
      <4>1. CASE i = 1
        BY <4>1
      <4>2. CASE i = 2
        <5>1. i - 1 = 1 /\ i - 1 \in 1..n
          BY <1>2, <4>2
        <5>2. g[i - 1] = s[1] /\ g[i] = two
          BY <4>2, <5>1
        <5> QED
          BY <2>3, <4>2, <5>2
      <4>3. CASE i = 3
        <5>1. i - 1 = 2 /\ i - 1 \in 1..n
          BY <1>2, <4>3
        <5>2. g[i - 1] = two /\ g[i] = three
          BY <4>3, <5>1
        <5> QED
          BY <2>3, <4>3, <5>2
      <4> QED
        BY <1>2, <4>1, <4>2, <4>3
    <3>2. DOMAIN g = 1..n /\ g = [i \in 1..n |-> g[i]]
      OBVIOUS
    <3> HIDE DEF g
    <3> QED
      BY <3>1, <3>2
  <2> HIDE DEF g
  <2> QED
    BY <2>1 DEF IsFlattening
<1>3. ASSUME n \in 1..3 PROVE IsFlattening(f, s)
  BY <1>2, <1>3
<1>4. n = 0 => FlattenSeq(s) = s
  BY DEF FlattenSeq
<1> HIDE DEF f
<1>5. ASSUME n \in 1..3
      PROVE  /\ f[1] = s[1]
             /\ n >= 2 => f[2] = f[1] \o s[2]
             /\ n = 3 => f[3] = f[2] \o s[3]
  BY <1>3, <1>5, Flattening
<1> HIDE DEF n
<1>6. n = 1 => FlattenSeq(s) = s[1]
  BY <1>1, <1>5
<1>7. ASSUME n = 2 PROVE FlattenSeq(s) = s[1] \o s[2]
  <2>1. FlattenSeq(s) = f[2] /\ f[1] = s[1] /\ f[2] = f[1] \o s[2]
    <3>1. n \in 1..3 /\ n >= 2
      BY <1>7
    <3>2. FlattenSeq(s) = f[n]
      BY <1>1, <3>1
    <3> QED
      BY <1>5, <1>7, <3>1, <3>2
  <2> QED
    BY <2>1
<1>8. ASSUME n = 3 PROVE FlattenSeq(s) = (s[1] \o s[2]) \o s[3]
  <2>1. /\ FlattenSeq(s) = f[3] /\ f[1] = s[1] /\ f[2] = f[1] \o s[2]
        /\ f[3] = f[2] \o s[3]
    <3>1. n \in 1..3 /\ n >= 2
      BY <1>8
    <3>2. FlattenSeq(s) = f[n]
      BY <1>1, <3>1
    <3> QED
      BY <1>5, <1>8, <3>1, <3>2
  <2> QED
    BY <2>1
<1> QED
  BY <1>4, <1>6, <1>7, <1>8 DEF n

LEMMA Scripts ==
  /\ \A v \in Version : Script[<<v, v>>] = <<>>
  /\ \A v \in 1..3 : Script[<<v - 1, v>>] = UpBy(v) /\ Script[<<v, v - 1>>] = DownBy(v)
  /\ \A v \in 1..2 : /\ Script[<<v - 1, v + 1>>] = UpBy(v) \o UpBy(v + 1)
                     /\ Script[<<v + 1, v - 1>>] = DownBy(v + 1) \o DownBy(v)
  /\ Script[<<0, 3>>] = (UpBy(1) \o UpBy(2)) \o UpBy(3)
  /\ Script[<<3, 0>>] = (DownBy(3) \o DownBy(2)) \o DownBy(1)
<1> DEFINE up(a, b) == [i \in 1..(b - a) |-> UpBy(a + i)]
           down(a, b) == [i \in 1..(a - b) |-> DownBy(a - i + 1)]
<1>1. ASSUME NEW a \in Version, NEW b \in Version
      PROVE  Script[<<a, b>>] = IF a < b THEN FlattenSeq(up(a, b)) ELSE FlattenSeq(down(a, b))
  <2>1. <<a, b>> \in Version \X Version
    OBVIOUS
  <2> QED
    BY <2>1 DEF Script
<1>2. ASSUME NEW a \in Version, NEW b \in Version
      PROVE  /\ a <= b => Len(up(a, b)) = b - a
             /\ b <= a => Len(down(a, b)) = a - b
  BY DEF Version
<1>3. ASSUME NEW v \in Version PROVE Script[<<v, v>>] = <<>>
  <2>1. Len(down(v, v)) = 0 /\ down(v, v) = <<>> /\ ~(v < v)
    BY DEF Version
  <2> QED
    BY <1>1, <2>1, FlattenFew
<1>4. ASSUME NEW v \in 1..3
      PROVE  Script[<<v - 1, v>>] = UpBy(v) /\ Script[<<v, v - 1>>] = DownBy(v)
  <2> DEFINE u == v - 1
  <2>1. u \in Version /\ v \in Version /\ v - u = 1 /\ u < v /\ ~(v < u) /\ u + 1 = v
        /\ u <= v /\ v - 1 + 1 = v
    BY DEF Version
  <2>2. Len(up(u, v)) = 1 /\ Len(down(v, u)) = 1
    BY <1>2, <2>1
  <2>3. up(u, v)[1] = UpBy(v) /\ down(v, u)[1] = DownBy(v)
    BY <2>1
  <2>4. FlattenSeq(up(u, v)) = UpBy(v) /\ FlattenSeq(down(v, u)) = DownBy(v)
    BY <2>2, <2>3, FlattenFew
  <2>5. Script[<<u, v>>] = UpBy(v)
    BY <1>1, <2>1, <2>4
  <2>6. Script[<<v, u>>] = DownBy(v)
    BY <1>1, <2>1, <2>4
  <2> QED
    BY <2>5, <2>6
<1>5. ASSUME NEW v \in 1..2
      PROVE  /\ Script[<<v - 1, v + 1>>] = UpBy(v) \o UpBy(v + 1)
             /\ Script[<<v + 1, v - 1>>] = DownBy(v + 1) \o DownBy(v)
  <2> DEFINE u == v - 1
             w == v + 1
  <2>1. u \in Version /\ w \in Version /\ w - u = 2 /\ u < w /\ ~(w < u) /\ u + 1 = v
        /\ u + 2 = w /\ u <= w /\ w - 1 + 1 = w /\ w - 2 + 1 = v
    BY DEF Version
  <2>2. Len(up(u, w)) = 2 /\ Len(down(w, u)) = 2
    BY <1>2, <2>1
  <2>3. /\ up(u, w)[1] = UpBy(v) /\ up(u, w)[2] = UpBy(w)
        /\ down(w, u)[1] = DownBy(w) /\ down(w, u)[2] = DownBy(v)
    BY <2>1
  <2>4. FlattenSeq(up(u, w)) = UpBy(v) \o UpBy(w)
        /\ FlattenSeq(down(w, u)) = DownBy(w) \o DownBy(v)
    BY <2>2, <2>3, FlattenFew
  <2>5. Script[<<u, w>>] = UpBy(v) \o UpBy(w)
    BY <1>1, <2>1, <2>4
  <2>6. Script[<<w, u>>] = DownBy(w) \o DownBy(v)
    BY <1>1, <2>1, <2>4
  <2> QED
    BY <2>5, <2>6
<1>6. Script[<<0, 3>>] = (UpBy(1) \o UpBy(2)) \o UpBy(3)
  <2>1. 0 \in Version /\ 3 \in Version
    BY DEF Version
  <2>2. Len(up(0, 3)) = 3 /\ up(0, 3)[1] = UpBy(1) /\ up(0, 3)[2] = UpBy(2)
        /\ up(0, 3)[3] = UpBy(3)
    BY <2>1, <1>2
  <2>3. FlattenSeq(up(0, 3)) = (UpBy(1) \o UpBy(2)) \o UpBy(3)
    BY <2>2, FlattenFew
  <2> HIDE DEF up
  <2>4. 0 < 3
    OBVIOUS
  <2> QED
    BY <1>1, <2>1, <2>3, <2>4
<1>7. Script[<<3, 0>>] = (DownBy(3) \o DownBy(2)) \o DownBy(1)
  <2>1. 0 \in Version /\ 3 \in Version
    BY DEF Version
  <2>2. Len(down(3, 0)) = 3 /\ down(3, 0)[1] = DownBy(3) /\ down(3, 0)[2] = DownBy(2)
        /\ down(3, 0)[3] = DownBy(1)
    BY <2>1, <1>2
  <2>3. FlattenSeq(down(3, 0)) = (DownBy(3) \o DownBy(2)) \o DownBy(1)
    BY <2>2, FlattenFew
  <2> HIDE DEF down
  <2>4. ~(3 < 0)
    OBVIOUS
  <2> QED
    BY <1>1, <2>1, <2>3, <2>4
<1> QED
  BY <1>3, <1>4, <1>5, <1>6, <1>7

-----------------------------------------------------------------------------
(* A script that leads from one revision to another.                       *)

IsStamp(s) == s.do = "stamp" /\ s.on = "alembic_version"

\* Its last statement stamps the goal; its first stamp asks for where it starts.
Leads(ss, from, to) ==
  /\ IsSeq(ss) /\ Len(ss) >= 1
  /\ IsStamp(ss[Len(ss)]) /\ ss[Len(ss)].to = to
  /\ \A i \in 1..Len(ss) :
       /\ ss[i].do = "stamp" => IsStamp(ss[i])
       /\ ss[i].do = "stamp" /\ (\A j \in 1..(i - 1) : ss[j].do # "stamp")
            => ss[i].from = from
       /\ from < to => UpOnly(ss[i]) \/ IsStamp(ss[i])
       /\ to < from => DownOnly(ss[i]) \/ IsStamp(ss[i])

LEMMA LeadsOn ==
  ASSUME NEW a, NEW b, NEW u \in Version, NEW v \in Version, NEW w \in Version,
         (u < v /\ v < w) \/ (w < v /\ v < u),
         Leads(a, u, v), Leads(b, v, w)
  PROVE  Leads(a \o b, u, w)
<1> DEFINE ab == a \o b
           m == Len(a)
           n == Len(b)
<1>1. /\ IsSeq(ab) /\ m \in Nat /\ n \in Nat /\ Len(ab) = m + n
      /\ \A i \in 1..m : ab[i] = a[i]
      /\ \A i \in 1..n : ab[m + i] = b[i]
  BY Joined DEF Leads
<1>2. m >= 1 /\ n >= 1 /\ IsStamp(a[m]) /\ IsStamp(b[n]) /\ b[n].to = w
  BY DEF Leads
<1>3. ASSUME NEW i \in 1..Len(ab)
      PROVE  \/ i \in 1..m /\ ab[i] = a[i]
             \/ i > m /\ (\E j \in 1..n : ab[i] = b[j])
  <2>1. CASE i <= m
    BY <1>1, <2>1
  <2>2. CASE i > m
    <3>1. i - m \in 1..n /\ m + (i - m) = i
      BY <1>1, <2>2
    <3> QED
      BY <1>1, <2>2, <3>1
  <2> QED
    BY <1>1, <2>1, <2>2
<1>4. ASSUME NEW i \in 1..m
      PROVE  /\ a[i].do = "stamp" => IsStamp(a[i])
             /\ a[i].do = "stamp" /\ (\A j \in 1..(i - 1) : a[j].do # "stamp")
                  => a[i].from = u
             /\ u < v => UpOnly(a[i]) \/ IsStamp(a[i])
             /\ v < u => DownOnly(a[i]) \/ IsStamp(a[i])
  BY DEF Leads
<1>5. ASSUME NEW i \in 1..n
      PROVE  /\ b[i].do = "stamp" => IsStamp(b[i])
             /\ v < w => UpOnly(b[i]) \/ IsStamp(b[i])
             /\ w < v => DownOnly(b[i]) \/ IsStamp(b[i])
  BY DEF Leads
<1> HIDE DEF ab, m, n
<1>6. IsStamp(ab[Len(ab)]) /\ ab[Len(ab)].to = w
  <2>1. n \in 1..n
    BY <1>1, <1>2
  <2> QED
    BY <1>1, <1>2, <2>1
<1>7. ASSUME NEW i \in 1..Len(ab)
      PROVE  /\ ab[i].do = "stamp" => IsStamp(ab[i])
             /\ ab[i].do = "stamp" /\ (\A j \in 1..(i - 1) : ab[j].do # "stamp")
                  => ab[i].from = u
             /\ u < w => UpOnly(ab[i]) \/ IsStamp(ab[i])
             /\ w < u => DownOnly(ab[i]) \/ IsStamp(ab[i])
  <2>1. (u < w => u < v /\ v < w) /\ (w < u => w < v /\ v < u)
    BY DEF Version
  <2>2. CASE i \in 1..m /\ ab[i] = a[i]
    <3>1. \A j \in 1..(i - 1) : ab[j] = a[j]
      <4>1. \A j \in 1..(i - 1) : j \in 1..m
        BY <1>1, <2>2
      <4> QED
        BY <1>1, <4>1
    <3> QED
      BY <1>4, <2>1, <2>2, <3>1
  <2>3. CASE i > m /\ \E j \in 1..n : ab[i] = b[j]
    <3>1. PICK j \in 1..n : ab[i] = b[j]
      BY <2>3
    <3>2. m \in 1..(i - 1) /\ ab[m].do = "stamp"
      BY <1>1, <1>2, <2>3 DEF IsStamp
    <3> QED
      BY <1>5, <2>1, <3>1, <3>2
  <2> QED
    BY <1>3, <2>2, <2>3
<1>8. Len(ab) >= 1
  BY <1>1, <1>2
<1> QED
  BY <1>1, <1>6, <1>7, <1>8 DEF Leads, ab

\* The statements of one revision, up to its stamp.
LEMMA Stamped ==
  ASSUME NEW ss, IsSeq(ss), NEW u \in Version, NEW v \in Version,
         u < v => GoesUp(ss), v < u => GoesDown(ss), u # v
  PROVE  /\ Leads(Append(ss, Stamp(u, v)), u, v)
         /\ \A t, o : End(t, o, Append(ss, Stamp(u, v))) = End(t, o, ss)
<1> DEFINE s == Stamp(u, v)
           n == Len(ss)
           all == Append(ss, s)
<1>1. PICK V : ss \in Seq(V)
  BY DEF IsSeq
<1>2. s.do = "stamp" /\ s.on = "alembic_version" /\ s.from = u /\ s.to = v
  BY DEF Stamp
<1> HIDE DEF s
<1>3. /\ n \in Nat /\ all \in Seq(V \cup {s}) /\ Len(all) = n + 1
      /\ all[n + 1] = s /\ \A i \in 1..n : all[i] = ss[i]
  BY <1>1
<1>4. ASSUME NEW i \in 1..n
      PROVE  /\ all[i].do # "stamp"
             /\ u < v => UpOnly(all[i])
             /\ v < u => DownOnly(all[i])
  <2>1. (u < v => UpOnly(ss[i])) /\ (v < u => DownOnly(ss[i])) /\ (u < v \/ v < u)
    BY DEF GoesUp, GoesDown, Version
  <2>2. UpOnly(ss[i]) => ss[i].do # "stamp"
    BY DEF UpOnly
  <2>3. DownOnly(ss[i]) => ss[i].do # "stamp"
    BY DEF DownOnly
  <2>4. all[i] = ss[i]
    BY <1>3
  <2> QED
    BY <2>1, <2>2, <2>3, <2>4
<1>5. ASSUME NEW t, NEW o PROVE End(t, o, all) = End(t, o, ss)
  <2> DEFINE h == Course(t, o, all)
             g == Course(t, o, ss)
  <2>1. IsCourse(h, t, o, all) /\ IsCourse(g, t, o, ss)
    BY <1>1, <1>3, CourseExists
  <2>2. End(t, o, all) = h[n + 1] /\ End(t, o, ss) = g[n]
    BY <1>3 DEF End
  <2> HIDE DEF h, g, all, n
  <2>3. h[0] = g[0] /\ Follows(g, t, ss, n)
    BY <2>1 DEF IsCourse, n
  <2>4. Follows(h, t, all, n) /\ h[n + 1] = StepOn(t, h[n], s)
    <3>1. n + 1 \in 1..Len(all) /\ (n + 1) - 1 = n /\ \A k \in 1..n : k \in 1..Len(all)
      BY <1>3
    <3>2. Follows(h, t, all, Len(all))
      BY <2>1 DEF IsCourse
    <3> QED
      BY <1>3, <3>1, <3>2 DEF Follows
  <2>5. Matches(all, ss, n)
    BY <1>3 DEF Matches
  <2>6. \A k \in 0..n : h[k] = g[k]
    BY <1>3, <2>3, <2>4, <2>5, CoursesAgree
  <2>7. n \in 0..n
    BY <1>3
  <2>8. StepOn(t, h[n], s) = h[n]
    BY <1>2 DEF StepOn
  <2> QED
    BY <2>2, <2>4, <2>6, <2>7, <2>8
<1>6. Leads(all, u, v)
  <2> HIDE DEF all, n
  <2>1. IsSeq(all) /\ Len(all) >= 1 /\ IsStamp(all[Len(all)]) /\ all[Len(all)].to = v
    BY <1>2, <1>3 DEF IsSeq, IsStamp
  <2>2. ASSUME NEW i \in 1..Len(all)
        PROVE  /\ all[i].do = "stamp" => IsStamp(all[i])
               /\ all[i].do = "stamp" /\ (\A j \in 1..(i - 1) : all[j].do # "stamp")
                    => all[i].from = u
               /\ u < v => UpOnly(all[i]) \/ IsStamp(all[i])
               /\ v < u => DownOnly(all[i]) \/ IsStamp(all[i])
    <3>1. i \in 1..n \/ i = n + 1
      BY <1>3
    <3>2. CASE i \in 1..n
      BY <1>4, <3>2
    <3>3. CASE i = n + 1
      BY <1>2, <1>3, <3>3 DEF IsStamp
    <3> QED
      BY <3>1, <3>2, <3>3
  <2> QED
    BY <2>1, <2>2 DEF Leads
<1> QED
  BY <1>5, <1>6 DEF s

UpPart(ss, X) == GoesUp(ss) /\ About(ss, X)
DownPart(ss, X, Y) == GoesDown(ss) /\ About(ss, X) /\ Drops(ss, Y)

LEMMA PartsJoin ==
  ASSUME NEW a, NEW b, NEW X, NEW Y, NEW W, NEW Z
  PROVE  /\ UpPart(a, X) /\ UpPart(b, Y) => UpPart(a \o b, X \cup Y)
         /\ DownPart(a, X, W) /\ DownPart(b, Y, Z)
              => DownPart(a \o b, X \cup Y, W \cup Z)
<1>1. GoesUp(a) => IsSeq(a)
  BY DEF GoesUp
<1>2. GoesUp(b) => IsSeq(b)
  BY DEF GoesUp
<1>3. GoesDown(a) => IsSeq(a)
  BY DEF GoesDown
<1>4. GoesDown(b) => IsSeq(b)
  BY DEF GoesDown
<1>5. UpPart(a, X) /\ UpPart(b, Y) => UpPart(a \o b, X \cup Y)
  BY <1>1, <1>2, UpJoin, AboutJoin DEF UpPart
<1>6. DownPart(a, X, W) /\ DownPart(b, Y, Z) => DownPart(a \o b, X \cup Y, W \cup Z)
  BY <1>3, <1>4, DownJoin, AboutJoin, DropsJoin DEF DownPart
<1> QED
  BY <1>5, <1>6

FirstTables ==
  {"users", "trips", "trip_members", "waypoints", "messages", "devices", "locations"}
NewTables ==
  {"safety_alerts", "audit_logs", "subgroups", "expenses", "expense_shares",
   "subscriptions", "reminders", "events", "maps_provider_calls"}

LEMMA UpIs ==
  /\ UpPart(Up(1), FirstTables)
  /\ UpPart(Up(2), NewTables \cup {"trips", "trip_members"})
  /\ UpPart(Up(3), {"users"})
<1>1. UpPart(Up(1), FirstTables)
  <2> DEFINE X == {"trip_members", "trips", "users"}
             Y == {"devices", "locations", "messages", "waypoints"}
  <2>1. UpPart(Initial_Trips, X) /\ UpPart(Initial_Rest, Y)
    BY Initial_TripsIs, Initial_RestIs DEF UpPart
  <2>2. X \cup Y = FirstTables
    BY DEF FirstTables
  <2> HIDE DEF X, Y
  <2>3. UpPart(Initial_Trips \o Initial_Rest, X \cup Y)
    BY <2>1, PartsJoin
  <2>4. Up(1) = Initial_Trips \o Initial_Rest
    BY DEF Up
  <2> QED
    BY <2>2, <2>3, <2>4
<1>2. UpPart(Up(2), NewTables \cup {"trips", "trip_members"})
  <2> DEFINE M == {"trip_members"}
             T == {"trips"}
             S == {"audit_logs", "safety_alerts", "subgroups", "trip_members"}
             E == {"expense_shares", "expenses", "reminders", "subscriptions"}
             L == {"events", "maps_provider_calls"}
  <2>1. /\ UpPart(Advanced_Members, M) /\ UpPart(Advanced_Roles, M)
        /\ UpPart(Advanced_Trips, T) /\ UpPart(Advanced_Safety, S)
        /\ UpPart(Advanced_Money, E) /\ UpPart(Advanced_Telemetry, L)
    BY Advanced_MembersIs, Advanced_RolesIs, Advanced_TripsIs, Advanced_SafetyIs,
       Advanced_MoneyIs, Advanced_TelemetryIs DEF UpPart
  <2>2. ((((M \cup M) \cup T) \cup S) \cup E) \cup L = NewTables \cup {"trips", "trip_members"}
    BY DEF NewTables
  <2> HIDE DEF M, T, S, E, L
  <2>3. UpPart(Advanced_Members \o Advanced_Roles, M \cup M)
    BY <2>1, PartsJoin
  <2>4. UpPart((Advanced_Members \o Advanced_Roles) \o Advanced_Trips, (M \cup M) \cup T)
    BY <2>1, <2>3, PartsJoin
  <2>5. UpPart(((Advanced_Members \o Advanced_Roles) \o Advanced_Trips) \o Advanced_Safety,
               ((M \cup M) \cup T) \cup S)
    BY <2>1, <2>4, PartsJoin
  <2>6. UpPart((((Advanced_Members \o Advanced_Roles) \o Advanced_Trips) \o Advanced_Safety)
                 \o Advanced_Money, (((M \cup M) \cup T) \cup S) \cup E)
    BY <2>1, <2>5, PartsJoin
  <2>7. UpPart(((((Advanced_Members \o Advanced_Roles) \o Advanced_Trips) \o Advanced_Safety)
                 \o Advanced_Money) \o Advanced_Telemetry,
               ((((M \cup M) \cup T) \cup S) \cup E) \cup L)
    BY <2>1, <2>6, PartsJoin
  <2>8. Up(2) = Advanced_Members \o Advanced_Roles \o Advanced_Trips
                  \o Advanced_Safety \o Advanced_Money \o Advanced_Telemetry
    BY DEF Up
  <2> QED
    BY <2>2, <2>7, <2>8
<1>3. UpPart(Up(3), {"users"})
  BY IsAdminIs DEF Up, UpPart
<1> QED
  BY <1>1, <1>2, <1>3

LEMMA DownIs ==
  /\ DownPart(Down(1), FirstTables, FirstTables)
  /\ DownPart(Down(2), NewTables \cup {"trips", "trip_members"}, NewTables)
  /\ DownPart(Down(3), {"users"}, {})
<1>1. DownPart(Down(1), FirstTables, FirstTables)
  <2>1. Down(1) = InitialDown
    BY DEF Down
  <2>2. /\ {"devices", "locations", "messages", "trip_members", "trips", "users",
            "waypoints"} = FirstTables
        /\ {"locations", "devices", "messages", "waypoints", "trip_members", "trips",
            "users"} = FirstTables
    BY DEF FirstTables
  <2> QED
    BY <2>1, <2>2, InitialDownIs DEF DownPart
<1>2. DownPart(Down(2), NewTables \cup {"trips", "trip_members"}, NewTables)
  <2> DEFINE E == {"events", "expense_shares", "expenses", "maps_provider_calls",
                   "reminders", "subscriptions"}
             DE == {"maps_provider_calls", "events", "reminders", "subscriptions",
                    "expense_shares", "expenses"}
             G == {"subgroups", "trip_members"}
             DG == {"subgroups"}
             S == {"audit_logs", "safety_alerts"}
             R == {"trip_members", "trips"}
             M == {"trip_members"}
             N == {}
  <2>1. /\ DownPart(AdvancedDown_Money, E, DE) /\ DownPart(AdvancedDown_Subgroups, G, DG)
        /\ DownPart(AdvancedDown_Safety, S, S) /\ DownPart(AdvancedDown_Roles, R, N)
        /\ DownPart(AdvancedDown_Members, M, N)
    BY AdvancedDown_MoneyIs, AdvancedDown_SubgroupsIs, AdvancedDown_SafetyIs,
       AdvancedDown_RolesIs, AdvancedDown_MembersIs DEF DownPart
  <2>2. /\ (((E \cup G) \cup S) \cup R) \cup M = NewTables \cup {"trips", "trip_members"}
        /\ (((DE \cup DG) \cup S) \cup N) \cup N = NewTables
    BY DEF NewTables
  <2> HIDE DEF E, DE, G, DG, S, R, M, N
  <2>3. DownPart(AdvancedDown_Money \o AdvancedDown_Subgroups, E \cup G, DE \cup DG)
    BY <2>1, PartsJoin
  <2>4. DownPart((AdvancedDown_Money \o AdvancedDown_Subgroups) \o AdvancedDown_Safety,
                 (E \cup G) \cup S, (DE \cup DG) \cup S)
    BY <2>1, <2>3, PartsJoin
  <2>5. DownPart(((AdvancedDown_Money \o AdvancedDown_Subgroups) \o AdvancedDown_Safety)
                   \o AdvancedDown_Roles,
                 ((E \cup G) \cup S) \cup R, ((DE \cup DG) \cup S) \cup N)
    BY <2>1, <2>4, PartsJoin
  <2>6. DownPart((((AdvancedDown_Money \o AdvancedDown_Subgroups) \o AdvancedDown_Safety)
                   \o AdvancedDown_Roles) \o AdvancedDown_Members,
                 (((E \cup G) \cup S) \cup R) \cup M,
                 (((DE \cup DG) \cup S) \cup N) \cup N)
    BY <2>1, <2>5, PartsJoin
  <2>7. Down(2) = AdvancedDown_Money \o AdvancedDown_Subgroups \o AdvancedDown_Safety
                  \o AdvancedDown_Roles \o AdvancedDown_Members
    BY DEF Down
  <2> QED
    BY <2>2, <2>6, <2>7
<1>3. DownPart(Down(3), {"users"}, {})
  BY IsAdminDownIs DEF Down, DownPart
<1> QED
  BY <1>1, <1>2, <1>3

\* Every script alembic executes leads where it is meant to.
LEMMA RevisionLeads ==
  ASSUME NEW v \in 1..3
  PROVE  /\ Leads(UpBy(v), v - 1, v) /\ Leads(DownBy(v), v, v - 1)
         /\ \A t, o : End(t, o, UpBy(v)) = End(t, o, Up(v))
         /\ \A t, o : End(t, o, DownBy(v)) = End(t, o, Down(v))
<1> DEFINE u == v - 1
<1>1. u \in Version /\ v \in Version /\ u < v /\ ~(v < u) /\ u # v
  BY DEF Version
<1>2. v \in {1, 2, 3}
  OBVIOUS
<1>3. GoesUp(Up(v)) /\ GoesDown(Down(v))
  BY <1>2, UpIs, DownIs DEF UpPart, DownPart
<1>4. IsSeq(Up(v)) /\ IsSeq(Down(v))
  BY <1>3 DEF GoesUp, GoesDown
<1>5. UpBy(v) = Append(Up(v), Stamp(u, v)) /\ DownBy(v) = Append(Down(v), Stamp(v, u))
  BY DEF UpBy, DownBy
<1> HIDE DEF u
<1>6. /\ Leads(Append(Up(v), Stamp(u, v)), u, v)
      /\ \A t, o : End(t, o, Append(Up(v), Stamp(u, v))) = End(t, o, Up(v))
  BY <1>1, <1>3, <1>4, Stamped
<1>7. /\ Leads(Append(Down(v), Stamp(v, u)), v, u)
      /\ \A t, o : End(t, o, Append(Down(v), Stamp(v, u))) = End(t, o, Down(v))
  BY <1>1, <1>3, <1>4, Stamped
<1> QED
  BY <1>5, <1>6, <1>7 DEF u

LEMMA ScriptLeads ==
  ASSUME NEW u \in Version, NEW v \in Version, u # v
  PROVE  Leads(Script[<<u, v>>], u, v)
<1>1. ASSUME NEW w \in 1..3
      PROVE  Leads(Script[<<w - 1, w>>], w - 1, w) /\ Leads(Script[<<w, w - 1>>], w, w - 1)
  BY Scripts, RevisionLeads
<1>2. ASSUME NEW w \in 1..2
      PROVE  /\ Leads(Script[<<w - 1, w + 1>>], w - 1, w + 1)
             /\ Leads(Script[<<w + 1, w - 1>>], w + 1, w - 1)
  <2> DEFINE b == w - 1
             e == w + 1
  <2>1. /\ b \in Version /\ e \in Version /\ w \in Version /\ b < w /\ w < e
        /\ w \in 1..3 /\ e \in 1..3 /\ e - 1 = w
    BY DEF Version
  <2>2. Leads(UpBy(w), b, w) /\ Leads(DownBy(w), w, b)
    BY <2>1, RevisionLeads
  <2>3. Leads(UpBy(e), w, e) /\ Leads(DownBy(e), e, w)
    <3>1. Leads(UpBy(e), e - 1, e) /\ Leads(DownBy(e), e, e - 1)
      BY <2>1, RevisionLeads
    <3> QED
      BY <2>1, <3>1
  <2>4. Script[<<b, e>>] = UpBy(w) \o UpBy(e) /\ Script[<<e, b>>] = DownBy(e) \o DownBy(w)
    BY Scripts
  <2> HIDE DEF b, e
  <2>5. Leads(UpBy(w) \o UpBy(e), b, e) /\ Leads(DownBy(e) \o DownBy(w), e, b)
    BY <2>1, <2>2, <2>3, LeadsOn
  <2> QED
    BY <2>4, <2>5 DEF b, e
<1>3. Leads(Script[<<0, 3>>], 0, 3) /\ Leads(Script[<<3, 0>>], 3, 0)
  <2>1. 0 \in Version /\ 1 \in Version /\ 2 \in Version /\ 3 \in Version
    BY DEF Version
  <2>2. Leads(UpBy(1) \o UpBy(2), 0, 2) /\ Leads(DownBy(3) \o DownBy(2), 3, 1)
    <3>1. 1 \in 1..2 /\ 2 \in 1..2 /\ 1 - 1 = 0 /\ 1 + 1 = 2 /\ 2 - 1 = 1 /\ 2 + 1 = 3
      OBVIOUS
    <3> QED
      BY <1>2, <3>1, Scripts
  <2>3. Leads(UpBy(3), 2, 3) /\ Leads(DownBy(1), 1, 0)
    BY RevisionLeads
  <2>4. Leads((UpBy(1) \o UpBy(2)) \o UpBy(3), 0, 3)
    BY <2>1, <2>2, <2>3, LeadsOn
  <2>5. Leads((DownBy(3) \o DownBy(2)) \o DownBy(1), 3, 0)
    BY <2>1, <2>2, <2>3, LeadsOn
  <2> QED
    BY <2>4, <2>5, Scripts
<1>4. \/ \E w \in 1..3 : u = w - 1 /\ v = w
      \/ \E w \in 1..3 : u = w /\ v = w - 1
      \/ \E w \in 1..2 : u = w - 1 /\ v = w + 1
      \/ \E w \in 1..2 : u = w + 1 /\ v = w - 1
      \/ u = 0 /\ v = 3
      \/ u = 3 /\ v = 0
  <2>1. u \in {0, 1, 2, 3} /\ v \in {0, 1, 2, 3}
    BY DEF Version
  <2>2. 1 \in 1..3 /\ 2 \in 1..3 /\ 3 \in 1..3 /\ 1 \in 1..2 /\ 2 \in 1..2
    OBVIOUS
  <2> QED
    BY <2>1, <2>2
<1> QED
  BY <1>1, <1>2, <1>3, <1>4

-----------------------------------------------------------------------------
(* Where a table gets through statements.                                  *)

\* Statements on other tables leave a table as it is.
LEMMA CourseRests ==
  ASSUME NEW ss, NEW t, NEW o, NEW n \in 0..Len(ss), IsSeq(ss),
         \A k \in 1..n : ss[k].on # t
  PROVE  Course(t, o, ss)[n] = o
<1> DEFINE h == Course(t, o, ss)
           T == {k \in 0..n : h[k] = o}
<1>1. IsCourse(h, t, o, ss) /\ Len(ss) \in Nat
  BY CourseExists DEF IsSeq
<1> HIDE DEF h
<1>2. 0 \in T
  BY <1>1 DEF IsCourse
<1>3. ASSUME NEW k \in 0..(n - 1), k \in T PROVE k + 1 \in T
  <2>1. k + 1 \in 1..Len(ss) /\ k + 1 \in 1..n /\ (k + 1) - 1 = k /\ k + 1 \in 0..n
    BY <1>1
  <2>2. h[k + 1] = StepOn(t, h[k], ss[k + 1])
    BY <1>1, <2>1 DEF IsCourse, Follows
  <2>3. ss[k + 1].on # t
    BY <2>1
  <2> QED
    BY <1>3, <2>1, <2>2, <2>3 DEF StepOn
<1>4. \A k \in 0..n : k \in T
  <2> HIDE DEF T
  <2>1. 0 \in Nat /\ n \in Nat
    BY <1>1
  <2> QED
    BY <1>2, <1>3, <2>1, Upwards
<1>5. n \in 0..n
  BY <1>1
<1> QED
  BY <1>4, <1>5 DEF h

LEMMA EndRests ==
  ASSUME NEW ss, NEW t, NEW o, NEW X, IsSeq(ss), About(ss, X), t \notin X
  PROVE  End(t, o, ss) = o
<1>1. Len(ss) \in 0..Len(ss)
  BY DEF IsSeq
<1> QED
  BY <1>1, CourseRests DEF End, About

\* Statements that create nothing leave nothing of a table that one of them drops.
LEMMA EndsGone ==
  ASSUME NEW ss, NEW t, NEW o, GoesDown(ss),
         o = {} \/ \E Y : t \in Y /\ Drops(ss, Y)
  PROVE  End(t, o, ss) = {}
<1> DEFINE h == Course(t, o, ss)
           n == Len(ss)
<1>1. IsCourse(h, t, o, ss) /\ n \in Nat
  BY CourseExists DEF IsSeq, GoesDown
<1>2. \A k \in 1..n : DownOnly(ss[k])
  BY DEF GoesDown
<1>3. End(t, o, ss) = h[n]
  BY DEF End
<1>4. o # {} => \E k \in 1..n : ss[k].do = "droptable" /\ ss[k].on = t
  BY DEF Drops
<1> HIDE DEF h, n
<1>5. \A k \in 1..n : h[k] = StepOn(t, h[k - 1], ss[k])
  BY <1>1 DEF IsCourse, Follows, n
<1>6. PICK m \in 0..n : h[m] = {}
  <2>1. CASE o = {}
    <3>1. h[0] = {} /\ 0 \in 0..n
      BY <1>1, <2>1 DEF IsCourse
    <3> QED
      BY <3>1
  <2>2. CASE o # {}
    <3>1. PICK k \in 1..n : ss[k].do = "droptable" /\ ss[k].on = t
      BY <1>4, <2>2
    <3>2. StepOn(t, h[k - 1], ss[k]) = {}
      BY <3>1 DEF StepOn
    <3>3. k \in 0..n
      BY <1>1
    <3> QED
      BY <1>5, <3>2, <3>3
  <2> QED
    BY <2>1, <2>2
<1> DEFINE T == {k \in m..n : h[k] = {}}
<1>7. m \in T
  BY <1>1, <1>6
<1>8. ASSUME NEW k \in m..(n - 1), k \in T PROVE k + 1 \in T
  <2>1. k + 1 \in 1..n /\ (k + 1) - 1 = k /\ k + 1 \in m..n
    BY <1>1
  <2>2. h[k + 1] = StepOn(t, h[k], ss[k + 1]) /\ DownOnly(ss[k + 1]) /\ h[k] = {}
    BY <1>2, <1>5, <1>8, <2>1
  <2>3. StepOn(t, {}, ss[k + 1]) = {}
    BY <2>2 DEF StepOn, DownOnly
  <2> QED
    BY <2>1, <2>2, <2>3
<1>9. \A k \in m..n : k \in T
  <2> HIDE DEF T
  <2>1. m \in Nat
    BY <1>1
  <2> QED
    BY <1>1, <1>7, <1>8, <2>1, Upwards
<1>10. n \in m..n
  BY <1>1
<1> QED
  BY <1>3, <1>9, <1>10

\* No statement, and a few of them, one after the other.
LEMMA EndNone ==
  ASSUME NEW t, NEW o
  PROVE  End(t, o, <<>>) = o
<1>1. <<>> \in Seq({}) /\ Len(<<>>) = 0
  OBVIOUS
<1>2. IsCourse(Course(t, o, <<>>), t, o, <<>>)
  BY <1>1, CourseExists
<1> QED
  BY <1>1, <1>2 DEF End, IsCourse

LEMMA EndOne ==
  ASSUME NEW ss, IsSeq(ss), Len(ss) = 1, NEW t, NEW o
  PROVE  End(t, o, ss) = StepOn(t, o, ss[1])
<1> DEFINE h == Course(t, o, ss)
<1>1. IsCourse(h, t, o, ss)
  BY CourseExists DEF IsSeq
<1>2. h[0] = o /\ End(t, o, ss) = h[1]
  BY <1>1 DEF IsCourse, End
<1>3. \A k \in 1..1 : h[k] = StepOn(t, h[k - 1], ss[k])
  BY <1>1 DEF IsCourse, Follows
<1> HIDE DEF h
<1>4. h[1] = StepOn(t, h[0], ss[1])
  <2>1. 1 \in 1..1 /\ 1 - 1 = 0
    OBVIOUS
  <2> QED
    BY <1>3, <2>1
<1> QED
  BY <1>2, <1>4

LEMMA EndTwo ==
  ASSUME NEW ss, IsSeq(ss), Len(ss) = 2, NEW t, NEW o
  PROVE  End(t, o, ss) = StepOn(t, StepOn(t, o, ss[1]), ss[2])
<1> DEFINE h == Course(t, o, ss)
<1>1. IsCourse(h, t, o, ss)
  BY CourseExists DEF IsSeq
<1>2. h[0] = o /\ End(t, o, ss) = h[2]
  BY <1>1 DEF IsCourse, End
<1>3. \A k \in 1..2 : h[k] = StepOn(t, h[k - 1], ss[k])
  BY <1>1 DEF IsCourse, Follows
<1> HIDE DEF h
<1>4. h[1] = StepOn(t, h[0], ss[1])
  <2>1. 1 \in 1..2 /\ 1 - 1 = 0
    OBVIOUS
  <2> QED
    BY <1>3, <2>1
<1>5. h[2] = StepOn(t, h[1], ss[2])
  <2>1. 2 \in 1..2 /\ 2 - 1 = 1
    OBVIOUS
  <2> QED
    BY <1>3, <2>1
<1> QED
  BY <1>2, <1>4, <1>5

LEMMA EndThree ==
  ASSUME NEW ss, IsSeq(ss), Len(ss) = 3, NEW t, NEW o
  PROVE  End(t, o, ss) = StepOn(t, StepOn(t, StepOn(t, o, ss[1]), ss[2]), ss[3])
<1> DEFINE h == Course(t, o, ss)
<1>1. IsCourse(h, t, o, ss)
  BY CourseExists DEF IsSeq
<1>2. h[0] = o /\ End(t, o, ss) = h[3]
  BY <1>1 DEF IsCourse, End
<1>3. \A k \in 1..3 : h[k] = StepOn(t, h[k - 1], ss[k])
  BY <1>1 DEF IsCourse, Follows
<1> HIDE DEF h
<1>4. h[1] = StepOn(t, h[0], ss[1])
  <2>1. 1 \in 1..3 /\ 1 - 1 = 0
    OBVIOUS
  <2> QED
    BY <1>3, <2>1
<1>5. h[2] = StepOn(t, h[1], ss[2])
  <2>1. 2 \in 1..3 /\ 2 - 1 = 1
    OBVIOUS
  <2> QED
    BY <1>3, <2>1
<1>6. h[3] = StepOn(t, h[2], ss[3])
  <2>1. 3 \in 1..3 /\ 3 - 1 = 2
    OBVIOUS
  <2> QED
    BY <1>3, <2>1
<1> QED
  BY <1>2, <1>4, <1>5, <1>6

LEMMA EndFour ==
  ASSUME NEW ss, IsSeq(ss), Len(ss) = 4, NEW t, NEW o
  PROVE  End(t, o, ss) = StepOn(t, StepOn(t, StepOn(t, StepOn(t, o, ss[1]), ss[2]), ss[3]), ss[4])
<1> DEFINE h == Course(t, o, ss)
<1>1. IsCourse(h, t, o, ss)
  BY CourseExists DEF IsSeq
<1>2. h[0] = o /\ End(t, o, ss) = h[4]
  BY <1>1 DEF IsCourse, End
<1>3. \A k \in 1..4 : h[k] = StepOn(t, h[k - 1], ss[k])
  BY <1>1 DEF IsCourse, Follows
<1> HIDE DEF h
<1>4. h[1] = StepOn(t, h[0], ss[1])
  <2>1. 1 \in 1..4 /\ 1 - 1 = 0
    OBVIOUS
  <2> QED
    BY <1>3, <2>1
<1>5. h[2] = StepOn(t, h[1], ss[2])
  <2>1. 2 \in 1..4 /\ 2 - 1 = 1
    OBVIOUS
  <2> QED
    BY <1>3, <2>1
<1>6. h[3] = StepOn(t, h[2], ss[3])
  <2>1. 3 \in 1..4 /\ 3 - 1 = 2
    OBVIOUS
  <2> QED
    BY <1>3, <2>1
<1>7. h[4] = StepOn(t, h[3], ss[4])
  <2>1. 4 \in 1..4 /\ 4 - 1 = 3
    OBVIOUS
  <2> QED
    BY <1>3, <2>1
<1> QED
  BY <1>2, <1>4, <1>5, <1>6, <1>7

LEMMA EndFive ==
  ASSUME NEW ss, IsSeq(ss), Len(ss) = 5, NEW t, NEW o
  PROVE  End(t, o, ss) =
           StepOn(t, StepOn(t, StepOn(t, StepOn(t, StepOn(t, o, ss[1]), ss[2]), ss[3]), ss[4]), ss[5])
<1> DEFINE h == Course(t, o, ss)
<1>1. IsCourse(h, t, o, ss)
  BY CourseExists DEF IsSeq
<1>2. h[0] = o /\ End(t, o, ss) = h[5]
  BY <1>1 DEF IsCourse, End
<1>3. \A k \in 1..5 : h[k] = StepOn(t, h[k - 1], ss[k])
  BY <1>1 DEF IsCourse, Follows
<1> HIDE DEF h
<1>4. h[1] = StepOn(t, h[0], ss[1])
  <2>1. 1 \in 1..5 /\ 1 - 1 = 0
    OBVIOUS
  <2> QED
    BY <1>3, <2>1
<1>5. h[2] = StepOn(t, h[1], ss[2])
  <2>1. 2 \in 1..5 /\ 2 - 1 = 1
    OBVIOUS
  <2> QED
    BY <1>3, <2>1
<1>6. h[3] = StepOn(t, h[2], ss[3])
  <2>1. 3 \in 1..5 /\ 3 - 1 = 2
    OBVIOUS
  <2> QED
    BY <1>3, <2>1
<1>7. h[4] = StepOn(t, h[3], ss[4])
  <2>1. 4 \in 1..5 /\ 4 - 1 = 3
    OBVIOUS
  <2> QED
    BY <1>3, <2>1
<1>8. h[5] = StepOn(t, h[4], ss[5])
  <2>1. 5 \in 1..5 /\ 5 - 1 = 4
    OBVIOUS
  <2> QED
    BY <1>3, <2>1
<1> QED
  BY <1>2, <1>4, <1>5, <1>6, <1>7, <1>8

-----------------------------------------------------------------------------
(* The revisions.                                                          *)

LEMMA RevisionIs ==
  ASSUME NEW v \in Version
  PROVE  /\ IsTables(Revision[v])
         /\ \A t : At(Revision[v], t) = End(t, {}, Script[<<0, v>>])
<1> DEFINE ss == Script[<<0, v>>]
<1>1. Revision[v] = FoldLeft(Effect, None, ss)
  BY DEF Revision
<1>2. IsSeq(ss) /\ Keeps(ss)
  <2>1. CASE v = 0
    <3>1. ss = <<>>
      BY <2>1, Scripts
    <3>2. <<>> \in Seq({}) /\ Len(<<>>) = 0
      OBVIOUS
    <3> QED
      BY <3>1, <3>2 DEF IsSeq, Keeps
  <2>2. CASE v # 0
    <3>1. 0 \in Version /\ 0 < v
      BY <2>2 DEF Version
    <3>2. Leads(ss, 0, v)
      BY <2>2, <3>1, ScriptLeads
    <3>3. ASSUME NEW k \in 1..Len(ss) PROVE ss[k].do \in Verbs \ {"droptable"}
      <4>1. UpOnly(ss[k]) \/ IsStamp(ss[k])
        BY <3>1, <3>2 DEF Leads
      <4> HIDE DEF ss
      <4> QED
        BY <4>1 DEF UpOnly, IsStamp, Verbs
    <3> QED
      BY <3>2, <3>3 DEF Leads, Keeps
  <2> QED
    BY <2>1, <2>2
<1>3. PICK V : ss \in Seq(V)
  BY <1>2 DEF IsSeq
<1> HIDE DEF ss
<1>4. /\ IsTables(FoldLeft(Effect, None, ss))
      /\ \A t : At(FoldLeft(Effect, None, ss), t) = End(t, {}, ss)
  BY <1>2, <1>3, FoldCourse
<1> QED
  BY <1>1, <1>4 DEF ss

LEMMA EndOn ==
  ASSUME NEW a, NEW b, IsSeq(a), IsSeq(b), NEW t, NEW o
  PROVE  End(t, o, a \o b) = End(t, End(t, o, a), b)
<1>1. PICK V : a \in Seq(V)
  BY DEF IsSeq
<1>2. PICK W : b \in Seq(W)
  BY DEF IsSeq
<1>3. a \in Seq(V \cup W) /\ b \in Seq(V \cup W)
  BY <1>1, <1>2
<1> QED
  BY <1>3, EndJoin

LEMMA RevisionUp ==
  ASSUME NEW v \in 1..3, NEW t
  PROVE  At(Revision[v], t) = End(t, At(Revision[v - 1], t), Up(v))
<1>1. \A w \in 1..3 : /\ IsSeq(UpBy(w))
                      /\ \A o : End(t, o, UpBy(w)) = End(t, o, Up(w))
  BY RevisionLeads DEF Leads
<1>2. 0 \in Version /\ 1 \in Version /\ 2 \in Version /\ 3 \in Version
  BY DEF Version
<1>3. \A w \in Version : At(Revision[w], t) = End(t, {}, Script[<<0, w>>])
  BY RevisionIs
<1>4. /\ Script[<<0, 0>>] = <<>> /\ Script[<<0, 1>>] = UpBy(1)
      /\ Script[<<0, 2>>] = UpBy(1) \o UpBy(2)
      /\ Script[<<0, 3>>] = (UpBy(1) \o UpBy(2)) \o UpBy(3)
  <2>1. /\ 1 \in 1..3 /\ 1 - 1 = 0 /\ 1 \in 1..2 /\ 1 + 1 = 2
    OBVIOUS
  <2> QED
    BY <1>2, <2>1, Scripts
<1>5. CASE v = 1
  <2>1. At(Revision[0], t) = {}
    <3>1. End(t, {}, <<>>) = {}
      BY EndNone
    <3> QED
      BY <1>2, <1>3, <1>4, <3>1
  <2>2. At(Revision[1], t) = End(t, {}, Up(1))
    BY <1>1, <1>2, <1>3, <1>4
  <2> QED
    BY <1>5, <2>1, <2>2
<1>6. CASE v = 2
  <2>1. At(Revision[1], t) = End(t, {}, UpBy(1))
    BY <1>2, <1>3, <1>4
  <2>2. At(Revision[2], t) = End(t, {}, UpBy(1) \o UpBy(2))
    BY <1>2, <1>3, <1>4
  <2>3. At(Revision[2], t) = End(t, At(Revision[1], t), UpBy(2))
    <3>1. IsSeq(UpBy(1)) /\ IsSeq(UpBy(2))
      BY <1>1
    <3> QED
      BY <2>1, <2>2, <3>1, EndOn
  <2> QED
    BY <1>1, <1>6, <2>3
<1>7. CASE v = 3
  <2>1. At(Revision[2], t) = End(t, {}, UpBy(1) \o UpBy(2))
    BY <1>2, <1>3, <1>4
  <2>2. At(Revision[3], t) = End(t, {}, (UpBy(1) \o UpBy(2)) \o UpBy(3))
    BY <1>2, <1>3, <1>4
  <2>3. At(Revision[3], t) = End(t, At(Revision[2], t), UpBy(3))
    <3>1. IsSeq(UpBy(1)) /\ IsSeq(UpBy(2)) /\ IsSeq(UpBy(3))
      BY <1>1
    <3>2. IsSeq(UpBy(1) \o UpBy(2))
      BY <3>1, Joined
    <3> QED
      BY <2>1, <2>2, <3>1, <3>2, EndOn
  <2> QED
    BY <1>1, <1>7, <2>3
<1>8. v = 1 \/ v = 2 \/ v = 3
  OBVIOUS
<1> QED
  BY <1>5, <1>6, <1>7, <1>8

LEMMA RevisionNone == \A t : At(Revision[0], t) = {}
<1>1. 0 \in Version /\ Script[<<0, 0>>] = <<>>
  BY Scripts DEF Version
<1>2. \A t : End(t, {}, <<>>) = {}
  BY EndNone
<1> QED
  BY <1>1, <1>2, RevisionIs

-----------------------------------------------------------------------------
(* The tables that 0002 and 0003 alter, as 0001 leaves them.               *)

NewMembers == {"visibility_scope", "share_until", "is_ready", "vehicle_label", "subgroup_id"}
PlainCheck == Check("role", PlainRoles)

LEMMA CreatedNames ==
  ASSUME NEW t, NEW plain, NEW text, NEW keys, NEW allowed,
         NEW o \in Create(t, plain, text, keys, allowed).shape
  PROVE  /\ o.name \in plain \cup DOMAIN text \cup DOMAIN keys \cup DOMAIN allowed
         /\ o.is = "check" => \E c \in DOMAIN allowed : o = Check(c, allowed[c])
<1>1. \/ o \in {Column(c, 0) : c \in plain}
      \/ o \in {Column(c, text[c]) : c \in DOMAIN text}
      \/ o \in {Reference(c, keys[c]) : c \in DOMAIN keys}
      \/ o \in {Check(c, allowed[c]) : c \in DOMAIN allowed}
  BY DEF Create, Columns
<1>2. CASE o \in {Column(c, 0) : c \in plain}
  BY <1>2 DEF Column
<1>3. CASE o \in {Column(c, text[c]) : c \in DOMAIN text}
  BY <1>3 DEF Column
<1>4. CASE o \in {Reference(c, keys[c]) : c \in DOMAIN keys}
  BY <1>4 DEF Reference
<1>5. CASE o \in {Check(c, allowed[c]) : c \in DOMAIN allowed}
  BY <1>5 DEF Check
<1> QED
  BY <1>1, <1>2, <1>3, <1>4, <1>5

Lacks(shape, names) == \A o \in shape : o.name \notin names

LEMMA StepOther ==
  ASSUME NEW t, NEW o, NEW s, s.on # t
  PROVE  StepOn(t, o, s) = o
BY DEF StepOn

LEMMA StepCreate ==
  ASSUME NEW t, NEW s, s.on = t, s.do = "create"
  PROVE  StepOn(t, {}, s) = {s.shape}
BY DEF StepOn

LEMMA StepAlter ==
  ASSUME NEW t, NEW s, NEW x, s.on = t, s.do = "add" \/ s.do = "drop"
  PROVE  StepOn(t, {x}, s) = {Altered(x, s)}
BY DEF StepOn

LEMMA FirstOf ==
  ASSUME NEW t, t \notin {"devices", "locations", "messages", "waypoints"}
  PROVE  At(Revision[1], t) = End(t, {}, Initial_Trips)
<1> DEFINE X == {"devices", "locations", "messages", "waypoints"}
           a == Initial_Trips
           b == Initial_Rest
<1>1. Up(1) = a \o b
  BY DEF Up
<1>2. IsSeq(a) /\ IsSeq(b)
  BY Initial_TripsIs, Initial_RestIs DEF GoesUp
<1>3. About(b, X) /\ t \notin X
  BY Initial_RestIs
<1> HIDE DEF X, a, b
<1>4. End(t, End(t, {}, a), b) = End(t, {}, a)
  BY <1>2, <1>3, EndRests
<1>5. End(t, {}, a \o b) = End(t, {}, a)
  BY <1>2, <1>4, EndOn
<1>6. 1 \in 1..3 /\ 1 - 1 = 0
  OBVIOUS
<1>7. At(Revision[1], t) = End(t, {}, Up(1))
  BY <1>6, RevisionUp, RevisionNone
<1> QED
  BY <1>1, <1>5, <1>7 DEF a

FirstUsers ==
  Create("users", {"id", "created_at"},
         [phone |-> 20, display_name |-> 80, avatar_url |-> 500], None, None)
FirstTrips ==
  Create("trips", {"id", "owner_id", "start_at", "end_at", "created_at"},
         [name |-> 120, status |-> 20, join_code |-> 6], [owner_id |-> "users"],
         [status |-> {"planned", "active", "ended", "cancelled"}])
FirstMembers ==
  Create("trip_members", {"trip_id", "user_id", "joined_at", "left_at", "ghost_mode"},
         [role |-> 10, color |-> 9], TripUserKeys, [role |-> PlainRoles])
UsersShape == FirstUsers.shape
TripsShape == Altered(FirstTrips.shape, Add("trips", Index("ix_trips_owner_id"), "plain"))
MembersShape ==
  Altered(FirstMembers.shape, Add("trip_members", Index("ix_trip_members_user_id"), "plain"))

LEMMA FirstShapes ==
  /\ At(Revision[1], "users") = {UsersShape}
  /\ At(Revision[1], "trips") = {TripsShape}
  /\ At(Revision[1], "trip_members") = {MembersShape}
<1> DEFINE ss == Initial_Trips
           i1 == Add("trips", Index("ix_trips_owner_id"), "plain")
           i2 == Add("trip_members", Index("ix_trip_members_user_id"), "plain")
<1>1. IsSeq(ss) /\ Len(ss) = 5
  BY Tuple5 DEF Initial_Trips
<1>2. ss[1] = FirstUsers /\ ss[2] = FirstTrips /\ ss[3] = i1 /\ ss[4] = FirstMembers /\ ss[5] = i2
  BY DEF Initial_Trips, FirstUsers, FirstTrips, FirstMembers
<1>3. /\ FirstUsers.on = "users" /\ FirstUsers.do = "create"
      /\ FirstTrips.on = "trips" /\ FirstTrips.do = "create"
      /\ FirstMembers.on = "trip_members" /\ FirstMembers.do = "create"
      /\ i1.on = "trips" /\ i1.do = "add" /\ i2.on = "trip_members" /\ i2.do = "add"
  BY DEF FirstUsers, FirstTrips, FirstMembers, Create, Add
<1>4. TripsShape = Altered(FirstTrips.shape, i1) /\ MembersShape = Altered(FirstMembers.shape, i2)
  BY DEF TripsShape, MembersShape
<1>5. \A t \in {"users", "trips", "trip_members"} :
        At(Revision[1], t) = End(t, {}, ss)
  BY FirstOf
<1> HIDE DEF ss, i1, i2
<1>6. ASSUME NEW t
      PROVE  End(t, {}, ss) = StepOn(t, StepOn(t, StepOn(t, StepOn(t, StepOn(t, {}, FirstUsers), FirstTrips), i1), FirstMembers), i2)
  BY <1>1, <1>2, EndFive
<1>7. End("users", {}, ss) = {UsersShape}
  BY <1>3, <1>6, StepOther, StepCreate DEF UsersShape
<1>8. End("trips", {}, ss) = {TripsShape}
  <2> DEFINE t == "trips"
  <2>1. /\ FirstUsers.on # t /\ FirstTrips.on = t /\ i1.on = t /\ FirstMembers.on # t
        /\ i2.on # t
    BY <1>3
  <2> HIDE DEF t
  <2>2. StepOn(t, {}, FirstUsers) = {}
    BY <2>1, StepOther
  <2>3. StepOn(t, {}, FirstTrips) = {FirstTrips.shape}
    BY <1>3, <2>1, StepCreate
  <2>4. StepOn(t, {FirstTrips.shape}, i1) = {TripsShape}
    BY <1>3, <1>4, <2>1, StepAlter
  <2>5. StepOn(t, {TripsShape}, FirstMembers) = {TripsShape} /\ StepOn(t, {TripsShape}, i2) = {TripsShape}
    BY <2>1, StepOther
  <2>6. End(t, {}, ss) = {TripsShape}
    BY <1>6, <2>2, <2>3, <2>4, <2>5
  <2> QED
    BY <2>6 DEF t
<1>9. End("trip_members", {}, ss) = {MembersShape}
  <2> DEFINE t == "trip_members"
  <2>1. /\ FirstUsers.on # t /\ FirstTrips.on # t /\ i1.on # t /\ FirstMembers.on = t
        /\ i2.on = t
    BY <1>3
  <2> HIDE DEF t
  <2>2. StepOn(t, {}, FirstUsers) = {} /\ StepOn(t, {}, FirstTrips) = {} /\ StepOn(t, {}, i1) = {}
    BY <2>1, StepOther
  <2>3. StepOn(t, {}, FirstMembers) = {FirstMembers.shape}
    BY <1>3, <2>1, StepCreate
  <2>4. StepOn(t, {FirstMembers.shape}, i2) = {MembersShape}
    BY <1>3, <1>4, <2>1, StepAlter
  <2>5. End(t, {}, ss) = {MembersShape}
    BY <1>6, <2>2, <2>3, <2>4
  <2> QED
    BY <2>5 DEF t
<1> QED
  BY <1>5, <1>7, <1>8, <1>9

LEMMA UsersLack == Lacks(UsersShape, {"is_admin"})
<1> DEFINE text == [phone |-> 20, display_name |-> 80, avatar_url |-> 500]
<1>1. /\ DOMAIN text = {"phone", "display_name", "avatar_url"} /\ DOMAIN None = {}
  BY DEF None
<1>2. ASSUME NEW o \in UsersShape PROVE o.name \in {"id", "created_at"} \cup DOMAIN text \cup {} \cup {}
  BY <1>1, CreatedNames DEF UsersShape, FirstUsers
<1> QED
  BY <1>1, <1>2 DEF Lacks

LEMMA TripsLack == Lacks(TripsShape, {"template", "cover_color"})
<1> DEFINE plain == {"id", "owner_id", "start_at", "end_at", "created_at"}
           text == [name |-> 120, status |-> 20, join_code |-> 6]
           keys == [owner_id |-> "users"]
           checks == [status |-> {"planned", "active", "ended", "cancelled"}]
           x == Index("ix_trips_owner_id")
<1>1. /\ DOMAIN text = {"name", "status", "join_code"} /\ DOMAIN keys = {"owner_id"}
      /\ DOMAIN checks = {"status"}
  OBVIOUS
<1>2. FirstTrips = Create("trips", plain, text, keys, checks)
  BY DEF FirstTrips
<1>3. TripsShape = FirstTrips.shape \cup {x}
  BY DEF TripsShape, Altered, Add
<1>4. x.name = "ix_trips_owner_id"
  BY DEF Index
<1>5. plain \cup DOMAIN text \cup DOMAIN keys \cup DOMAIN checks =
        {"id", "owner_id", "start_at", "end_at", "created_at", "name", "status", "join_code"}
  BY <1>1
<1> HIDE DEF plain, text, keys, checks, x
<1>6. ASSUME NEW o \in FirstTrips.shape
      PROVE  o.name \in plain \cup DOMAIN text \cup DOMAIN keys \cup DOMAIN checks
  BY <1>2, CreatedNames
<1> QED
  BY <1>3, <1>4, <1>5, <1>6 DEF Lacks

LEMMA MembersHave ==
  /\ Lacks(MembersShape, NewMembers)
  /\ PlainCheck \in MembersShape
  /\ \A o \in MembersShape : o.is = "check" => o = PlainCheck
<1> DEFINE plain == {"trip_id", "user_id", "joined_at", "left_at", "ghost_mode"}
           text == [role |-> 10, color |-> 9]
           keys == TripUserKeys
           checks == [role |-> PlainRoles]
           x == Index("ix_trip_members_user_id")
<1>1. /\ DOMAIN text = {"role", "color"} /\ DOMAIN keys = {"trip_id", "user_id"}
      /\ DOMAIN checks = {"role"} /\ checks["role"] = PlainRoles
  BY DEF TripUserKeys
<1>2. FirstMembers = Create("trip_members", plain, text, keys, checks)
  BY DEF FirstMembers
<1>3. MembersShape = FirstMembers.shape \cup {x}
  BY DEF MembersShape, Altered, Add
<1>4. x.name = "ix_trip_members_user_id" /\ x.is = "index"
  BY DEF Index
<1>5. plain \cup DOMAIN text \cup DOMAIN keys \cup DOMAIN checks =
        {"trip_id", "user_id", "joined_at", "left_at", "ghost_mode", "role", "color"}
  BY <1>1
<1>6. PlainCheck \in FirstMembers.shape
  <2>1. FirstMembers.shape = Columns(plain, text) \cup {Reference(c, keys[c]) : c \in DOMAIN keys}
                               \cup {Check(c, checks[c]) : c \in DOMAIN checks}
    BY <1>2 DEF Create
  <2> HIDE DEF checks, plain, text, keys
  <2>2. PlainCheck \in {Check(c, checks[c]) : c \in DOMAIN checks}
    BY <1>1 DEF PlainCheck
  <2> QED
    BY <2>1, <2>2
<1> HIDE DEF plain, text, keys, checks, x
<1>7. ASSUME NEW o \in FirstMembers.shape
      PROVE  /\ o.name \in plain \cup DOMAIN text \cup DOMAIN keys \cup DOMAIN checks
             /\ o.is = "check" => \E c \in DOMAIN checks : o = Check(c, checks[c])
  BY <1>2, CreatedNames
<1>8. ASSUME NEW o \in FirstMembers.shape, o.is = "check" PROVE o = PlainCheck
  BY <1>1, <1>7, <1>8 DEF PlainCheck
<1>9. Lacks(MembersShape, NewMembers)
  BY <1>3, <1>4, <1>5, <1>7 DEF Lacks, NewMembers
<1> QED
  BY <1>3, <1>4, <1>6, <1>8, <1>9

LEMMA JoinFive ==
  ASSUME NEW a, NEW b, NEW c, NEW d, NEW e, NEW t, NEW o,
         IsSeq(a), IsSeq(b), IsSeq(c), IsSeq(d), IsSeq(e)
  PROVE  /\ IsSeq(a \o b \o c \o d \o e)
         /\ End(t, o, a \o b \o c \o d \o e) =
              End(t, End(t, End(t, End(t, End(t, o, a), b), c), d), e)
<1>1. IsSeq(a \o b) /\ End(t, o, a \o b) = End(t, End(t, o, a), b)
  BY Joined, EndOn
<1> DEFINE ab == a \o b
           o2 == End(t, o, ab)
<1> HIDE DEF ab
<1>2. IsSeq(ab \o c) /\ End(t, o, ab \o c) = End(t, o2, c)
  <2>1. IsSeq(ab)
    BY <1>1 DEF ab
  <2> QED
    BY <2>1, Joined, EndOn
<1> DEFINE abc == ab \o c
           o3 == End(t, o, abc)
<1> HIDE DEF abc
<1>3. IsSeq(abc \o d) /\ End(t, o, abc \o d) = End(t, o3, d)
  <2>1. IsSeq(abc)
    BY <1>2 DEF abc
  <2> QED
    BY <2>1, Joined, EndOn
<1> DEFINE abcd == abc \o d
           o4 == End(t, o, abcd)
<1> HIDE DEF abcd
<1>4. IsSeq(abcd \o e) /\ End(t, o, abcd \o e) = End(t, o4, e)
  <2>1. IsSeq(abcd)
    BY <1>3 DEF abcd
  <2> QED
    BY <2>1, Joined, EndOn
<1> QED
  BY <1>1, <1>2, <1>3, <1>4 DEF ab, abc, abcd

LEMMA UpTwo ==
  ASSUME NEW t, NEW o
  PROVE  End(t, o, Up(2)) =
           End(t, End(t, End(t, End(t, End(t, End(t, o, Advanced_Members), Advanced_Roles),
                                    Advanced_Trips), Advanced_Safety), Advanced_Money),
               Advanced_Telemetry)
<1> DEFINE a == Advanced_Members
           b == Advanced_Roles
           c == Advanced_Trips
           d == Advanced_Safety
           e == Advanced_Money
           f == Advanced_Telemetry
           five == a \o b \o c \o d \o e
<1>1. /\ IsSeq(a) /\ IsSeq(b) /\ IsSeq(c) /\ IsSeq(d) /\ IsSeq(e) /\ IsSeq(f)
  BY Advanced_MembersIs, Advanced_RolesIs, Advanced_TripsIs, Advanced_SafetyIs,
     Advanced_MoneyIs, Advanced_TelemetryIs DEF GoesUp
<1>2. Up(2) = five \o f
  BY DEF Up
<1> HIDE DEF a, b, c, d, e, f
<1>3. IsSeq(five) /\ End(t, o, five) = End(t, End(t, End(t, End(t, End(t, o, a), b), c), d), e)
  BY <1>1, JoinFive
<1> HIDE DEF five
<1>4. End(t, o, five \o f) = End(t, End(t, o, five), f)
  BY <1>1, <1>3, EndOn
<1> QED
  BY <1>2, <1>3, <1>4 DEF a, b, c, d, e, f

LEMMA DownTwo ==
  ASSUME NEW t, NEW o
  PROVE  End(t, o, Down(2)) =
           End(t, End(t, End(t, End(t, End(t, o, AdvancedDown_Money), AdvancedDown_Subgroups),
                             AdvancedDown_Safety), AdvancedDown_Roles), AdvancedDown_Members)
<1> DEFINE a == AdvancedDown_Money
           b == AdvancedDown_Subgroups
           c == AdvancedDown_Safety
           d == AdvancedDown_Roles
           e == AdvancedDown_Members
<1>1. IsSeq(a) /\ IsSeq(b) /\ IsSeq(c) /\ IsSeq(d) /\ IsSeq(e)
  BY AdvancedDown_MoneyIs, AdvancedDown_SubgroupsIs, AdvancedDown_SafetyIs,
     AdvancedDown_RolesIs, AdvancedDown_MembersIs DEF GoesDown
<1>2. Down(2) = a \o b \o c \o d \o e
  BY DEF Down
<1> HIDE DEF a, b, c, d, e
<1>3. End(t, o, a \o b \o c \o d \o e) =
        End(t, End(t, End(t, End(t, End(t, o, a), b), c), d), e)
  BY <1>1, JoinFive
<1> QED
  BY <1>2, <1>3 DEF a, b, c, d, e

\* A column that was added goes when it is dropped.
LEMMA DropAdded ==
  ASSUME NEW x, NEW t, NEW n, NEW w, Lacks(x, {n})
  PROVE  Altered(Altered(x, Add(t, Column(n, w), "plain")), Drop("column", t, n)) = x
<1> DEFINE c == Column(n, w)
           s == Drop("column", t, n)
<1>1. Altered(x, Add(t, c, "plain")) = x \cup {c}
  BY DEF Altered, Add
<1>2. s.do = "drop" /\ s.is = "column" /\ s.name = n
  BY DEF Drop
<1>3. c.name = n /\ c.is = "column"
  BY DEF Column
<1> HIDE DEF c, s
<1>4. Altered(x \cup {c}, s) = {o \in x \cup {c} : o.name = n => o.is # "column" /\ o.is = "index"}
  BY <1>2 DEF Altered
<1>5. \A o \in x : o.name # n
  BY DEF Lacks
<1> QED
  BY <1>1, <1>3, <1>4, <1>5 DEF c, s

LEMMA LacksAfter ==
  ASSUME NEW x, NEW t, NEW n, NEW w, NEW names, Lacks(x, names), n \notin names
  PROVE  Lacks(Altered(x, Add(t, Column(n, w), "plain")), names)
<1>1. Altered(x, Add(t, Column(n, w), "plain")) = x \cup {Column(n, w)}
  BY DEF Altered, Add
<1> QED
  BY <1>1 DEF Lacks, Column

LEMMA LacksFewer ==
  ASSUME NEW x, NEW names, NEW few, Lacks(x, names), few \subseteq names
  PROVE  Lacks(x, few)
BY DEF Lacks

-----------------------------------------------------------------------------
(* The table trips through 0002 and back.                                  *)

Templated == Altered(TripsShape, Add("trips", Column("template", 40), "plain"))
Coloured == Altered(Templated, Add("trips", Column("cover_color", 9), "plain"))

LEMMA TripsUp == End("trips", {TripsShape}, Up(2)) = {Coloured}
<1> DEFINE t == "trips"
           o == {TripsShape}
           X1 == {"trip_members"}
           X2 == {"audit_logs", "safety_alerts", "subgroups", "trip_members"}
           X3 == {"expense_shares", "expenses", "reminders", "subscriptions"}
           X4 == {"events", "maps_provider_calls"}
           s1 == Add("trips", Column("template", 40), "plain")
           s2 == Add("trips", Column("cover_color", 9), "plain")
           ss == Advanced_Trips
<1>1. t \notin X1 /\ t \notin X2 /\ t \notin X3 /\ t \notin X4
  OBVIOUS
<1>2. /\ About(Advanced_Members, X1) /\ About(Advanced_Roles, X1)
      /\ About(Advanced_Safety, X2) /\ About(Advanced_Money, X3)
      /\ About(Advanced_Telemetry, X4)
  BY Advanced_MembersIs, Advanced_RolesIs, Advanced_SafetyIs, Advanced_MoneyIs,
     Advanced_TelemetryIs
<1>3. /\ IsSeq(Advanced_Members) /\ IsSeq(Advanced_Roles) /\ IsSeq(Advanced_Safety)
      /\ IsSeq(Advanced_Money) /\ IsSeq(Advanced_Telemetry)
  BY Advanced_MembersIs, Advanced_RolesIs, Advanced_SafetyIs, Advanced_MoneyIs,
     Advanced_TelemetryIs DEF GoesUp
<1>4. /\ s1.on = t /\ s1.do \in {"add", "drop"} /\ s2.on = t /\ s2.do \in {"add", "drop"}
      /\ Templated = Altered(TripsShape, s1) /\ Coloured = Altered(Templated, s2)
  BY DEF Add, Templated, Coloured
<1>5. IsSeq(ss) /\ Len(ss) = 2 /\ ss[1] = s1 /\ ss[2] = s2
  BY Tuple2 DEF Advanced_Trips
<1> HIDE DEF t, X1, X2, X3, X4, s1, s2, ss
<1>6. End(t, o, Advanced_Members) = o /\ End(t, o, Advanced_Roles) = o
  BY <1>1, <1>2, <1>3, EndRests
<1>7. End(t, {TripsShape}, ss) = {Coloured}
  <2>1. StepOn(t, {TripsShape}, s1) = {Templated}
    BY <1>4, StepAlter
  <2>2. StepOn(t, {Templated}, s2) = {Coloured}
    BY <1>4, StepAlter
  <2> QED
    BY <1>5, <2>1, <2>2, EndTwo
<1>8. /\ End(t, {Coloured}, Advanced_Safety) = {Coloured}
      /\ End(t, {Coloured}, Advanced_Money) = {Coloured}
      /\ End(t, {Coloured}, Advanced_Telemetry) = {Coloured}
  BY <1>1, <1>2, <1>3, EndRests
<1>9. End(t, o, Up(2)) = {Coloured}
  BY <1>6, <1>7, <1>8, UpTwo DEF ss
<1> QED
  BY <1>9 DEF t

LEMMA TripsDown == End("trips", {Coloured}, Down(2)) = {TripsShape}
<1> DEFINE t == "trips"
           X1 == {"trip_members"}
           X2 == {"events", "expense_shares", "expenses", "maps_provider_calls",
                  "reminders", "subscriptions"}
           X3 == {"subgroups", "trip_members"}
           X4 == {"audit_logs", "safety_alerts"}
           s1 == Drop("column", "trips", "cover_color")
           s2 == Drop("column", "trips", "template")
           s3 == Drop("check", "trip_members", "role")
           s4 == Add("trip_members", Check("role", PlainRoles), "plain")
           ss == AdvancedDown_Roles
<1>1. t \notin X1 /\ t \notin X2 /\ t \notin X3 /\ t \notin X4
  OBVIOUS
<1>2. /\ About(AdvancedDown_Members, X1) /\ About(AdvancedDown_Money, X2)
      /\ About(AdvancedDown_Subgroups, X3) /\ About(AdvancedDown_Safety, X4)
  BY AdvancedDown_MoneyIs, AdvancedDown_SubgroupsIs, AdvancedDown_SafetyIs,
     AdvancedDown_MembersIs
<1>3. /\ IsSeq(AdvancedDown_Members) /\ IsSeq(AdvancedDown_Money)
      /\ IsSeq(AdvancedDown_Subgroups) /\ IsSeq(AdvancedDown_Safety)
  BY AdvancedDown_MoneyIs, AdvancedDown_SubgroupsIs, AdvancedDown_SafetyIs,
     AdvancedDown_MembersIs DEF GoesDown
<1>4. /\ s1.on = t /\ s1.do \in {"add", "drop"} /\ s2.on = t /\ s2.do \in {"add", "drop"}
      /\ s3.on # t /\ s4.on # t
  BY DEF Add, Drop
<1>5. IsSeq(ss) /\ Len(ss) = 4 /\ ss[1] = s1 /\ ss[2] = s2 /\ ss[3] = s3 /\ ss[4] = s4
  BY Tuple4 DEF AdvancedDown_Roles
<1>6. Altered(Templated, s2) = TripsShape /\ Altered(Coloured, s1) = Templated
  <2> DEFINE names == {"template", "cover_color"}
             a == {"template"}
             b == {"cover_color"}
  <2>1. Lacks(TripsShape, names) /\ a \subseteq names /\ b \subseteq names
    BY TripsLack
  <2>2. "template" \notin b
    OBVIOUS
  <2> HIDE DEF names
  <2>3. Lacks(TripsShape, a) /\ Lacks(TripsShape, b)
    BY <2>1, LacksFewer
  <2>4. Lacks(Templated, b)
    BY <2>2, <2>3, LacksAfter DEF Templated
  <2>5. Altered(Templated, s2) = TripsShape
    BY <2>3, DropAdded DEF Templated
  <2>6. Altered(Coloured, s1) = Templated
    BY <2>4, DropAdded DEF Coloured
  <2> QED
    BY <2>5, <2>6
<1> HIDE DEF t, X1, X2, X3, X4, s1, s2, s3, s4, ss
<1>7. /\ End(t, {Coloured}, AdvancedDown_Money) = {Coloured}
      /\ End(t, {Coloured}, AdvancedDown_Subgroups) = {Coloured}
      /\ End(t, {Coloured}, AdvancedDown_Safety) = {Coloured}
  BY <1>1, <1>2, <1>3, EndRests
<1>8. End(t, {Coloured}, ss) = {TripsShape}
  <2>1. StepOn(t, {Coloured}, s1) = {Templated}
    BY <1>4, <1>6, StepAlter
  <2>2. StepOn(t, {Templated}, s2) = {TripsShape}
    BY <1>4, <1>6, StepAlter
  <2>3. StepOn(t, {TripsShape}, s3) = {TripsShape} /\ StepOn(t, {TripsShape}, s4) = {TripsShape}
    BY <1>4, StepOther
  <2> QED
    BY <1>5, <2>1, <2>2, <2>3, EndFour
<1>9. End(t, {TripsShape}, AdvancedDown_Members) = {TripsShape}
  BY <1>1, <1>2, <1>3, EndRests
<1>10. End(t, {Coloured}, Down(2)) = {TripsShape}
  BY <1>7, <1>8, <1>9, DownTwo DEF ss
<1> QED
  BY <1>10 DEF t

-----------------------------------------------------------------------------
(* The table trip_members through 0002 and back.                           *)

Scoped == Altered(MembersShape, Add("trip_members", Column("visibility_scope", 0), "plain"))
Shared == Altered(Scoped, Add("trip_members", Column("share_until", 0), "plain"))
Ready == Altered(Shared, Add("trip_members", Column("is_ready", 0), "plain"))
Labelled == Altered(Ready, Add("trip_members", Column("vehicle_label", 40), "plain"))
Grouped == Altered(Labelled, Add("trip_members", Column("subgroup_id", 0), "plain"))
Unchecked == Grouped \ {PlainCheck}
RichCheck == Check("role", AllRoles)
Enriched == Unchecked \cup {RichCheck}
GroupKey == Reference("subgroup_id", "subgroups")
Secondary == Enriched \cup {GroupKey}

LEMMA GroupedHas ==
  /\ Grouped = MembersShape \cup {Column("visibility_scope", 0), Column("share_until", 0),
                                  Column("is_ready", 0), Column("vehicle_label", 40),
                                  Column("subgroup_id", 0)}
  /\ PlainCheck \in Grouped
  /\ \A o \in Grouped : /\ o.is = "check" => o = PlainCheck
                        /\ o.is = "fk" => o.name # "subgroup_id"
  /\ Lacks(Labelled, {"subgroup_id"}) /\ Lacks(Ready, {"vehicle_label"})
  /\ Lacks(Shared, {"is_ready"}) /\ Lacks(Scoped, {"share_until"})
  /\ Lacks(MembersShape, {"visibility_scope"})
<1> DEFINE c1 == Column("visibility_scope", 0)
           c2 == Column("share_until", 0)
           c3 == Column("is_ready", 0)
           c4 == Column("vehicle_label", 40)
           c5 == Column("subgroup_id", 0)
<1>1. /\ Scoped = MembersShape \cup {c1} /\ Shared = Scoped \cup {c2}
      /\ Ready = Shared \cup {c3} /\ Labelled = Ready \cup {c4}
      /\ Grouped = Labelled \cup {c5}
  BY DEF Scoped, Shared, Ready, Labelled, Grouped, Altered, Add
<1>2. /\ c1.is = "column" /\ c2.is = "column" /\ c3.is = "column" /\ c4.is = "column"
      /\ c5.is = "column"
      /\ c1.name = "visibility_scope" /\ c2.name = "share_until" /\ c3.name = "is_ready"
      /\ c4.name = "vehicle_label" /\ c5.name = "subgroup_id"
  BY DEF Column
<1> HIDE DEF c1, c2, c3, c4, c5
<1>3. \A o \in MembersShape : o.name \notin NewMembers
  BY MembersHave DEF Lacks
<1>4. \A o \in Grouped : /\ o.is = "check" => o = PlainCheck
                         /\ o.is = "fk" => o.name # "subgroup_id"
  <2>1. ASSUME NEW o \in Grouped
        PROVE  /\ o.is = "check" => o = PlainCheck
               /\ o.is = "fk" => o.name # "subgroup_id"
    <3>1. o \in MembersShape \/ o.is = "column"
      BY <1>1, <1>2
    <3>2. CASE o \in MembersShape
      BY <1>3, <3>2, MembersHave DEF NewMembers
    <3>3. CASE o.is = "column"
      BY <3>3
    <3> QED
      BY <3>1, <3>2, <3>3
  <2> QED
    BY <2>1
<1>5. /\ Lacks(Labelled, {"subgroup_id"}) /\ Lacks(Ready, {"vehicle_label"})
      /\ Lacks(Shared, {"is_ready"}) /\ Lacks(Scoped, {"share_until"})
      /\ Lacks(MembersShape, {"visibility_scope"})
  BY <1>1, <1>2, <1>3 DEF Lacks, NewMembers
<1>6. Grouped = MembersShape \cup {c1, c2, c3, c4, c5} /\ PlainCheck \in Grouped
  BY <1>1, MembersHave
<1> QED
  BY <1>4, <1>5, <1>6 DEF c1, c2, c3, c4, c5

LEMMA CheckSwapped ==
  /\ Altered(Grouped, Drop("check", "trip_members", "role")) = Unchecked
  /\ Altered(Unchecked, Add("trip_members", RichCheck, "plain")) = Enriched
  /\ Altered(Enriched, Add("trip_members", GroupKey, "plain")) = Secondary
  /\ Altered(Secondary, Drop("fk", "trip_members", "subgroup_id")) = Enriched
  /\ Altered(Enriched, Drop("check", "trip_members", "role")) = Unchecked
  /\ Altered(Unchecked, Add("trip_members", PlainCheck, "plain")) = Grouped
<1> DEFINE s == Drop("check", "trip_members", "role")
           z == Drop("fk", "trip_members", "subgroup_id")
<1>1. /\ s.do = "drop" /\ s.is = "check" /\ s.name = "role"
      /\ z.do = "drop" /\ z.is = "fk" /\ z.name = "subgroup_id"
  BY DEF Drop
<1>2. /\ PlainCheck.is = "check" /\ PlainCheck.name = "role"
      /\ RichCheck.is = "check" /\ RichCheck.name = "role"
      /\ GroupKey.is = "fk" /\ GroupKey.name = "subgroup_id"
  BY DEF PlainCheck, RichCheck, GroupKey, Check, Reference
<1>3. \A x, t, o : Altered(x, Add(t, o, "plain")) = x \cup {o}
  BY DEF Altered, Add
<1> HIDE DEF s, z
<1>4. \A x : Altered(x, s) = {o \in x : o.name = "role" => o.is # "check"}
  BY <1>1 DEF Altered
<1>5. \A x : Altered(x, z) = {o \in x : o.name = "subgroup_id" => o.is # "fk"}
  BY <1>1 DEF Altered
<1>6. /\ PlainCheck \in Grouped
      /\ \A o \in Grouped : /\ o.is = "check" => o = PlainCheck
                            /\ o.is = "fk" => o.name # "subgroup_id"
  BY GroupedHas
<1>7. Altered(Grouped, s) = Unchecked
  BY <1>2, <1>4, <1>6 DEF Unchecked
<1>8. Altered(Enriched, s) = Unchecked
  BY <1>2, <1>4, <1>6 DEF Unchecked, Enriched
<1>9. Altered(Secondary, z) = Enriched
  BY <1>2, <1>5, <1>6 DEF Unchecked, Enriched, Secondary
<1>10. Altered(Unchecked, Add("trip_members", PlainCheck, "plain")) = Grouped
  <2>1. Unchecked \cup {PlainCheck} = Grouped
    BY <1>6 DEF Unchecked
  <2> QED
    BY <1>3, <2>1
<1>11. /\ Altered(Unchecked, Add("trip_members", RichCheck, "plain")) = Enriched
       /\ Altered(Enriched, Add("trip_members", GroupKey, "plain")) = Secondary
  BY <1>3 DEF Enriched, Secondary
<1> QED
  BY <1>7, <1>8, <1>9, <1>10, <1>11 DEF s, z

LEMMA MembersGrouped ==
  End("trip_members", {MembersShape}, Advanced_Members) = {Grouped}
<1> DEFINE t == "trip_members"
<1>1. End(t, {MembersShape}, Advanced_Members) = {Grouped}
  <2> DEFINE ss == Advanced_Members
             s1 == Add("trip_members", Column("visibility_scope", 0), "plain")
             s2 == Add("trip_members", Column("share_until", 0), "plain")
             s3 == Add("trip_members", Column("is_ready", 0), "plain")
             s4 == Add("trip_members", Column("vehicle_label", 40), "plain")
             s5 == Add("trip_members", Column("subgroup_id", 0), "plain")
  <2>1. /\ IsSeq(ss) /\ Len(ss) = 5 /\ ss[1] = s1 /\ ss[2] = s2 /\ ss[3] = s3 /\ ss[4] = s4
        /\ ss[5] = s5
    BY Tuple5 DEF Advanced_Members
  <2>2. /\ s1.on = t /\ s1.do = "add" /\ s2.on = t /\ s2.do = "add"
        /\ s3.on = t /\ s3.do = "add" /\ s4.on = t /\ s4.do = "add"
        /\ s5.on = t /\ s5.do = "add"
    BY DEF Add
  <2>3. /\ Scoped = Altered(MembersShape, s1) /\ Shared = Altered(Scoped, s2)
        /\ Ready = Altered(Shared, s3) /\ Labelled = Altered(Ready, s4)
        /\ Grouped = Altered(Labelled, s5)
    BY DEF Scoped, Shared, Ready, Labelled, Grouped
  <2> HIDE DEF ss, s1, s2, s3, s4, s5, t
  <2>4. StepOn(t, {MembersShape}, s1) = {Scoped}
    BY <2>2, <2>3, StepAlter
  <2>5. StepOn(t, {Scoped}, s2) = {Shared}
    BY <2>2, <2>3, StepAlter
  <2>6. StepOn(t, {Shared}, s3) = {Ready}
    BY <2>2, <2>3, StepAlter
  <2>7. StepOn(t, {Ready}, s4) = {Labelled}
    BY <2>2, <2>3, StepAlter
  <2>8. StepOn(t, {Labelled}, s5) = {Grouped}
    <3>1. s5.on = t /\ s5.do = "add"
      BY <2>2
    <3>2. Grouped = Altered(Labelled, s5)
      BY <2>3
    <3> QED
      BY <3>1, <3>2, StepAlter
  <2>9. End(t, {MembersShape}, ss) =
          StepOn(t, StepOn(t, StepOn(t, StepOn(t, StepOn(t, {MembersShape}, s1), s2), s3), s4), s5)
    BY <2>1, EndFive
  <2> QED
    BY <2>4, <2>5, <2>6, <2>7, <2>8, <2>9 DEF ss
<1> QED
  BY <1>1

LEMMA RolesEnriched ==
  End("trip_members", {Grouped}, Advanced_Roles) = {Enriched}
<1> DEFINE t == "trip_members"
<1>1. End(t, {Grouped}, Advanced_Roles) = {Enriched}
  <2> DEFINE ss == Advanced_Roles
             s1 == Drop("check", "trip_members", "role")
             s2 == Add("trip_members", RichCheck, "plain")
  <2>1. IsSeq(ss) /\ Len(ss) = 2 /\ ss[1] = s1 /\ ss[2] = s2
    BY Tuple2 DEF Advanced_Roles, RichCheck
  <2>2. s1.on = t /\ s1.do = "drop" /\ s2.on = t /\ s2.do = "add"
    BY DEF Add, Drop
  <2>3. Altered(Grouped, s1) = Unchecked /\ Altered(Unchecked, s2) = Enriched
    BY CheckSwapped
  <2> HIDE DEF ss, s1, s2, t
  <2>4. StepOn(t, {Grouped}, s1) = {Unchecked}
    BY <2>2, <2>3, StepAlter
  <2>5. StepOn(t, {Unchecked}, s2) = {Enriched}
    BY <2>2, <2>3, StepAlter
  <2> QED
    BY <2>1, <2>4, <2>5, EndTwo DEF ss
<1> QED
  BY <1>1

LEMMA SafetyKeyed ==
  End("trip_members", {Enriched}, Advanced_Safety) = {Secondary}
<1> DEFINE t == "trip_members"
<1>1. End(t, {Enriched}, Advanced_Safety) = {Secondary}
  <2> DEFINE ss == Advanced_Safety
             s == Add("trip_members", GroupKey, "plain")
             h == Course(t, {Enriched}, ss)
  <2>1. IsSeq(ss) /\ Len(ss) = 7 /\ ss[7] = s
    BY Tuple7 DEF Advanced_Safety, GroupKey
  <2>2. /\ ss[1].on # t /\ ss[2].on # t /\ ss[3].on # t /\ ss[4].on # t /\ ss[5].on # t
        /\ ss[6].on # t
    BY DEF Advanced_Safety, Create, Add
  <2>3. s.on = t /\ s.do = "add" /\ Altered(Enriched, s) = Secondary
    BY CheckSwapped DEF Add
  <2>4. IsCourse(h, t, {Enriched}, ss) /\ End(t, {Enriched}, ss) = h[7]
    BY <2>1, CourseExists DEF IsSeq, End
  <2> HIDE DEF ss, s, t
  <2>5. h[6] = {Enriched}
    <3> DEFINE n == 6
               o == {Enriched}
    <3>0. IsSeq(ss)
      BY <2>1
    <3>1. \A k \in 1..n : ss[k].on # t
      BY <2>2
    <3>2. n \in 0..Len(ss)
      BY <2>1
    <3> HIDE DEF n, o
    <3>3. Course(t, o, ss)[n] = o
      BY <3>0, <3>1, <3>2, CourseRests
    <3> QED
      BY <3>3 DEF n, o
  <2> HIDE DEF h
  <2>6. h[7] = StepOn(t, h[6], s)
    <3>1. 7 \in 1..7 /\ 7 - 1 = 6
      OBVIOUS
    <3> QED
      BY <2>1, <2>4, <3>1 DEF IsCourse, Follows
  <2>7. StepOn(t, {Enriched}, s) = {Secondary}
    BY <2>3, StepAlter
  <2> QED
    BY <2>4, <2>5, <2>6, <2>7 DEF ss
<1> QED
  BY <1>1

LEMMA MembersUp == End("trip_members", {MembersShape}, Up(2)) = {Secondary}
<1> DEFINE t == "trip_members"
           X1 == {"trips"}
           X2 == {"expense_shares", "expenses", "reminders", "subscriptions"}
           X3 == {"events", "maps_provider_calls"}
<1>1. t \notin X1 /\ t \notin X2 /\ t \notin X3
  OBVIOUS
<1>2. /\ About(Advanced_Trips, X1) /\ About(Advanced_Money, X2)
      /\ About(Advanced_Telemetry, X3)
  BY Advanced_TripsIs, Advanced_MoneyIs, Advanced_TelemetryIs
<1>3. IsSeq(Advanced_Trips) /\ IsSeq(Advanced_Money) /\ IsSeq(Advanced_Telemetry)
  BY Advanced_TripsIs, Advanced_MoneyIs, Advanced_TelemetryIs DEF GoesUp
<1>4. End(t, {MembersShape}, Advanced_Members) = {Grouped}
  BY MembersGrouped
<1>5. End(t, {Grouped}, Advanced_Roles) = {Enriched}
  BY RolesEnriched
<1>6. End(t, {Enriched}, Advanced_Safety) = {Secondary}
  BY SafetyKeyed
<1> HIDE DEF t, X1, X2, X3
<1>7. End(t, {Enriched}, Advanced_Trips) = {Enriched}
  BY <1>1, <1>2, <1>3, EndRests
<1>8. /\ End(t, {Secondary}, Advanced_Money) = {Secondary}
      /\ End(t, {Secondary}, Advanced_Telemetry) = {Secondary}
  BY <1>1, <1>2, <1>3, EndRests
<1>9. End(t, {MembersShape}, Up(2)) = {Secondary}
  BY <1>4, <1>5, <1>6, <1>7, <1>8, UpTwo
<1> QED
  BY <1>9 DEF t

LEMMA KeyDropped ==
  End("trip_members", {Secondary}, AdvancedDown_Subgroups) = {Enriched}
<1> DEFINE t == "trip_members"
<1>1. End(t, {Secondary}, AdvancedDown_Subgroups) = {Enriched}
  <2> DEFINE ss == AdvancedDown_Subgroups
             s == Drop("fk", "trip_members", "subgroup_id")
  <2>1. IsSeq(ss) /\ Len(ss) = 3 /\ ss[1] = s
    BY Tuple3 DEF AdvancedDown_Subgroups
  <2>2. ss[2].on # t /\ ss[3].on # t
    BY DEF AdvancedDown_Subgroups, Drop, DropTable
  <2>3. s.on = t /\ s.do = "drop" /\ Altered(Secondary, s) = Enriched
    BY CheckSwapped DEF Drop
  <2> HIDE DEF ss, s, t
  <2>4. StepOn(t, {Secondary}, s) = {Enriched}
    BY <2>3, StepAlter
  <2>5. StepOn(t, {Enriched}, ss[2]) = {Enriched} /\ StepOn(t, {Enriched}, ss[3]) = {Enriched}
    BY <2>2, StepOther
  <2> QED
    BY <2>1, <2>4, <2>5, EndThree DEF ss
<1> QED
  BY <1>1

LEMMA RolesBack ==
  End("trip_members", {Enriched}, AdvancedDown_Roles) = {Grouped}
<1> DEFINE t == "trip_members"
<1>1. End(t, {Enriched}, AdvancedDown_Roles) = {Grouped}
  <2> DEFINE ss == AdvancedDown_Roles
             s1 == Drop("check", "trip_members", "role")
             s2 == Add("trip_members", PlainCheck, "plain")
  <2>1. IsSeq(ss) /\ Len(ss) = 4 /\ ss[3] = s1 /\ ss[4] = s2
    BY Tuple4 DEF AdvancedDown_Roles, PlainCheck
  <2>2. s1.on = t /\ s1.do = "drop" /\ s2.on = t /\ s2.do = "add"
    BY DEF Add, Drop
  <2>3. Altered(Enriched, s1) = Unchecked /\ Altered(Unchecked, s2) = Grouped
    BY CheckSwapped
  <2>4. ss[1].on # t /\ ss[2].on # t
    BY DEF AdvancedDown_Roles, Drop
  <2> HIDE DEF ss, s1, s2, t
  <2>5. StepOn(t, {Enriched}, ss[1]) = {Enriched} /\ StepOn(t, {Enriched}, ss[2]) = {Enriched}
    BY <2>4, StepOther
  <2>6. StepOn(t, {Enriched}, s1) = {Unchecked}
    BY <2>2, <2>3, StepAlter
  <2>7. StepOn(t, {Unchecked}, s2) = {Grouped}
    BY <2>2, <2>3, StepAlter
  <2> QED
    BY <2>1, <2>5, <2>6, <2>7, EndFour DEF ss
<1> QED
  BY <1>1

LEMMA GroupedBack ==
  End("trip_members", {Grouped}, AdvancedDown_Members) = {MembersShape}
<1> DEFINE t == "trip_members"
<1>1. End(t, {Grouped}, AdvancedDown_Members) = {MembersShape}
  <2> DEFINE ss == AdvancedDown_Members
             s1 == Drop("column", "trip_members", "visibility_scope")
             s2 == Drop("column", "trip_members", "share_until")
             s3 == Drop("column", "trip_members", "is_ready")
             s4 == Drop("column", "trip_members", "vehicle_label")
             s5 == Drop("column", "trip_members", "subgroup_id")
  <2>1. /\ IsSeq(ss) /\ Len(ss) = 5 /\ ss[1] = s5 /\ ss[2] = s4 /\ ss[3] = s3 /\ ss[4] = s2
        /\ ss[5] = s1
    BY Tuple5 DEF AdvancedDown_Members
  <2>2. /\ s1.on = t /\ s1.do = "drop" /\ s2.on = t /\ s2.do = "drop"
        /\ s3.on = t /\ s3.do = "drop" /\ s4.on = t /\ s4.do = "drop"
        /\ s5.on = t /\ s5.do = "drop"
    BY DEF Drop
  <2>3. Altered(Grouped, s5) = Labelled
    BY GroupedHas, DropAdded DEF Grouped
  <2>4. Altered(Labelled, s4) = Ready
    BY GroupedHas, DropAdded DEF Labelled
  <2>5. Altered(Ready, s3) = Shared
    BY GroupedHas, DropAdded DEF Ready
  <2>6. Altered(Shared, s2) = Scoped
    BY GroupedHas, DropAdded DEF Shared
  <2>7. Altered(Scoped, s1) = MembersShape
    BY GroupedHas, DropAdded DEF Scoped
  <2> HIDE DEF ss, s1, s2, s3, s4, s5, t
  <2>8. StepOn(t, {Grouped}, s5) = {Labelled}
    BY <2>2, <2>3, StepAlter
  <2>9. StepOn(t, {Labelled}, s4) = {Ready}
    BY <2>2, <2>4, StepAlter
  <2>10. StepOn(t, {Ready}, s3) = {Shared}
    BY <2>2, <2>5, StepAlter
  <2>11. StepOn(t, {Shared}, s2) = {Scoped}
    BY <2>2, <2>6, StepAlter
  <2>12. StepOn(t, {Scoped}, s1) = {MembersShape}
    BY <2>2, <2>7, StepAlter
  <2>13. End(t, {Grouped}, ss) =
           StepOn(t, StepOn(t, StepOn(t, StepOn(t, StepOn(t, {Grouped}, s5), s4), s3), s2), s1)
    BY <2>1, EndFive
  <2> QED
    BY <2>8, <2>9, <2>10, <2>11, <2>12, <2>13 DEF ss
<1> QED
  BY <1>1

LEMMA MembersDown == End("trip_members", {Secondary}, Down(2)) = {MembersShape}
<1> DEFINE t == "trip_members"
           X1 == {"events", "expense_shares", "expenses", "maps_provider_calls",
                  "reminders", "subscriptions"}
           X2 == {"audit_logs", "safety_alerts"}
<1>1. t \notin X1 /\ t \notin X2
  OBVIOUS
<1>2. About(AdvancedDown_Money, X1) /\ About(AdvancedDown_Safety, X2)
  BY AdvancedDown_MoneyIs, AdvancedDown_SafetyIs
<1>3. IsSeq(AdvancedDown_Money) /\ IsSeq(AdvancedDown_Safety)
  BY AdvancedDown_MoneyIs, AdvancedDown_SafetyIs DEF GoesDown
<1>4. End(t, {Secondary}, AdvancedDown_Subgroups) = {Enriched}
  BY KeyDropped
<1>5. End(t, {Enriched}, AdvancedDown_Roles) = {Grouped}
  BY RolesBack
<1>6. End(t, {Grouped}, AdvancedDown_Members) = {MembersShape}
  BY GroupedBack
<1> HIDE DEF t, X1, X2
<1>7. End(t, {Secondary}, AdvancedDown_Money) = {Secondary}
  BY <1>1, <1>2, <1>3, EndRests
<1>8. End(t, {Enriched}, AdvancedDown_Safety) = {Enriched}
  BY <1>1, <1>2, <1>3, EndRests
<1>9. End(t, {Secondary}, Down(2)) = {MembersShape}
  BY <1>4, <1>5, <1>6, <1>7, <1>8, DownTwo
<1> QED
  BY <1>9 DEF t

-----------------------------------------------------------------------------
(* Every downgrade takes back its upgrade, and so every script takes a     *)
(* revision to the other.                                                  *)

LEMMA DownSeq ==
  ASSUME NEW v \in 1..3
  PROVE  /\ GoesUp(Up(v)) /\ GoesDown(Down(v)) /\ IsSeq(Up(v)) /\ IsSeq(Down(v))
<1>1. v \in {1, 2, 3}
  OBVIOUS
<1>2. GoesUp(Up(v)) /\ GoesDown(Down(v))
  BY <1>1, UpIs, DownIs DEF UpPart, DownPart
<1> QED
  BY <1>2 DEF GoesUp, GoesDown

\* A table that a revision does not touch on the way up or down.
LEMMA Untouched ==
  ASSUME NEW v \in 1..3, NEW X, NEW t, About(Up(v), X), About(Down(v), X), t \notin X
  PROVE  End(t, At(Revision[v], t), Down(v)) = At(Revision[v - 1], t)
<1>1. IsSeq(Up(v)) /\ IsSeq(Down(v))
  BY DownSeq
<1>2. At(Revision[v], t) = End(t, At(Revision[v - 1], t), Up(v))
  BY RevisionUp
<1>3. End(t, At(Revision[v - 1], t), Up(v)) = At(Revision[v - 1], t)
  BY <1>1, EndRests
<1>4. End(t, At(Revision[v], t), Down(v)) = At(Revision[v], t)
  BY <1>1, EndRests
<1> QED
  BY <1>2, <1>3, <1>4

LEMMA UsersDown == End("users", At(Revision[3], "users"), Down(3)) = At(Revision[2], "users")
<1> DEFINE t == "users"
           s == Add("users", Column("is_admin", 0), "plain")
           z == Drop("column", "users", "is_admin")
           x == Altered(UsersShape, s)
           X == NewTables \cup {"trips", "trip_members"}
<1>1. At(Revision[2], t) = {UsersShape}
  <2>1. 2 \in 1..3 /\ 2 - 1 = 1
    OBVIOUS
  <2>2. At(Revision[2], t) = End(t, At(Revision[1], t), Up(2))
    BY <2>1, RevisionUp
  <2>3. About(Up(2), X) /\ t \notin X /\ IsSeq(Up(2))
    BY <2>1, UpIs, DownSeq DEF UpPart, NewTables
  <2> HIDE DEF X
  <2>4. End(t, {UsersShape}, Up(2)) = {UsersShape}
    BY <2>3, EndRests
  <2> QED
    BY <2>2, <2>4, FirstShapes
<1>2. At(Revision[3], t) = End(t, {UsersShape}, Up(3))
  <2>1. 3 \in 1..3 /\ 3 - 1 = 2
    OBVIOUS
  <2> QED
    BY <1>1, <2>1, RevisionUp
<1>3. /\ s.on = t /\ s.do = "add" /\ z.on = t /\ z.do = "drop"
      /\ IsSeq(Up(3)) /\ Len(Up(3)) = 1 /\ Up(3)[1] = s
      /\ IsSeq(Down(3)) /\ Len(Down(3)) = 1 /\ Down(3)[1] = z
  BY Tuple1 DEF Add, Drop, Up, Down, IsAdmin, IsAdminDown
<1>4. Altered(x, z) = UsersShape
  BY UsersLack, DropAdded
<1> HIDE DEF t, s, z, X
<1>5. End(t, {UsersShape}, Up(3)) = {x}
  <2>1. StepOn(t, {UsersShape}, s) = {x}
    BY <1>3, StepAlter
  <2> QED
    BY <1>3, <2>1, EndOne
<1> HIDE DEF x
<1>6. End(t, {x}, Down(3)) = {UsersShape}
  <2>1. StepOn(t, {x}, z) = {UsersShape}
    BY <1>3, <1>4, StepAlter
  <2> QED
    BY <1>3, <2>1, EndOne
<1> QED
  BY <1>1, <1>2, <1>5, <1>6 DEF t

LEMMA RevisionDown ==
  ASSUME NEW v \in 1..3, NEW t
  PROVE  End(t, At(Revision[v], t), Down(v)) = At(Revision[v - 1], t)
<1>1. CASE v = 1
  <2>1. 1 \in 1..3 /\ 1 - 1 = 0
    OBVIOUS
  <2>2. /\ About(Up(1), FirstTables) /\ About(Down(1), FirstTables)
        /\ Drops(Down(1), FirstTables)
    BY UpIs, DownIs DEF UpPart, DownPart
  <2>3. CASE t \in FirstTables
    <3>1. GoesDown(Down(1))
      BY <2>1, DownSeq
    <3>2. End(t, At(Revision[1], t), Down(1)) = {}
      BY <2>2, <2>3, <3>1, EndsGone
    <3> QED
      BY <1>1, <3>2, RevisionNone
  <2>4. CASE t \notin FirstTables
    BY <1>1, <2>1, <2>2, <2>4, Untouched
  <2> QED
    BY <2>3, <2>4
<1>2. CASE v = 2
  <2> DEFINE X == NewTables \cup {"trips", "trip_members"}
  <2>1. 2 \in 1..3 /\ 2 - 1 = 1 /\ 1 \in 1..3 /\ 1 - 1 = 0
    OBVIOUS
  <2>2. /\ About(Up(2), X) /\ About(Down(2), X) /\ Drops(Down(2), NewTables)
    BY UpIs, DownIs DEF UpPart, DownPart
  <2>3. At(Revision[2], t) = End(t, At(Revision[1], t), Up(2))
    BY <2>1, RevisionUp
  <2>4. CASE t \in NewTables
    <3>1. GoesDown(Down(2)) /\ IsSeq(Up(1))
      BY <2>1, DownSeq
    <3>2. End(t, At(Revision[2], t), Down(2)) = {}
      BY <2>2, <2>4, <3>1, EndsGone
    <3>3. About(Up(1), FirstTables) /\ t \notin FirstTables
      BY <2>4, UpIs DEF UpPart, FirstTables, NewTables
    <3>4. End(t, {}, Up(1)) = {}
      BY <3>1, <3>3, EndRests
    <3>5. At(Revision[1], t) = {}
      BY <2>1, <3>4, RevisionUp, RevisionNone
    <3> QED
      BY <1>2, <3>2, <3>5
  <2>5. CASE t = "trips"
    BY <1>2, <2>3, <2>5, FirstShapes, TripsUp, TripsDown
  <2>6. CASE t = "trip_members"
    BY <1>2, <2>3, <2>6, FirstShapes, MembersUp, MembersDown
  <2>7. CASE t \notin X
    <3> HIDE DEF X
    <3> QED
      BY <1>2, <2>1, <2>2, <2>7, Untouched
  <2> QED
    BY <2>4, <2>5, <2>6, <2>7
<1>3. CASE v = 3
  <2> DEFINE X == {"users"}
  <2>1. 3 \in 1..3 /\ 3 - 1 = 2
    OBVIOUS
  <2>2. About(Up(3), X) /\ About(Down(3), X)
    BY UpIs, DownIs DEF UpPart, DownPart
  <2>3. CASE t = "users"
    BY <1>3, <2>3, UsersDown
  <2>4. CASE t \notin X
    <3> HIDE DEF X
    <3> QED
      BY <1>3, <2>1, <2>2, <2>4, Untouched
  <2> QED
    BY <2>3, <2>4
<1> QED
  BY <1>1, <1>2, <1>3

Takes(u, ss, v) == \A t : End(t, At(Revision[u], t), ss) = At(Revision[v], t)

LEMMA TakesOn ==
  ASSUME NEW u, NEW v, NEW w, NEW a, NEW b, IsSeq(a), IsSeq(b), Takes(u, a, v), Takes(v, b, w)
  PROVE  Takes(u, a \o b, w)
<1>1. ASSUME NEW t PROVE End(t, At(Revision[u], t), a \o b) = At(Revision[w], t)
  <2>1. End(t, At(Revision[u], t), a \o b) = End(t, End(t, At(Revision[u], t), a), b)
    BY EndOn
  <2>2. End(t, At(Revision[u], t), a) = At(Revision[v], t)
    BY DEF Takes
  <2>3. End(t, At(Revision[v], t), b) = At(Revision[w], t)
    BY DEF Takes
  <2> QED
    BY <2>1, <2>2, <2>3
<1> QED
  BY <1>1 DEF Takes

\* Every script takes every table from the shape it has at one revision to the shape
\* it has at the other: what an upgrade makes, its downgrade takes back.
THEOREM ScriptTakes ==
  ASSUME NEW u \in Version, NEW v \in Version, u # v
  PROVE  Takes(u, Script[<<u, v>>], v)
<1>1. ASSUME NEW w \in 1..3
      PROVE  /\ Takes(w - 1, UpBy(w), w) /\ Takes(w, DownBy(w), w - 1)
             /\ IsSeq(UpBy(w)) /\ IsSeq(DownBy(w))
  <2>1. \A t : At(Revision[w], t) = End(t, At(Revision[w - 1], t), Up(w))
    BY RevisionUp
  <2>2. \A t : End(t, At(Revision[w], t), Down(w)) = At(Revision[w - 1], t)
    BY RevisionDown
  <2>3. /\ \A t, o : End(t, o, UpBy(w)) = End(t, o, Up(w))
        /\ \A t, o : End(t, o, DownBy(w)) = End(t, o, Down(w))
        /\ IsSeq(UpBy(w)) /\ IsSeq(DownBy(w))
    BY RevisionLeads DEF Leads
  <2> QED
    BY <2>1, <2>2, <2>3 DEF Takes
<1>2. /\ Takes(0, UpBy(1), 1) /\ Takes(1, UpBy(2), 2) /\ Takes(2, UpBy(3), 3)
      /\ Takes(1, DownBy(1), 0) /\ Takes(2, DownBy(2), 1) /\ Takes(3, DownBy(3), 2)
      /\ IsSeq(UpBy(1)) /\ IsSeq(UpBy(2)) /\ IsSeq(UpBy(3))
      /\ IsSeq(DownBy(1)) /\ IsSeq(DownBy(2)) /\ IsSeq(DownBy(3))
  <2>1. /\ 1 \in 1..3 /\ 2 \in 1..3 /\ 3 \in 1..3 /\ 1 - 1 = 0 /\ 2 - 1 = 1 /\ 3 - 1 = 2
    OBVIOUS
  <2> QED
    BY <1>1, <2>1
<1>3. /\ Takes(0, UpBy(1) \o UpBy(2), 2) /\ Takes(1, UpBy(2) \o UpBy(3), 3)
      /\ Takes(3, DownBy(3) \o DownBy(2), 1) /\ Takes(2, DownBy(2) \o DownBy(1), 0)
      /\ IsSeq(UpBy(1) \o UpBy(2)) /\ IsSeq(DownBy(3) \o DownBy(2))
  <2>1. Takes(0, UpBy(1) \o UpBy(2), 2)
    BY <1>2, TakesOn
  <2>2. Takes(1, UpBy(2) \o UpBy(3), 3)
    BY <1>2, TakesOn
  <2>3. Takes(3, DownBy(3) \o DownBy(2), 1)
    BY <1>2, TakesOn
  <2>4. Takes(2, DownBy(2) \o DownBy(1), 0)
    BY <1>2, TakesOn
  <2>5. IsSeq(UpBy(1) \o UpBy(2)) /\ IsSeq(DownBy(3) \o DownBy(2))
    BY <1>2, Joined
  <2> QED
    BY <2>1, <2>2, <2>3, <2>4, <2>5
<1>4. Takes(0, (UpBy(1) \o UpBy(2)) \o UpBy(3), 3)
  BY <1>2, <1>3, TakesOn
<1>5. Takes(3, (DownBy(3) \o DownBy(2)) \o DownBy(1), 0)
  BY <1>2, <1>3, TakesOn
<1>6. /\ Script[<<0, 1>>] = UpBy(1) /\ Script[<<1, 2>>] = UpBy(2) /\ Script[<<2, 3>>] = UpBy(3)
      /\ Script[<<1, 0>>] = DownBy(1) /\ Script[<<2, 1>>] = DownBy(2)
      /\ Script[<<3, 2>>] = DownBy(3)
  <2>1. /\ 1 \in 1..3 /\ 2 \in 1..3 /\ 3 \in 1..3 /\ 1 - 1 = 0 /\ 2 - 1 = 1 /\ 3 - 1 = 2
    OBVIOUS
  <2> QED
    BY <2>1, Scripts
<1>7. /\ Script[<<0, 2>>] = UpBy(1) \o UpBy(2) /\ Script[<<1, 3>>] = UpBy(2) \o UpBy(3)
      /\ Script[<<2, 0>>] = DownBy(2) \o DownBy(1) /\ Script[<<3, 1>>] = DownBy(3) \o DownBy(2)
  <2>1. /\ 1 \in 1..2 /\ 2 \in 1..2 /\ 1 - 1 = 0 /\ 2 - 1 = 1 /\ 1 + 1 = 2 /\ 2 + 1 = 3
    OBVIOUS
  <2> QED
    BY <2>1, Scripts
<1>8. /\ Script[<<0, 3>>] = (UpBy(1) \o UpBy(2)) \o UpBy(3)
      /\ Script[<<3, 0>>] = (DownBy(3) \o DownBy(2)) \o DownBy(1)
  BY Scripts
<1>9. \/ u = 0 /\ v \in {1, 2, 3}
      \/ u = 1 /\ v \in {0, 2, 3}
      \/ u = 2 /\ v \in {0, 1, 3}
      \/ u = 3 /\ v \in {0, 1, 2}
  BY DEF Version
<1> QED
  BY <1>2, <1>3, <1>4, <1>5, <1>6, <1>7, <1>8, <1>9

-----------------------------------------------------------------------------
(* What one statement does to the words that are stored.                   *)

Has(f, w) == w.on \in DOMAIN f /\ Exists(f[w.on], "column", w.column)
Fits(f, words) == \A w \in words : Has(f, w) => Accept(f, w)
Rooted(f) == \A t \in DOMAIN f : Targets(f[t]) \subseteq Parents
Covers(g, f) ==
  \A t \in DOMAIN f : t \in DOMAIN g /\ \A o \in f[t] : o.is = "column" => o \in g[t]
Takers(f, words) == \A w \in words : Accept(f, w)

LEMMA SameAt ==
  ASSUME NEW f, NEW g, NEW t, At(f, t) = At(g, t)
  PROVE  (t \in DOMAIN f <=> t \in DOMAIN g) /\ (t \in DOMAIN f => f[t] = g[t])
BY DEF At

LEMMA SameAccept ==
  ASSUME NEW f, NEW g, NEW w, At(f, w.on) = At(g, w.on)
  PROVE  (Accept(f, w) <=> Accept(g, w)) /\ (Has(f, w) <=> Has(g, w))
<1>1. (w.on \in DOMAIN f <=> w.on \in DOMAIN g) /\ (w.on \in DOMAIN f => f[w.on] = g[w.on])
  BY SameAt
<1>2. Accept(f, w) <=> Accept(g, w)
  BY <1>1 DEF Accept
<1>3. Has(f, w) <=> Has(g, w)
  BY <1>1 DEF Has
<1> QED
  BY <1>2, <1>3

LEMMA AcceptHas ==
  ASSUME NEW f, NEW w, Accept(f, w)
  PROVE  Has(f, w)
BY DEF Accept, Has, Exists

\* What it takes that a statement is not refused.
LEMMA Unrefused ==
  ASSUME NEW d, NEW s, ~Refused(d, s), s.do \in Verbs
  PROVE  /\ s.do = "create" => s.on \notin DOMAIN d.tables
         /\ s.do = "add" =>
              \A o \in s.shape, w \in d.words :
                o.is = "check" /\ s.how # "unchecked" /\ w.on = s.on => Allowed(w, o)
         /\ s.do = "droptable" =>
              \/ s.cascade
              \/ \A t \in DOMAIN d.tables \ {s.on} : s.on \notin Targets(d.tables[t])
         /\ s.do = "stamp" => d.version = s.from
<1>1. CASE s.do = "create"
  BY <1>1 DEF Refused
<1>2. CASE s.do = "add"
  BY <1>2 DEF Refused
<1>3. CASE s.do = "drop"
  BY <1>3
<1>4. CASE s.do = "droptable"
  BY <1>4 DEF Refused
<1>5. CASE s.do = "stamp"
  BY <1>5 DEF Refused
<1> QED
  BY <1>1, <1>2, <1>3, <1>4, <1>5 DEF Verbs

LEMMA Looses ==
  ASSUME NEW d, NEW s, ~Refused(d, s), UpOnly(s) \/ DownOnly(s) \/ IsStamp(s), Rooted(d.tables)
  PROVE  s.do \in Verbs /\ Loose(d.tables, s)
<1>1. s.do \in Verbs
  BY DEF UpOnly, DownOnly, IsStamp, Verbs
<1>2. ASSUME s.do = "droptable", NEW t \in DOMAIN d.tables \ {s.on}
      PROVE  s.on \notin Targets(d.tables[t])
  <2>1. s.cascade \/ s.on \notin Targets(d.tables[t])
    BY <1>1, <1>2, Unrefused
  <2>2. s.cascade => s.on \notin Parents
    BY <1>2 DEF UpOnly, DownOnly, IsStamp
  <2>3. Targets(d.tables[t]) \subseteq Parents
    BY DEF Rooted
  <2> QED
    BY <2>1, <2>2, <2>3
<1> QED
  BY <1>1, <1>2 DEF Loose

\* A statement that is not refused leaves only words that fit.
LEMMA AlteredFits ==
  ASSUME NEW x, NEW s, s.do = "drop", NEW n, NEW o \in Altered(x, s), o.is = "column", o.name = n
  PROVE  \A c \in x : c.is = "column" /\ c.name = n => c \in Altered(x, s)
<1>1. Altered(x, s) = {c \in x : c.name = s.name => c.is # s.is /\ (s.is = "column" => c.is = "index")}
  BY DEF Altered
<1> QED
  BY <1>1

LEMMA StepFits ==
  ASSUME NEW d, NEW words, NEW s, NEW f,
         d.words = {w \in words : Has(d.tables, w)},
         UpOnly(s) \/ DownOnly(s) \/ IsStamp(s), ~Refused(d, s), Rooted(d.tables),
         Fits(d.tables, words), Takers(f, words),
         Covers(d.tables, f) \/ DownOnly(s) \/ IsStamp(s)
  PROVE  Fits(Effect(d.tables, s), words)
<1> DEFINE g == d.tables
           e == Effect(g, s)
<1>1. s.do \in Verbs /\ Loose(g, s)
  BY Looses
<1>2. SUFFICES ASSUME NEW w \in words, Has(e, w) PROVE Accept(e, w)
  BY DEF Fits
<1>3. At(e, w.on) = StepOn(w.on, At(g, w.on), s)
  BY <1>1, EffectAt
<1>4. Has(g, w) => Accept(g, w) /\ w \in d.words
  BY DEF Fits
<1>5. Accept(f, w) /\ Has(f, w)
  BY AcceptHas DEF Takers
<1> HIDE DEF g, e
<1>6. CASE s.on # w.on \/ s.do = "stamp"
  <2>1. At(e, w.on) = At(g, w.on)
    BY <1>3, <1>6 DEF StepOn
  <2> QED
    BY <1>2, <1>4, <2>1, SameAccept
<1>7. CASE s.on = w.on /\ s.do = "create"
  <2>1. ~DownOnly(s) /\ ~IsStamp(s)
    BY <1>7 DEF DownOnly, IsStamp
  <2>2. s.on \in DOMAIN g
    BY <1>5, <1>7, <2>1 DEF Covers, Has, g
  <2> QED
    BY <1>1, <1>7, <2>2, Unrefused DEF g
<1>8. CASE s.on = w.on /\ s.do = "droptable"
  <2>1. At(e, w.on) = {}
    BY <1>3, <1>8 DEF StepOn
  <2> QED
    BY <1>2, <2>1 DEF Has, At
<1>9. CASE s.on = w.on /\ s.do \in {"add", "drop"}
  <2>1. At(e, w.on) = {Altered(x, s) : x \in At(g, w.on)}
    BY <1>3, <1>9 DEF StepOn
  <2>2. w.on \in DOMAIN e
    BY <1>2 DEF Has
  <2>3. w.on \in DOMAIN g /\ e[w.on] = Altered(g[w.on], s)
    BY <2>1, <2>2 DEF At
  <2> DEFINE x == g[w.on]
             y == Altered(x, s)
  <2>4. PICK c \in y : c.is = "column" /\ c.name = w.column
    BY <1>2, <2>3 DEF Has, Exists
  <2>5. CASE s.do = "add"
    <3>1. y = x \cup s.shape
      BY <2>5 DEF Altered
    <3>2. Exists(x, "column", w.column)
      <4>1. CASE c \in x
        BY <2>4, <4>1 DEF Exists
      <4>2. CASE c \in s.shape
        <5>1. ~DownOnly(s) /\ ~IsStamp(s)
          BY <2>4, <2>5, <4>2 DEF DownOnly, IsStamp
        <5>2. Covers(g, f)
          BY <5>1 DEF g
        <5>3. Exists(f[w.on], "column", w.column) /\ w.on \in DOMAIN f
          BY <1>5 DEF Has
        <5> HIDE DEF x
        <5> QED
          BY <5>2, <5>3 DEF Covers, Exists, x
      <4> QED
        BY <2>4, <3>1, <4>1, <4>2
    <3>3. Accept(g, w) /\ w \in d.words
      BY <1>4, <2>3, <3>2 DEF Has
    <3>4. ASSUME NEW o \in s.shape, o.is = "check" PROVE Allowed(w, o)
      <4>1. s.how # "unchecked"
        BY <2>5 DEF UpOnly, DownOnly, IsStamp
      <4> QED
        BY <1>1, <1>9, <2>5, <3>3, <3>4, <4>1, Unrefused
    <3> QED
      BY <2>2, <2>3, <3>1, <3>3, <3>4 DEF Accept
  <2>6. CASE s.do = "drop"
    <3>1. y \subseteq x
      BY <2>6 DEF Altered
    <3>2. Has(g, w)
      BY <2>3, <2>4, <3>1 DEF Has, Exists
    <3>3. Accept(g, w)
      BY <1>4, <3>2
    <3>4. \A o \in x : o.is = "column" /\ o.name = w.column => o \in y
      BY <2>4, <2>6, AlteredFits
    <3> HIDE DEF x, y
    <3>5. /\ \E o \in x : /\ o.is = "column" /\ o.name = w.column
                          /\ (o.width = 0 \/ Len(w.value) <= o.width)
          /\ \A o \in x : o.is = "check" => Allowed(w, o)
      BY <3>3 DEF Accept, x
    <3>6. e[w.on] = y
      BY <2>3 DEF x, y
    <3> QED
      BY <2>2, <3>1, <3>4, <3>5, <3>6 DEF Accept
  <2> QED
    BY <1>9, <2>5, <2>6
<1> QED
  BY <1>1, <1>6, <1>7, <1>8, <1>9 DEF Verbs, e

\* It keeps the keys within the tables that others refer to.
LEMMA StepRooted ==
  ASSUME NEW g, NEW s, Rooted(g), s.do \in Verbs, Loose(g, s),
         UpOnly(s) \/ DownOnly(s) \/ IsStamp(s)
  PROVE  Rooted(Effect(g, s))
<1> DEFINE e == Effect(g, s)
<1>1. SUFFICES ASSUME NEW t \in DOMAIN e, NEW o \in e[t], o.is = "fk" PROVE o.to \in Parents
  BY DEF Rooted, Targets
<1>2. At(e, t) = StepOn(t, At(g, t), s)
  BY EffectAt
<1>3. ASSUME NEW u \in DOMAIN g, NEW z \in g[u], z.is = "fk" PROVE z.to \in Parents
  BY <1>3 DEF Rooted, Targets
<1> HIDE DEF e
<1>4. At(e, t) = {e[t]}
  BY DEF At
<1>5. CASE s.on # t \/ s.do = "stamp"
  <2>1. At(e, t) = At(g, t)
    BY <1>2, <1>5 DEF StepOn
  <2>2. t \in DOMAIN g /\ g[t] = e[t]
    BY <2>1, SameAt
  <2> QED
    BY <1>1, <1>3, <2>2
<1>6. CASE s.on = t /\ s.do = "create"
  <2>1. Targets(s.shape) \subseteq Parents
    BY <1>6 DEF UpOnly, DownOnly, IsStamp
  <2>2. At(e, t) = At(g, t) \/ At(e, t) = {s.shape}
    BY <1>2, <1>6 DEF StepOn
  <2>3. CASE At(e, t) = {s.shape}
    BY <1>1, <1>4, <2>1, <2>3 DEF Targets
  <2>4. CASE At(e, t) = At(g, t)
    <3>1. t \in DOMAIN g /\ g[t] = e[t]
      BY <2>4, SameAt
    <3> QED
      BY <1>1, <1>3, <3>1
  <2> QED
    BY <2>2, <2>3, <2>4
<1>7. CASE s.on = t /\ s.do = "droptable"
  BY <1>2, <1>4, <1>7 DEF StepOn
<1>8. CASE s.on = t /\ s.do \in {"add", "drop"}
  <2>1. At(e, t) = {Altered(x, s) : x \in At(g, t)}
    BY <1>2, <1>8 DEF StepOn
  <2>2. t \in DOMAIN g /\ e[t] = Altered(g[t], s)
    BY <1>4, <2>1 DEF At
  <2>3. CASE o \in g[t]
    BY <1>1, <1>3, <2>2, <2>3
  <2>4. CASE o \notin g[t]
    <3>1. s.do = "add" /\ o \in s.shape
      BY <1>1, <1>8, <2>2, <2>4 DEF Altered
    <3>2. Targets(s.shape) \subseteq Parents
      BY <1>1, <3>1 DEF UpOnly, DownOnly, IsStamp, Targets
    <3> QED
      BY <1>1, <3>1, <3>2 DEF Targets
  <2> QED
    BY <2>3, <2>4
<1> QED
  BY <1>5, <1>6, <1>7, <1>8 DEF Verbs

\* On the way up no table and no column goes.
LEMMA StepCovers ==
  ASSUME NEW g, NEW f, NEW s, Covers(g, f), s.do \in Verbs, Loose(g, s),
         UpOnly(s) \/ IsStamp(s)
  PROVE  Covers(Effect(g, s), f)
<1> DEFINE e == Effect(g, s)
<1>1. SUFFICES ASSUME NEW t \in DOMAIN f
               PROVE  t \in DOMAIN e /\ \A o \in f[t] : o.is = "column" => o \in e[t]
  BY DEF Covers
<1>2. At(e, t) = StepOn(t, At(g, t), s)
  BY EffectAt
<1>3. t \in DOMAIN g /\ \A o \in f[t] : o.is = "column" => o \in g[t]
  BY DEF Covers
<1> HIDE DEF e
<1>4. CASE s.on # t \/ s.do \in {"stamp", "create"}
  <2>1. At(g, t) # {}
    BY <1>3 DEF At
  <2>2. At(e, t) = At(g, t)
    BY <1>2, <1>4, <2>1 DEF StepOn
  <2>3. t \in DOMAIN e /\ g[t] = e[t]
    BY <1>3, <2>2, SameAt
  <2> QED
    BY <1>3, <2>3
<1>5. CASE s.on = t /\ s.do \in {"add", "drop"}
  <2>1. At(e, t) = {Altered(x, s) : x \in At(g, t)}
    BY <1>2, <1>5 DEF StepOn
  <2>2. At(e, t) = {Altered(g[t], s)}
    BY <1>3, <2>1 DEF At
  <2>3. t \in DOMAIN e /\ e[t] = Altered(g[t], s)
    BY <2>2 DEF At
  <2>4. s.do = "add" \/ s.is = "check"
    BY <1>5 DEF UpOnly, IsStamp
  <2>5. ASSUME NEW o \in g[t], o.is = "column" PROVE o \in Altered(g[t], s)
    BY <2>4, <2>5 DEF Altered
  <2> QED
    BY <1>3, <2>3, <2>5
<1>6. s.do # "droptable"
  BY DEF UpOnly, IsStamp
<1> QED
  BY <1>4, <1>5, <1>6 DEF Verbs

-----------------------------------------------------------------------------
(* A transaction of alembic over the committed database.                   *)

Sc(p) == Script[<<p.from, p.to>>]
Sees(d, p) ==
  [t \in DOMAIN p.made \cup (DOMAIN d.tables \ p.gone) |->
     IF t \in DOMAIN p.made THEN p.made[t] ELSE d.tables[t]]

\* The tables it sees are those its statements so far make of the committed ones;
\* what it has worked on it holds.
Locked(d, p) ==
  /\ \A i \in 1..(p.at - 1) : Sc(p)[i].on \in p.held
  /\ DOMAIN p.made \subseteq p.held /\ p.gone \subseteq p.held
OnCourse(d, p) ==
  \A t : At(Sees(d, p), t) = Course(t, At(d.tables, t), Sc(p))[p.at - 1]
StampHeld(d, p) == (\E i \in 1..(p.at - 1) : Sc(p)[i].do = "stamp") => d.version = p.from
Ranges(p) ==
  /\ p.from \in Version /\ p.to \in Version /\ p.from # p.to
  /\ p.at \in 1..(Len(Sc(p)) + 1)
Climbs(d, p) == p.from < p.to => Covers(Sees(d, p), d.tables)
Sound(d, p) ==
  /\ Ranges(p)
  /\ Locked(d, p)
  /\ OnCourse(d, p)
  /\ StampHeld(d, p)
  /\ Rooted(Sees(d, p))
  /\ Fits(Sees(d, p), d.words)
  /\ Climbs(d, p)

LEMMA RangesIs ==
  ASSUME NEW p, Ranges(p)
  PROVE  /\ IsSeq(Sc(p)) /\ Len(Sc(p)) \in Nat /\ p.at \in Nat /\ p.at - 1 \in 0..Len(Sc(p))
         /\ Leads(Sc(p), p.from, p.to)
<1>1. Leads(Sc(p), p.from, p.to)
  <2>1. p.from \in Version /\ p.to \in Version /\ p.from # p.to
    BY DEF Ranges
  <2> QED
    BY <2>1, ScriptLeads DEF Sc
<1>2. IsSeq(Sc(p))
  BY <1>1 DEF Leads
<1>3. Len(Sc(p)) \in Nat
  BY <1>2 DEF IsSeq
<1>4. p.at \in 1..(Len(Sc(p)) + 1)
  BY DEF Ranges
<1> QED
  BY <1>1, <1>2, <1>3, <1>4

\* A table that the transaction does not hold looks as it is committed.
LEMMA NotHeld ==
  ASSUME NEW d, NEW p, Ranges(p), Locked(d, p), NEW t, t \notin p.held
  PROVE  /\ \A o : Course(t, o, Sc(p))[p.at - 1] = o
         /\ At(Sees(d, p), t) = At(d.tables, t)
<1> DEFINE ss == Sc(p)
           n == p.at - 1
<1>1. IsSeq(ss) /\ n \in 0..Len(ss)
  BY RangesIs
<1>2. \A k \in 1..n : ss[k].on # t
  BY DEF Locked
<1> HIDE DEF ss, n
<1>3. ASSUME NEW o PROVE Course(t, o, ss)[n] = o
  BY <1>1, <1>2, CourseRests
<1>4. t \notin DOMAIN p.made /\ t \notin p.gone
  BY DEF Locked
<1>5. At(Sees(d, p), t) = At(d.tables, t)
  BY <1>4 DEF At, Sees
<1> QED
  BY <1>3, <1>5 DEF ss, n

\* A transaction that begins.
LEMMA Begun ==
  ASSUME NEW d, NEW p, p.from \in Version, p.to \in Version, p.from # p.to,
         p.at = 1, p.made = None, p.gone = {}, IsTables(d.tables),
         Rooted(d.tables), Takers(d.tables, d.words)
  PROVE  Sound(d, p)
<1>1. DOMAIN p.made = {}
  BY DEF None
<1>2. Sees(d, p) = d.tables
  BY <1>1 DEF Sees, IsTables
<1>3. Ranges(p)
  <2>1. Leads(Sc(p), p.from, p.to)
    BY ScriptLeads DEF Sc
  <2>2. Len(Sc(p)) \in Nat
    BY <2>1 DEF Leads, IsSeq
  <2> QED
    BY <2>2 DEF Ranges
<1>4. Locked(d, p)
  BY <1>1 DEF Locked
<1>5. OnCourse(d, p)
  <2>1. IsSeq(Sc(p))
    BY <1>3, RangesIs
  <2>2. ASSUME NEW t PROVE At(d.tables, t) = Course(t, At(d.tables, t), Sc(p))[p.at - 1]
    <3>1. IsCourse(Course(t, At(d.tables, t), Sc(p)), t, At(d.tables, t), Sc(p))
      BY <2>1, CourseExists DEF IsSeq
    <3>2. p.at - 1 = 0
      OBVIOUS
    <3> QED
      BY <3>1, <3>2 DEF IsCourse
  <2> QED
    BY <1>2, <2>2 DEF OnCourse
<1>6. StampHeld(d, p)
  BY DEF StampHeld
<1>7. Fits(Sees(d, p), d.words)
  BY <1>2 DEF Fits, Takers
<1>8. Climbs(d, p)
  BY <1>2 DEF Climbs, Covers
<1> QED
  BY <1>2, <1>3, <1>4, <1>5, <1>6, <1>7, <1>8 DEF Sound

\* What a transaction sees after a statement is what the statement makes of what
\* it saw.
LEMMA SeesNext ==
  ASSUME NEW d, NEW p, NEW q, NEW after, IsTables(after),
         q.made = [t \in {u \in DOMAIN after : u \in DOMAIN d.tables => after[u] # d.tables[u]}
                     |-> after[t]],
         q.gone = DOMAIN d.tables \ DOMAIN after
  PROVE  Sees(d, q) = after
<1> DEFINE C == {u \in DOMAIN after : u \in DOMAIN d.tables => after[u] # d.tables[u]}
<1>1. DOMAIN q.made = C /\ \A t \in C : q.made[t] = after[t]
  OBVIOUS
<1>2. C \cup (DOMAIN d.tables \ q.gone) = DOMAIN after
  OBVIOUS
<1>3. \A t \in DOMAIN after : t \notin C => t \in DOMAIN d.tables /\ d.tables[t] = after[t]
  OBVIOUS
<1> HIDE DEF C
<1>4. Sees(d, q) = [t \in DOMAIN after |-> IF t \in C THEN q.made[t] ELSE d.tables[t]]
  BY <1>1, <1>2 DEF Sees
<1>5. \A t \in DOMAIN after : (IF t \in C THEN q.made[t] ELSE d.tables[t]) = after[t]
  BY <1>1, <1>3
<1>6. Sees(d, q) = [t \in DOMAIN after |-> after[t]]
  BY <1>4, <1>5
<1> QED
  BY <1>6 DEF IsTables

\* A statement that is not refused.
LEMMA Executed ==
  ASSUME NEW d, NEW p, NEW q, NEW v, NEW s, Sound(d, p), Takers(d.tables, d.words),
         p.at <= Len(Sc(p)), s = Sc(p)[p.at],
         v.tables = Sees(d, p), v.words = {w \in d.words : Has(Sees(d, p), w)},
         s.do = "stamp" /\ (\A i \in 1..(p.at - 1) : Sc(p)[i].do # "stamp")
           => v.version = d.version,
         ~Refused(v, s),
         q.from = p.from, q.to = p.to, q.at = p.at + 1,
         q.made = [t \in {u \in DOMAIN Effect(v.tables, s) :
                            u \in DOMAIN d.tables
                              => Effect(v.tables, s)[u] # d.tables[u]}
                     |-> Effect(v.tables, s)[t]],
         q.gone = DOMAIN d.tables \ DOMAIN Effect(v.tables, s),
         p.held \subseteq q.held, s.on \in q.held
  PROVE  Sound(d, q)
<1> DEFINE g == Sees(d, p)
           after == Effect(g, s)
           ss == Sc(p)
           n == p.at
<1>1. /\ Ranges(p) /\ Locked(d, p) /\ OnCourse(d, p) /\ StampHeld(d, p) /\ Rooted(g)
      /\ Fits(g, d.words) /\ Climbs(d, p)
  BY DEF Sound
<1>2. /\ IsSeq(ss) /\ Len(ss) \in Nat /\ n \in Nat /\ n - 1 \in 0..Len(ss) /\ n \in 1..Len(ss)
      /\ Leads(ss, p.from, p.to)
  BY <1>1, RangesIs DEF Ranges
<1>3. /\ p.from < p.to => UpOnly(s) \/ IsStamp(s)
      /\ p.to < p.from => DownOnly(s) \/ IsStamp(s)
      /\ s.do = "stamp" /\ (\A j \in 1..(n - 1) : ss[j].do # "stamp") => s.from = p.from
  BY <1>2 DEF Leads
<1>4. p.from < p.to \/ p.to < p.from
  BY <1>1 DEF Ranges, Version
<1>5. UpOnly(s) \/ DownOnly(s) \/ IsStamp(s)
  BY <1>3, <1>4
<1>6. v.tables = g
  OBVIOUS
<1>7. s.do \in Verbs /\ Loose(g, s)
  BY <1>1, <1>5, <1>6, Looses
<1>8. Sc(q) = ss
  BY DEF Sc
<1>9. Sees(d, q) = after
  <2>1. IsTables(g)
    BY DEF Sees, IsTables
  <2>2. IsTables(after)
    BY <1>7, <2>1, EffectIsTables
  <2> HIDE DEF g
  <2> QED
    BY <1>6, <2>2, SeesNext
<1>10. \A t : At(after, t) = StepOn(t, At(g, t), s)
  BY <1>7, EffectAt
<1>11. Ranges(q)
  BY <1>1, <1>2, <1>8 DEF Ranges
<1>12. \A i \in 1..n : ss[i].on \in q.held
  <2>1. ASSUME NEW i \in 1..n PROVE ss[i].on \in q.held
    <3>1. i \in 1..(n - 1) \/ i = n
      BY <1>2
    <3>2. CASE i \in 1..(n - 1)
      BY <1>1, <3>2 DEF Locked
    <3>3. CASE i = n
      BY <3>3
    <3> QED
      BY <3>1, <3>2, <3>3
  <2> QED
    BY <2>1
<1>13. Locked(d, q)
  <2>1. ASSUME NEW t, t \notin q.held PROVE At(after, t) = At(d.tables, t)
    <3>1. t \notin p.held /\ s.on # t
      BY <2>1
    <3>2. At(g, t) = At(d.tables, t)
      BY <1>1, <3>1, NotHeld
    <3>3. At(after, t) = At(g, t)
      BY <1>10, <3>1 DEF StepOn
    <3> QED
      BY <3>2, <3>3
  <2> HIDE DEF after
  <2>2. ASSUME NEW t \in DOMAIN q.made PROVE t \in q.held
    <3>1. t \in DOMAIN after /\ (t \in DOMAIN d.tables => after[t] # d.tables[t])
      BY <1>6 DEF after
    <3>2. At(after, t) # At(d.tables, t)
      BY <3>1, SameAt
    <3> QED
      BY <2>1, <3>2
  <2>3. ASSUME NEW t \in q.gone PROVE t \in q.held
    <3>1. t \notin DOMAIN after /\ t \in DOMAIN d.tables
      BY <1>6 DEF after
    <3>2. At(after, t) # At(d.tables, t)
      BY <3>1, SameAt
    <3> QED
      BY <2>1, <3>2
  <2>4. q.at - 1 = n
    BY <1>2
  <2> QED
    BY <1>8, <1>12, <2>2, <2>3, <2>4 DEF Locked
<1>14. OnCourse(d, q)
  <2>1. ASSUME NEW t PROVE At(after, t) = Course(t, At(d.tables, t), ss)[n]
    <3> DEFINE h == Course(t, At(d.tables, t), ss)
    <3>1. IsCourse(h, t, At(d.tables, t), ss)
      BY <1>2, CourseExists DEF IsSeq
    <3> HIDE DEF ss, h, after, g, n
    <3>2. h[n] = StepOn(t, h[n - 1], ss[n])
      BY <1>2, <3>1 DEF IsCourse, Follows
    <3>3. At(g, t) = h[n - 1]
      BY <1>1 DEF OnCourse, h, g, n, ss
    <3>4. s = ss[n]
      BY DEF ss, n
    <3> QED
      BY <1>10, <3>2, <3>3, <3>4 DEF h
  <2>2. q.at - 1 = n
    BY <1>2
  <2> HIDE DEF after, ss, n
  <2> QED
    BY <1>8, <1>9, <2>1, <2>2 DEF OnCourse
<1>15. StampHeld(d, q)
  <2>1. SUFFICES ASSUME NEW i \in 1..(q.at - 1), ss[i].do = "stamp" PROVE d.version = p.from
    BY <1>8 DEF StampHeld
  <2>2. CASE \E j \in 1..(n - 1) : ss[j].do = "stamp"
    BY <1>1, <2>2 DEF StampHeld
  <2>3. CASE \A j \in 1..(n - 1) : ss[j].do # "stamp"
    <3>1. i = n
      BY <1>2, <2>1, <2>3
    <3>2. s.do = "stamp" /\ s.from = p.from
      BY <1>3, <2>1, <2>3, <3>1
    <3>3. v.version = d.version
      BY <2>3, <3>2
    <3>4. v.version = s.from
      BY <1>7, <3>2, Unrefused
    <3> QED
      BY <3>2, <3>3, <3>4
  <2> QED
    BY <2>2, <2>3
<1>16. Rooted(after)
  BY <1>1, <1>5, <1>7, StepRooted
<1>17. Fits(after, d.words)
  <2>1. Covers(g, d.tables) \/ DownOnly(s) \/ IsStamp(s)
    BY <1>1, <1>3, <1>4 DEF Climbs
  <2>2. Fits(Effect(v.tables, s), d.words)
    <3> HIDE DEF g
    <3>1. Fits(v.tables, d.words) /\ Rooted(v.tables) /\ v.words = {w \in d.words : Has(v.tables, w)}
      BY <1>1, <1>6 DEF g
    <3>2. Covers(v.tables, d.tables) \/ DownOnly(s) \/ IsStamp(s)
      BY <1>6, <2>1
    <3> QED
      BY <1>5, <3>1, <3>2, StepFits
  <2> QED
    BY <1>6, <2>2
<1>18. Climbs(d, q)
  <2>1. CASE p.from < p.to
    <3>1. UpOnly(s) \/ IsStamp(s)
      BY <1>3, <2>1
    <3>2. Covers(g, d.tables)
      BY <1>1, <2>1 DEF Climbs
    <3>3. Covers(after, d.tables)
      BY <1>7, <3>1, <3>2, StepCovers
    <3> HIDE DEF after
    <3> QED
      BY <1>9, <3>3 DEF Climbs
  <2>2. CASE ~(p.from < p.to)
    BY <2>2 DEF Climbs
  <2> QED
    BY <2>1, <2>2
<1> HIDE DEF after
<1> QED
  BY <1>9, <1>11, <1>13, <1>14, <1>15, <1>16, <1>17, <1>18 DEF Sound

LEMMA SameTransaction ==
  ASSUME NEW d, NEW p, NEW q, Sound(d, p), q.from = p.from, q.to = p.to, q.at = p.at,
         q.made = p.made, q.gone = p.gone, q.held = p.held
  PROVE  Sound(d, q)
<1>1. Sc(q) = Sc(p) /\ Sees(d, q) = Sees(d, p)
  BY DEF Sc, Sees
<1>2. /\ Ranges(p) /\ Locked(d, p) /\ OnCourse(d, p) /\ StampHeld(d, p)
      /\ Rooted(Sees(d, p)) /\ Fits(Sees(d, p), d.words) /\ Climbs(d, p)
  BY DEF Sound
<1>3. Ranges(q)
  BY <1>1, <1>2 DEF Ranges
<1>4. Locked(d, q)
  BY <1>1, <1>2 DEF Locked
<1>5. OnCourse(d, q)
  BY <1>1, <1>2 DEF OnCourse
<1>6. StampHeld(d, q)
  BY <1>1, <1>2 DEF StampHeld
<1>7. Climbs(d, q)
  BY <1>1, <1>2 DEF Climbs
<1> QED
  BY <1>1, <1>2, <1>3, <1>4, <1>5, <1>6, <1>7 DEF Sound

\* The last statement has stamped the goal, and the tables are those of the goal.
LEMMA Finished ==
  ASSUME NEW d, NEW p, Sound(d, p), d.tables = Revision[d.version],
         ~(p.at <= Len(Sc(p)))
  PROVE  /\ Sees(d, p) = Revision[p.to]
         /\ p.at - 1 \in 1..(p.at - 1) /\ IsStamp(Sc(p)[p.at - 1])
         /\ Sc(p)[p.at - 1].to = p.to
<1>1. Ranges(p) /\ OnCourse(d, p) /\ StampHeld(d, p)
  BY DEF Sound
<1> DEFINE ss == Sc(p)
           n == p.at - 1
<1>2. /\ IsSeq(ss) /\ Len(ss) \in Nat /\ p.at \in Nat /\ n \in 0..Len(ss)
      /\ Leads(ss, p.from, p.to)
  BY <1>1, RangesIs
<1>3. n = Len(ss) /\ Len(ss) >= 1 /\ IsStamp(ss[Len(ss)]) /\ ss[Len(ss)].to = p.to
  BY <1>2 DEF Leads
<1>4. n \in 1..n
  BY <1>2, <1>3
<1>5. d.version = p.from
  <2>1. \E i \in 1..n : ss[i].do = "stamp"
    BY <1>3, <1>4 DEF IsStamp
  <2> QED
    BY <1>1, <2>1 DEF StampHeld
<1>6. p.from \in Version /\ p.to \in Version /\ p.from # p.to
  BY <1>1 DEF Ranges
<1>7. Takes(p.from, ss, p.to)
  BY <1>6, ScriptTakes DEF Sc
<1>8. ASSUME NEW t PROVE At(Sees(d, p), t) = At(Revision[p.to], t)
  <2>1. At(Sees(d, p), t) = Course(t, At(d.tables, t), ss)[n]
    BY <1>1 DEF OnCourse
  <2>2. At(Sees(d, p), t) = End(t, At(Revision[p.from], t), ss)
    BY <1>3, <1>5, <2>1 DEF End
  <2> QED
    BY <1>7, <2>2 DEF Takes
<1>9. IsTables(Sees(d, p))
  BY DEF Sees, IsTables
<1>10. IsTables(Revision[p.to])
  BY <1>6, RevisionIs
<1>11. Sees(d, p) = Revision[p.to]
  BY <1>8, <1>9, <1>10, SameTables
<1> QED
  BY <1>3, <1>4, <1>11

\* What another transaction commits.
LEMMA OtherCommits ==
  ASSUME NEW d, NEW e, NEW p, NEW q, Sound(d, p), Sound(d, q), p.held \cap q.held = {},
         e.tables = Sees(d, q), e.words = {w \in d.words : Has(Sees(d, q), w)},
         "alembic_version" \in q.held
  PROVE  Sound(e, p)
<1>1. /\ Ranges(p) /\ Locked(d, p) /\ OnCourse(d, p) /\ StampHeld(d, p)
      /\ Rooted(Sees(d, p)) /\ Fits(Sees(d, p), d.words) /\ Climbs(d, p)
  BY DEF Sound
<1>2. /\ Ranges(q) /\ Locked(d, q) /\ Rooted(Sees(d, q)) /\ Fits(Sees(d, q), d.words)
  BY DEF Sound
<1>3. Locked(e, p)
  BY <1>1 DEF Locked
<1>4. ASSUME NEW t \in p.held
      PROVE  At(e.tables, t) = At(d.tables, t) /\ At(Sees(e, p), t) = At(Sees(d, p), t)
  <2>1. t \notin q.held
    OBVIOUS
  <2>2. At(e.tables, t) = At(d.tables, t)
    BY <1>2, <2>1, NotHeld
  <2>3. (t \in DOMAIN e.tables <=> t \in DOMAIN d.tables)
        /\ (t \in DOMAIN e.tables => e.tables[t] = d.tables[t])
    BY <2>2, SameAt
  <2>4. At(Sees(e, p), t) = At(Sees(d, p), t)
    <3>1. t \in DOMAIN Sees(e, p) <=> t \in DOMAIN Sees(d, p)
      BY <2>3 DEF Sees
    <3>2. t \in DOMAIN Sees(e, p) => Sees(e, p)[t] = Sees(d, p)[t]
      BY <2>3, <3>1 DEF Sees
    <3> QED
      BY <3>1, <3>2 DEF At
  <2> QED
    BY <2>2, <2>4
<1>5. ASSUME NEW t, t \notin p.held
      PROVE  /\ At(Sees(e, p), t) = At(e.tables, t)
             /\ \A o : Course(t, o, Sc(p))[p.at - 1] = o
  BY <1>1, <1>3, <1>5, NotHeld
<1>6. OnCourse(e, p)
  <2>1. ASSUME NEW t PROVE At(Sees(e, p), t) = Course(t, At(e.tables, t), Sc(p))[p.at - 1]
    <3>1. CASE t \in p.held
      BY <1>1, <1>4, <3>1 DEF OnCourse
    <3>2. CASE t \notin p.held
      BY <1>5, <3>2
    <3> QED
      BY <3>1, <3>2
  <2> QED
    BY <2>1 DEF OnCourse
<1>7. StampHeld(e, p)
  <2>1. SUFFICES ASSUME NEW i \in 1..(p.at - 1), Sc(p)[i].do = "stamp" PROVE FALSE
    BY DEF StampHeld
  <2>2. Sc(p)[i].on \in p.held
    BY <1>1 DEF Locked
  <2>3. Sc(p)[i].on = "alembic_version"
    <3>1. Leads(Sc(p), p.from, p.to) /\ i \in 1..Len(Sc(p))
      BY <1>1, RangesIs
    <3> QED
      BY <2>1, <3>1 DEF Leads, IsStamp
  <2> QED
    BY <2>2, <2>3
<1>8. Rooted(Sees(e, p))
  <2>1. SUFFICES ASSUME NEW t \in DOMAIN Sees(e, p) PROVE Targets(Sees(e, p)[t]) \subseteq Parents
    BY DEF Rooted
  <2>2. CASE t \in p.held
    <3>1. t \in DOMAIN Sees(d, p) /\ Sees(e, p)[t] = Sees(d, p)[t]
      BY <1>4, <2>2, SameAt
    <3> QED
      BY <1>1, <3>1 DEF Rooted
  <2>3. CASE t \notin p.held
    <3>1. t \in DOMAIN e.tables /\ Sees(e, p)[t] = e.tables[t]
      BY <1>5, <2>3, SameAt
    <3> QED
      BY <1>2, <3>1 DEF Rooted
  <2> QED
    BY <2>2, <2>3
<1>9. Fits(Sees(e, p), e.words)
  <2>1. SUFFICES ASSUME NEW w \in e.words, Has(Sees(e, p), w) PROVE Accept(Sees(e, p), w)
    BY DEF Fits
  <2>2. w \in d.words /\ Has(Sees(d, q), w)
    OBVIOUS
  <2>3. CASE w.on \in p.held
    <3>1. At(Sees(e, p), w.on) = At(Sees(d, p), w.on)
      BY <1>4, <2>3
    <3> QED
      BY <1>1, <2>1, <2>2, <3>1, SameAccept DEF Fits
  <2>4. CASE w.on \notin p.held
    <3>1. At(Sees(e, p), w.on) = At(Sees(d, q), w.on)
      BY <1>5, <2>4
    <3>2. Accept(Sees(d, q), w)
      BY <1>2, <2>2 DEF Fits
    <3> QED
      BY <3>1, <3>2, SameAccept
  <2> QED
    BY <2>3, <2>4
<1>10. Climbs(e, p)
  <2>1. SUFFICES ASSUME p.from < p.to, NEW t \in DOMAIN e.tables
                 PROVE  t \in DOMAIN Sees(e, p)
                        /\ \A o \in e.tables[t] : o.is = "column" => o \in Sees(e, p)[t]
    BY DEF Climbs, Covers
  <2>2. CASE t \in p.held
    <3>1. t \in DOMAIN d.tables /\ d.tables[t] = e.tables[t]
      BY <1>4, <2>2, SameAt
    <3>2. /\ t \in DOMAIN Sees(e, p) <=> t \in DOMAIN Sees(d, p)
          /\ t \in DOMAIN Sees(e, p) => Sees(e, p)[t] = Sees(d, p)[t]
      BY <1>4, <2>2, SameAt
    <3>3. Covers(Sees(d, p), d.tables)
      BY <1>1, <2>1 DEF Climbs
    <3> QED
      BY <3>1, <3>2, <3>3 DEF Covers
  <2>3. CASE t \notin p.held
    <3>1. t \in DOMAIN Sees(e, p) /\ Sees(e, p)[t] = e.tables[t]
      BY <1>5, <2>3, SameAt
    <3> QED
      BY <3>1
  <2> QED
    BY <2>2, <2>3
<1> QED
  BY <1>1, <1>3, <1>6, <1>7, <1>8, <1>9, <1>10 DEF Sound

\* What a handler writes into a table that the transaction does not hold.
LEMMA WordStored ==
  ASSUME NEW d, NEW e, NEW p, NEW x, Sound(d, p), e.tables = d.tables, e.version = d.version,
         e.words \subseteq d.words \cup {x}, x.on \notin p.held, Accept(d.tables, x)
  PROVE  Sound(e, p)
<1>1. /\ Ranges(p) /\ Locked(d, p) /\ OnCourse(d, p) /\ StampHeld(d, p)
      /\ Rooted(Sees(d, p)) /\ Fits(Sees(d, p), d.words) /\ Climbs(d, p)
  BY DEF Sound
<1>2. Sees(e, p) = Sees(d, p)
  BY DEF Sees
<1>3. Locked(e, p)
  BY <1>1 DEF Locked
<1>4. OnCourse(e, p)
  BY <1>1, <1>2 DEF OnCourse
<1>5. StampHeld(e, p)
  BY <1>1 DEF StampHeld
<1>6. Accept(Sees(d, p), x)
  <2>1. At(Sees(d, p), x.on) = At(d.tables, x.on)
    BY <1>1, NotHeld
  <2> QED
    BY <2>1, SameAccept
<1>7. Fits(Sees(e, p), e.words)
  BY <1>1, <1>2, <1>6 DEF Fits
<1>8. Climbs(e, p)
  BY <1>1, <1>2 DEF Climbs
<1> QED
  BY <1>1, <1>2, <1>3, <1>4, <1>5, <1>7, <1>8 DEF Sound

-----------------------------------------------------------------------------
(* The invariant of the database and its transactions.                     *)

DbOK(d) ==
  /\ DOMAIN d = {"tables", "words", "version"}
  /\ d.version \in Version
  /\ d.words \subseteq Written
  /\ d.tables = Revision[d.version]
  /\ Rooted(d.tables)
  /\ Takers(d.tables, d.words)
RunOK(p) ==
  /\ DOMAIN p = {"step", "from", "to", "at", "alone", "made", "gone", "held"}
  /\ p.step \in {"idle", "on", "refused"}
  /\ p.from \in Version /\ p.to \in Version
  /\ p.at \in 1..(Len(Sc(p)) + 1)
  /\ p.step # "on" => p.held = {}
SchemaInv ==
  /\ DbOK(db)
  /\ DOMAIN run = Run
  /\ \A r \in Run : RunOK(run[r]) /\ (On(r) => Sound(db, run[r]))
  /\ \A q, r \in Run : q # r => run[q].held \cap run[r].held = {}

LEMMA IdleIs ==
  /\ RunOK(Idle) /\ Idle.step = "idle" /\ Idle.held = {}
  /\ RunOK([Idle EXCEPT !.step = "refused"])
  /\ [Idle EXCEPT !.step = "refused"].step = "refused"
  /\ [Idle EXCEPT !.step = "refused"].held = {}
<1>1. 0 \in Version /\ Script[<<0, 0>>] = <<>>
  BY Scripts DEF Version
<1>2. 1 \in 1..(Len(<<>>) + 1)
  OBVIOUS
<1> DEFINE p == [Idle EXCEPT !.step = "refused"]
<1>3. /\ DOMAIN Idle = {"step", "from", "to", "at", "alone", "made", "gone", "held"}
      /\ Idle.step = "idle" /\ Idle.from = 0 /\ Idle.to = 0 /\ Idle.at = 1 /\ Idle.held = {}
  BY DEF Idle
<1>4. /\ DOMAIN p = {"step", "from", "to", "at", "alone", "made", "gone", "held"}
      /\ p.step = "refused" /\ p.from = 0 /\ p.to = 0 /\ p.at = 1 /\ p.held = {}
  BY DEF Idle
<1> HIDE DEF p
<1>5. RunOK(Idle)
  BY <1>1, <1>2, <1>3 DEF RunOK, Sc
<1>6. RunOK(p)
  BY <1>1, <1>2, <1>4 DEF RunOK, Sc
<1> QED
  BY <1>3, <1>4, <1>5, <1>6 DEF p

LEMMA ViewIs ==
  ASSUME NEW r \in Run
  PROVE  /\ View(r).tables = Sees(db, run[r])
         /\ View(r).words = {w \in db.words : Has(Sees(db, run[r]), w)}
         /\ View(r).version =
              LET stamps == {i \in 1..(run[r].at - 1) : Sc(run[r])[i].do = "stamp"}
              IN  IF stamps = {} THEN db.version ELSE Sc(run[r])[Max(stamps)].to
         /\ DOMAIN View(r) = {"tables", "words", "version"}
BY DEF View, Sees, Has, Statements, Sc

LEMMA InitInv == SchemaInit => SchemaInv
<1> SUFFICES ASSUME SchemaInit PROVE SchemaInv
  OBVIOUS
<1>1. /\ DOMAIN db = {"tables", "words", "version"} /\ db.tables = None /\ db.words = {}
      /\ db.version = 0
  BY DEF SchemaInit
<1>2. DOMAIN None = {} /\ IsTables(None)
  BY DEF None, IsTables
<1>3. 0 \in Version
  BY DEF Version
<1>4. Revision[0] = None
  <2>1. At(Revision[0], "") = {} /\ \A t : At(Revision[0], t) = At(None, t)
    BY <1>2, RevisionNone DEF At
  <2>2. IsTables(Revision[0])
    BY <1>3, RevisionIs
  <2> QED
    BY <1>2, <2>1, <2>2, SameTables
<1>5. DbOK(db)
  BY <1>1, <1>2, <1>3, <1>4 DEF DbOK, Rooted, Takers
<1>6. DOMAIN run = Run /\ \A r \in Run : run[r] = Idle
  BY DEF SchemaInit
<1> QED
  BY <1>5, <1>6, IdleIs DEF SchemaInv, On

\* One transaction goes on; the database stays.
LEMMA OneRuns ==
  ASSUME SchemaInv, UNCHANGED db, NEW r \in Run, NEW p,
         run' = [run EXCEPT ![r] = p], RunOK(p), p.step = "on" => Sound(db, p),
         \A q \in Run : q # r => run[q].held \cap p.held = {}
  PROVE  SchemaInv'
<1>1. DOMAIN run' = Run /\ run'[r] = p /\ \A q \in Run : q # r => run'[q] = run[q]
  BY DEF SchemaInv
<1>2. ASSUME NEW q \in Run PROVE RunOK(run'[q]) /\ (run'[q].step = "on" => Sound(db', run'[q]))
  <2>1. RunOK(run[q]) /\ (run[q].step = "on" => Sound(db, run[q]))
    BY DEF SchemaInv, On
  <2> QED
    BY <1>1, <2>1
<1>3. ASSUME NEW q \in Run, NEW z \in Run, q # z PROVE run'[q].held \cap run'[z].held = {}
  <2>1. run[q].held \cap run[z].held = {}
    BY <1>3 DEF SchemaInv
  <2>2. CASE q = r
    <3>1. z # r /\ run[z].held \cap p.held = {}
      BY <1>3, <2>2
    <3> QED
      BY <1>1, <2>2, <3>1
  <2>3. CASE z = r
    <3>1. q # r /\ run[q].held \cap p.held = {}
      BY <1>3, <2>3
    <3> QED
      BY <1>1, <2>3, <3>1
  <2>4. CASE q # r /\ z # r
    BY <1>1, <2>1, <2>4
  <2> QED
    BY <2>2, <2>3, <2>4
<1>4. DbOK(db')
  BY DEF SchemaInv
<1> QED
  BY <1>1, <1>2, <1>3, <1>4 DEF SchemaInv, On

LEMMA BeginInv ==
  ASSUME SchemaInv, NEW r \in Run, NEW goal \in Goals, Begin(r, goal)
  PROVE  SchemaInv'
<1> DEFINE lone == {q \in Run : On(q)} = {}
           p == [Idle EXCEPT !.step = "on", !.from = db.version, !.to = goal, !.alone = lone]
<1>1. /\ UNCHANGED db /\ goal # db.version /\ ~On(r)
      /\ run' = [q \in Run |-> IF q = r THEN p ELSE [run[q] EXCEPT !.alone = FALSE]]
  BY DEF Begin
<1>2. /\ DOMAIN p = {"step", "from", "to", "at", "alone", "made", "gone", "held"}
      /\ p.step = "on" /\ p.from = db.version /\ p.to = goal /\ p.at = 1 /\ p.made = None
      /\ p.gone = {} /\ p.held = {}
  BY DEF Idle
<1>3. /\ DbOK(db) /\ goal \in Version
  BY SchemaGoals DEF SchemaInv
<1> HIDE DEF p
<1>4. Sound(db, p) /\ RunOK(p)
  <2>1. /\ db.version \in Version /\ Rooted(db.tables) /\ Takers(db.tables, db.words)
        /\ db.tables = Revision[db.version]
    BY <1>3 DEF DbOK
  <2>2. IsTables(db.tables)
    BY <2>1, RevisionIs
  <2>3. p.from \in Version /\ p.to \in Version /\ p.from # p.to
    BY <1>1, <1>2, <1>3, <2>1
  <2>4. Sound(db, p)
    BY <1>2, <2>1, <2>2, <2>3, Begun
  <2>5. RunOK(p)
    BY <1>2, <2>3, <2>4 DEF RunOK, Sound, Ranges
  <2> QED
    BY <2>4, <2>5
<1>5. DOMAIN run' = Run /\ run'[r] = p
  BY <1>1
<1>6. ASSUME NEW q \in Run, q # r
      PROVE  /\ RunOK(run'[q]) /\ (run'[q].step = "on" => Sound(db, run'[q]))
             /\ run'[q].held = run[q].held
  <2>1. RunOK(run[q]) /\ (run[q].step = "on" => Sound(db, run[q]))
    BY DEF SchemaInv, On
  <2> DEFINE z == run[q]
             y == [z EXCEPT !.alone = FALSE]
  <2>2. run'[q] = y
    BY <1>1, <1>6
  <2>3. /\ DOMAIN y = DOMAIN z /\ y.step = z.step /\ y.from = z.from /\ y.to = z.to
        /\ y.at = z.at /\ y.made = z.made /\ y.gone = z.gone /\ y.held = z.held
    BY <2>1 DEF RunOK
  <2> HIDE DEF y, z
  <2>4. RunOK(z) /\ (z.step = "on" => Sound(db, z))
    BY <2>1 DEF z
  <2>5. RunOK(y)
    BY <2>3, <2>4 DEF RunOK, Sc
  <2>6. y.step = "on" => Sound(db, y)
    BY <2>3, <2>4, SameTransaction
  <2> QED
    BY <2>2, <2>3, <2>5, <2>6 DEF z
<1>7. ASSUME NEW q \in Run, NEW z \in Run, q # z PROVE run'[q].held \cap run'[z].held = {}
  <2>1. run[q].held \cap run[z].held = {}
    BY <1>7 DEF SchemaInv
  <2>2. (q = r => run'[q].held = {}) /\ (z = r => run'[z].held = {})
    BY <1>2, <1>5
  <2> QED
    BY <1>6, <2>1, <2>2
<1>8. ASSUME NEW q \in Run PROVE RunOK(run'[q]) /\ (run'[q].step = "on" => Sound(db', run'[q]))
  BY <1>1, <1>4, <1>5, <1>6
<1> QED
  BY <1>1, <1>3, <1>5, <1>7, <1>8 DEF SchemaInv, On

LEMMA ExecuteInv ==
  ASSUME SchemaInv, NEW r \in Run, Execute(r)
  PROVE  SchemaInv'
<1> DEFINE p == run[r]
           s == Sc(p)[p.at]
           v == View(r)
           after == Effect(v.tables, s)
           changed == {t \in DOMAIN after : t \in DOMAIN db.tables => after[t] # db.tables[t]}
           L == Locks(s)
           z == [p EXCEPT !.at = p.at + 1, !.made = [t \in changed |-> after[t]],
                          !.gone = DOMAIN db.tables \ DOMAIN after,
                          !.held = p.held \cup L]
<1>1. UNCHANGED db /\ p.step = "on" /\ p.at <= Len(Sc(p))
  BY DEF Execute, HasNext, On, Statements, Sc
<1>2. run' = [run EXCEPT ![r] = IF Refused(v, s) THEN [Idle EXCEPT !.step = "refused"] ELSE z]
  BY DEF Execute, Statement, Statements, Sc
<1>3. \A q \in Run : q # r => run[q].held \cap L = {}
  BY DEF Execute, Blocks, Statement, Statements, Sc
<1>4. /\ RunOK(p) /\ Sound(db, p) /\ DbOK(db)
      /\ \A q \in Run : q # r => run[q].held \cap p.held = {}
  BY <1>1 DEF SchemaInv, On
<1>5. s.on \in L
  BY DEF Locks
<1>6. /\ DOMAIN z = {"step", "from", "to", "at", "alone", "made", "gone", "held"}
      /\ z.step = "on" /\ z.from = p.from /\ z.to = p.to /\ z.at = p.at + 1
      /\ z.made = [t \in changed |-> after[t]] /\ z.gone = DOMAIN db.tables \ DOMAIN after
      /\ z.held = p.held \cup L
  BY <1>1, <1>4 DEF RunOK
<1>7. CASE Refused(v, s)
  <2> DEFINE y == [Idle EXCEPT !.step = "refused"]
  <2>1. run' = [run EXCEPT ![r] = y]
    BY <1>2, <1>7
  <2>2. RunOK(y) /\ y.step # "on" /\ y.held = {}
    BY IdleIs
  <2> HIDE DEF y, p, s, v, L, z, after, changed
  <2>3. \A q \in Run : q # r => run[q].held \cap y.held = {}
    BY <2>2
  <2> QED
    BY <1>1, <2>1, <2>2, <2>3, OneRuns
<1>8. CASE ~Refused(v, s)
  <2>1. run' = [run EXCEPT ![r] = z]
    BY <1>2, <1>8
  <2>2. /\ v.tables = Sees(db, p) /\ v.words = {w \in db.words : Has(Sees(db, p), w)}
        /\ v.version = LET stamps == {i \in 1..(p.at - 1) : Sc(p)[i].do = "stamp"}
                       IN  IF stamps = {} THEN db.version ELSE Sc(p)[Max(stamps)].to
    BY ViewIs
  <2>3. s.do = "stamp" /\ (\A i \in 1..(p.at - 1) : Sc(p)[i].do # "stamp")
          => v.version = db.version
    BY <2>2
  <2>4. Takers(db.tables, db.words)
    BY <1>4 DEF DbOK
  <2>5. p.held \subseteq z.held /\ s.on \in z.held
    BY <1>5, <1>6
  <2>6. s = Sc(p)[p.at]
    OBVIOUS
  <2>7. /\ z.made = [t \in {u \in DOMAIN Effect(v.tables, s) :
                              u \in DOMAIN db.tables
                                => Effect(v.tables, s)[u] # db.tables[u]}
                       |-> Effect(v.tables, s)[t]]
        /\ z.gone = DOMAIN db.tables \ DOMAIN Effect(v.tables, s)
    BY <1>6
  <2> HIDE DEF p, s, v, L, z, after, changed
  <2>8. Sound(db, z)
    <3>1. v.tables = Sees(db, p) /\ v.words = {w \in db.words : Has(Sees(db, p), w)}
      BY <2>2
    <3> QED
      BY <1>1, <1>4, <1>6, <1>8, <2>3, <2>4, <2>5, <2>6, <2>7, <3>1, Executed
  <2>9. RunOK(z)
    <3>1. Ranges(z)
      BY <2>8 DEF Sound
    <3> QED
      BY <1>6, <3>1 DEF RunOK, Ranges
  <2>10. \A q \in Run : q # r => run[q].held \cap z.held = {}
    BY <1>3, <1>4, <1>6
  <2> QED
    BY <1>1, <2>1, <2>8, <2>9, <2>10, OneRuns
<1> QED
  BY <1>7, <1>8

LEMMA StopInv ==
  ASSUME SchemaInv, NEW r \in Run, UNCHANGED db, run' = [run EXCEPT ![r] = Idle]
  PROVE  SchemaInv'
<1> DEFINE p == Idle
<1>1. RunOK(p) /\ p.step # "on" /\ p.held = {}
  BY IdleIs
<1>2. run' = [run EXCEPT ![r] = p]
  OBVIOUS
<1> HIDE DEF p
<1>3. \A q \in Run : q # r => run[q].held \cap p.held = {}
  BY <1>1
<1> QED
  BY <1>1, <1>2, <1>3, OneRuns

LEMMA CommitInv ==
  ASSUME SchemaInv, NEW r \in Run, Commit(r)
  PROVE  SchemaInv'
<1> DEFINE p == run[r]
           v == View(r)
           n == p.at - 1
<1>1. /\ p.step = "on" /\ ~(p.at <= Len(Sc(p))) /\ db' = v /\ run' = [run EXCEPT ![r] = Idle]
  BY DEF Commit, HasNext, On, Statements, Sc
<1>2. /\ RunOK(p) /\ Sound(db, p) /\ DbOK(db) /\ DOMAIN run = Run
      /\ \A q \in Run : q # r => run[q].held \cap p.held = {}
  BY <1>1 DEF SchemaInv, On
<1>3. /\ v.tables = Sees(db, p) /\ v.words = {w \in db.words : Has(Sees(db, p), w)}
      /\ v.version = LET stamps == {i \in 1..(p.at - 1) : Sc(p)[i].do = "stamp"}
                     IN  IF stamps = {} THEN db.version ELSE Sc(p)[Max(stamps)].to
      /\ DOMAIN v = {"tables", "words", "version"}
  BY ViewIs
<1>4. /\ db.tables = Revision[db.version] /\ db.words \subseteq Written
  BY <1>2 DEF DbOK
<1>5. /\ Rooted(Sees(db, p)) /\ Fits(Sees(db, p), db.words) /\ Ranges(p) /\ Locked(db, p)
  BY <1>2 DEF Sound
<1> HIDE DEF p, v
<1>6. /\ Sees(db, p) = Revision[p.to] /\ n \in 1..n /\ IsStamp(Sc(p)[n])
      /\ Sc(p)[n].to = p.to
  BY <1>1, <1>2, <1>4, Finished
<1>7. v.version = p.to
  <2> DEFINE stamps == {i \in 1..n : Sc(p)[i].do = "stamp"}
  <2>1. n \in stamps /\ n \in Nat /\ stamps \in SUBSET (1..n) /\ stamps # {}
    <3>1. n \in stamps
      BY <1>6 DEF IsStamp
    <3>2. n \in Nat
      BY <1>5, RangesIs
    <3> QED
      BY <3>1, <3>2
  <2>2. v.version = IF stamps = {} THEN db.version ELSE Sc(p)[Max(stamps)].to
    BY <1>3
  <2> HIDE DEF stamps, n
  <2>3. Max(stamps) \in stamps /\ \A x \in stamps : x <= Max(stamps)
    BY <2>1, Greatest
  <2>4. Max(stamps) = n
    <3>1. n <= Max(stamps)
      BY <2>1, <2>3
    <3>2. Max(stamps) \in 1..n
      BY <2>1, <2>3
    <3> QED
      BY <2>1, <3>1, <3>2
  <2> QED
    BY <1>6, <2>1, <2>2, <2>4
<1>8. "alembic_version" \in p.held
  <2>1. Sc(p)[n].on = "alembic_version" /\ n \in 1..(p.at - 1)
    BY <1>6 DEF IsStamp
  <2> QED
    BY <1>5, <2>1 DEF Locked
<1>9. DbOK(v)
  <2>1. p.to \in Version
    BY <1>5 DEF Ranges
  <2>2. Takers(v.tables, v.words)
    BY <1>3, <1>5 DEF Takers, Fits
  <2> QED
    BY <1>3, <1>4, <1>5, <1>6, <1>7, <2>1, <2>2 DEF DbOK
<1>10. DOMAIN run' = Run /\ run'[r] = Idle /\ \A q \in Run : q # r => run'[q] = run[q]
  BY <1>1, <1>2
<1>11. ASSUME NEW q \in Run PROVE RunOK(run'[q]) /\ (run'[q].step = "on" => Sound(v, run'[q]))
  <2>1. CASE q = r
    BY <1>10, <2>1, IdleIs
  <2>2. CASE q # r
    <3>1. /\ RunOK(run[q]) /\ (run[q].step = "on" => Sound(db, run[q]))
          /\ run[q].held \cap p.held = {} /\ run'[q] = run[q]
      BY <1>2, <1>10, <2>2 DEF SchemaInv, On
    <3> DEFINE z == run[q]
    <3>2. RunOK(z) /\ (z.step = "on" => Sound(db, z)) /\ z.held \cap p.held = {}
      BY <3>1
    <3> HIDE DEF z
    <3>3. z.step = "on" => Sound(v, z)
      BY <1>2, <1>3, <1>8, <3>2, OtherCommits
    <3> QED
      BY <3>1, <3>2, <3>3 DEF z
  <2> QED
    BY <2>1, <2>2
<1>12. ASSUME NEW q \in Run, NEW z \in Run, q # z PROVE run'[q].held \cap run'[z].held = {}
  <2>1. run[q].held \cap run[z].held = {}
    BY <1>12 DEF SchemaInv
  <2>2. Idle.held = {}
    BY IdleIs
  <2> QED
    BY <1>10, <2>1, <2>2
<1> QED
  BY <1>1, <1>9, <1>10, <1>11, <1>12 DEF SchemaInv, On

\* A handler writes a word that the tables take.
LEMMA WordInv ==
  ASSUME SchemaInv, UNCHANGED run, NEW x \in Written, \A r \in Run : x.on \notin run[r].held,
         Accept(db.tables, x), NEW words, words \subseteq db.words \cup {x},
         db' = [db EXCEPT !.words = words]
  PROVE  SchemaInv'
<1>1. DbOK(db)
  BY DEF SchemaInv
<1>2. /\ DOMAIN db' = {"tables", "words", "version"} /\ db'.tables = db.tables
      /\ db'.version = db.version /\ db'.words = words
  BY <1>1 DEF DbOK
<1>3. DbOK(db')
  <2>1. Takers(db.tables, words)
    BY <1>1 DEF DbOK, Takers
  <2>2. words \subseteq Written
    BY <1>1 DEF DbOK
  <2> QED
    BY <1>1, <1>2, <2>1, <2>2 DEF DbOK
<1>4. ASSUME NEW r \in Run, run[r].step = "on" PROVE Sound(db', run[r])
  <2> DEFINE p == run[r]
             e == db'
  <2>1. Sound(db, p) /\ x.on \notin p.held
    BY <1>4 DEF SchemaInv, On
  <2>2. /\ e.tables = db.tables /\ e.version = db.version /\ e.words \subseteq db.words \cup {x}
    BY <1>2
  <2> HIDE DEF p, e
  <2>3. Sound(e, p)
    BY <2>1, <2>2, WordStored
  <2> QED
    BY <2>3 DEF p, e
<1> QED
  BY <1>3, <1>4 DEF SchemaInv, On

LEMMA WriteInv ==
  ASSUME SchemaInv, NEW w \in Written, Write(w)
  PROVE  SchemaInv'
<1> DEFINE words == db.words \cup {w}
<1>1. UNCHANGED run /\ (\A r \in Run : w.on \notin run[r].held) /\ Accept(db.tables, w)
  BY DEF Write
<1>2. db' = [db EXCEPT !.words = words] /\ words \subseteq db.words \cup {w}
  BY DEF Write
<1> HIDE DEF words
<1> QED
  BY <1>1, <1>2, WordInv

LEMMA RewriteInv ==
  ASSUME SchemaInv, NEW w \in Written, NEW x \in Written, Rewrite(w, x)
  PROVE  SchemaInv'
<1> DEFINE words == (db.words \ {w}) \cup {x}
<1>1. UNCHANGED run /\ Accept(db.tables, x) /\ x.on = w.on
  BY DEF Rewrite
<1>2. \A r \in Run : x.on \notin run[r].held
  BY DEF Rewrite
<1>3. db' = [db EXCEPT !.words = words] /\ words \subseteq db.words \cup {x}
  BY DEF Rewrite
<1> HIDE DEF words
<1> QED
  BY <1>1, <1>2, <1>3, WordInv

LEMMA NextInv == SchemaInv /\ [SchemaNext]_schemaVars => SchemaInv'
<1> SUFFICES ASSUME SchemaInv, [SchemaNext]_schemaVars PROVE SchemaInv'
  OBVIOUS
<1>1. ASSUME NEW r \in Run, NEW goal \in Goals, Begin(r, goal) PROVE SchemaInv'
  BY <1>1, BeginInv
<1>2. ASSUME NEW r \in Run, Execute(r) PROVE SchemaInv'
  BY <1>2, ExecuteInv
<1>3. ASSUME NEW r \in Run, Commit(r) PROVE SchemaInv'
  BY <1>3, CommitInv
<1>4. ASSUME NEW r \in Run, Deadlock(r) \/ Die(r) PROVE SchemaInv'
  <2>1. UNCHANGED db /\ run' = [run EXCEPT ![r] = Idle]
    BY <1>4 DEF Deadlock, Die
  <2> QED
    BY <2>1, StopInv
<1>5. ASSUME NEW w \in Written, Write(w) PROVE SchemaInv'
  BY <1>5, WriteInv
<1>6. ASSUME NEW w \in Written, NEW x \in Written, Rewrite(w, x) PROVE SchemaInv'
  BY <1>6, RewriteInv
<1>7. CASE UNCHANGED schemaVars
  BY <1>7 DEF schemaVars, SchemaInv, On
<1> QED
  BY <1>1, <1>2, <1>3, <1>4, <1>5, <1>6, <1>7 DEF SchemaNext

LEMMA InvMeans == SchemaInv => SchemaTypeOK /\ SchemaIsRevision /\ StoredWordsFit
<1> SUFFICES ASSUME SchemaInv PROVE SchemaTypeOK /\ SchemaIsRevision /\ StoredWordsFit
  OBVIOUS
<1>1. DbOK(db)
  BY DEF SchemaInv
<1>2. ASSUME NEW r \in Run PROVE RunOK(run[r])
  BY DEF SchemaInv
<1>3. SchemaTypeOK
  BY <1>1, <1>2 DEF DbOK, RunOK, SchemaTypeOK, Statements, Sc
<1> QED
  BY <1>1, <1>3 DEF DbOK, Takers, SchemaIsRevision, StoredWordsFit

\* The inductive invariant: the committed tables are those of a revision and take
\* every word, and each transaction that is on is where its statements have brought
\* the tables it holds, on its course from one revision to another.
THEOREM SchemaAlways == SchemaSpec => []SchemaInv
<1>1. SchemaInit => SchemaInv
  BY InitInv
<1>2. SchemaInv /\ [SchemaNext]_schemaVars => SchemaInv'
  BY NextInv
<1> QED
  BY <1>1, <1>2, PTL DEF SchemaSpec

\* The types of Schema's variables hold always.
THEOREM SchemaTypes == SchemaSpec => []SchemaTypeOK
<1>1. SchemaInv => SchemaTypeOK
  BY InvMeans
<1> QED
  BY <1>1, SchemaAlways, PTL

\* However many runs of alembic overlap, die, are refused or go back and forth, the
\* tables are those of the revision that alembic_version names.
THEOREM TablesOfRevision == SchemaSpec => []SchemaIsRevision
<1>1. SchemaInv => SchemaIsRevision
  BY InvMeans
<1> QED
  BY <1>1, SchemaAlways, PTL

\* No stored word is ever one that its column or a CHECK would refuse, whatever the
\* handlers write and rewrite next to the runs of alembic.
THEOREM WordsFit == SchemaSpec => []StoredWordsFit
<1>1. SchemaInv => StoredWordsFit
  BY InvMeans
<1> QED
  BY <1>1, SchemaAlways, PTL
==============================================================================
