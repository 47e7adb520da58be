----------------------------- MODULE HazardFeed -----------------------------
(***************************************************************************)
(* GET /hazards (routers/hazards.py) over the cache of NASA's event feed   *)
(* (services/eonet_service.py): one Redis key with a time to live, filled  *)
(* by whichever request misses it, and slices of it for the clients.       *)
(*                                                                         *)
(* Requests are coroutines and interleave at their awaits: the read of the *)
(* key, the request to the feed, the write of the key.  Time is in coarse  *)
(* units.  The feed changes with time; what a request gets is the feed as  *)
(* it was at some moment while the request was under way.                  *)
(***************************************************************************)
EXTENDS Integers, Sequences, FiniteSets, FiniteSetsExt

CONSTANTS
  Slot,      \* places for requests that are served at the same time
  Feed,      \* Feed[t]: the events the feed lists at time t
  Query,     \* what requests ask for: [bbox, categories]
  Ttl,       \* CACHE_TTL_SECONDS
  Patience,  \* the time-out of the request to the feed
  MaxNow     \* bound of the clock

NoBox == <<>>

ASSUME HazardConstants ==
  /\ Ttl \in Nat /\ Patience \in Nat /\ MaxNow \in Nat
  /\ Ttl > Patience
  /\ DOMAIN Feed = 0..MaxNow
  /\ Query # {}

(* An event is [id, categories, geometry]; a geometry is [type, magnitude, *)
(* points], magnitudes in tenths and -1 for none, points as <<lng, lat>>.  *)
Geometry == [type : STRING, magnitude : Int, points : Seq(Int \X Int)]
Event == [id : STRING, categories : Seq(STRING), geometry : Seq(Geometry)]

ASSUME HazardData ==
  /\ \A t \in 0..MaxNow : Feed[t] \in Seq(Event)
  /\ Query \subseteq [bbox : Seq(Int), categories : SUBSET STRING]

VARIABLES
  now,
  cache,   \* the key: when the feed was like that, and when the key expires
  req,     \* the request in each slot, and the answer to the last one
  newest   \* history: the latest moment any answer has shown, -1 for none

vars == <<now, cache, req, newest>>

Init ==
  /\ now = 0
  /\ cache = [taken |-> 0, until |-> 0]
  /\ req = [r \in Slot |->
              [at |-> "idle", query |-> CHOOSE q \in Query : TRUE, since |-> 0,
               taken |-> 0, status |-> 0, age |-> 0,
               filled |-> FALSE]]
  /\ newest = -1

-----------------------------------------------------------------------------
(* From events to hazards.  In what order they are listed nothing below    *)
(* depends on, so lists of them are sets; of the geometries of an event    *)
(* the order matters.                                                      *)

Baseline(category) ==
  CASE category \in {"wildfires", "severeStorms", "earthquakes", "floods",
                     "landslides", "tempExtremes"} -> "warning"
    [] category = "volcanoes" -> "severe"
    [] OTHER -> "info"

Measured(geometry) == {k \in DOMAIN geometry : geometry[k].magnitude >= 0}

\* Mutant: the bounds of the magnitudes are tested in the wrong order.
InferSeverity_Swapped(category, geometry) ==
  IF category = "earthquakes" /\ Measured(geometry) # {}
  THEN LET m == geometry[Min(Measured(geometry))].magnitude
       IN  IF m >= 45 THEN "warning" ELSE IF m >= 60 THEN "severe" ELSE "info"
  ELSE IF /\ category = "wildfires"
          /\ \E k \in DOMAIN geometry : geometry[k].type = "Polygon"
  THEN "severe"
  ELSE Baseline(category)

(* _infer_severity: of an earthquake the first magnitude decides.          *)
InferSeverity(category, geometry) ==
  IF category = "earthquakes" /\ Measured(geometry) # {}
  THEN LET m == geometry[Min(Measured(geometry))].magnitude
       IN  IF m >= 60 THEN "severe" ELSE IF m >= 45 THEN "warning" ELSE "info"
  ELSE IF /\ category = "wildfires"
          /\ \E k \in DOMAIN geometry : geometry[k].type = "Polygon"
  THEN "severe"
  ELSE Baseline(category)

(* The geometries the model HazardGeometry takes.                          *)
Shapes(geometry) == {g \in Range(geometry) : g.type \in {"Point", "Polygon"}}

(* _normalize_event: an event without a category or a usable geometry is   *)
(* dropped.                                                                *)
Usable(event) == event.categories # <<>> /\ Shapes(event.geometry) # {}

NormalizeEvent(event) ==
  [id |-> event.id,
   category |-> event.categories[1],
   severity |-> InferSeverity(event.categories[1], event.geometry),
   geometries |-> Shapes(event.geometry)]

FetchUpstream(t) ==
  {NormalizeEvent(e) : e \in {x \in Range(Feed[t]) : Usable(x)}}

-----------------------------------------------------------------------------
(* The slices.  A box is <<south, west, north, east>>.                     *)

Category ==
  {"wildfires", "severeStorms", "volcanoes", "seaLakeIce", "earthquakes",
   "floods", "landslides", "drought", "dustHaze", "manmade", "snow",
   "tempExtremes", "waterColor"}

(* _parse_bbox does not ask for west <= east.                              *)
BoxParses(box) ==
  /\ Len(box) = 4
  /\ -90 <= box[1] /\ box[1] <= box[3] /\ box[3] <= 90
  /\ \A k \in {2, 4} : -180 <= box[k] /\ box[k] <= 180

Parses(query) ==
  /\ query.bbox = NoBox \/ BoxParses(query.bbox)
  /\ query.categories \subseteq Category

Inside(point, box) ==
  /\ box[1] <= point[2] /\ point[2] <= box[3]
  /\ box[2] <= point[1] /\ point[1] <= box[4]

(* _any_geometry_in_bbox: some point of it, a corner of a polygon too.     *)
AnyGeometryInBbox(geometries, box) ==
  \E g \in geometries : \E p \in Range(g.points) : Inside(p, box)

Slice(hazards, query) ==
  {h \in hazards :
     /\ query.bbox = NoBox \/ AnyGeometryInBbox(h.geometries, query.bbox)
     /\ query.categories = {} \/ h.category \in query.categories}

-----------------------------------------------------------------------------
(* list_hazards and fetch_hazards.                                         *)

Cached == now < cache.until

(* The filters are parsed only now.                                        *)
Reply(q, taken) ==
  [q EXCEPT !.at = "idle", !.since = 0, !.taken = taken, !.age = now - taken,
            !.status = IF Parses(q.query) THEN 200 ELSE 400]

Showing(taken) == newest' = IF taken > newest THEN taken ELSE newest

Answer(r, taken) ==
  req' = [req EXCEPT ![r] = Reply(@, taken)] /\ Showing(taken)

AnswerError(r, status) ==
  /\ req' = [req EXCEPT ![r].at = "idle", ![r].since = 0, ![r].status = status]
  /\ UNCHANGED newest

Ask(r) ==
  /\ req[r].at = "idle"
  /\ \E query \in Query :
       req' = [req EXCEPT ![r].at = "read", ![r].query = query, ![r].taken = 0,
                          ![r].status = 0, ![r].age = 0, ![r].filled = FALSE]
  /\ UNCHANGED <<now, cache, newest>>

ReadCache(r) ==
  /\ req[r].at = "read"
  /\ IF Cached
     THEN Answer(r, cache.taken)
     ELSE /\ req' = [req EXCEPT ![r].at = "fetch", ![r].since = now]
          /\ UNCHANGED newest
  /\ UNCHANGED <<now, cache>>

FeedAnswers(r) ==
  /\ req[r].at = "fetch"
  /\ \E taken \in req[r].since..now :
       req' = [req EXCEPT ![r].at = "store", ![r].since = 0, ![r].taken = taken]
  /\ UNCHANGED <<now, cache, newest>>

(* An answer that is not what the feed promises raises an exception other  *)
(* than httpx.HTTPError.                                                   *)
FeedGarbled(r) ==
  /\ req[r].at = "fetch"
  /\ AnswerError(r, 500)
  /\ UNCHANGED <<now, cache>>

FeedFails(r) ==
  /\ req[r].at = "fetch"
  /\ req' = [req EXCEPT ![r].at = "again", ![r].since = 0]
  /\ UNCHANGED <<now, cache, newest>>

(* SETEX, whatever another request has written in the meantime.  "filled"  *)
(* is history: somebody has written the key since r missed it.             *)
Fill(taken, until) == cache' = [taken |-> taken, until |-> until]

Stored(r) ==
  /\ req' = [q \in Slot |->
       IF q = r THEN Reply(req[r], req[r].taken)
       ELSE IF req[q].at \in {"fetch", "again"}
       THEN [req[q] EXCEPT !.filled = TRUE]
       ELSE req[q]]
  /\ Showing(req[r].taken)

\* Mutants: the key never expires; it is written only if it is not there.
Store_Forever(r) ==
  /\ req[r].at = "store"
  /\ Fill(req[r].taken, MaxNow + 1)
  /\ Stored(r)
  /\ UNCHANGED now

Store_IfAbsent(r) ==
  /\ req[r].at = "store"
  /\ IF Cached THEN UNCHANGED cache ELSE Fill(req[r].taken, now + Ttl)
  /\ Stored(r)
  /\ UNCHANGED now

Store(r) ==
  /\ req[r].at = "store"
  /\ Fill(req[r].taken, now + Ttl)
  /\ Stored(r)
  /\ UNCHANGED now

\* Mutant: the key is not read again.
ReadAgain_NoFallback(r) ==
  /\ req[r].at = "again"
  /\ AnswerError(r, 503)
  /\ UNCHANGED <<now, cache>>

(* Another request may have filled the key while the feed was failing us.  *)
ReadAgain(r) ==
  /\ req[r].at = "again"
  /\ IF Cached THEN Answer(r, cache.taken) ELSE AnswerError(r, 503)
  /\ UNCHANGED <<now, cache>>

(* The request to the feed ends by its time-out; Redis answers within a    *)
(* unit of time.                                                           *)
Tick ==
  /\ now < MaxNow
  /\ \A r \in Slot :
       /\ req[r].at = "fetch" => now < req[r].since + Patience
       /\ req[r].at \notin {"store", "again"}
  /\ now' = now + 1
  /\ UNCHANGED <<cache, req, newest>>

Serve(r) ==
  ReadCache(r) \/ FeedAnswers(r) \/ FeedGarbled(r) \/ FeedFails(r)
    \/ Store(r) \/ ReadAgain(r)

Next == (\E r \in Slot : Ask(r) \/ Serve(r)) \/ Tick

Spec == Init /\ [][Next]_vars

-----------------------------------------------------------------------------
(* Properties.                                                             *)

Time == 0..MaxNow
Step == {"idle", "read", "fetch", "store", "again"}
Status == {0, 200, 400, 500, 503}
RequestType ==
  [at : Step, query : Query, since : Time, taken : Time, status : Status,
   age : Time, filled : BOOLEAN]

(* Types of all variables.                                                 *)
TypeOK ==
  /\ now \in Time
  /\ cache \in [taken : Time, until : 0..(MaxNow + Ttl)]
  /\ req \in [Slot -> RequestType]
  /\ newest \in -1..MaxNow

(* No answer is older than the time to live and the longest request to the *)
(* feed together, cached or not, however refreshes overlap.                *)
AgeBounded ==
  \A r \in Slot : req[r].status \in {200, 400} => req[r].age <= Ttl + Patience

(* A slow refresh may overwrite a newer one, and clients are then shown an *)
(* older feed than others have seen; but by no more than a request to the  *)
(* feed may take.                                                          *)
BackwardsBounded ==
  [][\A r \in Slot :
       (req[r].status = 0 /\ req'[r].status \in {200, 400})
         => newest - req'[r].taken <= Patience]_vars

(* The feed's failure reaches a client only if no other request has got    *)
(* through to the feed since this one looked: what it stored is still      *)
(* there when this one looks again.                                        *)
FailureHidden == \A r \in Slot : req[r].status = 503 => ~ req[r].filled

(* What the three rest on: how old the key and a fetched feed may be, that *)
(* no key was written from a feed much older than what has been shown, and *)
(* that a key written while a request is at the feed outlives that request.*)
CacheInv ==
  /\ cache.taken <= now
  /\ cache.until <= cache.taken + Ttl + Patience
  /\ newest <= now
  /\ newest - cache.taken <= Patience

RequestOK(q, t, key) ==
  /\ q.at # "idle" => q.status = 0
  /\ q.status = 200 => Parses(q.query)
  /\ q.at = "read" => ~ q.filled
  /\ q.at = "fetch" => /\ q.since <= t /\ t <= q.since + Patience
                       /\ q.filled => q.since + Ttl <= key.until
  /\ q.at = "store" => q.taken <= t /\ t <= q.taken + Patience
  /\ (q.at = "again" /\ q.filled) => t < key.until
  /\ q.status \in {200, 400} => q.age <= Ttl + Patience
  /\ q.status = 503 => ~ q.filled

RequestInv == \A r \in Slot : RequestOK(req[r], now, cache)

IInv == TypeOK /\ CacheInv /\ RequestInv

Shown(r) == Slice(FetchUpstream(req[r].taken), req[r].query)

(* The severity of an earthquake is no milder than its weakest measurement *)
(* and no worse than its strongest.                                        *)
SeverityWithin ==
  \A r \in Slot : req[r].status = 200 =>
    \A h \in Shown(r) : h.category = "earthquakes" =>
      \E e \in Range(Feed[req[r].taken]) :
        LET all == {e.geometry[k].magnitude : k \in Measured(e.geometry)}
        IN  /\ e.id = h.id
            /\ (all # {} /\ h.severity = "severe") => \E m \in all : m >= 60
            /\ (all # {} /\ h.severity = "info") => \E m \in all : m < 45
            /\ (all # {} /\ h.severity = "warning") => /\ \E m \in all : m < 60
                                                      /\ \E m \in all : m >= 45

(* Tiles lose nothing: what a box shows is what its western and its eastern *)
(* half show, wherever it is cut.                                          *)
BoxesTile ==
  \A r \in Slot : (req[r].status = 200 /\ req[r].query.bbox # NoBox) =>
    LET box == req[r].query.bbox
        With(b) == Slice(FetchUpstream(req[r].taken),
                         [req[r].query EXCEPT !.bbox = b])
    IN  \A cut \in box[2]..box[4] :
          Shown(r) = With([box EXCEPT ![4] = cut])
                       \cup With([box EXCEPT ![2] = cut])

(* What a client is shown is true of the feed: severities are those that   *)
(* were measured, and a box shows what lies in it.                         *)
SliceTrue == SeverityWithin /\ BoxesTile
=============================================================================
