------------------------------- MODULE Routing -------------------------------
(***************************************************************************)
(* Directions: services/maps (the registry that falls back from provider  *)
(* to provider, the six adapters, the cached Mappls token), the handlers   *)
(* routers/directions.py and routers/etas.py that call it, and what they   *)
(* add to a route (services/weather.py, services/elevation.py).            *)
(*                                                                         *)
(* All of it runs as tasks of one event loop: a step is what happens       *)
(* between two awaits, or less.  A clock in coarse units stands for        *)
(* time.monotonic; a request to a service has reached it, and is answered  *)
(* or given up, Patience after it was sent.                                *)
(***************************************************************************)
EXTENDS Integers, Sequences, FiniteSets, SequencesExt, Polyline

CONSTANTS
  Directions,  \* requests for the route of a trip
  Rows,        \* members whose ETA one request for ETAs may ask for
  Case,        \* a configuration (maps_provider, the fallbacks, the providers
               \* that have keys), the road that is asked about, and the rows
               \* of members with a location
  Lifetime,    \* what "expires_in" may say
  Patience,    \* the time-outs of httpx, together
  Skew,        \* the 60 s before its expiry when a token is fetched anew
  MaxNow,      \* bound of the clock
  WeatherWant, \* samples of along_route
  HeightWant,  \* samples of the elevation profile
  Nobody

Preference == <<"mappls", "google", "here", "mapbox", "tomtom", "osrm">>
Provider == {"mappls", "google", "here", "mapbox", "tomtom", "osrm"}
Calls == Directions \cup Rows

ASSUME RoutingConstants ==
  /\ Nobody \notin Calls /\ Directions \cap Rows = {}
  /\ \A case \in Case : /\ case.setting.default \in STRING
                        /\ case.setting.fallbacks \in Seq(STRING)
                        /\ case.setting.keys \subseteq Provider
                        /\ "osrm" \in case.setting.keys
                        /\ case.rows \subseteq Rows
                        /\ case.road \in Seq(Int \X Int)
  /\ Patience \in Nat /\ Skew \in Nat /\ MaxNow \in Nat
  /\ Lifetime \subseteq Nat
  /\ Skew >= Patience
  /\ \A life \in Lifetime : life > 2 * Patience
  /\ WeatherWant \in Nat /\ WeatherWant > 1
  /\ HeightWant \in Nat /\ HeightWant > 0

VARIABLES
  setting,  \* the process's settings (get_settings is cached)
  road,     \* the line between the places that are asked about
  now,
  token,    \* MapplsProvider: _token_expires_at, and when the service will
            \* really refuse _token; "have" is FALSE before the first one
  lock,     \* who holds _token_lock
  call,     \* the calls of get_directions
  page,     \* the handler of each request for directions
  etas      \* the handler of the request for ETAs

vars == <<setting, road, now, token, lock, call, page, etas>>

Open == [kind |-> "none", by |-> "none"]
NoProfile == [picked |-> <<>>, low |-> 0, high |-> 0, gain |-> 0, loss |-> 0]

Init ==
  /\ \E case \in Case :
       /\ setting = case.setting
       /\ road = case.road
       /\ etas = [at |-> "new", status |-> 0, rows |-> case.rows,
                  members |-> {}]
  /\ now = 0
  /\ token = [have |-> FALSE, until |-> 0, good |-> 0]
  /\ lock = Nobody
  /\ call = [c \in Calls |->
               [at |-> "idle", todo |-> <<>>, since |-> 0, good |-> 0,
                out |-> Open, line |-> <<>>]]
  /\ page = [d \in Directions |->
               [at |-> "new", status |-> 0, weather |-> <<>>,
                profile |-> NoProfile]]

-----------------------------------------------------------------------------
(* The registry.                                                           *)

(* default_provider: the one that is named, configured or not; else the    *)
(* first one with keys.                                                    *)
DefaultProvider(s) ==
  IF s.default \in Provider THEN s.default
  ELSE SelectSeq(Preference, LAMBDA n : n \in s.keys)[1]

FallbackChain(s) == SelectSeq(s.fallbacks, LAMBDA n : n \in s.keys)

(* The candidates get_directions does not skip.                            *)
Plan(s) ==
  SelectSeq(<<DefaultProvider(s)>> \o FallbackChain(s),
            LAMBDA n : n \in s.keys)

(* A call turns to the first of todo: Mappls needs its token first.        *)
Turn(c, todo) ==
  [c EXCEPT !.todo = todo, !.since = 0, !.good = 0,
            !.at = IF Head(todo) = "mappls" THEN "lock" ELSE "ask"]

(* get_directions begins.  Without a candidate it raises MapsProviderError.*)
GetDirections(c) ==
  /\ call[c].at = "ready"
  /\ LET plan == Plan(setting)
     IN  call' = [call EXCEPT ![c] =
                    IF plan = <<>>
                    THEN [@ EXCEPT !.at = "done",
                                   !.out = [kind |-> "maps", by |-> "none"]]
                    ELSE Turn(@, plan)]
  /\ UNCHANGED <<setting, road, now, token, lock, page, etas>>

\* Mutant: a provider without a route ends the call.
Declined_NoRouteEnds(c, kind) ==
  IF Tail(c.todo) = <<>> \/ kind = "noroute"
  THEN [c EXCEPT !.todo = <<>>, !.at = "done", !.since = 0, !.good = 0,
                 !.out = [kind |-> kind, by |-> "none"]]
  ELSE Turn(c, Tail(c.todo))

(* NoRouteFoundError and MapsProviderError pass the call on; the last one  *)
(* is raised.                                                              *)
Declined(c, kind) ==
  IF Tail(c.todo) = <<>>
  THEN [c EXCEPT !.todo = <<>>, !.at = "done", !.since = 0, !.good = 0,
                 !.out = [kind |-> kind, by |-> "none"]]
  ELSE Turn(c, Tail(c.todo))

(* Every other exception leaves get_directions.                            *)
Broken(c) ==
  [c EXCEPT !.at = "done", !.since = 0, !.good = 0,
            !.out = [kind |-> "crash", by |-> "none"]]

Found(c, line) ==
  [c EXCEPT !.at = "done", !.since = 0, !.good = 0, !.line = line,
            !.out = [kind |-> "route", by |-> Head(c.todo)]]

-----------------------------------------------------------------------------
(* What a service may answer, and what the adapters make of it:            *)
(*   timeout   an exception of httpx, which no adapter catches             *)
(*   refused   a status other than 200                                     *)
(*   garbled   status 200 and no JSON                                      *)
(*   empty     no routes                                                   *)
(*   bare      a route without any of its fields                           *)
(*   cut       a route whose encoded line is cut off                       *)
(*   route     the road                                                    *)

Upstream == {"timeout", "refused", "garbled", "empty", "bare", "cut", "route"}

Cut(text) == SubSeq(text, 1, Len(text) - 1)

Roads == {case.road : case \in Case}

AsPolyline ==
  [line \in Roads |-> [cut \in BOOLEAN |->
     LET text == EncodePolyline(line)
     IN  DecodePolyline(IF cut THEN Cut(text) ELSE text)]]

(* HERE's answer has a line for each section, which share their ends.      *)
Sections(line) ==
  IF Len(line) < 3 THEN <<line>>
  ELSE <<SubSeq(line, 1, 2), SubSeq(line, 2, Len(line))>>

AsFlexible ==
  [line \in Roads |-> [cut \in BOOLEAN |-> [third \in {0, 2} |->
     LET texts == [k \in DOMAIN Sections(line) |->
                     EncodeFlexible(Sections(line)[k], third)]
         sent == IF cut THEN [texts EXCEPT ![Len(texts)] = Cut(@)] ELSE texts
         parts == [k \in DOMAIN sent |-> DecodeFlexible(sent[k])]
     IN  [ok |-> \A k \in DOMAIN parts : parts[k].ok,
          line |-> FlattenSeq([k \in DOMAIN parts |-> parts[k].line])]]]]

Failed(c, answer) ==
  IF answer = "refused" THEN Declined(c, "maps")
  ELSE IF answer = "empty" THEN Declined(c, "noroute")
  ELSE Broken(c)

(* GoogleMapsProvider.directions reads the fields of the route.            *)
Google(c, answer) ==
  IF answer \in {"route", "cut"}
  THEN Found(c, AsPolyline[road][answer = "cut"])
  ELSE Failed(c, answer)

(* MapplsProvider.directions has defaults for all of them.                 *)
Mappls(c, answer) ==
  IF answer = "bare" THEN Found(c, <<>>) ELSE Google(c, answer)

(* HereMapsProvider.directions: a route without sections is no route.      *)
Here(c, answer, third) ==
  LET shown == AsFlexible[road][answer = "cut"][third]
  IN  IF answer \in {"route", "cut"}
      THEN IF shown.ok THEN Found(c, shown.line) ELSE Declined(c, "maps")
      ELSE IF answer = "bare" THEN Declined(c, "noroute")
      ELSE Failed(c, answer)

(* MapboxProvider.directions passes the GeoJSON on.                        *)
Mapbox(c, answer) ==
  IF answer = "route" THEN Found(c, road) ELSE Failed(c, answer)

(* So does OsrmProvider.directions; a code other than "Ok" is no route.    *)
Osrm(c, answer) == Mapbox(c, answer)

(* TomTomProvider.directions lists the points of the legs there are.       *)
TomTom(c, answer) ==
  IF answer = "bare" THEN Found(c, <<>>) ELSE Mapbox(c, answer)

Adapted(c, answer, third) ==
  CASE Head(c.todo) = "google" -> Google(c, answer)
    [] Head(c.todo) = "mappls" -> Mappls(c, answer)
    [] Head(c.todo) = "here"   -> Here(c, answer, third)
    [] Head(c.todo) = "tomtom" -> TomTom(c, answer)
    [] Head(c.todo) = "mapbox" -> Mapbox(c, answer)
    [] OTHER                   -> Osrm(c, answer)

(* The service of the provider answers, or the time-out does.              *)
ProviderAnswers(c) ==
  /\ call[c].at = "ask"
  /\ \E answer \in Upstream, third \in {0, 2} :
       call' = [call EXCEPT ![c] = Adapted(@, answer, third)]
  /\ UNCHANGED <<setting, road, now, token, lock, page, etas>>

-----------------------------------------------------------------------------
(* MapplsProvider._get_token.                                              *)

\* Mutant: the cached token serves until it expires.
TakeLock_NoMargin(c) ==
  /\ call[c].at = "lock" /\ lock = Nobody
  /\ IF token.have /\ now < token.until
     THEN /\ call' = [call EXCEPT ![c].at = "ask", ![c].since = now,
                                  ![c].good = token.good]
          /\ UNCHANGED lock
     ELSE /\ call' = [call EXCEPT ![c].at = "token", ![c].since = now]
          /\ lock' = c
  /\ UNCHANGED <<setting, road, now, token, page, etas>>

(* The lock is free: the cached token serves, or a new one is asked for    *)
(* with the lock held.  asyncio.Lock is first come, first served; here any *)
(* waiter may be next.                                                     *)
TakeLock(c) ==
  /\ call[c].at = "lock" /\ lock = Nobody
  /\ IF token.have /\ now < token.until - Skew
     THEN /\ call' = [call EXCEPT ![c].at = "ask", ![c].since = now,
                                  ![c].good = token.good]
          /\ UNCHANGED lock
     ELSE /\ call' = [call EXCEPT ![c].at = "token", ![c].since = now]
          /\ lock' = c
  /\ UNCHANGED <<setting, road, now, token, page, etas>>

(* The token service gave out a token at some time since it was asked.  Its *)
(* expiry is reckoned from before the request.                             *)
TokenArrives(c) ==
  /\ call[c].at = "token"
  /\ \E life \in Lifetime, given \in call[c].since..now :
       /\ token' = [have |-> TRUE, until |-> call[c].since + life,
                    good |-> given + life]
       /\ call' = [call EXCEPT ![c].at = "ask", ![c].since = now,
                               ![c].good = given + life]
  /\ lock' = Nobody
  /\ UNCHANGED <<setting, road, now, page, etas>>

\* Mutant: acquire and release without "async with".
TokenFails_KeepsLock(c) ==
  /\ call[c].at = "token"
  /\ \E answer \in {"timeout", "refused", "garbled"} :
       call' = [call EXCEPT ![c] = Failed(@, answer)]
  /\ UNCHANGED <<setting, road, now, token, lock, page, etas>>

(* It refuses (MapsProviderError), or anything else goes wrong; "async     *)
(* with" lets the lock go either way.                                      *)
TokenFails(c) ==
  /\ call[c].at = "token"
  /\ \E answer \in {"timeout", "refused", "garbled"} :
       call' = [call EXCEPT ![c] = Failed(@, answer)]
  /\ lock' = Nobody
  /\ UNCHANGED <<setting, road, now, token, page, etas>>

-----------------------------------------------------------------------------
(* request_directions.                                                     *)

RequestDirections(d) ==
  /\ page[d].at = "new"
  /\ page' = [page EXCEPT ![d].at = "route"]
  /\ call' = [call EXCEPT ![d].at = "ready"]
  /\ UNCHANGED <<setting, road, now, token, lock, etas>>

(* round of a positive fraction: a half goes to the even side.             *)
Rounded(p, q) ==
  LET whole == p \div q
      rest == 2 * (p % q)
  IN  IF rest > q \/ (rest = q /\ whole % 2 = 1) THEN whole + 1 ELSE whole

\* Mutant: the step is n / want.
SampleIndices_Short(n) ==
  IF n <= WeatherWant THEN [i \in 1..n |-> i]
  ELSE [i \in 1..WeatherWant |-> 1 + Rounded((i - 1) * n, WeatherWant)]

(* _sample_indices, counted from 1.                                        *)
SampleIndices(n) ==
  IF n <= WeatherWant THEN [i \in 1..n |-> i]
  ELSE [i \in 1..WeatherWant |->
          1 + Rounded((i - 1) * (n - 1), WeatherWant - 1)]

(* The points the elevation of which is asked for.                         *)
Picked(line) ==
  IF Len(line) > HeightWant
  THEN [i \in 1..HeightWant |-> line[1 + ((i - 1) * Len(line)) \div HeightWant]]
  ELSE line

(* ElevationProfile.from_samples, of the points with their heights.        *)
Profile(picked, heights) ==
  LET Step(i) == heights[i + 1] - heights[i]
      steps == 1..(Len(picked) - 1)
  IN  IF picked = <<>> THEN NoProfile
      ELSE [picked |-> picked, low |-> Min(Range(heights)), high |-> Max(Range(heights)),
            gain |-> MapThenSumSet(Step, {i \in steps : Step(i) > 0}),
            loss |-> -MapThenSumSet(Step, {i \in steps : Step(i) <= 0})]

(* The errors of get_directions become 404, 502 and an internal error.     *)
ErrorStatus == [noroute |-> 404, maps |-> 502, crash |-> 500]

(* With a route: the weather samples, which are computed here because the  *)
(* settings have no key for the weather service, then the elevation.       *)
RouteResolved(d) ==
  /\ page[d].at = "route" /\ call[d].at = "done"
  /\ LET kind == call[d].out.kind
         line == call[d].line
     IN  page' = [page EXCEPT ![d] =
           IF kind # "route"
           THEN [@ EXCEPT !.at = "sent", !.status = ErrorStatus[kind]]
           ELSE IF line = <<>> THEN [@ EXCEPT !.at = "sent", !.status = 200]
           ELSE [@ EXCEPT !.at = "elevation",
                          !.weather = SampleIndices(Len(line))]]
  /\ UNCHANGED <<setting, road, now, token, lock, call, etas>>

(* Two terrains: that of the service and that of _mock_elevation.          *)
Terrain(p) == (p[1] * p[1] + 3 * p[2]) % 7
Mock(p) == (2 * p[1] + p[2]) % 5

(* The service answers, knows nothing, or is not to be reached; an answer  *)
(* that is not JSON is an internal error after all.                        *)
ElevationAnswers(d) ==
  /\ page[d].at = "elevation"
  /\ LET picked == Picked(call[d].line)
         Send(status, profile) ==
           page' = [page EXCEPT ![d].at = "sent", ![d].status = status,
                                ![d].profile = profile]
     IN  \/ Send(200, Profile(picked, [i \in DOMAIN picked |-> Terrain(picked[i])]))
         \/ Send(200, NoProfile)
         \/ Send(200, Profile(picked, [i \in DOMAIN picked |-> Mock(picked[i])]))
         \/ Send(500, NoProfile)
  /\ UNCHANGED <<setting, road, now, token, lock, call, etas>>

-----------------------------------------------------------------------------
(* get_etas: one call for every user with a location, all at once.         *)

RequestEtas ==
  /\ etas.at = "new"
  /\ etas' = IF etas.rows = {}
             THEN [etas EXCEPT !.at = "sent", !.status = 200]
             ELSE [etas EXCEPT !.at = "gather"]
  /\ call' = [c \in Calls |-> IF c \in etas.rows
                              THEN [call[c] EXCEPT !.at = "ready"]
                              ELSE call[c]]
  /\ UNCHANGED <<setting, road, now, token, lock, page>>

Ended(rows, kinds) ==
  {c \in rows : call[c].at = "done" /\ call[c].out.kind \in kinds}

\* Mutant: gather(..., return_exceptions=True), with the exceptions dropped.
GatherAll_Exceptions ==
  /\ etas.at = "gather"
  /\ etas.rows = Ended(etas.rows, {"route", "noroute", "maps", "crash"})
  /\ etas' = [etas EXCEPT !.at = "sent", !.status = 200,
                          !.members = Ended(etas.rows, {"route"})]
  /\ UNCHANGED <<setting, road, now, token, lock, call, page>>

(* A member without a route is left out.                                   *)
GatherAll ==
  /\ etas.at = "gather"
  /\ etas.rows = Ended(etas.rows, {"route", "noroute", "maps"})
  /\ etas' = [etas EXCEPT !.at = "sent", !.status = 200,
                          !.members = Ended(etas.rows, {"route"})]
  /\ UNCHANGED <<setting, road, now, token, lock, call, page>>

(* The first exception _one lets through is the whole answer; the other    *)
(* tasks go on.                                                            *)
GatherBreaks ==
  /\ etas.at = "gather"
  /\ Ended(etas.rows, {"crash"}) # {}
  /\ etas' = [etas EXCEPT !.at = "sent", !.status = 500]
  /\ UNCHANGED <<setting, road, now, token, lock, call, page>>

-----------------------------------------------------------------------------
(* A request that has to do with the token does not outlive its time-outs; *)
(* the others may take any time.                                           *)
Timed(c) ==
  \/ call[c].at = "token"
  \/ call[c].at = "ask" /\ Head(call[c].todo) = "mappls"

Tick ==
  /\ now < MaxNow
  /\ \A c \in Calls : Timed(c) => now < call[c].since + Patience
  /\ now' = now + 1
  /\ UNCHANGED <<setting, road, token, lock, call, page, etas>>

CallStep(c) ==
  GetDirections(c) \/ ProviderAnswers(c) \/ TakeLock(c) \/ TokenArrives(c)
    \/ TokenFails(c)

PageStep(d) == RouteResolved(d) \/ ElevationAnswers(d)

EtasStep == GatherAll \/ GatherBreaks

Next ==
  \/ \E c \in Calls : CallStep(c)
  \/ \E d \in Directions : RequestDirections(d) \/ PageStep(d)
  \/ RequestEtas \/ EtasStep
  \/ Tick

Spec == Init /\ [][Next]_vars

(* Every await ends: the services answer or the time-outs of httpx do, and *)
(* the event loop runs what is ready.                                      *)
FairSpec ==
  /\ Spec
  /\ \A c \in Calls : WF_vars(CallStep(c))
  /\ \A d \in Directions : WF_vars(PageStep(d))
  /\ WF_vars(EtasStep)

-----------------------------------------------------------------------------
(* Properties.                                                             *)

At == {"idle", "ready", "lock", "token", "ask", "done"}
Kinds == {"none", "route", "noroute", "maps", "crash"}
Fields == {"at", "todo", "since", "good", "out", "line"}
TokenType == [have : BOOLEAN, until : Nat, good : Nat]

CallOK(q) ==
  /\ DOMAIN q = Fields
  /\ q.at \in At /\ q.since \in Nat /\ q.good \in Nat /\ q.out.kind \in Kinds

(* Types of the variables, as far as the control goes.                     *)
TypeOK ==
  /\ \E case \in Case : /\ setting = case.setting /\ road = case.road
                        /\ etas.rows = case.rows
  /\ now \in Nat
  /\ token \in TokenType
  /\ lock \in Calls \cup {Nobody}
  /\ DOMAIN call = Calls /\ \A c \in Calls : CallOK(call[c])
  /\ DOMAIN page = Directions
  /\ \A d \in Directions :
       DOMAIN page[d] = {"at", "status", "weather", "profile"}
  /\ DOMAIN etas = {"at", "status", "rows", "members"}

(* A token that is fetched or taken from the cache outlasts the request it *)
(* is sent with: the margin covers the time-outs, and an expiry is never   *)
(* reckoned later than the service reckons it, however long the fetch took *)
(* and however many calls waited for it.                                   *)
TokenGood ==
  \A c \in Calls :
    (call[c].at = "ask" /\ Head(call[c].todo) = "mappls")
      => now < call[c].good

(* Only one task at a time asks for a token, and no way out of the fetch   *)
(* leaves the lock taken.                                                  *)
LockHeld ==
  \A c \in Calls : call[c].at = "token" <=> lock = c

(* The calls implement the resolver: whatever the token cache, the lock    *)
(* and the other calls do, each goes through its plan in order, and ends   *)
(* with the first route or the last error.                                 *)
R == INSTANCE Resolver WITH
       Plans <- {Plan(case.setting) : case \in Case},
       plan <- Plan(setting),
       todo <- [c \in Calls |-> call[c].todo],
       outcome <- [c \in Calls |-> call[c].out]
Resolves == R!Spec

(* What the three rest on.  A call has its plan ahead of it, is somewhere   *)
(* in it, or is done.                                                      *)
PhaseOK(q) ==
  /\ q.at \in {"idle", "ready"} => q.todo = <<>> /\ q.out = Open
  /\ q.at \in {"lock", "token", "ask"} => q.todo # <<>> /\ q.out = Open
  /\ (q.at = "done" /\ q.out.kind \in {"noroute", "maps"}) => q.todo = <<>>

(* Where a call is with its token.                                         *)
TimeOK(q) ==
  /\ q.at = "token" => q.since <= now /\ now <= q.since + Patience
  /\ (q.at = "ask" /\ Head(q.todo) = "mappls")
       => now <= q.since + Patience /\ q.since + Patience < q.good

(* What the handlers have not asked for is idle; what the list of ETAs     *)
(* leaves out has ended.                                                   *)
PagesOK ==
  /\ \A d \in Directions : page[d].at = "new" => call[d].at = "idle"
  /\ etas.at = "new" => etas.status # 200
                         /\ \A c \in etas.rows : call[c].at = "idle"
  /\ etas.status = 200 =>
       \A c \in etas.rows \ etas.members :
         call[c].at = "done" /\ call[c].out.kind \in {"noroute", "maps"}

IInv ==
  /\ TypeOK
  /\ \A c \in Calls : PhaseOK(call[c]) /\ TimeOK(call[c])
  /\ LockHeld
  /\ token.have => token.until <= token.good
  /\ PagesOK

(* What a route shows is the road, point for point, whichever format it    *)
(* came in; of a line that is cut off, a beginning of it.  A provider that *)
(* checks its format or needs none shows the whole road or nothing; HERE's *)
(* sections share their ends.                                              *)
RouteShown(q) ==
  q.out.kind = "route" =>
    /\ q.out.by \in {"mapbox", "osrm"} => q.line = road
    /\ q.out.by = "here" =>
         \/ q.line = road
         \/ \E k \in DOMAIN road :
              q.line = SubSeq(road, 1, k) \o SubSeq(road, k, Len(road))
    /\ q.out.by \in {"google", "mappls", "tomtom"} => IsPrefix(q.line, road)

LineIsRoad == \A c \in Calls : RouteShown(call[c])

(* The weather samples go along the whole route, from its first point to   *)
(* its last one, without a repetition.                                     *)
SamplesCoverRoute ==
  \A d \in Directions :
    LET w == page[d].weather
        n == Len(call[d].line)
    IN  w # <<>> =>
          /\ Len(w) = IF n < WeatherWant THEN n ELSE WeatherWant
          /\ w[1] = 1 /\ w[Len(w)] = n
          /\ \A i \in 1..(Len(w) - 1) : w[i] < w[i + 1]

(* Climb and descent of an elevation profile account for the difference    *)
(* between its ends, and reach from its lowest to its highest point.       *)
ClimbOK(p) ==
  p.picked # <<>> =>
    /\ \E Height \in {[q \in ToSet(p.picked) |-> Terrain(q)],
                      [q \in ToSet(p.picked) |-> Mock(q)]} :
         p.gain - p.loss = Height[p.picked[Len(p.picked)]] - Height[p.picked[1]]
    /\ p.gain >= 0 /\ p.loss >= 0
    /\ p.high - p.low <= p.gain + p.loss

ClimbAddsUp == \A d \in Directions : ClimbOK(page[d].profile)

(* What a client is shown of a route is true of it: the line is the road, the *)
(* weather is that of the whole way, and the climb adds up.                *)
AnswerTrue == LineIsRoad /\ SamplesCoverRoute /\ ClimbAddsUp

(* What it rests on: the lines of calls are lines, and a handler has its   *)
(* samples from the line of a call that is done.                           *)
ShownInv ==
  /\ \A c \in Calls : RouteShown(call[c]) /\ call[c].line \in Seq(Int \X Int)
  /\ \A d \in Directions :
       page[d].weather # <<>> =>
         /\ call[d].at = "done" /\ call[d].line # <<>>
         /\ page[d].weather = SampleIndices(Len(call[d].line))
  /\ ClimbAddsUp

(* A list of ETAs leaves out only the members for whom every configured    *)
(* provider was asked in vain.                                             *)
EtasLoseNobody ==
  etas.status = 200 =>
    \A c \in etas.rows \ etas.members :
      call[c].todo = <<>> /\ call[c].out.kind \in {"noroute", "maps"}

(* Every request is answered: nobody waits forever for the token lock.     *)
AllAnswered ==
  /\ \A d \in Directions : (page[d].at = "route") ~> (page[d].at = "sent")
  /\ (etas.at = "gather") ~> (etas.at = "sent")
=============================================================================
