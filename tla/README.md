# PackPath in TLA+

PackPath is a convoy app: the members of a trip share their position and chat
over a WebSocket, see each other on a map, and are told about arrivals and
trouble. The backend is FastAPI on asyncio with PostgreSQL (TimescaleDB, PostGIS)
and Redis; the app is Flutter. The repository has a handful of tests, all of them
about the hazard feed (`tests/test_hazards.py`), so what is concurrent in it, and
everything that crosses an await, a crash or a migration, is untested. This
directory models that part, checks it with TLC and proves most of its safety
properties with TLAPS.

Source paths below are relative to `src/apps/backend/app/` (backend) and
`src/apps/mobile/lib/` (mobile).

## 1. The system

Processes: one or more backend pods, each an event loop with one coroutine for
every HTTP request and two for every WebSocket (the receive loop and the pump
from Redis); the apps, each a Dart event loop; operators that run Alembic. Shared
state: the database rows and their schema, the Redis presence SET, the pub/sub
channel of each trip, the Redis keys of sign-in and of the hazard feed, one cached
token and its lock in each process, and on the phone one Hive box. But for that
token lock no handler takes a lock, and no transaction spans two awaits that
matter to another handler, so every await is a place where something else happens.

| Component | Code | State | Operations | What is hard | What makes it correct |
|---|---|---|---|---|---|
| Trip membership and roles | `routers/trips.py`, `group.py`, `privacy.py`, `deps.py` | `trips`, `trip_members` | create, join, leave, ghost, share, ready, role, end | each request reads, then writes, in separate statements | the cap, nobody joins an ended trip, roles only from the creator, a 200 is true |
| WebSocket gateway | `ws/trips.py`, `redis.py`, `routers/messages.py` | sockets, presence SET, subscriptions | connect, receive, fan out, clean up; POST /messages | awaits between check and use, dying pods, two pods, two sockets | presence says who has a socket; a ghost's position stays private; nobody misses a message unnoticed; what is shown is stored |
| Frame ingestion and alerts | `services/ingest.py`, `safety.py` | `locations`, `messages`, `safety_alerts` | store a fix, announce an arrival, raise speed and stranded alerts | read-then-insert de-duplication in several sessions, windows of time | no spam, nothing missed, what is stored is published |
| Live trip controller and queue | `features/map/live_trip_controller.dart`, `outbound_queue.dart`, `core/ws_client.dart` | the Hive box, next keys, connection flag, badge | open, connect, publish, queue, evict, drain, dispose | two controllers on one box, writes that complete later, kills, dead sockets | nothing queued is lost, order kept, newest kept |
| OTP sign-in | `routers/auth.py` | Redis keys per phone, `users` | request, verify | GET, INCR, EXPIRE, DEL as separate commands, expiry, a pod that dies between two | one code opens one session; wrong codes are limited; the owner gets in |
| Expenses | `routers/expenses.py` | `expenses`, `expense_shares` | create, balances | rounding of equal shares, members who come and go, balances in many queries | shares add up, the right members pay, balances add up to zero |
| Hazard feed and cache | `routers/hazards.py`, `services/eonet_service.py` | one cache key | read, fetch, store, read again; slices | slow refreshes that overlap, a failing feed, borders of boxes | answers are fresh and hardly go back in time, failures are hidden, slices lose nothing |
| Map providers, directions, ETAs | `services/maps/`, `routers/directions.py`, `etas.py`, `services/weather.py`, `elevation.py` | settings, the Mappls token and its lock | fall back from provider to provider, fetch a token, decode lines, gather ETAs | one provider failing in one of many ways, one expiring token for all calls | the first route wins, a token outlasts its request, nobody waits for ever, the line shown is the road |
| Database schema | `alembic/`, `models/`, request schemas | tables, columns, CHECKs, `alembic_version` | upgrade, downgrade, next to handlers that write | two operators, refused statements, deaths, rows that no longer fit | the schema is that of the stamped revision, stored words fit, the head serves the handlers |
| Voice, push to talk | `routers/voice.py`, `features/voice/` | room, microphone | connect, talk, release | release while connecting | microphone on only while held |
| Analytics events | `routers/events.py`, `features/analytics/` | Hive box of events | log, flush | kill between post and delete, poison batch | at least once, in order |
| Chat screen | `features/chat/` | list shown | history, echo, live frames | echo against fan-out | each message once |
| SOS button, crash detector, alert sheet | `features/safety/`, `routers/safety.py` | timers | press, hold, cancel, acknowledge | timers not cancelled | an alarm only after a full hold |
| Tile cache | `features/map/tile_cache.dart` | a pool of slots | prefetch | waiters | never more than the bound, none left waiting |
| Location service | `features/map/location_service.dart` | GPS stream, interval | start, adapt, stop | start overtaken by stop | no stream outlives its screen |
| Live links, push, devices, waypoints, reminders, recap, statistics, billing, admin reports, cost, user interface | see `PROJECT.json` | | single-statement CRUD, reports, HTTP clients | | |

How they interact. REST handlers change `trip_members` underneath the gateway,
which checks membership only when a socket opens and ghost mode only for each
location frame. The gateway calls ingestion for each frame; ingestion writes rows,
reads the presence SET to choose whom to push, and returns extra frames that the
gateway publishes after the frame itself. `POST /messages` commits and publishes
on the same channel. The controller on the phone sends frames to the gateway,
directly or from its queue. The handlers for directions and for ETAs call the one
registry, whose Mappls adapter shares its token among all calls of the process.
Alembic changes tables while handlers write rows into them.

`PROJECT.json` lists every hazard found in the survey at its line, with the
properties that watch it.

## 2. Modules

| Module | Models | One step is |
|---|---|---|
| `TripMembership` | one trip's rows and every handler that writes them | one SELECT, or one commit |
| `TripGateway` | the handlers of all sockets on all pods, presence, pub/sub, chat, ghost mode | one Redis command, one SELECT, or one commit |
| `LocationIngest` | what one member's sockets do with location frames | one statement, or an INSERT with its commit |
| `LiveTrip` | controllers, Hive box and its file, sockets, up to the backend | what happens between two awaits |
| `Expenses` | what members spend and how it is split, and the balances | one SELECT, or one commit |
| `SignIn` | the codes, failures, cooldown and account of one phone | one Redis command or one statement |
| `HazardFeed` | requests over the cached feed, its events, its slices | one Redis command, or one answer of the feed |
| `Routing` | the registry and its adapters, the token, directions with weather and elevation, ETAs | one answer of a service, or what follows it up to the next await |
| `Polyline` | the two encodings of lines and their decoders, used by `Routing` | (functions) |
| `Resolver` | the abstract specification: what a fallback chain promises | a provider answers, declines or breaks |
| `Schema` | three Alembic revisions, up and down, and what the backend expects of them | one SQL statement, or a commit |
| `MC...` | instances for TLC: symmetry, roads, feeds, settings, lists of shares | |
| `...Proofs` | theorems about `TripMembership`, `TripGateway`, `LocationIngest`, `LiveTrip`, `Expenses`, `SignIn`, `HazardFeed`, `Routing`, `Schema` | |

`PROJECT.json` maps each definition to its lines. How state and actions
correspond to the code:

**TripMembership.** `role`, `color`, `away` (left_at set), `ghost` and `ready` are
the columns of `trip_members`; `status` and `owner` those of `trips`. A request
sits in a slot of `req` with the step it has reached; `Call` puts it there,
`Serve` moves it on. The ORM writes a column only if the handler changed the
value it had loaded; `dirty` records that, and it matters: a `share_for` that
finds ghost mode already off writes nothing, even if somebody has turned it on
since. `everLeft` and the field `born` are history.

**TripGateway.** `conn[c].step` is the await at which a handler stands. `Connect`
to `Announce` are the handshake, SADD and SUBSCRIBE; `Receive...` takes a frame;
`CheckGhost`, `Ingest`, `StoreMessage`, `ReadAudience`, `PushOffline`, `Publish`,
`PublishExtra` handle it; `MarkOffline`, `Unsubscribe`, `Farewell` are the finally
block. PUBLISH reaches whoever is subscribed at that moment. With `Faults`, a pod
may crash (no finally block), a call may raise (into the except block, the finally
block, or past both, according to where it stands), and the pump may die alone.

**LocationIngest.** `entries` are arrival messages and safety alerts, `h[s]` the
frame a socket's handler is working on and the extras it has made so far. Time is
a clock in ticks that stands still while a frame is handled. The waypoints'
geometry is a table of distances; that one arrival's text mentions another
waypoint's name is a relation.

**LiveTrip.** `box` is what a Hive box shows, `disk` its file, `writes` the writes
under way, `wire` what the socket has been handed. `ctl[c]` is a controller:
next key, keys still to drain, connected flag, badge. `Kill` takes everything
back to the file. A connection may break at any moment, and `Loses` takes what was
on its wire; the history `sunk` remembers the frames that went that way.

**Expenses.** `bill[r]` is a POST, from the member check (`AddExpense`) over the split
(`SplitAsAsked`, `SplitEqually`) to the commit; `sheet[q]` a GET of the balances, one
query for the expenses (`ReadExpenses`) and one for the shares of each (`ReadShares`).
Members leave and join in between. Amounts are numbers of cents; the remainder of an
equal split goes to some members, because the query has no ORDER BY. The fields
`stay` and `met` of a bill, and `due` of a sheet, are history.

**SignIn.** `otp`, `fail` and `cool` are the Redis keys of the phone with the times
they expire, `user` its row. A verification in `req[r]` goes from the GET of the
cooldown over the GET of the code to either INCR, EXPIRE and SETEX of the cooldown, or
two DELs, SELECT and INSERT; `RequestOtp` is one SETEX. `PodDies` ends a verification
between any two commands; a counter that was incremented but got no expiry then
stays (`Never`). `late`, `lone`, `failed`, `spent` and `deaths` are history: that the
code had been consumed before the verification arrived, that it was alone, when
the last `Threshold` verifications failed. `Tick` lets keys expire.

**HazardFeed.** `cache` is the key, with the moment at which its feed was read; a
request that misses it goes to the feed (`FeedAnswers`, `FeedGarbled`, `FeedFails`),
writes the key (`Store`) or reads it again (`ReadAgain`). An answer is represented by the
moment of the feed it shows; `Slice(FetchUpstream(t), query)` is what the client then
gets, with `_normalize_event`, `_infer_severity` and the filters as operators. `newest`
and the field `filled` are history.

**Routing.** `call[c]` is a call of `get_directions`: the candidates it has not heard
from, and where it stands ("lock" and "token" are in `_get_token`, "ask" at a service).
`ProviderAnswers` picks one of seven upstream answers (time-out, a status, no JSON, no
routes, no fields, a line cut off, the road), and the adapter in question turns it into a
route, into one of the two exceptions the registry catches, or into any other one.
`page[d]` is a request for directions, `etas` the one for ETAs. `token` holds the expiry
the process reckons with and the one the service goes by. Lines are sequences of points
in integer units; the two encodings (`Digits`, `Deltas`) and their decoders (`Digit`,
`Points`) are functions, five bits at a time, because what is cut, three-dimensional or
joined from sections is decided there.

**Schema.** `db` is the committed database: its tables, the words stored in columns
under a CHECK, the stamped revision. `run[r]` is one `alembic` process: what it read at
the start, the statement it has reached, what its transaction has made and dropped,
the locks it holds. `Execute` is a statement, refused if PostgreSQL would refuse it, in
which case all is rolled back; `Stamp` is Alembic's guarded update of `alembic_version`.
Handlers write words meanwhile, as far as locks and CHECKs let them. `Orm`, `Sql...`,
`RequestLimits` and `HandlerWords` are what models, handwritten SQL, request validation
and handlers take for granted.

Data is abstracted to what the properties distinguish: no texts, tokens or uuids,
and coordinates only where lines are decoded. One trip, one phone, one key is modelled
at a time, because every query of these handlers is restricted to one.

## 3. What TLC checks

| Run | Instance | Shows |
|---|---|---|
| `trip_concurrent` | 4 users, 2 requests, cap 2, no end | `OvershootBound`: seated members exceed the cap by at most one for each other request; `RoleAuthority`: only the creator changes roles |
| `trip_clients` | 2 users that wait for their answers, every operation but roles | `NoLateJoin`: a call that starts after the end gets nobody in; `ReadYourWrites`: a 200 is true of the caller's row; `NoServerError`: a rejoin never hits the primary key; `MembershipSettles` (liveness) |
| `gateway_clean` | 2 users, 2 sockets, one message | no failures: `NoPhantomPresence`, `GhostFramesDropped`, `AbsentMembersPushed`, `StoredBeforeSeen` |
| `gateway_faults` | 2 pods, crashes and failing calls | `PresenceComplete` for users with one socket at a time |
| `ingest` | 2 sockets, 2 waypoints, 1 tick, replayed frames, failures | `RepeatsBounded`, `NothingMissed`, `StoredIsFanned`, and the inductive invariant `IInv` behind them |
| `queue_durable` | 2 controllers in turn, 3 fixes, a box of 2, connections that break, a kill | `IInv`, the inductive invariant of the proofs; `NoFrameLost`: only the network and the maximum lose a queued frame; `KeyOrder`, `KeepsNewest`, `BadgeAgrees`, `CopiesBounded` |
| `expenses` | 3 users, 2 expenses of 1 or 5 cents, one POST and one GET at a time | `SharesAddUp`: the shares of an expense are its amount; `EvenSplit`: an equal split differs by a cent at most, spares nobody who stays, charges nobody who was no member; `BalancesAddUp`: to zero and to the total |
| `sign_in` | 2 verifications at a time, 2 codes, one death | `CodeSpentOnce`: a consumed code opens nothing any more; `GuessesBounded`: how many failures a counter can count; `OwnerGetsIn`: a cooldown is earned, and a verification that is alone succeeds |
| `hazard_feed` | 2 requests, a feed that changes, six units of time | `AgeBounded`, `BackwardsBounded`: how old an answer is, and how much older than an earlier one; `FailureHidden`; `SliceTrue`: severities are measured, boxes tile |
| `routing` | one request for directions beside the ETAs of two members, six settings with roads | `Resolves`: the calls implement `Resolver`; `TokenGood`; `EtasLoseNobody`; `AnswerTrue`: line, weather samples and climb are those of the road; `AllAnswered` (liveness) |
| `migrations` | 2 operators, every pair of revisions, members and messages written meanwhile | `SchemaIsRevision`, `StoredWordsFit`, `HeadServesHandlers`; `OnlyRolesBlock`: what can make a lone run fail |
| `roles_fit` | one operator | expects a violation: section 5 |

**Bounds and why they are enough.** Every race in these handlers is between two
chains of steps, so two requests, two sockets, two controllers suffice to produce
it; a third socket of a third user (a run of 4.6 million states) showed nothing
new. Cap 2 with four users lets the trip be full, overshot, emptied and refilled,
and a `PaletteSize` of 1 is used up by the first member. The end of the trip is left
to `trip_clients`: it does not touch seats or roles. In `ingest`, an arrival leaves
its window within the behaviour (window of 1 tick, a clock that reaches 1) and an
alert does not (window of 2). A box of 2 with 3 fixes overflows while it is drained.
One message is enough for properties of each message; messages do not meet in the
code. 1 and 5 cents among up to three members are all remainders of a division; two
expenses, one of which may be committed while balances are computed, are what the
sums are over, and POSTs do not read each other. `sign_in` keeps the order of the
code's constants (a window as long as the code lives, a cooldown that is longer; the
threshold is the code's own 3) in few units: keys expire before, while and after
verifications run, and two codes are one that counts and one that does not. In
`hazard_feed` six units are more than a time to live of 3 and a time-out of 2, so that a
key that did not expire would be seen; the feed changes once, and its events have
every shape the code tells apart. `routing` has configurations in which each adapter is
the default, a fallback, or both, an unknown default, and one without keys; tokens live
for 3 units, so that they expire within the 3 a behaviour has, with a skew and a time-out
in the code's order; roads of none, one, two and more points, one more and one fewer
than the samples. `migrations` has all four goals, hence every way up and down.

`MaxMsgs`, `MaxFix`, `MaxKills`, `MaxClock`, `MaxExpenses`, `MaxNow`, `MaxCodes` and
`MaxDeaths` bound behaviours, nothing in the code does. `Replay`, `Faults`, `OneSocket`,
`ClientSerial`, `Overlap` and `Leaky` switch an environment on; each property says in its
comment what it needs. Most properties of `gateway_clean` hold only because failures are
off, and section 5 says what happens with them on. `routing` may stop (a bounded clock,
no requests left) and is the one run without a check for deadlock.

**Fairness.** `FairSpec` of `TripMembership`: weak fairness of `Serve(r)`
for each request. A coroutine of the event loop waits only for the database, which
answers or raises, so a request that has been accepted is answered. Nothing forces
a client to call, an owner to end a trip, or a network to work. That is why
`MembershipSettles` says only: if the trip ends, its membership finally only
shrinks. Without the fairness a join that had read "planned" could wait for ever
and get in at any time. `FairSpec` of `Routing`: weak fairness of each call and of each
handler, none of the clock and none of clients. Every await of theirs ends: httpx has
time-outs, and the event loop runs what is ready. Weak fairness is enough for the token
lock, which is enabled for a waiter whenever nobody holds it, because `asyncio.Lock` is
first come, first served and calls ask for it a bounded number of times.

**Refinement.** `Resolver` knows nothing of tokens, locks or formats: a call goes
through its plan, provider by provider; a decline passes it on, a route or an unknown
exception ends it. `Routing` maps its calls to that (`R`), keeps the plan fixed by the
settings, and lets everything else stutter. The run checks `Resolves`; the theorem
`Refinement` proves it.

**Mutants.** Every checked property has a mutant in the module it is about (the
operators commented as mutants): a plausible mistake in one mapped definition,
under which TLC finds the property violated in the same instance.

## 4. What is proved

`tlapm` checks all obligations of the eight proof modules. The theorems hold for every
set of users, requests, sockets, calls and pods, every cap and palette, every amount,
and every length of windows within the assumptions named below. Each module proves a
conjunction of named parts, `IInv`, inductive (`Invariance`), and derives its types
(`TypeCorrect`) and its properties from it.

`TripMembershipProofs` (from `MembershipConstants`): `CapOvershootBounded`,
`LateJoinsRefused`, `OnlyCreatorGovernsRoles`, and, where clients wait for their answers
(`ClientSerial`), `JoinsNeverFail` and `AnswersAreTrue`. `OvershootBound` is not
inductive: between the count and the INSERT a join has passed but holds no seat.
`SeatInv` therefore counts both: seats taken plus joins past the count stay within Cap -
1 plus the number of requests. A join that passes the count is one more than before, and
at that moment active members were below the cap, so seats are at most Cap - 1 and those
past the count at most all requests; an INSERT moves one from the second term to the
first. That argument fails for members who have left and come back, who are not counted;
hence "seated": never left. `RequestInv` carries what a request has established (a join
past its first step was born before the end; a role request past its check is the
owner's), and `RowInv` that no row but the creator's has the role "owner". `SerialInv` is
what a client who waits gives his handlers: he has one request at a time (`OneAtATime`),
only his own requests write his row, so what a request has read of that row is still so
when it writes (`OwnRowOK`): the join that found no row inserts the only one, and the
handler that found nothing to change was right to write nothing.

`TripGatewayProofs` (from `GatewayConstants`): `NobodyLeftOnline`,
`EveryoneOnlineListed`, `GhostsStayHidden`, `NobodyMissesPush`, `HistoryIsComplete`. The
parts of `IInv`: whose a handler is (`OneHandler`), what
remains true of a ghost's frame and up to which step (`GhostInv`), and what is
established for a message between commit and fan-out (`ChatInv`). The proof has one
lemma per kind of effect a step can have, and one step per action.

`LocationIngestProofs` (from `IngestConstants`, `MentionReflexive`): `RepeatsAreBounded`,
`NothingIsMissed` (where no waypoint's name is part of another's), `StoredIsPublished`.
The bound on repeats counts entries of the window together with handlers that have
looked and are about to insert (`Making`): a handler gets there only when it saw no
entry, when the sum is at most the number of sockets; its INSERT moves one from the
second term to the first; the clock only takes entries out. The proof sorts the
eleven actions by effect (`Quiet`, `Stores`, `Clears`) and shows each effect once.

`LiveTripProofs` (from `LiveTripConstants`): `TypeCorrect` for any screens, and, with one
screen at a time that is not left while its GPS starts (`InTurn`), `KeysInOrder`,
`NothingQueuedIsLost`, `NewestAreKept`, `SentOnceAKill` and `BadgeIsTrue`. None is
inductive by itself: what counts after a kill is the file, which is behind the box.
`FileInv` relates the three: the box is the file once all writes are done (`Catches`),
what is written later is newer and under a greater key unless the older entry has been
deleted by then (`Ordered`), and nothing is deleted twice or before it is put
(`DeletesOnce`). `FileInv` has the file, the writes and the box as parameters, so that
its lemmas are about any three of them: a put or a delete gets to the file, one is added,
the box is reloaded. `KeyOrder` follows from `FileInv`. A kill loses no saved frame
because a frame that is in the box and not in the file is one whose put is still to be
written (`KeptInv`). What the maximum evicts is the least key in the box, hence the
oldest frame, and the box exceeds the maximum only by puts under way, each of which is
followed by its own evictions (`KeepsNewest`). A frame is in the box or once on a wire,
never both, and only a kill brings back one that was delivered (`OnceInv`). The badge is
set after each put and each drain: `BadgeInv` says that it is right or that a put or an
eviction, whose end sets it, is still to come; that needs `LeavingInv` (who is gone has
nothing of its own to set) and `LeftoverInv` (the puts that a screen left behind come
before those of the next one, which still has its drain before it). With two screens at a
time a key is used twice (section 5), which is why `InTurn` is assumed.

`ExpensesAndSignInProofs` holds the proofs of two components that share no state. About
`Expenses` (from `ExpensesConstants`): `EqualSharesEven`, the lemma that every
equal split gives each a number of cents and no two differ by more than one;
`SplitIsEven`; `NoCentLost`; `BalancesAreTrue`. `EvenSplit` speaks of a request that has
split; `BillInv` says of every request in flight that who has been a member all the time
is one now, and that today's members have all been met, which is what the SELECT of the
members turns into `EvenSplit`. `ShareInv` says of a bill before its commit what
`SharesAddUp` says of a stored one. `SheetInv` accounts for a balance sheet half way: its
total is that of the expenses read whose shares have been added (`Booked`), and its
balances add up to zero after each, because what an expense credits to its payer it
debits to its shares. Both rest on lemmas about sums over sets: that a sum is that of one
element and the rest, that it is linear, and that it counts.

About `SignIn` (from `SignInConstants`, among them `0 < Window` and `Window <=
Cooldown`): `CodesOpenOnce`, `FailuresAreBounded`, `OwnersGetIn`. The second rests on a
disjunction: either the counter is below the threshold but for those that are about to
start the cooldown (`Few`), or the cooldown has begun, outlasts the counter, and only
those past its check can still fail (`Cooling`). With a cooldown shorter than the window,
the counter would go on where it was, and the theorem fails. The third has two parts. A
cooldown is earned: `EarnedInv` relates the counter to the history of failures, of which
as many as it counts lie in the window that ends with it; the first INCR and its EXPIRE
fall in one unit of time, unless a pod dies between them. And a verification by itself
gets in: `LoneInv` says what it found when it arrived and nobody can have changed since.

`FeedAndSchemaProofs` holds the proofs of two components that share no state. About
`HazardFeed` (from `HazardConstants`, among them `Ttl > Patience`):
`AnswersAreFresh`, `FailuresAreHidden`, `GoesBackLittle`, and, from `HazardData`, what
types the feed and the queries have, `SlicesAreTrue`. A key written while a request is at
the feed outlives that request, because a time-out is shorter than a time to live; and no
key was written from a feed more than a time-out older than anything shown. `SliceTrue`
is about what `_normalize_event` and the filters compute, for any feed: the severity of
an earthquake lies between those of its weakest and its strongest measurement
(`InferSeverity` takes that of the first geometry that has one), and what a box shows is
what its two halves show, wherever it is cut.

About `Schema` (from `SchemaGoals`): `TablesOfRevision` and `WordsFit`, and, in
`SchemaRunsProofs`, which goes on from there with `WrittenWords` and `WordLengths`,
`HeadServes` and `OnlyRoles`; all for any number of runs of alembic at a time,
between any revisions, and whatever words the handlers write.
The proof does not execute the scripts. Each table is looked at by itself: `Course` is the
sequence of shapes that the statements of a script give it, `End` the shape it ends in. A
table is made by one statement at most and dropped by one, so that a course is found by
following the few statements about it (`EndOne` to `EndFive`) past the others, which let it
rest (`EndRests`). `ScriptTakes` says of every pair of revisions that the script takes
every table from its shape at the one to its shape at the other; in a downgrade that is
what undoing the upgrade means. For the runs, `SchemaInv` says of each transaction that
the tables it has locked are on their course at the statement it has reached (`OnCourse`)
and that the others are as committed; that what it holds nobody else holds (`Locked`), so
a commit of one leaves the tables of another as they were; that a run which has passed a
stamp, and so holds `alembic_version`, started from the revision that is still committed
(`StampHeld`); that on the way up no column is lost (`Climbs`, `Covers`); and that a stored
word whose column the transaction still sees is taken by the table as it sees it (`Fits`),
since a handler does not write to a table that the transaction has locked.

`HeadServes` is about the head. Every column an upgrade gives a table stays there
(`CourseKeeps`, `Given`), so that the statements name what the ORM and the SQL name, and
are as long as the requests allow (`OrmServed`, `SqlServed`, `LimitServed`); and every CHECK
the head has is one an upgrade gave it (`CourseOrigin`, `HeadGuards`), which allows what
the handlers write. `WordLengths`, that those words but for "photographer" have ten
characters at most, is an assumption that TLC evaluates: the length of a string literal is
out of the provers' reach.

`OnlyRoles` is the action property `OnlyRolesBlock`. `Smooth` says of a script that none of
its statements is refused for what it finds among the tables: each that is made is not
there (`Novel`), each that is altered or referred to is (`Present`), what is dropped was
given before and not dropped since (`Spared`), and no other table refers to one that is
dropped (`Knit`, `Unbound`). `ScriptBlock` puts the scripts together, with stamps each of
which asks for the revision the one before it left (`Chained`). What is left are the
rows: from base there are none (`NothingFits`), and later scripts add nothing that looks at
rows but the CHECKs on roles (`Mild`), of which every stored role satisfies the wider
(`RoleFits`). `LoneInv` says that while a run is alone the revision is the one it read, so
that the tables it sees are those `ScriptBlock` speaks of.

The names `SchemaInit` to `SchemaTypeOK` and `ExpensesInit` to `ExpensesInv` carry a
prefix because one module of proofs extends two components.

`RoutingProofs` (from `RoutingConstants`, among them `Skew >= Patience`): `TokensLast`,
`LockIsHeld`, `EtasAreComplete`, `Refinement`, `ShownIsKept` and `RoutesAreTrue`. The
refinement needs from the invariant that an unfinished call has candidates left exactly
while it is asking one; then each step of a call is a step of `Resolver` or a stutter,
adapter by adapter (`GoesOn`). `RoutesAreTrue` is `AnswerTrue` for every road (any number
of points, any coordinates) and any numbers of samples. Its invariant is `ShownInv`,
which speaks of each call and each page by itself: the line of a call is the road as its
adapter reads it, the samples of a page are those of the line of a call that is done, a
profile adds up. The rest is about the operators, in this order:

- `PolylineTrue`, `FlexibleTrue`: a decoder gives back the line that was encoded; of a text
  without its last character Google's gives the line without its last point, HERE's an
  error. A text is read character by character (`VarintsAppend`), `Digits` is read back to
  its number and, cut, to no number (`ReadsEach`), a list of numbers to the list
  (`WrittenReads`), and the differences add up to the points (`PointsAre`).
- `FromPolyline`, `FromFlexible`: the same of the adapters' answers, with HERE's sections.
- `SamplesGoAlong`: the sample indices start at 1, end at the last point and increase
  strictly. They are rounded to even; two quotients that are more than one apart never
  round to the same number (`FurtherOn`).
- `ProfileOK`: gain less loss is the difference of the heights at the ends, and no two
  heights differ by more than gain and loss together (`Climbing`, by induction on the
  number of points).

**Induction over data.** The library's induction theorems have an operator as a
parameter, which the provers here cannot instantiate. The proofs of folds, sums and
recursive functions take a set for the predicate instead, the set of the arguments of
which it is true, and use the theorems about well-founded relations that are stated with
sets (`WFMin`): a least counterexample leads to a smaller one. `MinimalSubset` does that
for finite sets, `Upwards` for numbers; that a fold, or `Digits`, has the value its
equation says, is proved the same way (`FoldExists`, `LeftFoldExists`, `UpToExists`).
Only RECURSIVE operators remain out of reach, and no module declares one.

**Model-checked only.** Liveness under fairness (`MembershipSettles`, `AllAnswered`),
which is out of the prover's reach, as ENABLED is; and `RolesFit`, which TLC refutes
(section 5).

## 5. Where the code and its text disagree

One run expects a violation. `roles_fit`: revision 0002 says that it expands the CHECK on
roles "to cover the new richer set", but leaves the column as it was, VARCHAR(10);
"photographer" has twelve characters, so giving that role to a member is a 500, although
the model in `models/trip.py` says `String(20)`. TLC finds it after one upgrade.

Found with the same modules; to see one, add the property in question to the
configuration named, with the change given:

- rejoining is not counted, so "capped at N" is exceeded by one request after another
  (`CapHolds` in `TripConcurrent.cfg`; `routers/trips.py:170`);
- closing one of a user's sockets takes the user out of the presence SET while the
  other is open (`PresenceComplete` in `GatewayFaults.cfg` with `OneSocket = FALSE`);
- SADD comes before SUBSCRIBE; in between a user is spared the push and does not get
  the message either (`SkippedSeeLive` in `GatewayClean.cfg`);
- an arrival is swallowed when the text of an earlier one contains the waypoint's name
  (`NothingMissed` in `Ingest.cfg` with `Mention <- SharedName`);
- drain deletes a frame that a dead socket has silently dropped (`QueuedArrive` in
  `QueueDurable.cfg`).

Met while modelling, without a run. Membership and gateway: two first joins may overshoot
the cap together (the bound of `OvershootBound` is tight); the owner may give up the role
"owner" and nobody governs roles any more (`routers/group.py:72`); a ghost who leaves
with the socket open is fanned out, as no active row means "not a ghost"
(`ws/trips.py:65`); users of a crashed pod stay in the presence SET, which never expires
(`ws/trips.py:136`). Ingestion: two sockets of one member repeat an arrival
(`RepeatsBounded` is tight); a member who stays within the radius is announced again
after every window (`services/ingest.py:222`); a fix within the wide radius of one
waypoint but nearer to another is no arrival (`services/ingest.py:220`); an arrival is
lost for the others when a later statement of its frame fails (`services/ingest.py:127`,
which is why `owed` forgives it); "stranded" looks at one frame, while the plan wants 15
minutes without movement (`services/safety.py:61`). Mobile: with `Leaky` a GPS service
outlives its controller, whose next keys then collide with its successor's
(`live_trip_controller.dart:103`); with two trips, what was queued on one is drained into
the other (`outbound_queue.dart:13`); live frames overtake the drain
(`live_trip_controller.dart:98`). Expenses: balances add expenses of all currencies and
label the sum with that of the first (`routers/expenses.py:190`); a member who joins and
leaves while an expense is being entered may be charged or not, as the SELECT happens to
fall (`routers/expenses.py:132`).

Sign-in: a success deletes whatever code is there by then, which may be a newer one
(`routers/auth.py:102`); a pod that dies between INCR and EXPIRE leaves a counter without
an expiry, and from the third failure on every one brings a cooldown, however far apart
they are, until a success resets it (`routers/auth.py:95`); two first sign-ins race to
the INSERT, and one of them is a 500; the limit on requests is counted per address,
although the file says per phone.

Hazards: the first magnitude of an earthquake decides, also when a later one is stronger
(`services/eonet_service.py:65`); an event whose fields have the wrong types raises
instead of being dropped, as the docstring of `_normalize_event` has it; a polygon around
a box, without a vertex in it, is not shown in it, although `filter_by_bbox` speaks of
envelopes; a box with west beyond east is accepted and matches nothing; a failing feed is
asked again by every request, as failures are not cached; an answer that is served
because the feed failed is not marked as stale.

Routing: exceptions of httpx and answers that are not JSON are not wrapped in
`MapsProviderError`, as the docstring in `services/maps/base.py` asks, so they
end the call without a fallback, and one of them makes a whole list of ETAs a 500; ETAs
are computed for everybody with a location, members or not, ghosts or not
(`routers/etas.py`); a token that Mappls has revoked is used until it expires
(`services/maps/mappls.py:76`); the weather is always computed, as `Settings` has no
`openweather_api_key`; nothing writes `maps_provider_calls`, which a report reads. Schema:
the color of a subgroup and `paywall_source` of a subscription are not bounded by
their requests and overflow their columns (9 and 40 characters) as a 500.

## 6. What is not modelled

Subgroups and the visibility scope (written, never read by the handlers modelled here),
the receiving side of the controller, the currency of an expense and the list of
expenses, refreshed tokens (signatures without state), rate limits (per address; every
property of `SignIn` holds without them), `force_refresh` of the hazard feed (nothing
passes it), types of columns other than the lengths of texts, UNIQUE and ON DELETE (no
revision changes them), and the components that section 1 lists without a module.
Read-only reports, the user interface and the CRUD routers have no state that two steps
could disagree about; the columns their queries name are checked in `Schema`.

Hazards seen in code without a module: the push-to-talk button released while the room
is still connecting (`ptt_button.dart:103`); the SOS hold timer (`sos_button.dart:23`); an
echo of one's own message that comes in before the answer to its POST
(`chat_screen.dart:138`); a batch of analytics events that is posted twice, or blocks the
queue (`event_logger.dart:61`). And in modelled code, where no property would say more than
the code does: a pod that dies between the commit and the publish of a REST message
(`routers/messages.py:52`); a controller that calls itself connected before the handshake
(`live_trip_controller.dart:96`) and drains what was queued on another trip (`:236`).

## 7. Plan

1. Done: the eleven modules of section 2 and eight proof modules.
2. Done: every safety invariant and action property of the runs is stated by a theorem.
3. Mobile: `PushToTalk`, `EventLog`, `TilePool`, `LocationService`, `SafetyUi`, `ChatScreen`.
4. `Tokens`: refresh, and what a client does with a token that expires between two calls.
5. Abstract specifications: a presence service (who has a socket) that `TripGateway`
   implements without failures and with one socket per user, and a reliable FIFO
   outbox that `LiveTrip` implements while connections break only between frames.
