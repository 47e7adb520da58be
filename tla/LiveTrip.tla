------------------------------ MODULE LiveTrip ------------------------------
(***************************************************************************)
(* The publishing side of the mobile app: LiveTripController (one for each *)
(* trip screen), the Hive box of OutboundQueue that all controllers share, *)
(* and their sockets, up to the backend.                                  *)
(*                                                                         *)
(* Dart runs one event at a time and yields at every await: a step is what *)
(* happens between two awaits.  A Hive box shows a put or a delete at once *)
(* and writes it to its file afterwards, in order; then the future that   *)
(* was returned completes.                                                *)
(*                                                                         *)
(* Of web_socket_channel 3.0.3: connect returns before the handshake and  *)
(* buffers what is added meanwhile; add is silently ignored once the peer *)
(* is gone, and throws after our own close.                               *)
(***************************************************************************)
EXTENDS Integers, Sequences, FiniteSets

CONSTANTS
  Trip,
  Ctl,       \* slots for controllers
  MaxFix,    \* bound: GPS fixes in a behaviour
  MaxEntries, \* maxEntries of OutboundQueue.add
  MaxKills,  \* bound: kills of the app
  Overlap,   \* TRUE: two controllers may be alive at the same time
  Leaky,     \* TRUE: a screen may be left while its GPS service is starting
  NoTrip

ASSUME LiveTripConstants ==
  /\ NoTrip \notin Trip
  /\ MaxFix \in Nat /\ MaxKills \in Nat /\ MaxEntries \in Nat \ {0}
  /\ {Overlap, Leaky} \subseteq BOOLEAN

VARIABLES
  box,     \* the Hive box: a function from its keys to fixes
  disk,    \* the same as of its file
  writes,  \* what is still to be written to the file
  ctl,     \* the controllers
  wire,    \* frames under way on each controller's connection
  sunk,    \* history: fixes added to a sink and lost on the way
  trip,    \* history: the trip each fix was captured for
  saved,   \* history: fixes whose put has completed
  evicted, \* history: fixes deleted to keep the box at maxEntries
  stored,  \* backend: the fixes stored for each trip
  copies,  \* history: how often each fix has come in
  kills

vars == <<box, disk, writes, ctl, wire, sunk, trip, saved, evicted, stored, copies, kills>>

Fix == 1..MaxFix      \* fixes in the order of their t
Fixes == DOMAIN trip  \* those captured so far
Key == 0..MaxFix

\* next: _nextKey; todo: the keys that drain has listed and not yet passed;
\* queued: state.queuedFrames.
Dead ==
  [trip |-> NoTrip, life |-> "none", gps |-> "off", socket |-> "none",
   connected |-> FALSE, next |-> 0, draining |-> FALSE, todo |-> {}, queued |-> 0]

\* A write: one entry put, by drain deleted, or by add, those in excess.
Write(c, op, entries) == [by |-> c, op |-> op, entries |-> entries]

Init ==
  /\ box = [k \in {} |-> 0] /\ disk = box /\ writes = <<>>
  /\ ctl = [c \in Ctl |-> Dead]
  /\ wire = [c \in Ctl |-> <<>>] /\ sunk = {}
  /\ trip = [f \in {} |-> NoTrip]
  /\ saved = {} /\ evicted = {}
  /\ stored = [t \in Trip |-> {}]
  /\ copies = [f \in Fix |-> 0]
  /\ kills = 0

-----------------------------------------------------------------------------
Keys == DOMAIN box
Without(b, K) == [k \in DOMAIN b \ K |-> b[k]]
With(b, e) == [k \in DOMAIN b \cup {e[1]} |-> IF k = e[1] THEN e[2] ELSE b[k]]
Entries(K) == {<<k, box[k]>> : k \in K}
First(K) == CHOOSE k \in K : \A j \in K : k <= j
Last(K) == CHOOSE k \in K : \A j \in K : j <= k
\* Mutant: the newest.
Newest(n) == {k \in Keys : Cardinality({j \in Keys : j > k}) < n}

Oldest(n) == {k \in Keys : Cardinality({j \in Keys : j < k}) < n}

Awaits(c, op) == \E i \in 1..Len(writes) : writes[i].by = c /\ writes[i].op = op

File == <<disk, writes>>
Net == <<wire, sunk>>
Backend == <<stored, copies>>
History == <<trip, saved, evicted>>

\* What becomes of a frame added to the sink of c.
Sends(c, f) ==
  IF ctl[c].socket \in {"handshake", "open"}
  THEN wire' = [wire EXCEPT ![c] = Append(@, f)] /\ UNCHANGED sunk
  ELSE sunk' = sunk \cup {f} /\ UNCHANGED wire

\* What is under way to or from the controllers of C is lost.
Loses(C) ==
  /\ wire' = [c \in Ctl |-> IF c \in C THEN <<>> ELSE wire[c]]
  /\ sunk' = sunk \cup UNION {{wire[c][i] : i \in 1..Len(wire[c])} : c \in C}

-----------------------------------------------------------------------------
(* The life of a controller                                                *)

\* The screen of a trip is opened: OutboundQueue.open is awaited.
Create(c, t) ==
  /\ ctl[c].life = "none"
  /\ Overlap \/ \A d \in Ctl : ctl[d].life \notin {"opening", "live"}
  /\ ctl' = [ctl EXCEPT ![c] = [Dead EXCEPT !.trip = t, !.life = "opening"]]
  /\ UNCHANGED <<box, File, Net, History, Backend, kills>>

\* Mutant: the next key is 0 whatever the box holds.
BootstrapAtZero(c) ==
  /\ ctl[c].life = "opening"
  /\ ctl' = [ctl EXCEPT ![c] =
       [@ EXCEPT !.life = "live", !.gps = "starting", !.socket = "handshake",
                 !.connected = TRUE, !.draining = Keys # {}, !.todo = Keys,
                 !.next = 0, !.queued = Cardinality(Keys)]]
  /\ UNCHANGED <<box, File, Net, History, Backend, kills>>

\* The box is open: connect, call that connected, list the keys to drain and
\* start the GPS service.
Bootstrap(c) ==
  /\ ctl[c].life = "opening"
  /\ ctl' = [ctl EXCEPT ![c] =
       [@ EXCEPT !.life = "live", !.gps = "starting", !.socket = "handshake",
                 !.connected = TRUE, !.draining = Keys # {}, !.todo = Keys,
                 !.next = IF Keys = {} THEN 0 ELSE Last(Keys) + 1,
                 !.queued = Cardinality(Keys)]]
  /\ UNCHANGED <<box, File, Net, History, Backend, kills>>

\* AdaptiveLocationService.start returns; nobody asks whether the controller
\* was disposed meanwhile.
StartGps(c) ==
  /\ ctl[c].gps = "starting"
  /\ \E gps \in {"on", "off"} : ctl' = [ctl EXCEPT ![c].gps = gps]
  /\ UNCHANGED <<box, File, Net, History, Backend, kills>>

\* The screen is left.  What was added to an open socket is still flushed.
Dispose(c) ==
  /\ ctl[c].life = "live"
  /\ Leaky \/ ctl[c].gps # "starting"
  /\ ctl' = [ctl EXCEPT ![c] =
       [@ EXCEPT !.life = "disposed", !.socket = "closed",
                 !.gps = IF ctl[c].gps = "starting" THEN "starting" ELSE "off"]]
  /\ Loses(IF ctl[c].socket = "open" THEN {} ELSE {c})
  /\ UNCHANGED <<box, File, History, Backend, kills>>

\* Nothing of a disposed controller is left to run.
Collect(c) ==
  /\ ctl[c].life = "disposed" /\ ctl[c].gps = "off" /\ ~ctl[c].draining
  /\ ~Awaits(c, "put") /\ ~Awaits(c, "evict") /\ wire[c] = <<>>
  /\ ctl' = [ctl EXCEPT ![c] = Dead]
  /\ UNCHANGED <<box, File, Net, History, Backend, kills>>

\* The app is killed: what is not in the file yet is as if never done.
Kill ==
  /\ kills < MaxKills
  /\ \E c \in Ctl : ctl[c].life # "none"
  /\ box' = disk /\ writes' = <<>>
  /\ ctl' = [c \in Ctl |-> Dead]
  /\ Loses(Ctl)
  /\ kills' = kills + 1
  /\ UNCHANGED <<disk, History, Backend>>

-----------------------------------------------------------------------------
(* The connection; there is no reconnect.                                  *)

HandshakeDone(c) ==
  /\ ctl[c].socket = "handshake"
  /\ ctl' = [ctl EXCEPT ![c].socket = "open"]
  /\ UNCHANGED <<box, File, Net, History, Backend, kills>>

\* The handshake fails or the network goes, with what was under way.
Break(c) ==
  /\ ctl[c].socket \in {"handshake", "open"}
  /\ ctl' = [ctl EXCEPT ![c].socket = "dead"]
  /\ Loses({c})
  /\ UNCHANGED <<box, File, History, Backend, kills>>

\* onError or onDone, if the controller is still there to hear it.
NoticeDown(c) ==
  /\ ctl[c].socket = "dead"
  /\ ctl' = [ctl EXCEPT ![c].socket = "gone", ![c].connected = FALSE]
  /\ UNCHANGED <<box, File, Net, History, Backend, kills>>

\* The backend stores the frame under the connection's trip, once per t.
Deliver(c) ==
  /\ ctl[c].socket \in {"open", "closed"} /\ wire[c] # <<>>
  /\ LET f == Head(wire[c])
         t == ctl[c].trip
     IN  /\ stored' = [stored EXCEPT ![t] = @ \cup {f}]
         /\ copies' = [copies EXCEPT ![f] = @ + 1]
  /\ wire' = [wire EXCEPT ![c] = Tail(@)]
  /\ UNCHANGED <<box, File, ctl, sunk, History, kills>>

-----------------------------------------------------------------------------
(* Publishing and the queue                                                *)

Captured(c) == trip' = [f \in Fixes \cup {Cardinality(Fixes) + 1} |->
                         IF f \in Fixes THEN trip[f] ELSE ctl[c].trip]

\* A fix while connected goes straight to the socket.
PublishLive(c) ==
  /\ ctl[c].gps = "on" /\ ctl[c].connected
  /\ Cardinality(Fixes) < MaxFix
  /\ Captured(c)
  /\ Sends(c, Cardinality(Fixes) + 1)
  /\ UNCHANGED <<box, File, ctl, saved, evicted, Backend, kills>>

\* Mutant: the key is incremented before it is used.
EnqueuePreIncrement(c) ==
  /\ ctl[c].gps = "on" /\ ~ctl[c].connected
  /\ Cardinality(Fixes) < MaxFix
  /\ Captured(c)
  /\ LET k == ctl[c].next + 1
         e == <<k, Cardinality(Fixes) + 1>>
     IN  /\ box' = With(box, e)
         /\ writes' = Append(writes, Write(c, "put", {e}))
         /\ ctl' = [ctl EXCEPT ![c].next = k]
  /\ UNCHANGED <<disk, Net, saved, evicted, Backend, kills>>

\* Otherwise it is put under the next key.
Enqueue(c) ==
  /\ ctl[c].gps = "on" /\ ~ctl[c].connected
  /\ Cardinality(Fixes) < MaxFix
  /\ Captured(c)
  /\ LET k == ctl[c].next
         e == <<k, Cardinality(Fixes) + 1>>
     IN  /\ box' = With(box, e)
         /\ writes' = Append(writes, Write(c, "put", {e}))
         /\ ctl' = [ctl EXCEPT ![c].next = k + 1]
  /\ UNCHANGED <<disk, Net, saved, evicted, Backend, kills>>

Shows(c, b) == ctl' = [ctl EXCEPT ![c].queued = Cardinality(DOMAIN b)]

\* A put is in the file: what exceeds maxEntries is deleted, oldest first.
Added ==
  /\ writes # <<>> /\ Head(writes).op = "put"
  /\ LET w == Head(writes)
         excess == Oldest(Cardinality(Keys) - MaxEntries)
     IN  /\ disk' = With(disk, CHOOSE e \in w.entries : TRUE)
         /\ saved' = saved \cup {e[2] : e \in w.entries}
         /\ evicted' = evicted \cup {box[k] : k \in excess}
         /\ box' = Without(box, excess)
         /\ writes' = IF excess = {} THEN Tail(writes)
                      ELSE Append(Tail(writes), Write(w.by, "evict", Entries(excess)))
         /\ IF excess = {} THEN Shows(w.by, box) ELSE UNCHANGED ctl
  /\ UNCHANGED <<Net, trip, Backend, kills>>

\* So are the deletes of add.
Evicted ==
  /\ writes # <<>> /\ Head(writes).op = "evict"
  /\ disk' = Without(disk, {e[1] : e \in Head(writes).entries})
  /\ writes' = Tail(writes)
  /\ Shows(Head(writes).by, box)
  /\ UNCHANGED <<box, Net, History, Backend, kills>>

\* Mutants: an add that throws is ignored; a frame sent is not deleted.
DrainNextIgnoring(c) ==
  /\ ctl[c].draining /\ ~Awaits(c, "drain") /\ ctl[c].todo # {}
  /\ LET k == First(ctl[c].todo)
     IN  /\ ctl' = [ctl EXCEPT ![c].todo = @ \ {k}]
         /\ box' = Without(box, {k})
         /\ IF k \in Keys /\ ctl[c].socket # "closed"
            THEN Sends(c, box[k]) ELSE UNCHANGED Net
         /\ writes' = IF k \in Keys
                      THEN Append(writes, Write(c, "drain", Entries({k}))) ELSE writes
  /\ UNCHANGED <<disk, History, Backend, kills>>

DrainNextKeeping(c) ==
  /\ ctl[c].draining /\ ctl[c].todo # {}
  /\ LET k == First(ctl[c].todo)
     IN  /\ ctl' = [ctl EXCEPT ![c].todo = @ \ {k}]
         /\ IF k \in Keys /\ ctl[c].socket # "closed"
            THEN Sends(c, box[k]) ELSE UNCHANGED Net
  /\ UNCHANGED <<box, File, History, Backend, kills>>

\* drain: the next frame goes to the socket and is deleted; an add that throws
\* ends it.
DrainNext(c) ==
  /\ ctl[c].draining /\ ~Awaits(c, "drain") /\ ctl[c].todo # {}
  /\ LET k == First(ctl[c].todo)
     IN  \/ /\ k \notin Keys
            /\ ctl' = [ctl EXCEPT ![c].todo = @ \ {k}]
            /\ UNCHANGED <<box, writes, Net>>
         \/ /\ k \in Keys /\ ctl[c].socket # "closed"
            /\ Sends(c, box[k])
            /\ box' = Without(box, {k})
            /\ writes' = Append(writes, Write(c, "drain", Entries({k})))
            /\ ctl' = [ctl EXCEPT ![c].todo = @ \ {k}]
         \/ /\ k \in Keys /\ ctl[c].socket = "closed"
            /\ ctl' = [ctl EXCEPT ![c].todo = {}]
            /\ UNCHANGED <<box, writes, Net>>
  /\ UNCHANGED <<disk, History, Backend, kills>>

\* So is the delete that drain awaits.
Deleted ==
  /\ writes # <<>> /\ Head(writes).op = "drain"
  /\ disk' = Without(disk, {e[1] : e \in Head(writes).entries})
  /\ writes' = Tail(writes)
  /\ UNCHANGED <<box, ctl, Net, History, Backend, kills>>

\* Mutant: the badge is left as it was.
DrainDoneSilently(c) ==
  /\ ctl[c].draining /\ ~Awaits(c, "drain") /\ ctl[c].todo = {}
  /\ ctl' = [ctl EXCEPT ![c].draining = FALSE]
  /\ UNCHANGED <<box, File, Net, History, Backend, kills>>

DrainDone(c) ==
  /\ ctl[c].draining /\ ~Awaits(c, "drain") /\ ctl[c].todo = {}
  /\ ctl' = [ctl EXCEPT ![c] =
       [@ EXCEPT !.draining = FALSE, !.queued = Cardinality(Keys)]]
  /\ UNCHANGED <<box, File, Net, History, Backend, kills>>

Life(c) == Bootstrap(c) \/ StartGps(c) \/ Dispose(c) \/ Collect(c)
Connection(c) == HandshakeDone(c) \/ Break(c) \/ NoticeDown(c) \/ Deliver(c)
Queue(c) ==
  PublishLive(c) \/ Enqueue(c) \/ DrainNext(c) \/ DrainDone(c)

Next ==
  \/ \E c \in Ctl, t \in Trip : Create(c, t)
  \/ \E c \in Ctl : Life(c) \/ Connection(c) \/ Queue(c)
  \/ Added \/ Evicted \/ Deleted
  \/ Kill

Spec == Init /\ [][Next]_vars

-----------------------------------------------------------------------------
(* Properties                                                              *)

ControllerType ==
  [trip : Trip \cup {NoTrip}, life : {"none", "opening", "live", "disposed"},
   gps : {"off", "starting", "on"},
   socket : {"none", "handshake", "open", "dead", "gone", "closed"},
   connected : BOOLEAN, next : Key, draining : BOOLEAN, todo : SUBSET Key, queued : 0..MaxFix]

\* Type invariant.
TypeOK ==
  /\ Keys \subseteq Key /\ box \in [Keys -> Fix]
  /\ DOMAIN disk \subseteq Key /\ disk \in [DOMAIN disk -> Fix]
  /\ writes \in Seq([by : Ctl, op : {"put", "evict", "drain"},
                     entries : SUBSET (Key \X Fix)])
  /\ ctl \in [Ctl -> ControllerType]
  /\ wire \in [Ctl -> Seq(Fix)]
  /\ sunk \in SUBSET Fixes
  /\ Fixes \in SUBSET Fix /\ trip \in [Fixes -> Trip]
  /\ saved \in SUBSET Fixes /\ evicted \in SUBSET Fixes
  /\ stored \in [Trip -> SUBSET Fixes]
  /\ copies \in [Fix -> Nat]
  /\ kills \in 0..MaxKills

InBox == {box[k] : k \in Keys}
Carried == {f \in Fix : \E c \in Ctl : \E i \in 1..Len(wire[c]) : wire[c][i] = f}
Reached == UNION {stored[t] : t \in Trip}

\* A frame whose put has completed is in the box, under way or stored, unless
\* newer frames pushed it out or the network lost it: evictions, kills and
\* controllers that leave in the middle of a drain lose nothing.
NoFrameLost == saved \subseteq evicted \cup sunk \cup InBox \cup Carried \cup Reached

\* "frames captured while disconnected are buffered to Hive and drained on
\* reconnect": whatever the network does, a frame leaves the box for the backend
\* or to make room.
QueuedArrive == saved \subseteq evicted \cup InBox \cup Carried \cup Reached

\* "keyed by an auto-incrementing int so order is preserved": the keys are in the
\* order of capture, whichever controller put them.
KeyOrder == \A j, k \in Keys : j < k => box[j] < box[k]

\* A frame comes in at most once more than the app was killed, whatever breaks:
\* only a kill before the delete is on disk makes drain send a frame again.
CopiesBounded == \A f \in Fix : copies[f] <= 1 + kills

\* "Cap the queue at the most recent" frames: until the app is killed, what was
\* evicted is older than all that is left, and only puts that are pending exceed
\* the maximum.
KeepsNewest ==
  kills = 0 =>
    /\ \A f \in evicted, g \in InBox : f < g
    /\ Cardinality(Keys) <=
         MaxEntries + Cardinality({i \in 1..Len(writes) : writes[i].op = "put"})

\* The badge tells the length of the queue whenever the queue is at rest.
BadgeAgrees ==
  \A c \in Ctl :
    ctl[c].life = "live" /\ ~ctl[c].draining /\ writes = <<>> =>
      ctl[c].queued = Cardinality(Keys)

-----------------------------------------------------------------------------
(* What the types, NoFrameLost and KeyOrder rest on.                       *)

\* The entry <<k, f>> comes from the file d (place 0), or from the put at place i
\* of the writes ws; before place j of the writes it is deleted.
Born(d, ws, i, k, f) ==
  \/ i = 0 /\ k \in DOMAIN d /\ d[k] = f
  \/ i \in 1..Len(ws) /\ ws[i].op = "put" /\ <<k, f>> \in ws[i].entries
Deletes(ws, i, k, f) == ws[i].op # "put" /\ <<k, f>> \in ws[i].entries
Gone(ws, j, k, f) == \E i \in 1..Len(ws) : i < j /\ Deletes(ws, i, k, f)

\* A put writes one entry.
Singles(ws) ==
  \A i \in 1..Len(ws) :
    ws[i].op = "put" => \E k \in Key, f \in Fix : ws[i].entries = {<<k, f>>}

\* What is put later is newer, and its key is greater unless the older entry has
\* been deleted by then.
Ordered(d, ws) ==
  /\ \A k, l \in DOMAIN d : k < l => d[k] < d[l]
  /\ \A i, j \in 0..Len(ws) : i < j =>
       \A k \in Key, f \in Fix : Born(d, ws, i, k, f) =>
         \A l \in Key, g \in Fix : Born(d, ws, j, l, g) =>
           f < g /\ (k < l \/ Gone(ws, j, k, f))

\* What is deleted is there, and is deleted once.
DeletesOnce(d, ws) ==
  \A i \in 1..Len(ws), k \in Key, f \in Fix : Deletes(ws, i, k, f) =>
    /\ \E j \in 0..Len(ws) : j < i /\ Born(d, ws, j, k, f)
    /\ ~Gone(ws, i, k, f)

\* The box b is what the file will be when all is written.
Catches(d, ws, b) ==
  \A k \in Key, f \in Fix :
    (k \in DOMAIN b /\ b[k] = f)
      <=> /\ \E i \in 0..Len(ws) : Born(d, ws, i, k, f)
          /\ ~Gone(ws, Len(ws) + 1, k, f)

FileInv(d, ws, b) == Ordered(d, ws) /\ DeletesOnce(d, ws) /\ Catches(d, ws, b)

\* Fixes are numbered in the order of capture, and a key is less than the number
\* of fixes when it was used.
Count == Cardinality(Fixes)
Below(k, f) == k < f /\ f <= Count
NumberInv ==
  /\ Count \in 0..MaxFix /\ Fixes = 1..Count
  /\ \A k \in Keys : Below(k, box[k])
  /\ \A k \in DOMAIN disk : Below(k, disk[k])
  /\ \A i \in 1..Len(writes) : \A e \in writes[i].entries : Below(e[1], e[2])
  /\ \A c \in Ctl : ctl[c].next <= Count
  /\ \A c \in Ctl : \A i \in 1..Len(wire[c]) : wire[c][i] <= Count

\* A controller that is there has a trip, and without one there is no socket and
\* no GPS.
LifeInv ==
  \A c \in Ctl :
    /\ ctl[c].life # "none" => ctl[c].trip \in Trip
    /\ ctl[c].socket # "none" \/ ctl[c].gps # "off" => ctl[c].life # "none"

\* One screen at a time, which alone has a GPS and whose next key is free.
TurnInv ==
  /\ \A c, d \in Ctl :
       ctl[c].life \in {"opening", "live"} /\ ctl[d].life \in {"opening", "live"}
         => c = d
  /\ \A c \in Ctl : ctl[c].gps # "off" => ctl[c].life = "live"
  /\ \A c \in Ctl : ctl[c].life = "live" => \A k \in Keys : k < ctl[c].next

\* No put of a saved frame is still to come, and frames that are to be written,
\* as saved ones, are kept, sent or evicted.
Kept == evicted \cup sunk \cup InBox \cup Carried \cup Reached
KeptInv ==
  \A i \in 1..Len(writes) : writes[i].op = "put" =>
    \A e \in writes[i].entries : e[2] \in Kept /\ e[2] \notin saved

\* A frame is in one place only, in the box or once on a wire, and has then not come
\* in more often than the app was killed.
OnceInv ==
  /\ \A c, d \in Ctl : \A i \in 1..Len(wire[c]), j \in 1..Len(wire[d]) :
       wire[c][i] = wire[d][j] => c = d /\ i = j
  /\ Carried \cap InBox = {}
  /\ \A f \in InBox \cup Carried : copies[f] <= kills
  /\ \A f \in Fix : f > Count => copies[f] = 0

\* Who drains or has something to write is there, open or disposed; only a
\* disposed one has closed its socket.
LeavingInv ==
  \A c \in Ctl :
    /\ ctl[c].draining \/ (\E i \in 1..Len(writes) : writes[i].by = c)
         => ctl[c].life \in {"live", "disposed"}
    /\ Awaits(c, "drain") \/ ctl[c].todo # {} => ctl[c].draining
    /\ ctl[c].life = "live" => ctl[c].socket # "closed"
    /\ ctl[c].life = "disposed" => ctl[c].socket = "closed"

Puts(c) == {i \in 1..Len(writes) : writes[i].op = "put" /\ writes[i].by = c}

\* A put left over from an earlier screen comes before those of the live one,
\* which until then has drained nothing: the evictions that the put may cause
\* find its drain, or a put of its own, still to come.
LeftoverInv ==
  \A c, d \in Ctl : c # d /\ ctl[c].life = "live" =>
    /\ \A i \in Puts(c), j \in Puts(d) : j < i
    /\ Puts(d) # {} => Keys \subseteq ctl[c].todo \/ Puts(c) # {}

\* The badge is right, or is going to be set once more.
BadgeInv ==
  \A c \in Ctl : ctl[c].life = "live" /\ ~ctl[c].draining =>
    \/ ctl[c].queued = Cardinality(Keys)
    \/ Puts(c) # {} \/ Awaits(c, "evict")

InTurn == ~Overlap /\ ~Leaky

\* The inductive invariant: with any screens the types, and the numbers of fixes
\* and keys; with one at a time (one LiveTripController) the box as
\* OutboundQueue.add and drain leave it is what Hive's file will be, in the order
\* of capture, and no frame in it is lost.
IInv ==
  /\ TypeOK /\ Singles(writes) /\ NumberInv /\ LifeInv
  /\ InTurn => /\ TurnInv /\ FileInv(disk, writes, box)
               /\ KeptInv /\ NoFrameLost
               /\ KeepsNewest
               /\ OnceInv /\ CopiesBounded
               /\ LeavingInv /\ LeftoverInv /\ BadgeInv
=============================================================================
