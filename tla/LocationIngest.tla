--------------------------- MODULE LocationIngest ---------------------------
(***************************************************************************)
(* What the backend does with the location frames of one member           *)
(* (services/ingest.py, services/safety.py): store the fix, announce the  *)
(* arrival at a waypoint, raise the speed and the stranded alert.         *)
(*                                                                         *)
(* A member may have several sockets, each handler with its own database  *)
(* session; a step is one statement, or one INSERT with its commit, and   *)
(* the steps of the handlers interleave.  Every query is restricted to    *)
(* one user and one trip, so one of each is all there is to model.        *)
(*                                                                         *)
(* Time is a clock that stands still while a frame is being handled: that *)
(* takes well under one of the ticks the windows are counted in.          *)
(***************************************************************************)
EXTENDS Integers, FiniteSets

CONSTANTS
  Sock,           \* the member's sockets
  Place,          \* places a fix may be at
  Waypoint,       \* the trip's waypoints
  Dist,           \* ST_Distance of a place and a waypoint
  Radius,         \* waypoints.arrival_radius_m
  Mention,        \* <<w, v>>: "arrived at v" is LIKE "%w%"
  Frame,          \* the location frames of this instance
  ArrivalWindow,  \* 5 minutes, in ticks
  AlertWindow,    \* ALERT_DEDUPE_MINUTES, in ticks
  Replay,         \* TRUE: frames may be older than the moment they come in
  Faults,         \* TRUE: a statement may fail
  MaxClock,       \* bound: the last tick
  NoPlace, NoWaypoint

AlertKind == {"speed", "stranded"}

\* spd is absent, at most 0.5 m/s, less than 110 km/h, or more; bat is absent,
\* at most 10, or more.
FrameType ==
  [place : Place \cup {NoPlace}, speed : {"none", "still", "slow", "fast"},
   battery : {"none", "low", "ok"}]

ASSUME IngestConstants ==
  /\ IsFiniteSet(Sock) /\ Sock # {}
  /\ NoPlace \notin Place /\ NoWaypoint \notin Waypoint
  /\ Waypoint \cap AlertKind = {}
  /\ Dist \in [Place -> [Waypoint -> Nat]]
  /\ Radius \in [Waypoint -> Nat]
  /\ Frame \subseteq FrameType
  /\ ArrivalWindow \in Nat \ {0} /\ AlertWindow \in Nat \ {0}
  /\ MaxClock \in Nat
  /\ Replay \in BOOLEAN /\ Faults \in BOOLEAN

\* No waypoint's name holds a LIKE escape, so that it is like itself.
ASSUME MentionReflexive ==
  Mention \subseteq Waypoint \X Waypoint /\ \A w \in Waypoint : <<w, w>> \in Mention

VARIABLES
  clock,    \* the time, in ticks
  fixes,    \* locations: the place stored for each recorded_at
  entries,  \* messages of kind "arrival", and safety_alerts
  owed,     \* history: entries stored and not yet published, except those of a
            \* handler that failed
  h         \* the handler of each socket

vars == <<clock, fixes, entries, owed, h>>

Time == 0..MaxClock
Subject == Waypoint \cup AlertKind
Entry == [what : Subject, at : Time, by : Sock]

Nothing == [place |-> NoPlace, speed |-> "none", battery |-> "none"]

\* made: the entries this frame has made, the extras of ingest_frame.
Idle ==
  [step |-> "receive", frame |-> Nothing, t |-> 0, near |-> NoWaypoint, made |-> {}]

Step == {"receive", "insert", "nearest", "arrival", "announce", "speed", "stranded",
         "warn speed", "warn stranded", "publish"}

Init ==
  /\ clock = 0
  /\ fixes = [t \in Time |-> NoPlace]
  /\ entries = {}
  /\ owed = {}
  /\ h = [s \in Sock |-> Idle]

-----------------------------------------------------------------------------
At(s, step) == h[s].step = step
GoTo(s, step) == h' = [h EXCEPT ![s].step = step]

Tick ==
  /\ clock < MaxClock
  /\ \A s \in Sock : At(s, "receive")
  /\ clock' = clock + 1
  /\ UNCHANGED <<fixes, entries, owed, h>>

\* _ingest_location: a frame without a position is not looked at any further;
\* recorded_at is the frame's own t, or now.
Receive(s) ==
  /\ At(s, "receive")
  /\ \E f \in Frame, t \in Time :
       /\ t = clock \/ (Replay /\ t < clock)
       /\ h' = [h EXCEPT ![s] =
            [Idle EXCEPT !.step = IF f.place = NoPlace THEN "publish" ELSE "insert",
                         !.frame = IF f.place = NoPlace THEN Nothing ELSE f,
                         !.t = t]]
  /\ UNCHANGED <<clock, fixes, entries, owed>>

\* INSERT ... ON CONFLICT (user_id, trip_id, recorded_at) DO NOTHING, and commit.
InsertFix(s) ==
  /\ At(s, "insert")
  /\ fixes' = [fixes EXCEPT ![h[s].t] = IF @ = NoPlace THEN h[s].frame.place ELSE @]
  /\ GoTo(s, "nearest")
  /\ UNCHANGED <<clock, entries, owed>>

Inside(p, w) == Dist[p][w] <= Radius[w]
Nearest(p) == {w \in Waypoint : \A v \in Waypoint : Dist[p][w] <= Dist[p][v]}

\* _maybe_emit_arrival: only the nearest waypoint is looked at (a tie is broken
\* by the database).
FindNearest(s) ==
  /\ At(s, "nearest")
  /\ LET p == h[s].frame.place
     IN  \/ Waypoint = {} /\ GoTo(s, "speed")
         \/ \E w \in Nearest(p) :
              \/ ~Inside(p, w) /\ GoTo(s, "speed")
              \/ /\ Inside(p, w)
                 /\ h' = [h EXCEPT ![s].step = "arrival", ![s].near = w]
  /\ UNCHANGED <<clock, fixes, entries, owed>>

Since(what, window) == {e \in entries : e.what = what /\ e.at > clock - window}

\* Announced in the last 5 minutes, as far as the text of the messages tells?
Announced(w) ==
  \E v \in Waypoint : <<w, v>> \in Mention /\ Since(v, ArrivalWindow) # {}

\* Mutant: no look at what was announced before.
CheckArrivalNot(s) ==
  /\ At(s, "arrival")
  /\ GoTo(s, "announce")
  /\ UNCHANGED <<clock, fixes, entries, owed>>

CheckArrival(s) ==
  /\ At(s, "arrival")
  /\ GoTo(s, IF Announced(h[s].near) THEN "speed" ELSE "announce")
  /\ UNCHANGED <<clock, fixes, entries, owed>>

\* Mutant: only the last payload is handed back.
MakeLastOnly(s, what, next) ==
  LET e == [what |-> what, at |-> clock, by |-> s]
  IN  /\ entries' = entries \cup {e}
      /\ owed' = owed \cup {e}
      /\ h' = [h EXCEPT ![s].step = next, ![s].made = {e}]

\* INSERT and commit of a message or an alert, handed back to be published.
Make(s, what, next) ==
  LET e == [what |-> what, at |-> clock, by |-> s]
  IN  /\ entries' = entries \cup {e}
      /\ owed' = owed \cup {e}
      /\ h' = [h EXCEPT ![s].step = next, ![s].made = @ \cup {e}]

Announce(s) ==
  /\ At(s, "announce")
  /\ Make(s, h[s].near, "speed")
  /\ UNCHANGED <<clock, fixes>>

\* Mutants: a window one tick short; an alert of any kind counts.
RecentlyAlertedShort(kind) == Since(kind, AlertWindow - 1) # {}
RecentlyAlertedAny(kind) == \E k \in AlertKind : Since(k, AlertWindow) # {}

RecentlyAlerted(kind) == Since(kind, AlertWindow) # {}

\* maybe_emit_speed
CheckSpeed(s) ==
  /\ At(s, "speed")
  /\ GoTo(s, IF h[s].frame.speed = "fast" /\ ~RecentlyAlerted("speed")
             THEN "warn speed" ELSE "stranded")
  /\ UNCHANGED <<clock, fixes, entries, owed>>

WarnSpeed(s) ==
  /\ At(s, "warn speed")
  /\ Make(s, "speed", "stranded")
  /\ UNCHANGED <<clock, fixes>>

\* maybe_emit_stranded: this one frame says the battery is low and the speed is
\* not more than 0.5 m/s, or not known.
LooksStranded(f) == f.battery = "low" /\ f.speed \in {"none", "still"}

CheckStranded(s) ==
  /\ At(s, "stranded")
  /\ GoTo(s, IF LooksStranded(h[s].frame) /\ ~RecentlyAlerted("stranded")
             THEN "warn stranded" ELSE "publish")
  /\ UNCHANGED <<clock, fixes, entries, owed>>

WarnStranded(s) ==
  /\ At(s, "warn stranded")
  /\ Make(s, "stranded", "publish")
  /\ UNCHANGED <<clock, fixes>>

\* Back in trip_socket: the frame and then the extras are published.
Publish(s) ==
  /\ At(s, "publish")
  /\ owed' = owed \ h[s].made
  /\ h' = [h EXCEPT ![s] = Idle]
  /\ UNCHANGED <<clock, fixes, entries>>

\* A statement raises: trip_socket logs it and publishes the frame alone.
IngestFails(s) ==
  /\ Faults
  /\ h[s].step \notin {"receive", "publish"}
  /\ owed' = owed \ h[s].made
  /\ h' = [h EXCEPT ![s] = [Idle EXCEPT !.step = "publish"]]
  /\ UNCHANGED <<clock, fixes, entries>>

Arrival(s) == FindNearest(s) \/ CheckArrival(s) \/ Announce(s)
Safety(s) == CheckSpeed(s) \/ WarnSpeed(s) \/ CheckStranded(s) \/ WarnStranded(s)

Next ==
  \/ Tick
  \/ \E s \in Sock : \/ Receive(s) \/ InsertFix(s) \/ Arrival(s) \/ Safety(s)
                    \/ Publish(s) \/ IngestFails(s)

Spec == Init /\ [][Next]_vars

-----------------------------------------------------------------------------
(* Properties                                                              *)

HandlerType ==
  [step : Step, frame : FrameType, t : Time, near : Waypoint \cup {NoWaypoint},
   made : SUBSET Entry]

\* Type invariant; what is handed back to be published is in the database.
TypeOK ==
  /\ clock \in Time
  /\ fixes \in [Time -> Place \cup {NoPlace}]
  /\ entries \in SUBSET Entry
  /\ owed \in SUBSET entries
  /\ h \in [Sock -> HandlerType]
  /\ \A s \in Sock : h[s].made \subseteq entries

Window(what) == IF what \in AlertKind THEN AlertWindow ELSE ArrivalWindow

\* The de-duplication reads before it inserts, so sockets of one member that
\* race may repeat an arrival or an alert within its window; but never more
\* often than once for each socket.
RepeatsBounded ==
  \A what \in Subject : Cardinality(Since(what, Window(what))) <= Cardinality(Sock)

\* The handlers that have found no recent entry on a subject and will make one.
Making(what) ==
  {s \in Sock : \/ At(s, "announce") /\ h[s].near = what
                \/ At(s, "warn speed") /\ what = "speed"
                \/ At(s, "warn stranded") /\ what = "stranded"}

\* An entry of the window is made, or about to be made, by a socket of its own.
MakingInv ==
  /\ \A what \in Subject :
       Cardinality(Since(what, Window(what))) + Cardinality(Making(what))
         <= Cardinality(Sock)
  /\ \A s \in Sock :
       At(s, "arrival") \/ At(s, "announce") => h[s].near \in Waypoint
  /\ \A e \in entries : e.at <= clock

\* What a handler has made is its own; between frames it has made nothing, and
\* before it has found a waypoint it has none.
MadeInv ==
  \A s \in Sock :
    /\ \A e \in h[s].made : e.by = s
    /\ At(s, "receive") => h[s].made = {}
    /\ h[s].step \in {"receive", "insert", "nearest"} => h[s].near = NoWaypoint

\* The inductive invariant behind the properties of this module: the types, whose
\* an entry is, and that an entry of the window is made, or about to be made,
\* by a socket of its own (_maybe_emit_arrival and services/safety.py look for
\* an earlier entry in one statement and insert theirs in another).
IInv == TypeOK /\ IsFiniteSet(entries) /\ MakingInv /\ MadeInv

Past(s, steps) == h[s].step \in steps

\* The de-duplication never swallows a first announcement: when a frame has been
\* evaluated, what it called for was announced within the window, by this
\* handler or by another.
NothingMissed ==
  \A s \in Sock :
    /\ /\ Past(s, {"speed", "warn speed", "stranded", "warn stranded", "publish"})
       /\ h[s].near # NoWaypoint
       => Since(h[s].near, ArrivalWindow) # {}
    /\ /\ Past(s, {"stranded", "warn stranded", "publish"})
       /\ h[s].frame.speed = "fast"
       => Since("speed", AlertWindow) # {}
    /\ Past(s, {"publish"}) /\ LooksStranded(h[s].frame) =>
         Since("stranded", AlertWindow) # {}

\* "... a system arrival chat message which is also persisted and re-fanned-out":
\* what a handler has stored is what it is about to publish, unless a later
\* statement of that very frame fails; no other handler's failure or
\* de-duplication loses it.
StoredIsFanned == owed = UNION {h[s].made : s \in Sock}
=============================================================================
