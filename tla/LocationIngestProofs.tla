------------------------ MODULE LocationIngestProofs ------------------------
(***************************************************************************)
(* Proofs about LocationIngest, for any number of sockets, waypoints and   *)
(* frames and any windows: how often an arrival or an alert is repeated,   *)
(* that none is swallowed, and that what is stored is published.           *)
(***************************************************************************)
EXTENDS LocationIngest, FiniteSetTheorems, TLAPS

\* Which subjects a handler is about to make an entry on.
Makes(q, what) ==
  \/ q.step = "announce" /\ q.near = what
  \/ q.step = "warn speed" /\ what = "speed"
  \/ q.step = "warn stranded" /\ what = "stranded"

\* NothingMissed, of the handler's record q.
TellsAll(q) ==
  /\ /\ q.step \in {"speed", "warn speed", "stranded", "warn stranded", "publish"}
     /\ q.near # NoWaypoint
     => Since(q.near, ArrivalWindow) # {}
  /\ /\ q.step \in {"stranded", "warn stranded", "publish"}
     /\ q.frame.speed = "fast"
     => Since("speed", AlertWindow) # {}
  /\ q.step = "publish" /\ LooksStranded(q.frame) => Since("stranded", AlertWindow) # {}

\* MadeInv and the second part of MakingInv, of the handler s with record q.
OwnOK(s, q) ==
  /\ q.step \in {"arrival", "announce"} => q.near \in Waypoint
  /\ \A e \in q.made : e.by = s
  /\ q.step = "receive" => q.made = {}
  /\ q.step \in {"receive", "insert", "nearest"} => q.near = NoWaypoint

\* Names of waypoints that are not part of one another.
DistinctNames == \A w \in Waypoint, v \in Waypoint : <<w, v>> \in Mention => w = v

-----------------------------------------------------------------------------
(* Types of the records.                                                   *)

\* Steps and subjects.
LEMMA Values ==
  /\ "receive" \in Step /\ "insert" \in Step /\ "nearest" \in Step
  /\ "arrival" \in Step /\ "announce" \in Step /\ "speed" \in Step
  /\ "stranded" \in Step /\ "warn speed" \in Step /\ "warn stranded" \in Step
  /\ "publish" \in Step
  /\ "speed" \in Subject /\ "stranded" \in Subject /\ Waypoint \subseteq Subject
BY DEF Step, Subject, AlertKind

\* The empty frame, and that it calls for no alert.
LEMMA NothingType ==
  Nothing \in FrameType /\ Nothing.speed # "fast" /\ ~LooksStranded(Nothing)
BY DEF Nothing, FrameType, LooksStranded

\* A record whose fields have their types is one of HandlerType.
LEMMA Members ==
  ASSUME NEW q \in HandlerType
  PROVE  /\ q.step \in Step /\ q.frame \in FrameType /\ q.t \in Time
         /\ q.near \in Waypoint \cup {NoWaypoint} /\ q.made \subseteq Entry
BY DEF HandlerType

\* GoTo.
LEMMA StepType ==
  ASSUME NEW q \in HandlerType, NEW at \in Step
  PROVE  LET n == [q EXCEPT !.step = at]
         IN  /\ n \in HandlerType /\ n.step = at /\ n.frame = q.frame
             /\ n.near = q.near /\ n.made = q.made
BY DEF HandlerType

\* FindNearest.
LEMMA NearType ==
  ASSUME NEW q \in HandlerType, NEW w \in Waypoint
  PROVE  LET n == [q EXCEPT !.step = "arrival", !.near = w]
         IN  /\ n \in HandlerType /\ n.step = "arrival" /\ n.frame = q.frame
             /\ n.near = w /\ n.made = q.made
BY Values DEF HandlerType

\* Make.
LEMMA MakeType ==
  ASSUME NEW q \in HandlerType, NEW at \in Step, NEW e \in Entry
  PROVE  LET n == [q EXCEPT !.step = at, !.made = @ \cup {e}]
         IN  /\ n \in HandlerType /\ n.step = at /\ n.frame = q.frame
             /\ n.near = q.near /\ n.made = q.made \cup {e}
BY DEF HandlerType

\* Publish and IngestFails.
LEMMA IdleAt ==
  ASSUME NEW at \in Step
  PROVE  LET n == [Idle EXCEPT !.step = at]
         IN  /\ n \in HandlerType /\ n.step = at /\ n.frame = Nothing
             /\ n.near = NoWaypoint /\ n.made = {}
<1>1. 0 \in Time
  BY IngestConstants DEF Time
<1> QED
  BY <1>1, NothingType DEF HandlerType, Idle

-----------------------------------------------------------------------------
(* What each step makes of its handler's record.                           *)

\* Only the handler s moves, to the record q.
Moves(s, q) == q \in HandlerType /\ h' = [h EXCEPT ![s] = q]

\* A step that stores no entry and publishes none.
Quiet(s, q) ==
  /\ Moves(s, q)
  /\ UNCHANGED <<clock, entries, owed>>
  /\ fixes' \in [Time -> Place \cup {NoPlace}]
  /\ q.made = h[s].made
  /\ OwnOK(s, q)
  /\ \A what \in Subject : Makes(q, what) => Since(what, Window(what)) = {}
  /\ (DistinctNames /\ TellsAll(h[s])) => TellsAll(q)

\* An INSERT of a message or an alert.
Stores(s, q, what) ==
  LET e == [what |-> what, at |-> clock, by |-> s]
  IN  /\ Moves(s, q)
      /\ UNCHANGED <<clock, fixes>>
      /\ what \in Subject /\ Makes(h[s], what)
      /\ entries' = entries \cup {e} /\ owed' = owed \cup {e}
      /\ q.made = h[s].made \cup {e}
      /\ q.near = h[s].near /\ q.frame = h[s].frame
      /\ q.step \notin {"receive", "insert", "nearest", "arrival", "announce",
                        "warn speed", "warn stranded"}
      /\ (q.step = "speed" /\ what = q.near)
           \/ (q.step = "stranded" /\ what = "speed" /\ h[s].step = "warn speed")
           \/ (q.step = "publish" /\ what = "stranded" /\ h[s].step = "warn stranded")

\* The end of a frame, or of its evaluation.
Clears(s, q) ==
  /\ Moves(s, q)
  /\ UNCHANGED <<clock, fixes, entries>>
  /\ owed' = owed \ h[s].made
  /\ q.made = {} /\ q.near = NoWaypoint /\ q.frame = Nothing
  /\ q.step \in {"receive", "publish"}

\* GoTo.
LEMMA GoToMoves ==
  ASSUME NEW s \in Sock, h \in [Sock -> HandlerType], NEW at \in Step, GoTo(s, at)
  PROVE  LET n == [h[s] EXCEPT !.step = at]
         IN  /\ Moves(s, n) /\ n.step = at /\ n.frame = h[s].frame
             /\ n.near = h[s].near /\ n.made = h[s].made
<1> DEFINE n == [h[s] EXCEPT !.step = at]
<1>1. h[s] \in HandlerType
  OBVIOUS
<1>2. n \in HandlerType /\ n.step = at /\ n.frame = h[s].frame
        /\ n.near = h[s].near /\ n.made = h[s].made
  BY <1>1, StepType
<1>3. h' = [h EXCEPT ![s] = n]
  BY DEF GoTo
<1> QED
  BY <1>2, <1>3 DEF Moves

\* What is known of a handler before its step.
LEMMA Known ==
  ASSUME IInv, NEW s \in Sock
  PROVE  /\ h \in [Sock -> HandlerType] /\ h[s] \in HandlerType /\ OwnOK(s, h[s])
         /\ fixes \in [Time -> Place \cup {NoPlace}]
BY DEF IInv, TypeOK, MakingInv, MadeInv, OwnOK, At

LEMMA ReceiveQuiet ==
  ASSUME IInv, NEW s \in Sock, Receive(s)
  PROVE  \E q \in HandlerType : Quiet(s, q)
<1>1. PICK f \in Frame, t \in Time :
        h' = [h EXCEPT ![s] =
          [Idle EXCEPT !.step = IF f.place = NoPlace THEN "publish" ELSE "insert",
                       !.frame = IF f.place = NoPlace THEN Nothing ELSE f,
                       !.t = t]]
  BY DEF Receive
<1> DEFINE at == IF f.place = NoPlace THEN "publish" ELSE "insert"
           shown == IF f.place = NoPlace THEN Nothing ELSE f
           q == [Idle EXCEPT !.step = at, !.frame = shown, !.t = t]
<1>2. at \in Step /\ shown \in FrameType
  BY Values, NothingType, IngestConstants
<1>3. at \in {"publish", "insert"} /\ (at = "publish" => shown = Nothing)
  OBVIOUS
<1>4. h' = [h EXCEPT ![s] = q]
  BY <1>1
<1> HIDE DEF at, shown
<1>5. q \in HandlerType /\ q.step = at /\ q.frame = shown
        /\ q.near = NoWaypoint /\ q.made = {}
  BY <1>2 DEF HandlerType, Idle
<1> HIDE DEF q
<1>6. h[s].made = {}
  BY Known DEF Receive, At, OwnOK
<1>7. OwnOK(s, q)
  BY <1>5, <1>3 DEF OwnOK
<1>8. \A what \in Subject : ~Makes(q, what)
  BY <1>5, <1>3 DEF Makes
<1>9. TellsAll(q)
  BY <1>5, <1>3, NothingType DEF TellsAll
<1> QED
  BY <1>5, <1>4, <1>6, <1>7, <1>8, <1>9, Known DEF Quiet, Moves, Receive

LEMMA InsertFixQuiet ==
  ASSUME IInv, NEW s \in Sock, InsertFix(s)
  PROVE  \E q \in HandlerType : Quiet(s, q)
<1> DEFINE q == [h[s] EXCEPT !.step = "nearest"]
<1>1. Moves(s, q) /\ q.step = "nearest" /\ q.near = h[s].near /\ q.made = h[s].made
  BY Known, Values, GoToMoves DEF InsertFix
<1> HIDE DEF q
<1>2. OwnOK(s, q) /\ TellsAll(q) /\ \A what \in Subject : ~Makes(q, what)
  BY <1>1, Known DEF OwnOK, TellsAll, Makes, InsertFix, At
<1>3. h[s].t \in Time /\ h[s].frame.place \in Place \cup {NoPlace}
  BY Known, Members DEF FrameType
<1>4. fixes' \in [Time -> Place \cup {NoPlace}]
  BY <1>3, Known DEF InsertFix
<1> QED
  BY <1>1, <1>2, <1>4 DEF Quiet, Moves, InsertFix

LEMMA FindNearestQuiet ==
  ASSUME IInv, NEW s \in Sock, FindNearest(s)
  PROVE  \E q \in HandlerType : Quiet(s, q)
<1>1. CASE GoTo(s, "speed")
  <2> DEFINE q == [h[s] EXCEPT !.step = "speed"]
  <2>1. Moves(s, q) /\ q.step = "speed" /\ q.near = h[s].near /\ q.made = h[s].made
    BY <1>1, Known, Values, GoToMoves
  <2> HIDE DEF q
  <2>2. h[s].near = NoWaypoint
    BY Known DEF OwnOK, FindNearest, At
  <2>3. OwnOK(s, q) /\ TellsAll(q) /\ \A what \in Subject : ~Makes(q, what)
    BY <2>1, <2>2, Known DEF OwnOK, TellsAll, Makes
  <2> QED
    BY <2>1, <2>3, Known DEF Quiet, Moves, FindNearest
<1>2. CASE \E w \in Waypoint :
             h' = [h EXCEPT ![s] = [h[s] EXCEPT !.step = "arrival", !.near = w]]
  <2>1. PICK w \in Waypoint :
          h' = [h EXCEPT ![s] = [h[s] EXCEPT !.step = "arrival", !.near = w]]
    BY <1>2
  <2> DEFINE q == [h[s] EXCEPT !.step = "arrival", !.near = w]
  <2>2. q \in HandlerType /\ q.step = "arrival" /\ q.near = w /\ q.made = h[s].made
    BY Known, NearType
  <2>3. h' = [h EXCEPT ![s] = q]
    BY <2>1
  <2> HIDE DEF q
  <2>4. OwnOK(s, q) /\ TellsAll(q) /\ \A what \in Subject : ~Makes(q, what)
    BY <2>2, Known DEF OwnOK, TellsAll, Makes
  <2> QED
    BY <2>2, <2>3, <2>4, Known DEF Quiet, Moves, FindNearest
<1> QED
  BY <1>1, <1>2 DEF FindNearest, Nearest

\* Reflexive names: what has been announced of w itself counts.
LEMMA NotAnnounced ==
  ASSUME NEW w \in Waypoint, ~Announced(w)
  PROVE  Since(w, ArrivalWindow) = {}
BY MentionReflexive DEF Announced

LEMMA Announcing ==
  ASSUME NEW w \in Waypoint, Announced(w), DistinctNames
  PROVE  Since(w, ArrivalWindow) # {}
BY DEF Announced, DistinctNames

\* Waypoints and alerts have their own windows.
LEMMA Windows ==
  /\ \A w \in Waypoint : Window(w) = ArrivalWindow
  /\ Window("speed") = AlertWindow /\ Window("stranded") = AlertWindow
BY IngestConstants DEF Window, AlertKind

LEMMA CheckArrivalQuiet ==
  ASSUME IInv, NEW s \in Sock, CheckArrival(s)
  PROVE  \E q \in HandlerType : Quiet(s, q)
<1> DEFINE at == IF Announced(h[s].near) THEN "speed" ELSE "announce"
           q == [h[s] EXCEPT !.step = at]
<1>1. at \in Step /\ GoTo(s, at)
  BY Values DEF CheckArrival
<1>2. Moves(s, q) /\ q.step = at /\ q.near = h[s].near /\ q.made = h[s].made
  BY <1>1, Known, GoToMoves
<1>3. h[s].near \in Waypoint
  BY Known DEF OwnOK, CheckArrival, At
<1>4. at \in {"speed", "announce"} /\ (at = "speed" => Announced(h[s].near))
        /\ (at = "announce" => ~Announced(h[s].near))
  OBVIOUS
<1> HIDE DEF q, at
<1>5. OwnOK(s, q)
  BY <1>2, <1>3, <1>4, Known DEF OwnOK
<1>6. \A what \in Subject : Makes(q, what) => Since(what, Window(what)) = {}
  BY <1>2, <1>3, <1>4, NotAnnounced, Windows DEF Makes
<1>7. DistinctNames => TellsAll(q)
  BY <1>2, <1>3, <1>4, Announcing DEF TellsAll
<1> QED
  BY <1>2, <1>5, <1>6, <1>7, Known DEF Quiet, Moves, CheckArrival

LEMMA CheckSpeedQuiet ==
  ASSUME IInv, NEW s \in Sock, CheckSpeed(s)
  PROVE  \E q \in HandlerType : Quiet(s, q)
<1> DEFINE at == IF h[s].frame.speed = "fast" /\ ~RecentlyAlerted("speed")
                 THEN "warn speed" ELSE "stranded"
           q == [h[s] EXCEPT !.step = at]
<1>1. at \in Step /\ GoTo(s, at)
  BY Values DEF CheckSpeed
<1>2. Moves(s, q) /\ q.step = at /\ q.near = h[s].near /\ q.made = h[s].made
        /\ q.frame = h[s].frame
  BY <1>1, Known, GoToMoves
<1>3. /\ at \in {"stranded", "warn speed"}
      /\ at = "warn speed" => Since("speed", AlertWindow) = {}
      /\ at = "stranded" /\ h[s].frame.speed = "fast" => Since("speed", AlertWindow) # {}
  BY DEF RecentlyAlerted
<1> HIDE DEF q, at
<1>4. OwnOK(s, q)
  BY <1>2, <1>3, Known DEF OwnOK
<1>5. \A what \in Subject : Makes(q, what) => Since(what, Window(what)) = {}
  BY <1>2, <1>3, Windows DEF Makes
<1>6. TellsAll(h[s]) => TellsAll(q)
  BY <1>2, <1>3 DEF TellsAll, CheckSpeed, At
<1> QED
  BY <1>2, <1>4, <1>5, <1>6, Known DEF Quiet, Moves, CheckSpeed

LEMMA CheckStrandedQuiet ==
  ASSUME IInv, NEW s \in Sock, CheckStranded(s)
  PROVE  \E q \in HandlerType : Quiet(s, q)
<1> DEFINE at == IF LooksStranded(h[s].frame) /\ ~RecentlyAlerted("stranded")
                 THEN "warn stranded" ELSE "publish"
           q == [h[s] EXCEPT !.step = at]
<1>1. at \in Step /\ GoTo(s, at)
  BY Values DEF CheckStranded
<1>2. Moves(s, q) /\ q.step = at /\ q.near = h[s].near /\ q.made = h[s].made
        /\ q.frame = h[s].frame
  BY <1>1, Known, GoToMoves
<1>3. /\ at \in {"publish", "warn stranded"}
      /\ at = "warn stranded" => Since("stranded", AlertWindow) = {}
      /\ at = "publish" /\ LooksStranded(h[s].frame)
           => Since("stranded", AlertWindow) # {}
  BY DEF RecentlyAlerted
<1> HIDE DEF q, at
<1>4. OwnOK(s, q)
  BY <1>2, <1>3, Known DEF OwnOK
<1>5. \A what \in Subject : Makes(q, what) => Since(what, Window(what)) = {}
  BY <1>2, <1>3, Windows DEF Makes
<1>6. TellsAll(h[s]) => TellsAll(q)
  BY <1>2, <1>3 DEF TellsAll, CheckStranded, At
<1> QED
  BY <1>2, <1>4, <1>5, <1>6, Known DEF Quiet, Moves, CheckStranded

LEMMA MakeStores ==
  ASSUME IInv, NEW s \in Sock, NEW what \in Subject, Makes(h[s], what),
         NEW next \in {"speed", "stranded", "publish"}, Make(s, what, next),
         UNCHANGED <<clock, fixes>>,
         \/ next = "speed" /\ what = h[s].near
         \/ next = "stranded" /\ what = "speed" /\ h[s].step = "warn speed"
         \/ next = "publish" /\ what = "stranded" /\ h[s].step = "warn stranded"
  PROVE  \E q \in HandlerType : Stores(s, q, what)
<1> DEFINE e == [what |-> what, at |-> clock, by |-> s]
           q == [h[s] EXCEPT !.step = next, !.made = @ \cup {e}]
<1>1. e \in Entry
  BY DEF IInv, TypeOK, Entry
<1>2. next \in Step
  BY Values
<1>3. entries' = entries \cup {e} /\ owed' = owed \cup {e}
  BY DEF Make
<1>6. h' = [h EXCEPT ![s] = q]
  BY DEF Make
<1> HIDE DEF e
<1>4. /\ q \in HandlerType /\ q.step = next /\ q.frame = h[s].frame
      /\ q.near = h[s].near /\ q.made = h[s].made \cup {e}
  BY <1>1, <1>2, Known DEF HandlerType
<1> HIDE DEF q
<1> QED
  BY <1>3, <1>4, <1>6 DEF Stores, Moves, e

LEMMA AnnounceStores ==
  ASSUME IInv, NEW s \in Sock, Announce(s)
  PROVE  \E q \in HandlerType, what \in Subject : Stores(s, q, what)
<1>1. h[s].near \in Subject /\ Makes(h[s], h[s].near)
  BY Known, Values DEF OwnOK, Announce, At, Makes
<1> QED
  BY <1>1, MakeStores DEF Announce

LEMMA WarnSpeedStores ==
  ASSUME IInv, NEW s \in Sock, WarnSpeed(s)
  PROVE  \E q \in HandlerType, what \in Subject : Stores(s, q, what)
<1>1. "speed" \in Subject /\ Makes(h[s], "speed") /\ h[s].step = "warn speed"
  BY Values DEF WarnSpeed, At, Makes
<1> QED
  BY <1>1, MakeStores DEF WarnSpeed

LEMMA WarnStrandedStores ==
  ASSUME IInv, NEW s \in Sock, WarnStranded(s)
  PROVE  \E q \in HandlerType, what \in Subject : Stores(s, q, what)
<1>1. "stranded" \in Subject /\ Makes(h[s], "stranded") /\ h[s].step = "warn stranded"
  BY Values DEF WarnStranded, At, Makes
<1> QED
  BY <1>1, MakeStores DEF WarnStranded

LEMMA EndClears ==
  ASSUME IInv, NEW s \in Sock, Publish(s) \/ IngestFails(s)
  PROVE  \E q \in HandlerType : Clears(s, q)
<1>1. CASE Publish(s)
  <2>1. /\ Idle \in HandlerType /\ Idle.step = "receive" /\ Idle.frame = Nothing
        /\ Idle.near = NoWaypoint /\ Idle.made = {}
    <3>1. 0 \in Time
      BY IngestConstants DEF Time
    <3> QED
      BY <3>1, NothingType, Values DEF Idle, HandlerType
  <2> QED
    BY <1>1, <2>1 DEF Publish, Clears, Moves
<1>2. CASE IngestFails(s)
  <2> DEFINE q == [Idle EXCEPT !.step = "publish"]
  <2>1. q \in HandlerType /\ q.step = "publish" /\ q.frame = Nothing
          /\ q.near = NoWaypoint /\ q.made = {}
    BY Values, IdleAt
  <2>2. h' = [h EXCEPT ![s] = q]
    BY <1>2 DEF IngestFails
  <2> HIDE DEF q
  <2> QED
    BY <1>2, <2>1, <2>2 DEF IngestFails, Clears, Moves
<1> QED
  BY <1>1, <1>2

\* Every step of a handler has one of the three effects.
LEMMA Effects ==
  ASSUME IInv, NEW s \in Sock,
         \/ Receive(s) \/ InsertFix(s) \/ Arrival(s) \/ Safety(s)
         \/ Publish(s) \/ IngestFails(s)
  PROVE  \E q \in HandlerType :
           Quiet(s, q) \/ Clears(s, q) \/ \E what \in Subject : Stores(s, q, what)
<1>1. CASE Receive(s) \/ InsertFix(s)
  BY <1>1, ReceiveQuiet, InsertFixQuiet
<1>2. CASE Arrival(s)
  BY <1>2, FindNearestQuiet, CheckArrivalQuiet, AnnounceStores DEF Arrival
<1>3. CASE Safety(s)
  BY <1>3, CheckSpeedQuiet, CheckStrandedQuiet, WarnSpeedStores, WarnStrandedStores
  DEF Safety
<1>4. CASE Publish(s) \/ IngestFails(s)
  BY <1>4, EndClears
<1> QED
  BY <1>1, <1>2, <1>3, <1>4

-----------------------------------------------------------------------------
(* Counting entries and those about to make one.                           *)

\* Both sets, as the invariant counts them.
Load(what) == Cardinality(Since(what, Window(what))) + Cardinality(Making(what))

LEMMA MakingIs ==
  ASSUME NEW what
  PROVE  Making(what) = {s \in Sock : Makes(h[s], what)}
BY DEF Making, Makes, At

LEMMA LoadType ==
  ASSUME IsFiniteSet(entries), NEW what
  PROVE  /\ IsFiniteSet(Since(what, Window(what))) /\ IsFiniteSet(Making(what))
         /\ Cardinality(Since(what, Window(what))) \in Nat
         /\ Cardinality(Making(what)) \in Nat
         /\ Cardinality(Making(what)) <= Cardinality(Sock)
         /\ Cardinality(Sock) \in Nat
<1>1. IsFiniteSet(Sock)
  BY IngestConstants
<1>2. Since(what, Window(what)) \in SUBSET entries
  BY DEF Since
<1>3. Making(what) \in SUBSET Sock
  BY DEF Making
<1> QED
  BY <1>1, <1>2, <1>3, FS_Subset, FS_CardinalityType

\* Of two finite sets none grows: neither does the sum of their sizes.
LEMMA Shrinks ==
  ASSUME NEW A, NEW B, IsFiniteSet(A), IsFiniteSet(B),
         NEW C \in SUBSET A, NEW D \in SUBSET B
  PROVE  Cardinality(C) + Cardinality(D) <= Cardinality(A) + Cardinality(B)
<1>1. Cardinality(C) <= Cardinality(A) /\ Cardinality(D) <= Cardinality(B)
  BY FS_Subset
<1>2. IsFiniteSet(C) /\ IsFiniteSet(D)
  BY FS_Subset
<1>3. Cardinality(C) \in Nat /\ Cardinality(D) \in Nat
        /\ Cardinality(A) \in Nat /\ Cardinality(B) \in Nat
  BY <1>2, FS_CardinalityType
<1> QED
  BY <1>1, <1>3

\* One element may go over from one set to the other.
LEMMA GoesOver ==
  ASSUME NEW A, NEW B, IsFiniteSet(A), IsFiniteSet(B), NEW x, NEW s \in B,
         NEW C \in SUBSET (A \cup {x}), NEW D \in SUBSET (B \ {s})
  PROVE  Cardinality(C) + Cardinality(D) <= Cardinality(A) + Cardinality(B)
<1>1. /\ IsFiniteSet(A \cup {x}) /\ Cardinality(A \cup {x}) <= Cardinality(A) + 1
      /\ IsFiniteSet(B \ {s}) /\ Cardinality(B \ {s}) = Cardinality(B) - 1
      /\ Cardinality(A) \in Nat /\ Cardinality(B) \in Nat
  BY FS_AddElement, FS_RemoveElement, FS_CardinalityType
<1>2. Cardinality(C) + Cardinality(D) <= Cardinality(A \cup {x}) + Cardinality(B \ {s})
  BY <1>1, Shrinks
<1>3. /\ Cardinality(C) \in Nat /\ Cardinality(D) \in Nat
      /\ Cardinality(A \cup {x}) \in Nat /\ Cardinality(B \ {s}) \in Nat
  BY <1>1, FS_Subset, FS_CardinalityType
<1> QED
  BY <1>1, <1>2, <1>3

-----------------------------------------------------------------------------
(* The invariant is inductive.                                             *)

LEMMA MovesOne ==
  ASSUME NEW s \in Sock, NEW q, h \in [Sock -> HandlerType], Moves(s, q)
  PROVE  /\ h' \in [Sock -> HandlerType] /\ h'[s] = q
         /\ \A r \in Sock \ {s} : h'[r] = h[r]
BY DEF Moves

\* MadeInv and the second part of MakingInv, in one.
LEMMA OwnInv ==
  ASSUME \A s \in Sock : OwnOK(s, h[s])
  PROVE  /\ MadeInv
         /\ \A s \in Sock : At(s, "arrival") \/ At(s, "announce") => h[s].near \in Waypoint
BY DEF OwnOK, MadeInv, At

LEMMA OwnInvNext ==
  ASSUME \A s \in Sock : OwnOK(s, h'[s])
  PROVE  /\ MadeInv'
         /\ \A s \in Sock :
              (At(s, "arrival") \/ At(s, "announce"))' => h'[s].near \in Waypoint
BY DEF OwnOK, MadeInv, At

\* Types, when one handler moves.
LEMMA TypeMoves ==
  ASSUME TypeOK, NEW s \in Sock, NEW q, Moves(s, q), clock' = clock,
         fixes' \in [Time -> Place \cup {NoPlace}],
         entries' \in SUBSET Entry, entries \subseteq entries',
         owed' \in SUBSET entries', q.made \subseteq entries'
  PROVE  TypeOK'
BY MovesOne DEF TypeOK

LEMMA QuietKeeps ==
  ASSUME IInv, NEW s \in Sock, NEW q, Quiet(s, q)
  PROVE  IInv'
<1>1. TypeOK'
  BY TypeMoves DEF Quiet, IInv, TypeOK
<1>2. IsFiniteSet(entries)'
  BY DEF Quiet, IInv
<1>3. h' \in [Sock -> HandlerType] /\ h'[s] = q /\ \A r \in Sock \ {s} : h'[r] = h[r]
  BY Known, MovesOne DEF Quiet
<1>4. \A r \in Sock : OwnOK(r, h'[r])
  BY <1>3, Known DEF Quiet
<1>5. ASSUME NEW what \in Subject
      PROVE  Load(what)' <= Cardinality(Sock)
  <2>1. Since(what, Window(what))' = Since(what, Window(what))
    BY DEF Since, Window, Quiet
  <2>2. Making(what)' = {r \in Sock : Makes(h'[r], what)}
    BY DEF Making, Makes, At
  <2>3. CASE Makes(q, what)
    <3>1. Cardinality(Since(what, Window(what))') = 0
      BY <2>1, <2>3, FS_EmptySet DEF Quiet
    <3>2. Making(what)' \in SUBSET Sock /\ IsFiniteSet(Sock)
      BY <2>2, IngestConstants
    <3>3. Cardinality(Making(what)') <= Cardinality(Sock) /\ Cardinality(Making(what)') \in Nat
            /\ Cardinality(Sock) \in Nat
      BY <3>2, FS_Subset, FS_CardinalityType
    <3> QED
      BY <3>1, <3>3 DEF Load
  <2>4. CASE ~Makes(q, what)
    <3>1. Making(what)' \in SUBSET Making(what)
      BY <1>3, <2>2, <2>4, MakingIs
    <3>2. IsFiniteSet(Since(what, Window(what))) /\ IsFiniteSet(Making(what))
      BY LoadType DEF IInv
    <3>3. Load(what)' <= Load(what)
      BY <2>1, <3>1, <3>2, Shrinks DEF Load
    <3>4. Load(what) <= Cardinality(Sock)
      BY DEF IInv, MakingInv, Load
    <3>5. Load(what) \in Nat /\ Cardinality(Sock) \in Nat
      BY LoadType DEF Load, IInv
    <3>6. Load(what)' \in Nat
      <4>1. IsFiniteSet(Making(what)') /\ IsFiniteSet(Since(what, Window(what))')
        BY <2>1, <3>1, <3>2, FS_Subset
      <4> QED
        BY <4>1, FS_CardinalityType DEF Load
    <3> QED
      BY <3>3, <3>4, <3>5, <3>6
  <2> QED
    BY <2>3, <2>4
<1>6. \A e \in entries' : e.at <= clock'
  BY DEF Quiet, IInv, MakingInv
<1> QED
  BY <1>1, <1>2, <1>4, <1>5, <1>6, OwnInvNext DEF IInv, MakingInv, Load

LEMMA MakingNext ==
  ASSUME NEW what
  PROVE  Making(what)' = {r \in Sock : Makes(h'[r], what)}
BY DEF Making, Makes, At

\* Neither set grows: the bound stays.
LEMMA LoadFalls ==
  ASSUME IInv, NEW what \in Subject,
         Since(what, Window(what))' \in SUBSET Since(what, Window(what)),
         Making(what)' \in SUBSET Making(what)
  PROVE  Load(what)' <= Cardinality(Sock)
<1>1. IsFiniteSet(Since(what, Window(what))) /\ IsFiniteSet(Making(what))
  BY LoadType DEF IInv
<1>2. Load(what)' <= Load(what)
  BY <1>1, Shrinks DEF Load
<1>3. Load(what) <= Cardinality(Sock)
  BY DEF IInv, MakingInv, Load
<1>4. Load(what) \in Nat /\ Cardinality(Sock) \in Nat
  BY LoadType DEF Load, IInv
<1>5. IsFiniteSet(Since(what, Window(what))') /\ IsFiniteSet(Making(what)')
  BY <1>1, FS_Subset
<1>6. Load(what)' \in Nat
  BY <1>5, FS_CardinalityType DEF Load
<1> QED
  BY <1>2, <1>3, <1>4, <1>6

LEMMA ClearsKeeps ==
  ASSUME IInv, NEW s \in Sock, NEW q, Clears(s, q)
  PROVE  IInv'
<1>1. TypeOK'
  BY TypeMoves DEF Clears, IInv, TypeOK
<1>2. IsFiniteSet(entries)'
  BY DEF Clears, IInv
<1>3. h' \in [Sock -> HandlerType] /\ h'[s] = q /\ \A r \in Sock \ {s} : h'[r] = h[r]
  BY Known, MovesOne DEF Clears
<1>4. OwnOK(s, q) /\ \A what \in Subject : ~Makes(q, what)
  BY DEF Clears, OwnOK, Makes
<1>5. \A r \in Sock : OwnOK(r, h'[r])
  BY <1>3, <1>4, Known
<1>6. ASSUME NEW what \in Subject
      PROVE  Load(what)' <= Cardinality(Sock)
  <2>1. Since(what, Window(what))' = Since(what, Window(what))
    BY DEF Since, Window, Clears
  <2>2. Making(what)' \in SUBSET Making(what)
    BY <1>3, <1>4, MakingNext, MakingIs
  <2> QED
    BY <2>1, <2>2, LoadFalls
<1>7. \A e \in entries' : e.at <= clock'
  BY DEF Clears, IInv, MakingInv
<1> QED
  BY <1>1, <1>2, <1>5, <1>6, <1>7, OwnInvNext DEF IInv, MakingInv, Load

\* A step that is about to make one entry makes no other.
LEMMA MakesOne ==
  ASSUME NEW q, NEW what \in Subject, NEW w \in Subject, Makes(q, what), Makes(q, w)
  PROVE  w = what
BY DEF Makes

LEMMA StoresKeeps ==
  ASSUME IInv, NEW s \in Sock, NEW q, NEW what \in Subject, Stores(s, q, what)
  PROVE  IInv'
<1> DEFINE e == [what |-> what, at |-> clock, by |-> s]
<1>1. e \in Entry /\ e.what = what /\ e.at = clock /\ e.by = s
  BY DEF IInv, TypeOK, Entry
<1>2. /\ Moves(s, q) /\ UNCHANGED <<clock, fixes>> /\ Makes(h[s], what)
      /\ entries' = entries \cup {e} /\ owed' = owed \cup {e}
      /\ q.made = h[s].made \cup {e} /\ q.near = h[s].near
      /\ q.step \notin {"receive", "insert", "nearest", "arrival", "announce",
                        "warn speed", "warn stranded"}
  BY DEF Stores
<1> HIDE DEF e
<1>3. TypeOK'
  BY <1>1, <1>2, TypeMoves DEF IInv, TypeOK
<1>4. IsFiniteSet(entries)'
  BY <1>2, FS_AddElement DEF IInv
<1>5. h' \in [Sock -> HandlerType] /\ h'[s] = q /\ \A r \in Sock \ {s} : h'[r] = h[r]
  BY <1>2, Known, MovesOne
<1>6. OwnOK(s, q)
  BY <1>1, <1>2, Known DEF OwnOK
<1>7. \A w \in Subject : ~Makes(q, w)
  BY <1>2 DEF Makes
<1>8. \A r \in Sock : OwnOK(r, h'[r])
  BY <1>5, <1>6, Known
<1>9. ASSUME NEW w \in Subject
      PROVE  Load(w)' <= Cardinality(Sock)
  <2>1. Making(w)' \in SUBSET (Making(w) \ {s})
    BY <1>5, <1>7, MakingNext, MakingIs
  <2>2. CASE w = what
    <3>1. Since(w, Window(w))' \in SUBSET (Since(w, Window(w)) \cup {e})
      BY <1>2 DEF Since, Window
    <3>2. s \in Making(w)
      BY <1>2, <2>2, MakingIs
    <3>3. IsFiniteSet(Since(w, Window(w))) /\ IsFiniteSet(Making(w))
      BY LoadType DEF IInv
    <3>4. Load(w)' <= Load(w)
      BY <2>1, <3>1, <3>2, <3>3, GoesOver DEF Load
    <3>5. Load(w) <= Cardinality(Sock)
      BY DEF IInv, MakingInv, Load
    <3>6. Load(w) \in Nat /\ Cardinality(Sock) \in Nat
      BY LoadType DEF Load, IInv
    <3>7. IsFiniteSet(Since(w, Window(w)) \cup {e}) /\ IsFiniteSet(Making(w) \ {s})
      BY <3>3, FS_AddElement, FS_RemoveElement
    <3>8. IsFiniteSet(Since(w, Window(w))') /\ IsFiniteSet(Making(w)')
      BY <2>1, <3>1, <3>7, FS_Subset
    <3>9. Load(w)' \in Nat
      BY <3>8, FS_CardinalityType DEF Load
    <3> QED
      BY <3>4, <3>5, <3>6, <3>9
  <2>3. CASE w # what
    <3>1. Since(w, Window(w))' \in SUBSET Since(w, Window(w))
      BY <1>1, <1>2, <2>3 DEF Since, Window
    <3> QED
      BY <2>1, <3>1, LoadFalls
  <2> QED
    BY <2>2, <2>3
<1>10. \A x \in entries' : x.at <= clock'
  <2>1. clock \in Int
    BY DEF IInv, TypeOK, Time
  <2>2. \A x \in entries : x.at <= clock
    BY DEF IInv, MakingInv
  <2>3. clock' = clock /\ e.at = clock /\ entries' = entries \cup {e}
    BY <1>1, <1>2
  <2>4. e.at <= clock'
    BY <2>1, <2>3
  <2> QED
    BY <2>2, <2>3, <2>4
<1> QED
  BY <1>3, <1>4, <1>8, <1>9, <1>10, OwnInvNext DEF IInv, MakingInv, Load

LEMMA TickKeeps ==
  ASSUME IInv, Tick
  PROVE  IInv'
<1>1. clock \in Nat /\ clock' \in Time /\ clock' = clock + 1
  BY IngestConstants DEF IInv, TypeOK, Time, Tick
<1>2. TypeOK'
  BY <1>1 DEF IInv, TypeOK, Tick
<1>3. \A s \in Sock : OwnOK(s, h'[s])
  BY Known DEF Tick
<1>4. \A x \in entries : x.at \in Int
  BY DEF IInv, TypeOK, Entry, Time
<1>5. \A what : Window(what) \in Nat
  BY IngestConstants DEF Window
<1>6. ASSUME NEW what \in Subject
      PROVE  Load(what)' <= Cardinality(Sock)
  <2>1. Since(what, Window(what))' \in SUBSET Since(what, Window(what))
    <3>1. Window(what)' = Window(what)
      BY DEF Window
    <3>2. SUFFICES ASSUME NEW x \in Since(what, Window(what))'
                   PROVE  x \in Since(what, Window(what))
      OBVIOUS
    <3>3. x \in entries /\ x.what = what /\ x.at > clock' - Window(what)
      BY <3>1, <3>2 DEF Since, Tick
    <3>4. x.at > clock - Window(what)
      BY <3>3, <1>1, <1>4, <1>5
    <3> QED
      BY <3>3, <3>4 DEF Since
  <2>2. Making(what)' = Making(what)
    BY DEF Making, At, Tick
  <2> QED
    BY <2>1, <2>2, LoadFalls
<1>7. \A x \in entries' : x.at <= clock'
  BY <1>1, <1>4 DEF IInv, MakingInv, Tick
<1>8. IsFiniteSet(entries)'
  BY DEF IInv, Tick
<1> QED
  BY <1>2, <1>3, <1>6, <1>7, <1>8, OwnInvNext DEF IInv, MakingInv, Load

LEMMA Initially ==
  ASSUME Init
  PROVE  IInv
<1>1. Idle \in HandlerType /\ 0 \in Time /\ Idle.made = {} /\ Idle.step = "receive"
        /\ Idle.near = NoWaypoint
  <2>1. 0 \in Time
    BY IngestConstants DEF Time
  <2> QED
    BY <2>1, NothingType, Values DEF Idle, HandlerType
<1>2. TypeOK
  BY <1>1 DEF Init, TypeOK
<1>3. \A s \in Sock : OwnOK(s, h[s])
  BY <1>1 DEF Init, OwnOK
<1>4. IsFiniteSet(entries)
  BY FS_EmptySet DEF Init
<1>5. ASSUME NEW what \in Subject
      PROVE  Load(what) <= Cardinality(Sock)
  <2>1. Since(what, Window(what)) = {}
    BY DEF Since, Init
  <2>2. Making(what) = {}
    BY <1>1, MakingIs DEF Init, Makes
  <2>3. Cardinality(Sock) \in Nat
    BY LoadType, <1>4
  <2> QED
    BY <2>1, <2>2, <2>3, FS_EmptySet DEF Load
<1> QED
  BY <1>2, <1>3, <1>4, <1>5, OwnInv DEF IInv, MakingInv, Load, Init

LEMMA Keeps ==
  ASSUME IInv, [Next]_vars
  PROVE  IInv'
<1>1. CASE Tick
  BY <1>1, TickKeeps
<1>2. CASE \E s \in Sock : \/ Receive(s) \/ InsertFix(s) \/ Arrival(s) \/ Safety(s)
                           \/ Publish(s) \/ IngestFails(s)
  BY <1>2, Effects, QuietKeeps, ClearsKeeps, StoresKeeps
<1>3. CASE UNCHANGED vars
  BY <1>3 DEF vars, IInv, TypeOK, MakingInv, MadeInv, Since, Window, Making, At
<1> QED
  BY <1>1, <1>2, <1>3 DEF Next

\* The invariant, for any sockets, waypoints, windows and frames.
THEOREM Invariance == Spec => []IInv
BY Initially, Keeps, PTL DEF Spec

\* Of types.
THEOREM TypeCorrect == Spec => []TypeOK
<1>1. IInv => TypeOK
  BY DEF IInv
<1> QED
  BY <1>1, Invariance, PTL

\* However the handlers of a member's sockets race between the look for an earlier
\* entry and the INSERT, no arrival and no alert is stored more often within its
\* window than the member has sockets.
THEOREM RepeatsAreBounded == Spec => []RepeatsBounded
<1>1. IInv => RepeatsBounded
  <2>1. SUFFICES ASSUME IInv, NEW what \in Subject
                 PROVE  Cardinality(Since(what, Window(what))) <= Cardinality(Sock)
    BY DEF RepeatsBounded
  <2>2. Cardinality(Since(what, Window(what))) + Cardinality(Making(what))
          <= Cardinality(Sock)
    BY <2>1 DEF IInv, MakingInv
  <2> QED
    BY <2>1, <2>2, LoadType DEF IInv
<1> QED
  BY <1>1, Invariance, PTL

-----------------------------------------------------------------------------
(* Nothing is missed.                                                      *)

\* Since and TellsAll, in the next state.
SinceNext(what, window) ==
  {e \in entries' : e.what = what /\ e.at > clock' - window}

TellsNext(q) ==
  /\ /\ q.step \in {"speed", "warn speed", "stranded", "warn stranded", "publish"}
     /\ q.near # NoWaypoint
     => SinceNext(q.near, ArrivalWindow) # {}
  /\ /\ q.step \in {"stranded", "warn stranded", "publish"}
     /\ q.frame.speed = "fast"
     => SinceNext("speed", AlertWindow) # {}
  /\ q.step = "publish" /\ LooksStranded(q.frame) => SinceNext("stranded", AlertWindow) # {}

LEMMA TellsEach ==
  NothingMissed <=> \A s \in Sock : TellsAll(h[s])
BY DEF NothingMissed, TellsAll, Past

LEMMA TellsEachNext ==
  ASSUME \A s \in Sock : TellsNext(h'[s])
  PROVE  NothingMissed'
BY DEF NothingMissed, TellsNext, Past, SinceNext, Since, LooksStranded

\* While the clock stands still, what has been told stays told.
LEMMA StillTold ==
  ASSUME NEW q, TellsAll(q), clock' = clock, entries \subseteq entries'
  PROVE  TellsNext(q)
<1>1. \A what, window : Since(what, window) # {} => SinceNext(what, window) # {}
  BY DEF Since, SinceNext
<1> QED
  BY <1>1 DEF TellsAll, TellsNext

LEMMA StoresTells ==
  ASSUME IInv, NEW s \in Sock, NEW q, NEW what \in Subject, Stores(s, q, what),
         TellsAll(h[s])
  PROVE  TellsNext(q)
<1> DEFINE e == [what |-> what, at |-> clock, by |-> s]
<1>1. e \in entries' /\ e.what = what /\ e.at = clock /\ clock' = clock
        /\ entries \subseteq entries'
  BY DEF Stores
<1>2. clock \in Int /\ ArrivalWindow \in Nat \ {0} /\ AlertWindow \in Nat \ {0}
  BY IngestConstants DEF IInv, TypeOK, Time
<1>3. clock > clock - ArrivalWindow /\ clock > clock - AlertWindow
  BY <1>2
<1> HIDE DEF e
<1>4. SinceNext(what, ArrivalWindow) # {} /\ SinceNext(what, AlertWindow) # {}
  BY <1>1, <1>3 DEF SinceNext
<1>5. TellsNext(h[s])
  BY <1>1, StillTold
<1>6. q.near = h[s].near /\ q.frame = h[s].frame
  BY DEF Stores
<1>7. CASE q.step = "speed" /\ what = q.near
  BY <1>4, <1>7 DEF TellsNext
<1>8. CASE q.step = "stranded" /\ what = "speed" /\ h[s].step = "warn speed"
  BY <1>4, <1>5, <1>6, <1>8 DEF TellsNext
<1>9. CASE q.step = "publish" /\ what = "stranded" /\ h[s].step = "warn stranded"
  BY <1>4, <1>5, <1>6, <1>9 DEF TellsNext
<1> QED
  BY <1>7, <1>8, <1>9 DEF Stores

LEMMA HandlerTells ==
  ASSUME IInv, DistinctNames, NothingMissed, NEW s \in Sock, NEW q \in HandlerType,
         Quiet(s, q) \/ Clears(s, q) \/ \E what \in Subject : Stores(s, q, what)
  PROVE  NothingMissed'
<1>1. Moves(s, q) /\ clock' = clock /\ entries \subseteq entries'
  BY DEF Quiet, Clears, Stores
<1>2. \A r \in Sock : TellsAll(h[r])
  BY TellsEach
<1>3. \A r \in Sock \ {s} : TellsNext(h'[r])
  BY <1>1, <1>2, StillTold, Known, MovesOne
<1>4. TellsNext(q)
  <2>1. CASE Quiet(s, q)
    BY <2>1, <1>1, <1>2, StillTold DEF Quiet
  <2>2. CASE Clears(s, q)
    BY <2>2, NothingType DEF Clears, TellsNext
  <2>3. CASE \E what \in Subject : Stores(s, q, what)
    BY <2>3, <1>2, StoresTells
  <2> QED
    BY <2>1, <2>2, <2>3
<1>5. h'[s] = q
  BY <1>1, Known, MovesOne
<1>6. \A r \in Sock : TellsNext(h'[r])
  BY <1>3, <1>4, <1>5
<1> QED
  BY <1>6, TellsEachNext

\* Where no waypoint's name is part of another's, the look for an earlier entry
\* swallows no first announcement: a frame that has been evaluated has its
\* arrival and its alerts stored within the window, by one handler or another.
THEOREM NothingIsMissed == DistinctNames => (Spec => []NothingMissed)
<1>1. ASSUME DistinctNames
      PROVE  Spec => []NothingMissed
  <2>1. Init => NothingMissed
    <3>1. Idle.step = "receive"
      BY DEF Idle
    <3> QED
      BY <3>1 DEF Init, NothingMissed, Past
  <2>2. ASSUME IInv, NothingMissed, [Next]_vars
        PROVE  NothingMissed'
    <3>1. CASE Tick
      BY <2>2, <3>1 DEF Tick, NothingMissed, Past, At
    <3>2. CASE \E s \in Sock : \/ Receive(s) \/ InsertFix(s) \/ Arrival(s) \/ Safety(s)
                               \/ Publish(s) \/ IngestFails(s)
      BY <1>1, <2>2, <3>2, Effects, HandlerTells
    <3>3. CASE UNCHANGED vars
      BY <2>2, <3>3 DEF vars, NothingMissed, Past, Since
    <3> QED
      BY <2>2, <3>1, <3>2, <3>3 DEF Next
  <2> QED
    BY <2>1, <2>2, Invariance, PTL DEF Spec
<1> QED
  BY <1>1

-----------------------------------------------------------------------------
(* What is stored is published.                                            *)

LEMMA HandlerFans ==
  ASSUME IInv, StoredIsFanned, NEW s \in Sock, NEW q \in HandlerType,
         Quiet(s, q) \/ Clears(s, q) \/ \E what \in Subject : Stores(s, q, what)
  PROVE  StoredIsFanned'
<1>1. Moves(s, q)
  BY DEF Quiet, Clears, Stores
<1>2. h'[s] = q /\ \A r \in Sock \ {s} : h'[r] = h[r]
  BY <1>1, Known, MovesOne
<1>3. \A e : e \in owed <=> \E r \in Sock : e \in h[r].made
  BY DEF StoredIsFanned
<1>4. SUFFICES \A e : e \in owed' <=> \E r \in Sock : e \in h'[r].made
  BY DEF StoredIsFanned
<1>5. CASE Quiet(s, q)
  BY <1>2, <1>3, <1>5 DEF Quiet
<1>6. CASE Clears(s, q)
  <2>1. \A r \in Sock : \A e \in h[r].made : e.by = r
    BY DEF IInv, MadeInv
  <2> QED
    BY <1>2, <1>3, <1>6, <2>1 DEF Clears
<1>7. CASE \E what \in Subject : Stores(s, q, what)
  <2>1. PICK e : owed' = owed \cup {e} /\ q.made = h[s].made \cup {e}
    BY <1>7 DEF Stores
  <2> QED
    BY <1>2, <1>3, <2>1
<1> QED
  BY <1>5, <1>6, <1>7

\* A stored arrival or alert is on its way to be published by the handler that
\* stored it until that handler publishes it or a later statement of the same
\* frame fails: no other handler's step takes it away.
THEOREM StoredIsPublished == Spec => []StoredIsFanned
<1>1. Init => StoredIsFanned
  BY DEF Init, StoredIsFanned, Idle
<1>2. ASSUME IInv, StoredIsFanned, [Next]_vars
      PROVE  StoredIsFanned'
  <2>1. CASE Tick
    BY <1>2, <2>1 DEF Tick, StoredIsFanned
  <2>2. CASE \E s \in Sock : \/ Receive(s) \/ InsertFix(s) \/ Arrival(s) \/ Safety(s)
                             \/ Publish(s) \/ IngestFails(s)
    BY <1>2, <2>2, Effects, HandlerFans
  <2>3. CASE UNCHANGED vars
    BY <1>2, <2>3 DEF vars, StoredIsFanned
  <2> QED
    BY <1>2, <2>1, <2>2, <2>3 DEF Next
<1> QED
  BY <1>1, <1>2, Invariance, PTL DEF Spec
=============================================================================
