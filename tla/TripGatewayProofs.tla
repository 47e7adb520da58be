------------------------- MODULE TripGatewayProofs -------------------------
(* What holds of TripGateway for every number of users, sockets and pods.   *)
EXTENDS TripGateway, TLAPS

-----------------------------------------------------------------------------
(* What the steps of a handler do to its record: the fields the invariants *)
(* speak of, so that the proofs below need not look into the records.      *)

\* Only c's handler changes; it is u's and at s.
Becomes(c, u, s) ==
  /\ conn' \in [Conn -> HandlerType]
  /\ \A d \in Conn : d # c => conn'[d] = conn[d]
  /\ conn'[c].user = u /\ conn'[c].step = s

SameMessage(c) ==
  /\ conn'[c].frame = conn[c].frame /\ conn'[c].msg = conn[c].msg
  /\ conn'[c].saw = conn[c].saw /\ conn'[c].absent = conn[c].absent

SameGhost(c) == conn'[c].hid = conn[c].hid /\ conn'[c].out = conn[c].out

Fresh(c) ==
  /\ conn'[c].frame = "typing" /\ conn'[c].saw = {} /\ conn'[c].absent = {}
  /\ conn'[c].hid = FALSE /\ conn'[c].out = FALSE

LEMMA HandlerInType ==
  \A u \in User \cup {NoOne}, p \in Pod \cup {NoOne}, s \in Step :
    Handler(u, p, s) \in HandlerType
BY GatewayConstants DEF Handler, HandlerType, AllKinds

LEMMA ToEffect ==
  ASSUME TypeOK, NEW c \in Conn, NEW s \in Step, To(c, s)
  PROVE  Becomes(c, conn[c].user, s) /\ SameMessage(c) /\ SameGhost(c)
<1>1. conn[c] \in HandlerType /\ conn \in [Conn -> HandlerType]
  BY DEF TypeOK
<1>2. [conn[c] EXCEPT !.step = s] \in HandlerType
  BY <1>1 DEF HandlerType
<1>3. conn' = [conn EXCEPT ![c] = [conn[c] EXCEPT !.step = s]]
  BY DEF To
<1>4. conn'[c] = [conn[c] EXCEPT !.step = s]
  BY <1>1, <1>3
<1>5. conn'[c].step = s /\ conn'[c].user = conn[c].user
  BY <1>1, <1>4 DEF HandlerType
<1>6. SameMessage(c) /\ SameGhost(c)
  BY <1>1, <1>4 DEF HandlerType, SameMessage, SameGhost
<1>7. QED
  BY <1>1, <1>2, <1>3, <1>5, <1>6 DEF Becomes

LEMMA ResetEffect ==
  ASSUME TypeOK, NEW c \in Conn, NEW u \in User \cup {NoOne},
         NEW p \in Pod \cup {NoOne}, NEW s \in Step,
         conn' = [conn EXCEPT ![c] = Handler(u, p, s)]
  PROVE  Becomes(c, u, s) /\ Fresh(c)
<1>1. Handler(u, p, s) \in HandlerType /\ conn'[c] = Handler(u, p, s)
  BY HandlerInType DEF TypeOK
<1>2. QED
  BY <1>1 DEF Becomes, Fresh, Handler, TypeOK

LEMMA AgainEffect ==
  ASSUME TypeOK, NEW c \in Conn, Again(c)
  PROVE  Becomes(c, conn[c].user, "receive") /\ Fresh(c)
<1> DEFINE h == [Handler(conn[c].user, conn[c].pod, "receive") EXCEPT !.deaf = conn[c].deaf]
<1>1. conn[c] \in HandlerType
  BY DEF TypeOK
<1>2. Handler(conn[c].user, conn[c].pod, "receive") \in HandlerType
  BY <1>1, HandlerInType DEF HandlerType, Step
<1>3. h \in HandlerType
  BY <1>1, <1>2 DEF HandlerType
<1>4. /\ h.user = conn[c].user /\ h.step = "receive"
      /\ h.frame = "typing" /\ h.saw = {} /\ h.absent = {}
      /\ h.hid = FALSE /\ h.out = FALSE
  BY DEF Handler
<1>5. conn' = [conn EXCEPT ![c] = h]
  BY DEF Again, TypeOK
<1> HIDE DEF h
<1>6. QED
  BY <1>3, <1>4, <1>5 DEF Becomes, Fresh, TypeOK

LEMMA ReceiveLocationEffect ==
  ASSUME TypeOK, NEW c \in Conn, ReceiveLocation(c)
  PROVE  /\ Becomes(c, conn[c].user, "check")
         /\ conn'[c].frame = "location"
         /\ conn'[c].saw = conn[c].saw /\ conn'[c].absent = conn[c].absent
         /\ conn'[c].hid = (conn[c].user \in ghost)
         /\ conn'[c].out = (conn[c].user \in ghost /\ conn[c].user \notin member)
<1> DEFINE g == conn[c].user \in ghost
           o == conn[c].user \in ghost /\ conn[c].user \notin member
           h == [conn[c] EXCEPT !.frame = "location", !.step = "check", !.hid = g, !.out = o]
<1>1. conn' = [conn EXCEPT ![c] = h]
  BY DEF ReceiveLocation, TypeOK
<1>2. g \in BOOLEAN /\ o \in BOOLEAN /\ conn[c] \in HandlerType
  BY DEF TypeOK
<1> HIDE DEF g, o
<1>3. h \in HandlerType
  BY <1>2 DEF HandlerType, Step, AllKinds
<1>4. /\ h.user = conn[c].user /\ h.step = "check" /\ h.frame = "location"
      /\ h.saw = conn[c].saw /\ h.absent = conn[c].absent /\ h.hid = g /\ h.out = o
  BY <1>2 DEF HandlerType
<1> HIDE DEF h
<1>5. QED
  BY <1>1, <1>3, <1>4 DEF Becomes, TypeOK, g, o

LEMMA ReceiveMessageEffect ==
  ASSUME TypeOK, NEW c \in Conn, ReceiveMessage(c)
  PROVE  /\ Becomes(c, conn[c].user, "ingest") /\ SameGhost(c)
         /\ conn'[c].frame = "message" /\ conn'[c].msg = nlog + 1
         /\ conn'[c].saw = conn[c].saw /\ conn'[c].absent = conn[c].absent
<1> DEFINE h == [conn[c] EXCEPT !.frame = "message", !.step = "ingest", !.msg = nlog + 1]
<1>1. conn' = [conn EXCEPT ![c] = h]
  BY DEF ReceiveMessage, TypeOK
<1>2. nlog + 1 \in 0..MaxMsgs /\ conn[c] \in HandlerType
  BY GatewayConstants DEF TypeOK, ReceiveMessage
<1>3. h \in HandlerType
  BY <1>2 DEF HandlerType, Step, AllKinds
<1>4. /\ h.user = conn[c].user /\ h.step = "ingest" /\ h.frame = "message"
      /\ h.msg = nlog + 1 /\ h.saw = conn[c].saw /\ h.absent = conn[c].absent
      /\ h.hid = conn[c].hid /\ h.out = conn[c].out
  BY <1>2 DEF HandlerType
<1> HIDE DEF h
<1>5. QED
  BY <1>1, <1>3, <1>4 DEF Becomes, SameGhost, TypeOK

LEMMA ReceiveOtherEffect ==
  ASSUME TypeOK, NEW c \in Conn, ReceiveOther(c)
  PROVE  /\ Becomes(c, conn[c].user, "ingest") /\ SameGhost(c)
         /\ conn'[c].frame # "message"
         /\ conn'[c].saw = conn[c].saw /\ conn'[c].absent = conn[c].absent
<1>1. PICK k \in {"blank", "typing", "sos"} :
        conn' = [conn EXCEPT ![c] = [@ EXCEPT !.frame = k, !.step = "ingest"]]
  BY DEF ReceiveOther
<1> DEFINE h == [conn[c] EXCEPT !.frame = k, !.step = "ingest"]
<1>2. conn' = [conn EXCEPT ![c] = h] /\ conn[c] \in HandlerType
  BY <1>1 DEF TypeOK
<1>3. h \in HandlerType
  BY <1>2 DEF HandlerType, Step, AllKinds
<1>4. /\ h.user = conn[c].user /\ h.step = "ingest" /\ h.frame = k
      /\ h.saw = conn[c].saw /\ h.absent = conn[c].absent
      /\ h.hid = conn[c].hid /\ h.out = conn[c].out
  BY <1>2 DEF HandlerType
<1> HIDE DEF h
<1>5. QED
  BY <1>2, <1>3, <1>4 DEF Becomes, SameGhost, TypeOK

LEMMA IngestEffect ==
  ASSUME TypeOK, NEW c \in Conn, Ingest(c)
  PROVE  Becomes(c, conn[c].user, "publish") /\ SameMessage(c) /\ SameGhost(c)
<1>1. PICK extra \in BOOLEAN :
        conn' = [conn EXCEPT ![c] = [@ EXCEPT !.step = "publish", !.extra = extra]]
  BY DEF Ingest
<1> DEFINE h == [conn[c] EXCEPT !.step = "publish", !.extra = extra]
<1>2. conn' = [conn EXCEPT ![c] = h] /\ conn[c] \in HandlerType
  BY <1>1 DEF TypeOK
<1>3. h \in HandlerType
  BY <1>2 DEF HandlerType, Step
<1>4. /\ h.user = conn[c].user /\ h.step = "publish" /\ h.frame = conn[c].frame
      /\ h.msg = conn[c].msg /\ h.saw = conn[c].saw /\ h.absent = conn[c].absent
      /\ h.hid = conn[c].hid /\ h.out = conn[c].out
  BY <1>2 DEF HandlerType
<1> HIDE DEF h
<1>5. QED
  BY <1>2, <1>3, <1>4 DEF Becomes, SameMessage, SameGhost, TypeOK

LEMMA ReadAudienceEffect ==
  ASSUME TypeOK, NEW c \in Conn, ReadAudience(c)
  PROVE  /\ Becomes(c, conn[c].user, "push") /\ SameGhost(c)
         /\ conn'[c].frame = conn[c].frame /\ conn'[c].msg = conn[c].msg
         /\ conn'[c].saw = online /\ conn'[c].absent = {u \in member : ~Present(u)}
<1> DEFINE a == {u \in member : ~Present(u)}
           h == [conn[c] EXCEPT !.step = "push", !.saw = online, !.absent = a]
<1>1. conn' = [conn EXCEPT ![c] = h]
  BY DEF ReadAudience, TypeOK
<1>2. a \in SUBSET User /\ online \in SUBSET User /\ conn[c] \in HandlerType
  BY DEF TypeOK
<1> HIDE DEF a
<1>3. h \in HandlerType
  BY <1>2 DEF HandlerType, Step
<1>4. /\ h.user = conn[c].user /\ h.step = "push" /\ h.frame = conn[c].frame
      /\ h.msg = conn[c].msg /\ h.saw = online /\ h.absent = a
      /\ h.hid = conn[c].hid /\ h.out = conn[c].out
  BY <1>2 DEF HandlerType
<1> HIDE DEF h
<1>5. QED
  BY <1>1, <1>3, <1>4 DEF Becomes, SameGhost, TypeOK, a

LEMMA PumpDiesEffect ==
  ASSUME TypeOK, NEW c \in Conn, PumpDies(c)
  PROVE  Becomes(c, conn[c].user, conn[c].step) /\ SameMessage(c) /\ SameGhost(c)
<1> DEFINE h == [conn[c] EXCEPT !.deaf = TRUE]
<1>1. conn' = [conn EXCEPT ![c] = h] /\ conn[c] \in HandlerType
  BY DEF PumpDies, TypeOK
<1>2. h \in HandlerType
  BY <1>1 DEF HandlerType
<1>3. /\ h.user = conn[c].user /\ h.step = conn[c].step /\ h.frame = conn[c].frame
      /\ h.msg = conn[c].msg /\ h.saw = conn[c].saw /\ h.absent = conn[c].absent
      /\ h.hid = conn[c].hid /\ h.out = conn[c].out
  BY <1>1 DEF HandlerType
<1> HIDE DEF h
<1>4. QED
  BY <1>1, <1>2, <1>3 DEF Becomes, SameMessage, SameGhost, TypeOK

\* A REST handler or a crash leaves or closes each socket's handler.
LEMMA LeaveTripEffect ==
  ASSUME TypeOK, NEW u \in User, LeaveTrip(u)
  PROVE  /\ conn' \in [Conn -> HandlerType]
         /\ \A c \in Conn :
              /\ conn'[c].user = conn[c].user /\ conn'[c].step = conn[c].step
              /\ SameMessage(c)
              /\ IF conn[c].user = u /\ conn[c].hid THEN conn'[c].out ELSE SameGhost(c)
<1>1. ASSUME NEW c \in Conn
      PROVE  /\ conn'[c] \in HandlerType
             /\ conn'[c].user = conn[c].user /\ conn'[c].step = conn[c].step
             /\ SameMessage(c)
             /\ IF conn[c].user = u /\ conn[c].hid THEN conn'[c].out ELSE SameGhost(c)
  <2>1. conn[c] \in HandlerType
    BY DEF TypeOK
  <2>2. CASE conn[c].user = u /\ conn[c].hid
    <3>1. conn'[c] = [conn[c] EXCEPT !.out = TRUE]
      BY <2>2 DEF LeaveTrip
    <3>2. conn'[c].out = TRUE
      BY <2>1, <3>1 DEF HandlerType
    <3>3. /\ conn'[c] \in HandlerType /\ SameMessage(c)
          /\ conn'[c].user = conn[c].user /\ conn'[c].step = conn[c].step
      BY <2>1, <3>1 DEF HandlerType, SameMessage
    <3>4. QED
      BY <2>2, <3>2, <3>3
  <2>3. CASE ~(conn[c].user = u /\ conn[c].hid)
    <3>1. conn'[c] = conn[c]
      BY <2>3 DEF LeaveTrip
    <3>2. QED
      BY <2>1, <2>3, <3>1 DEF SameMessage, SameGhost
  <2>4. QED
    BY <2>2, <2>3
<1>2. QED
  BY <1>1 DEF LeaveTrip

LEMMA SetGhostEffect ==
  ASSUME TypeOK, NEW u \in User, NEW on \in BOOLEAN, SetGhost(u, on)
  PROVE  /\ conn' \in [Conn -> HandlerType]
         /\ \A c \in Conn :
              /\ conn'[c].user = conn[c].user /\ conn'[c].step = conn[c].step
              /\ SameMessage(c)
              /\ IF conn[c].user = u /\ ~on THEN ~conn'[c].hid ELSE SameGhost(c)
<1>1. ASSUME NEW c \in Conn
      PROVE  /\ conn'[c] \in HandlerType
             /\ conn'[c].user = conn[c].user /\ conn'[c].step = conn[c].step
             /\ SameMessage(c)
             /\ IF conn[c].user = u /\ ~on THEN ~conn'[c].hid ELSE SameGhost(c)
  <2>1. conn[c] \in HandlerType
    BY DEF TypeOK
  <2>2. CASE conn[c].user = u /\ ~on
    <3>1. conn'[c] = [conn[c] EXCEPT !.hid = FALSE, !.out = FALSE]
      BY <2>2 DEF SetGhost
    <3>2. QED
      BY <2>1, <2>2, <3>1 DEF HandlerType, SameMessage
  <2>3. CASE ~(conn[c].user = u /\ ~on)
    <3>1. conn'[c] = conn[c]
      BY <2>3 DEF SetGhost
    <3>2. QED
      BY <2>1, <2>3, <3>1 DEF SameMessage, SameGhost
  <2>4. QED
    BY <2>2, <2>3
<1>2. QED
  BY <1>1 DEF SetGhost

-----------------------------------------------------------------------------
(* Type correctness                                                        *)

LEMMA MessageInType == NoMessage \in MessageType
BY DEF NoMessage, MessageType

LEMMA InitInv == Init => IInv
<1> SUFFICES ASSUME Init PROVE IInv
  OBVIOUS
<1> USE GatewayConstants
<1>1. Closed \in HandlerType
  BY HandlerInType DEF Closed, Step
<1>2. TypeOK
  BY <1>1, MessageInType DEF Init, TypeOK
<1>3. \A c \in Conn : /\ conn[c].user = NoOne /\ conn[c].step = "closed"
                     /\ conn[c].hid = FALSE /\ conn[c].absent = {}
                     /\ conn[c].frame = "typing"
  BY DEF Init, Closed, Handler
<1>4. OneHandler /\ GhostInv /\ PresenceComplete
  BY <1>3 DEF OneHandler, GhostInv, PresenceComplete, Marked
<1>5. NoPhantomPresence /\ ChatInv /\ StoredBeforeSeen
  BY <1>3 DEF Init, NoPhantomPresence, ChatInv, StoredBeforeSeen, NoMessage
<1>6. QED
  BY <1>2, <1>4, <1>5 DEF IInv

\* The steps of a socket's handler.
HandlerStep(c) ==
  Setup(c) \/ Receive(c) \/ Disconnect(c) \/ Handle(c) \/ Cleanup(c) \/ Fail(c)

LEMMA StepConn == TypeOK /\ OneHandler /\ [Next]_vars => conn' \in [Conn -> HandlerType]
<1> SUFFICES ASSUME TypeOK, OneHandler, [Next]_vars
             PROVE  conn' \in [Conn -> HandlerType]
  OBVIOUS
<1> USE DEF Becomes
<1>0. \A c \in Conn : conn[c].user \in User \cup {NoOne} /\ conn[c].pod \in Pod \cup {NoOne}
  BY DEF TypeOK, HandlerType
<1>1. ASSUME NEW u \in User, LeaveTrip(u) PROVE conn' \in [Conn -> HandlerType]
  BY <1>1, LeaveTripEffect
<1>2. ASSUME NEW u \in User, NEW on \in BOOLEAN, SetGhost(u, on)
      PROVE  conn' \in [Conn -> HandlerType]
  BY <1>2, SetGhostEffect
<1>3. ASSUME NEW c \in Conn, NEW u \in User, NEW p \in Pod, Connect(c, u, p)
      PROVE  conn' \in [Conn -> HandlerType]
  BY <1>3, ResetEffect DEF Connect, Step
<1>4. ASSUME NEW p \in Pod, Crash(p) PROVE conn' \in [Conn -> HandlerType]
  <2>1. Closed \in HandlerType
    BY HandlerInType DEF Closed, Step
  <2>2. QED
    BY <1>4, <2>1 DEF Crash, TypeOK
<1>5. ASSUME NEW c \in Conn, Setup(c) \/ Receive(c) \/ Disconnect(c) \/ Cleanup(c)
      PROVE  conn' \in [Conn -> HandlerType]
  <2>1. CASE Setup(c)
    BY <2>1, ToEffect DEF Setup, MarkOnline, Subscribe, Announce, Step
  <2>2. CASE Receive(c)
    BY <2>2, ReceiveLocationEffect, ReceiveMessageEffect, ReceiveOtherEffect DEF Receive
  <2>3. CASE Disconnect(c)
    <3>1. conn' = [conn EXCEPT ![c] = Handler(conn[c].user, conn[c].pod, "offline")]
      BY <2>3 DEF Disconnect, TypeOK
    <3>2. QED
      BY <1>0, <3>1, ResetEffect DEF Step
  <2>4. CASE MarkOffline(c) \/ Unsubscribe(c)
    BY <2>4, ToEffect DEF MarkOffline, Unsubscribe, Step
  <2>5. CASE Farewell(c)
    BY <2>5, ResetEffect DEF Farewell, Closed, Step
  <2>6. QED
    BY <1>5, <2>1, <2>2, <2>3, <2>4, <2>5 DEF Cleanup
<1>6. ASSUME NEW c \in Conn, Handle(c) PROVE conn' \in [Conn -> HandlerType]
  <2>1. CASE CheckGhost(c)
    BY <2>1, ToEffect, AgainEffect DEF CheckGhost, Step
  <2>2. CASE StoreMessage(c) \/ PushOffline(c)
    BY <2>2, ToEffect DEF StoreMessage, PushOffline, Step
  <2>3. CASE Publish(c)
    BY <2>3, ToEffect, AgainEffect DEF Publish, Step
  <2>4. CASE PublishExtra(c)
    BY <2>4, AgainEffect DEF PublishExtra
  <2>5. QED
    BY <1>6, <2>1, <2>2, <2>3, <2>4, IngestEffect, ReadAudienceEffect DEF Handle
<1>7. ASSUME NEW c \in Conn, Fail(c) PROVE conn' \in [Conn -> HandlerType]
  <2>1. CASE HandlerDies(c)
    BY <2>1, ResetEffect DEF HandlerDies, Closed, Step
  <2>2. CASE IngestFails(c)
    BY <2>2, ToEffect DEF IngestFails, Step
  <2>3. CASE LoopFails(c)
    <3>1. conn' = [conn EXCEPT ![c] = Handler(conn[c].user, conn[c].pod, "offline")]
      BY <2>3 DEF LoopFails, TypeOK
    <3>2. QED
      BY <1>0, <3>1, ResetEffect DEF Step
  <2>4. QED
    BY <1>7, <2>1, <2>2, <2>3, PumpDiesEffect DEF Fail
<1>8. CASE UNCHANGED conn
  BY <1>8 DEF TypeOK
<1>9. QED
  BY <1>1, <1>2, <1>3, <1>4, <1>5, <1>6, <1>7, <1>8
     DEF Next, vars, RejoinTrip, PostCommit, PostPublish, PostLost

LEMMA StepType == TypeOK /\ OneHandler /\ [Next]_vars => TypeOK'
<1> SUFFICES ASSUME TypeOK, OneHandler, [Next]_vars PROVE TypeOK'
  OBVIOUS
<1> DEFINE LogOK == log' \in [1..MaxMsgs -> MessageType]
           SetsOK == /\ member' \in SUBSET User /\ ghost' \in SUBSET User
                     /\ online' \in SUBSET User /\ nlog' \in 0..MaxMsgs
<1>0. conn' \in [Conn -> HandlerType]
  BY StepConn
<1>1. /\ conn \in [Conn -> HandlerType]
      /\ \A c \in Conn : conn[c].step # "closed" => conn[c].user \in User
      /\ Audience \in SUBSET User
  BY DEF TypeOK, OneHandler, HandlerType, Audience, Listening
<1>2. \A m \in 1..MaxMsgs : log[m] \in MessageType
  BY DEF TypeOK
<1>3. SetsOK
  <2> USE GatewayConstants DEF TypeOK
  <2>1. ASSUME NEW c \in Conn, HandlerStep(c) PROVE SetsOK
    <3>1. CASE MarkOnline(c)
      BY <1>1, <3>1 DEF MarkOnline, At
    <3>2. CASE MarkOffline(c)
      BY <3>2 DEF MarkOffline
    <3>3. CASE ReceiveMessage(c)
      <4>1. nlog' \in 0..MaxMsgs
        BY <3>3 DEF ReceiveMessage
      <4>2. QED
        BY <3>3, <4>1 DEF ReceiveMessage
    <3>4. CASE ~(MarkOnline(c) \/ MarkOffline(c) \/ ReceiveMessage(c))
      <4>1. UNCHANGED <<member, ghost, online, nlog>>
        BY <2>1, <3>4 DEF HandlerStep, Setup, Subscribe, Announce, Receive,
           ReceiveLocation, ReceiveOther, Disconnect, Handle, CheckGhost, Ingest,
           StoreMessage, ReadAudience, PushOffline, Publish, PublishExtra, Cleanup,
           Unsubscribe, Farewell, Fail, HandlerDies, IngestFails, LoopFails, PumpDies
      <4>2. QED
        BY <4>1
    <3>5. QED
      BY <3>1, <3>2, <3>3, <3>4
  <2>2. CASE \E u \in User, on \in BOOLEAN : SetGhost(u, on)
    BY <2>2 DEF SetGhost
  <2>3. CASE \E u \in User : LeaveTrip(u) \/ RejoinTrip(u)
    BY <2>3 DEF LeaveTrip, RejoinTrip
  <2>4. CASE PostCommit \/ \E m \in 1..MaxMsgs : PostPublish(m) \/ PostLost(m)
    <3>1. /\ nlog' = nlog \/ (nlog < MaxMsgs /\ nlog' = nlog + 1)
          /\ UNCHANGED <<member, ghost, online>>
      BY <2>4 DEF PostCommit, PostPublish, PostLost
    <3>2. QED
      BY <3>1
  <2>5. CASE \E c \in Conn, u \in User, p \in Pod : Connect(c, u, p)
    BY <2>5 DEF Connect
  <2>6. CASE \E p \in Pod : Crash(p)
    BY <2>6 DEF Crash
  <2>7. CASE UNCHANGED vars
    BY <2>7 DEF vars
  <2>8. QED
    BY <2>1, <2>2, <2>3, <2>4, <2>5, <2>6, <2>7 DEF Next, HandlerStep
<1>4. LogOK
  <2> USE DEF TypeOK
  <2>1. ASSUME NEW c \in Conn, HandlerStep(c) PROVE LogOK
    <3> DEFINE m == conn[c].msg
    <3>1. CASE ReceiveMessage(c)
      <4>1. nlog + 1 \in 1..MaxMsgs
        BY <3>1, GatewayConstants DEF ReceiveMessage
      <4>2. [log[nlog + 1] EXCEPT !.stage = "handled"] \in MessageType
        BY <1>2, <4>1 DEF MessageType
      <4>3. QED
        BY <3>1, <4>2 DEF ReceiveMessage
    <3>2. CASE StoreMessage(c)
      <4>1. m \in 1..MaxMsgs => [log[m] EXCEPT !.stored = TRUE] \in MessageType
        BY <1>2 DEF MessageType
      <4>2. QED
        BY <3>2, <4>1 DEF StoreMessage
    <3>3. CASE PushOffline(c)
      <4> DEFINE others == member \ {conn[c].user}
                 pushed == others \ conn[c].saw
                 skipped == others \cap conn[c].saw
                 absent == others \cap conn[c].absent
      <4>1. pushed \in SUBSET User /\ skipped \in SUBSET User /\ absent \in SUBSET User
        OBVIOUS
      <4>2. log' = [log EXCEPT ![m] = [log[m] EXCEPT !.pushed = pushed,
                                        !.skipped = skipped, !.absent = absent]]
        BY <3>3 DEF PushOffline
      <4> HIDE DEF pushed, skipped, absent, m
      <4>3. m \in 1..MaxMsgs =>
              [log[m] EXCEPT !.pushed = pushed, !.skipped = skipped, !.absent = absent]
                \in MessageType
        BY <1>2, <4>1 DEF MessageType
      <4>4. QED
        BY <4>2, <4>3
    <3>4. CASE Publish(c)
      <4>1. m \in 1..MaxMsgs =>
              [log[m] EXCEPT !.stage = "out", !.seen = Audience] \in MessageType
        BY <1>1, <1>2 DEF MessageType
      <4>2. CASE conn[c].frame = "message"
        <5>1. log' = [log EXCEPT ![m] = [log[m] EXCEPT !.stage = "out", !.seen = Audience]]
          BY <3>4, <4>2 DEF Publish
        <5> HIDE DEF m
        <5>2. QED
          BY <4>1, <5>1
      <4>3. CASE conn[c].frame # "message"
        BY <3>4, <4>3 DEF Publish
      <4>4. QED
        BY <4>2, <4>3
    <3>5. CASE ~(ReceiveMessage(c) \/ StoreMessage(c) \/ PushOffline(c) \/ Publish(c))
      BY <2>1, <3>5 DEF HandlerStep, Setup, MarkOnline, Subscribe, Announce, Receive,
         ReceiveLocation, ReceiveOther, Disconnect, Handle, CheckGhost, Ingest,
         ReadAudience, PublishExtra, Cleanup, MarkOffline, Unsubscribe, Farewell, Fail,
         HandlerDies, IngestFails, LoopFails, PumpDies
    <3>6. QED
      BY <3>1, <3>2, <3>3, <3>4, <3>5
  <2>2. CASE PostCommit
    <3>1. nlog + 1 \in 1..MaxMsgs
      BY <2>2, GatewayConstants DEF PostCommit
    <3>2. [log[nlog + 1] EXCEPT !.stage = "committed", !.stored = TRUE] \in MessageType
      BY <1>2, <3>1 DEF MessageType
    <3>3. log' = [log EXCEPT ![nlog + 1] =
                    [log[nlog + 1] EXCEPT !.stage = "committed", !.stored = TRUE]]
      BY <2>2, <3>1 DEF PostCommit
    <3>4. QED
      BY <3>2, <3>3
  <2>3. ASSUME NEW m \in 1..MaxMsgs, PostPublish(m) PROVE LogOK
    <3>1. [log[m] EXCEPT !.stage = "out", !.seen = Audience] \in MessageType
      BY <1>1, <1>2 DEF MessageType
    <3>2. log' = [log EXCEPT ![m] = [log[m] EXCEPT !.stage = "out", !.seen = Audience]]
      BY <2>3 DEF PostPublish
    <3>3. QED
      BY <3>1, <3>2
  <2>4. ASSUME NEW m \in 1..MaxMsgs, PostLost(m) PROVE LogOK
    <3>1. [log[m] EXCEPT !.stage = "lost"] \in MessageType
      BY <1>2 DEF MessageType
    <3>2. QED
      BY <2>4, <3>1 DEF PostLost
  <2>5. CASE UNCHANGED log
    BY <2>5
  <2>6. QED
    BY <2>1, <2>2, <2>3, <2>4, <2>5
       DEF Next, HandlerStep, vars, LeaveTrip, RejoinTrip, SetGhost, Connect, Crash
<1>5. QED
  BY <1>0, <1>3, <1>4 DEF TypeOK

-----------------------------------------------------------------------------
(* Whose a handler is, and the presence set                                *)

\* Between a handler's first and last step only four things can happen to its
\* user's presence.
LEMMA PresenceEffect ==
  ASSUME TypeOK, NEW c \in Conn, HandlerStep(c)
  PROVE  /\ conn[c].step # "closed"
         /\ \/ /\ conn[c].step = "accept" /\ online' = online \cup {conn[c].user}
               /\ Becomes(c, conn[c].user, "subscribe")
            \/ /\ conn[c].step = "offline" /\ online' = online \ {conn[c].user}
               /\ Becomes(c, conn[c].user, "unsubscribe")
            \/ /\ online' = online /\ Becomes(c, conn[c].user, conn'[c].step)
               /\ conn'[c].step # "closed"
               /\ conn'[c].step \in Marked <=> conn[c].step \in Marked
            \/ /\ online' = online /\ Becomes(c, NoOne, "closed")
               /\ conn[c].step \in Marked => Faults
<1> DEFINE Kept == /\ conn[c].step # "closed"
                   /\ online' = online /\ Becomes(c, conn[c].user, conn'[c].step)
                   /\ conn'[c].step # "closed"
                   /\ conn'[c].step \in Marked <=> conn[c].step \in Marked
           Ended == /\ conn[c].step # "closed"
                    /\ online' = online /\ Becomes(c, NoOne, "closed")
                    /\ conn[c].step \in Marked => Faults
<1>0. conn[c].user \in User \cup {NoOne} /\ conn[c].pod \in Pod \cup {NoOne}
  BY DEF TypeOK, HandlerType
<1> USE DEF At, Becomes
<1>1. CASE MarkOnline(c)
  BY <1>1, ToEffect DEF MarkOnline, Step
<1>2. CASE MarkOffline(c)
  BY <1>2, ToEffect DEF MarkOffline, Step
<1>3. CASE Subscribe(c) \/ Announce(c)
  <2>1. Kept
    BY <1>3, ToEffect DEF Subscribe, Announce, Step, Marked
  <2>2. QED
    BY <2>1
<1>4. CASE Receive(c)
  <2>1. Kept
    <3>1. CASE ReceiveLocation(c)
      BY <3>1, ReceiveLocationEffect DEF ReceiveLocation, Marked, Step
    <3>2. CASE ReceiveMessage(c)
      BY <3>2, ReceiveMessageEffect DEF ReceiveMessage, Marked, Step
    <3>3. CASE ReceiveOther(c)
      BY <3>3, ReceiveOtherEffect DEF ReceiveOther, Marked, Step
    <3>4. QED
      BY <1>4, <3>1, <3>2, <3>3 DEF Receive
  <2>2. QED
    BY <2>1
<1>5. CASE Disconnect(c) \/ LoopFails(c)
  <2>1. conn' = [conn EXCEPT ![c] = Handler(conn[c].user, conn[c].pod, "offline")]
    BY <1>5 DEF Disconnect, LoopFails, TypeOK
  <2>2. Becomes(c, conn[c].user, "offline")
    BY <1>0, <2>1, ResetEffect DEF Step
  <2>3. Kept
    BY <1>5, <2>2 DEF Disconnect, LoopFails, Marked, Step
  <2>4. QED
    BY <2>3
<1>6. CASE CheckGhost(c) \/ Publish(c) \/ PublishExtra(c)
  <2>1. CASE Again(c)
    <3>1. Kept
      BY <1>6, <2>1, AgainEffect DEF CheckGhost, Publish, PublishExtra, Marked, Step
    <3>2. QED
      BY <3>1
  <2>2. CASE \E s \in {"ingest", "extra"} : To(c, s)
    <3>1. PICK s \in {"ingest", "extra"} : To(c, s)
      BY <2>2
    <3>2. Becomes(c, conn[c].user, s) /\ s \in Marked
      BY <3>1, ToEffect DEF Step, Marked
    <3>3. Kept
      BY <1>6, <3>2 DEF CheckGhost, Publish, PublishExtra, Marked, Step
    <3>4. QED
      BY <3>3
  <2>3. QED
    BY <1>6, <2>1, <2>2 DEF CheckGhost, Publish, PublishExtra
<1>7. CASE Ingest(c) \/ ReadAudience(c)
  <2>1. Kept
    <3>1. CASE Ingest(c)
      BY <3>1, IngestEffect DEF Ingest, Marked, Step
    <3>2. CASE ReadAudience(c)
      BY <3>2, ReadAudienceEffect DEF ReadAudience, Marked, Step
    <3>3. QED
      BY <1>7, <3>1, <3>2
  <2>2. QED
    BY <2>1
<1>8. CASE StoreMessage(c) \/ PushOffline(c) \/ IngestFails(c) \/ Unsubscribe(c)
  <2>1. Kept
    <3>1. CASE StoreMessage(c)
      BY <3>1, ToEffect DEF StoreMessage, Marked, Step
    <3>2. CASE PushOffline(c)
      BY <3>2, ToEffect DEF PushOffline, Marked, Step
    <3>3. CASE IngestFails(c)
      BY <3>3, ToEffect DEF IngestFails, Marked, Step
    <3>4. CASE Unsubscribe(c)
      BY <3>4, ToEffect DEF Unsubscribe, Marked, Step
    <3>5. QED
      BY <1>8, <3>1, <3>2, <3>3, <3>4
  <2>2. QED
    BY <2>1
<1>9. CASE PumpDies(c)
  <2>1. Kept
    BY <1>9, PumpDiesEffect DEF PumpDies, Listening
  <2>2. QED
    BY <2>1
<1>10. CASE Farewell(c) \/ HandlerDies(c)
  <2>1. conn' = [conn EXCEPT ![c] = Handler(NoOne, NoOne, "closed")]
    BY <1>10 DEF Farewell, HandlerDies, Closed
  <2>2. Becomes(c, NoOne, "closed")
    BY <2>1, ResetEffect DEF Step
  <2>3. Ended
    BY <1>10, <2>2 DEF Farewell, HandlerDies, Marked
  <2>4. QED
    BY <2>3
<1>11. QED
  BY <1>1, <1>2, <1>3, <1>4, <1>5, <1>6, <1>7, <1>8, <1>9, <1>10
     DEF HandlerStep, Setup, Handle, Cleanup, Fail

\* What the other steps do to whose a handler is.
LEMMA RestEffect ==
  ASSUME TypeOK, [Next]_vars, \A c \in Conn : ~HandlerStep(c),
         \A c \in Conn, u \in User, p \in Pod : ~Connect(c, u, p),
         \A p \in Pod : ~Crash(p)
  PROVE  /\ online' = online
         /\ \A c \in Conn : /\ conn'[c].user = conn[c].user
                           /\ conn'[c].step = conn[c].step
<1>1. ASSUME NEW u \in User, LeaveTrip(u)
      PROVE  online' = online /\ \A c \in Conn : /\ conn'[c].user = conn[c].user
                                                /\ conn'[c].step = conn[c].step
  BY <1>1, LeaveTripEffect DEF LeaveTrip
<1>2. ASSUME NEW u \in User, NEW on \in BOOLEAN, SetGhost(u, on)
      PROVE  online' = online /\ \A c \in Conn : /\ conn'[c].user = conn[c].user
                                                /\ conn'[c].step = conn[c].step
  BY <1>2, SetGhostEffect DEF SetGhost
<1>3. CASE UNCHANGED <<conn, online>>
  BY <1>3
<1>4. QED
  BY <1>1, <1>2, <1>3
     DEF Next, HandlerStep, vars, RejoinTrip, PostCommit, PostPublish, PostLost

LEMMA StepOneHandler == TypeOK /\ OneHandler /\ [Next]_vars => OneHandler'
<1> SUFFICES ASSUME TypeOK, OneHandler, [Next]_vars PROVE OneHandler'
  OBVIOUS
<1> USE DEF OneHandler
<1>1. ASSUME NEW c \in Conn, HandlerStep(c) PROVE OneHandler'
  BY <1>1, PresenceEffect DEF Becomes
<1>2. ASSUME NEW c \in Conn, NEW u \in User, NEW p \in Pod, Connect(c, u, p)
      PROVE  OneHandler'
  <2>1. Becomes(c, u, "accept")
    BY <1>2, ResetEffect DEF Connect, Step
  <2>2. u # NoOne
    BY GatewayConstants
  <2>3. QED
    BY <1>2, <2>1, <2>2 DEF Connect, Becomes
<1>3. ASSUME NEW p \in Pod, Crash(p) PROVE OneHandler'
  <2>1. \A c \in Conn :
          conn'[c] = conn[c] \/ (conn'[c].user = NoOne /\ conn'[c].step = "closed")
    BY <1>3 DEF Crash, Closed, Handler
  <2>2. QED
    BY <2>1
<1>4. CASE /\ \A c \in Conn : ~HandlerStep(c)
           /\ \A c \in Conn, u \in User, p \in Pod : ~Connect(c, u, p)
           /\ \A p \in Pod : ~Crash(p)
  BY <1>4, RestEffect
<1>5. QED
  BY <1>1, <1>2, <1>3, <1>4

LEMMA StepComplete ==
  TypeOK /\ OneHandler /\ OneSocket /\ PresenceComplete /\ [Next]_vars => PresenceComplete'
<1> SUFFICES ASSUME TypeOK, OneHandler, OneSocket, PresenceComplete, [Next]_vars
             PROVE  PresenceComplete'
  OBVIOUS
<1> USE DEF PresenceComplete
<1>1. ASSUME NEW c \in Conn, HandlerStep(c) PROVE PresenceComplete'
  <2>1. "unsubscribe" \notin Marked /\ "closed" \notin Marked /\ "subscribe" \in Marked
    BY DEF Marked, Step
  <2>2. QED
    BY <1>1, <2>1, PresenceEffect DEF Becomes, OneHandler
<1>2. ASSUME NEW c \in Conn, NEW u \in User, NEW p \in Pod, Connect(c, u, p)
      PROVE  PresenceComplete'
  <2>1. Becomes(c, u, "accept") /\ online' = online
    BY <1>2, ResetEffect DEF Connect, Step
  <2>2. QED
    BY <2>1 DEF Becomes, Marked
<1>3. ASSUME NEW p \in Pod, Crash(p) PROVE PresenceComplete'
  <2>1. online' = online /\ \A c \in Conn : conn'[c] = conn[c] \/ conn'[c].step = "closed"
    BY <1>3 DEF Crash, Closed, Handler
  <2>2. QED
    BY <2>1 DEF Marked
<1>4. CASE /\ \A c \in Conn : ~HandlerStep(c)
           /\ \A c \in Conn, u \in User, p \in Pod : ~Connect(c, u, p)
           /\ \A p \in Pod : ~Crash(p)
  BY <1>4, RestEffect
<1>5. QED
  BY <1>1, <1>2, <1>3, <1>4

LEMMA StepPhantom ==
  TypeOK /\ OneHandler /\ ~Faults /\ NoPhantomPresence /\ [Next]_vars => NoPhantomPresence'
<1> SUFFICES ASSUME TypeOK, OneHandler, ~Faults, NoPhantomPresence, [Next]_vars,
                    NEW u \in online'
             PROVE  \E c \in Conn : conn'[c].user = u /\ conn'[c].step \in Marked
  BY DEF NoPhantomPresence, Present
<1>0. u \in online => \E c \in Conn : conn[c].user = u /\ conn[c].step \in Marked
  BY DEF NoPhantomPresence, Present
<1>1. ASSUME NEW c \in Conn, HandlerStep(c)
      PROVE  \E d \in Conn : conn'[d].user = u /\ conn'[d].step \in Marked
  <2>1. "subscribe" \in Marked
    BY DEF Marked, Step
  <2>2. QED
    BY <1>0, <1>1, <2>1, PresenceEffect DEF Becomes
<1>2. ASSUME NEW c \in Conn, NEW v \in User, NEW p \in Pod, Connect(c, v, p)
      PROVE  \E d \in Conn : conn'[d].user = u /\ conn'[d].step \in Marked
  <2>1. Becomes(c, v, "accept") /\ online' = online /\ conn[c].step = "closed"
    BY <1>2, ResetEffect DEF Connect, Step, At
  <2>2. QED
    BY <1>0, <2>1 DEF Becomes, Marked
<1>3. ASSUME NEW p \in Pod, Crash(p) PROVE FALSE
  BY <1>3 DEF Crash
<1>4. CASE /\ \A c \in Conn : ~HandlerStep(c)
           /\ \A c \in Conn, v \in User, p \in Pod : ~Connect(c, v, p)
           /\ \A p \in Pod : ~Crash(p)
  BY <1>0, <1>4, RestEffect
<1>5. QED
  BY <1>1, <1>2, <1>3, <1>4

-----------------------------------------------------------------------------
(* Ghost mode                                                              *)

LEMMA StepGhost == TypeOK /\ GhostInv /\ [Next]_vars => GhostInv'
<1> SUFFICES ASSUME TypeOK, GhostInv, [Next]_vars PROVE GhostInv'
  OBVIOUS
<1> USE DEF GhostInv
<1>0. \A c \in Conn : conn[c].user \in User \cup {NoOne} /\ conn[c].pod \in Pod \cup {NoOne}
  BY DEF TypeOK, HandlerType
<1>1. ASSUME NEW c \in Conn, HandlerStep(c) PROVE GhostInv'
  <2>1. UNCHANGED <<member, ghost>>
    BY <1>1 DEF HandlerStep, Setup, MarkOnline, Subscribe, Announce, Receive,
       ReceiveLocation, ReceiveMessage, ReceiveOther, Disconnect, Handle, CheckGhost,
       Ingest, StoreMessage, ReadAudience, PushOffline, Publish, PublishExtra, Cleanup,
       MarkOffline, Unsubscribe, Farewell, Fail, HandlerDies, IngestFails, LoopFails,
       PumpDies
  <2>2. CASE ReceiveLocation(c)
    BY <2>1, <2>2, ReceiveLocationEffect DEF Becomes
  <2>3. CASE Again(c)
    BY <2>1, <2>3, AgainEffect DEF Becomes, Fresh
  <2>4. CASE Disconnect(c) \/ LoopFails(c)
    <3>1. conn' = [conn EXCEPT ![c] = Handler(conn[c].user, conn[c].pod, "offline")]
      BY <2>4 DEF Disconnect, LoopFails, TypeOK
    <3>2. QED
      BY <1>0, <2>1, <3>1, ResetEffect DEF Becomes, Fresh, Step
  <2>5. CASE Farewell(c) \/ HandlerDies(c)
    <3>1. conn' = [conn EXCEPT ![c] = Handler(NoOne, NoOne, "closed")]
      BY <2>5 DEF Farewell, HandlerDies, Closed
    <3>2. QED
      BY <2>1, <3>1, ResetEffect DEF Becomes, Fresh, Step
  <2>6. CASE PumpDies(c)
    BY <2>1, <2>6, PumpDiesEffect DEF Becomes, SameGhost
  <2>7. ASSUME SameGhost(c), conn[c].step # "check" \/ conn[c].user \notin ghost \cap member,
               \A d \in Conn : d # c => conn'[d] = conn[d]
        PROVE  GhostInv'
    BY <2>1, <2>7 DEF SameGhost
  <2>8. CASE Setup(c) \/ StoreMessage(c) \/ PushOffline(c) \/ MarkOffline(c)
             \/ Unsubscribe(c) \/ IngestFails(c)
    <3>1. \E s \in Step : To(c, s)
      BY <2>8 DEF Setup, MarkOnline, Subscribe, Announce, StoreMessage, PushOffline,
         MarkOffline, Unsubscribe, IngestFails, Step
    <3>2. conn[c].step # "check"
      BY <2>8 DEF Setup, MarkOnline, Subscribe, Announce, StoreMessage, PushOffline,
         MarkOffline, Unsubscribe, IngestFails, At
    <3>3. QED
      BY <2>7, <3>1, <3>2, ToEffect DEF Becomes
  <2>9. CASE ReceiveMessage(c) \/ ReceiveOther(c)
    BY <2>7, <2>9, ReceiveMessageEffect, ReceiveOtherEffect
       DEF Becomes, ReceiveMessage, ReceiveOther, At
  <2>10. CASE Ingest(c) \/ ReadAudience(c)
    BY <2>7, <2>10, IngestEffect, ReadAudienceEffect DEF Becomes, Ingest, ReadAudience, At
  <2>11. CASE CheckGhost(c) /\ ~Again(c)
    BY <2>7, <2>11, ToEffect DEF Becomes, CheckGhost, Step
  <2>12. CASE (Publish(c) \/ PublishExtra(c)) /\ ~Again(c)
    BY <2>7, <2>12, ToEffect DEF Becomes, Publish, PublishExtra, Step, At
  <2>13. QED
    BY <1>1, <2>2, <2>3, <2>4, <2>5, <2>6, <2>8, <2>9, <2>10, <2>11, <2>12
       DEF HandlerStep, Receive, Handle, Cleanup, Fail
<1>2. ASSUME NEW u \in User, LeaveTrip(u) PROVE GhostInv'
  <2>1. ghost' = ghost /\ member' = member \ {u}
    BY <1>2 DEF LeaveTrip
  <2>2. QED
    BY <1>2, <2>1, LeaveTripEffect DEF SameGhost
<1>3. ASSUME NEW u \in User, NEW on \in BOOLEAN, SetGhost(u, on) PROVE GhostInv'
  <2>1. member' = member /\ ghost' = IF on THEN ghost \cup {u} ELSE ghost \ {u}
    BY <1>3 DEF SetGhost
  <2>2. QED
    BY <1>3, <2>1, SetGhostEffect DEF SameGhost
<1>4. ASSUME NEW c \in Conn, NEW u \in User, NEW p \in Pod, Connect(c, u, p)
      PROVE  GhostInv'
  BY <1>4, ResetEffect DEF Connect, Becomes, Fresh, Step
<1>5. ASSUME NEW p \in Pod, Crash(p) PROVE GhostInv'
  <2>1. \A c \in Conn : conn'[c] = conn[c] \/ conn'[c].hid = FALSE
    BY <1>5 DEF Crash, Closed, Handler
  <2>2. QED
    BY <1>5, <2>1 DEF Crash
<1>6. CASE conn' = conn /\ ghost' = ghost /\ member \subseteq member'
  BY <1>6
<1>7. QED
  BY <1>1, <1>2, <1>3, <1>4, <1>5, <1>6
     DEF Next, HandlerStep, vars, RejoinTrip, PostCommit, PostPublish, PostLost

-----------------------------------------------------------------------------
(* Chat                                                                    *)

\* What is stored stays stored.
Stored(m) == log[m].stored => log'[m].stored

\* Nothing about m that ChatInv and StoredBeforeSeen speak of gets worse.
Quiet(m) ==
  /\ log'[m].absent = log[m].absent /\ log'[m].pushed = log[m].pushed
  /\ log'[m].seen = log[m].seen /\ Stored(m)
  /\ log'[m].stage = "committed" => log[m].stage = "committed" \/ log'[m].stored

LEMMA ReceiveMessageLog ==
  ASSUME TypeOK, NEW c \in Conn, ReceiveMessage(c), NEW m \in 1..MaxMsgs
  PROVE  Quiet(m)
<1>1. log[m] \in MessageType
  BY DEF TypeOK
<1>2. log'[m] = log[m] \/ log'[m] = [log[m] EXCEPT !.stage = "handled"]
  BY DEF ReceiveMessage, TypeOK
<1>3. QED
  BY <1>1, <1>2 DEF Quiet, Stored, MessageType

LEMMA StoreMessageLog ==
  ASSUME TypeOK, NEW c \in Conn, StoreMessage(c), NEW m \in 1..MaxMsgs
  PROVE  /\ Quiet(m)
         /\ m = conn[c].msg => log'[m].stored
<1>1. log[m] \in MessageType
  BY DEF TypeOK
<1>2. log'[m] = IF m = conn[c].msg THEN [log[m] EXCEPT !.stored = TRUE] ELSE log[m]
  BY DEF StoreMessage, TypeOK
<1>3. QED
  BY <1>1, <1>2 DEF Quiet, Stored, MessageType

LEMMA PostCommitLog ==
  ASSUME TypeOK, PostCommit, NEW m \in 1..MaxMsgs
  PROVE  Quiet(m)
<1>1. log[m] \in MessageType
  BY DEF TypeOK
<1>2. \/ log'[m] = log[m]
      \/ log'[m] = [log[m] EXCEPT !.stage = "committed", !.stored = TRUE]
  BY DEF PostCommit, TypeOK
<1>3. QED
  BY <1>1, <1>2 DEF Quiet, Stored, MessageType

LEMMA PushOfflineLog ==
  ASSUME TypeOK, NEW c \in Conn, PushOffline(c), NEW m \in 1..MaxMsgs
  PROVE  \/ Quiet(m)
         \/ /\ log'[m].absent = (member \ {conn[c].user}) \cap conn[c].absent
            /\ log'[m].pushed = (member \ {conn[c].user}) \ conn[c].saw
            /\ log'[m].stage = log[m].stage /\ log'[m].seen = log[m].seen
            /\ Stored(m)
<1> DEFINE others == member \ {conn[c].user}
           l == [log[m] EXCEPT !.pushed = others \ conn[c].saw,
                               !.skipped = others \cap conn[c].saw,
                               !.absent = others \cap conn[c].absent]
<1>1. log[m] \in MessageType
  BY DEF TypeOK
<1>2. log'[m] = log[m] \/ log'[m] = l
  BY DEF PushOffline, TypeOK
<1>3. /\ l.absent = others \cap conn[c].absent /\ l.pushed = others \ conn[c].saw
      /\ l.stage = log[m].stage /\ l.seen = log[m].seen /\ l.stored = log[m].stored
  BY <1>1 DEF MessageType
<1> HIDE DEF l
<1>4. QED
  BY <1>2, <1>3 DEF Quiet, Stored

LEMMA PublishLog ==
  ASSUME TypeOK, NEW c \in Conn, Publish(c), NEW m \in 1..MaxMsgs
  PROVE  \/ Quiet(m)
         \/ /\ conn[c].frame = "message" /\ m = conn[c].msg
            /\ log'[m].absent = log[m].absent /\ log'[m].pushed = log[m].pushed
            /\ log'[m].stage = "out" /\ Stored(m)
<1> DEFINE l == [log[m] EXCEPT !.stage = "out", !.seen = Audience]
<1>1. log[m] \in MessageType
  BY DEF TypeOK
<1>2. \/ log'[m] = log[m]
      \/ log'[m] = l /\ conn[c].frame = "message" /\ m = conn[c].msg
  BY DEF Publish, TypeOK
<1>3. /\ l.absent = log[m].absent /\ l.pushed = log[m].pushed
      /\ l.stage = "out" /\ l.stored = log[m].stored
  BY <1>1 DEF MessageType
<1> HIDE DEF l
<1>4. QED
  BY <1>2, <1>3 DEF Quiet, Stored

LEMMA PostPublishLog ==
  ASSUME TypeOK, NEW n \in 1..MaxMsgs, PostPublish(n), NEW m \in 1..MaxMsgs
  PROVE  \/ Quiet(m)
         \/ /\ log[m].stage = "committed"
            /\ log'[m].absent = log[m].absent /\ log'[m].pushed = log[m].pushed
            /\ log'[m].stage = "out" /\ Stored(m)
<1> DEFINE l == [log[m] EXCEPT !.stage = "out", !.seen = Audience]
<1>1. log[m] \in MessageType
  BY DEF TypeOK
<1>2. log'[m] = log[m] \/ (log'[m] = l /\ log[m].stage = "committed")
  BY DEF PostPublish, TypeOK
<1>3. /\ l.absent = log[m].absent /\ l.pushed = log[m].pushed
      /\ l.stage = "out" /\ l.stored = log[m].stored
  BY <1>1 DEF MessageType
<1> HIDE DEF l
<1>4. QED
  BY <1>2, <1>3 DEF Quiet, Stored

\* The steps that leave the log alone, when nothing fails.
LEMMA StepLog ==
  ASSUME TypeOK, ~Faults, [Next]_vars
  PROVE  \/ \E c \in Conn : \/ ReceiveMessage(c) \/ StoreMessage(c)
                           \/ PushOffline(c) \/ Publish(c)
         \/ PostCommit
         \/ \E m \in 1..MaxMsgs : PostPublish(m)
         \/ log' = log
BY DEF Next, vars, LeaveTrip, RejoinTrip, SetGhost, PostLost, Connect, Setup, MarkOnline,
   Subscribe, Announce, Receive, ReceiveLocation, ReceiveOther, Disconnect, Handle,
   CheckGhost, Ingest, ReadAudience, PublishExtra, Cleanup, MarkOffline, Unsubscribe,
   Farewell, Fail, HandlerDies, IngestFails, LoopFails, PumpDies, Crash

LEMMA StoredStays ==
  ASSUME TypeOK, ~Faults, [Next]_vars
  PROVE  \A m \in 1..MaxMsgs : Stored(m)
<1>1. CASE log' = log
  BY <1>1 DEF Stored
<1>2. QED
  BY <1>1, StepLog, ReceiveMessageLog, StoreMessageLog, PushOfflineLog, PublishLog,
     PostCommitLog, PostPublishLog DEF Quiet

\* What ChatInv and StoredBeforeSeen say of one message,
MessageOK(m) ==
  /\ log[m].absent \subseteq log[m].pushed
  /\ log[m].stage = "committed" => log[m].stored
  /\ log[m].seen # {} => log[m].stored

\* and ChatInv of one handler.
HandlerOK(c) ==
  /\ conn[c].absent \cap conn[c].saw = {}
  /\ conn[c].frame = "message" =>
       /\ conn[c].msg \in 1..MaxMsgs
       /\ conn[c].step \in {"audience", "push", "publish"} => log[conn[c].msg].stored

LEMMA ChatInvParts ==
  ChatInv /\ StoredBeforeSeen <=>
    (\A c \in Conn : HandlerOK(c)) /\ (\A m \in 1..MaxMsgs : MessageOK(m))
BY DEF ChatInv, StoredBeforeSeen, HandlerOK, MessageOK

LEMMA StepMessages ==
  ASSUME TypeOK, ~Faults, [Next]_vars, \A c \in Conn : HandlerOK(c),
         NEW m \in 1..MaxMsgs, MessageOK(m)
  PROVE  MessageOK(m)'
<1> USE DEF MessageOK
<1>1. CASE Quiet(m)
  BY <1>1 DEF Quiet, Stored
<1>2. ASSUME NEW c \in Conn, PushOffline(c) PROVE MessageOK(m)'
  <2>1. conn[c].absent \cap conn[c].saw = {}
    BY DEF HandlerOK
  <2>2. QED
    BY <1>1, <1>2, <2>1, PushOfflineLog DEF Stored
<1>3. ASSUME NEW c \in Conn, Publish(c) PROVE MessageOK(m)'
  <2>1. conn[c].frame = "message" => log[conn[c].msg].stored
    BY <1>3 DEF HandlerOK, Publish, At
  <2>2. QED
    BY <1>1, <1>3, <2>1, PublishLog DEF Stored
<1>4. ASSUME NEW n \in 1..MaxMsgs, PostPublish(n) PROVE MessageOK(m)'
  BY <1>1, <1>4, PostPublishLog DEF Stored
<1>5. CASE log' = log
  BY <1>5
<1>6. QED
  BY <1>1, <1>2, <1>3, <1>4, <1>5, StepLog, ReceiveMessageLog, StoreMessageLog,
     PostCommitLog

\* A step of the handler itself: it fans out what it has stored, and reads the
\* presence set and the sockets at one moment.
LEMMA StepSender ==
  ASSUME TypeOK, NoPhantomPresence, ~Faults, [Next]_vars,
         NEW c \in Conn, HandlerOK(c), HandlerStep(c)
  PROVE  HandlerOK(c)'
<1> USE DEF HandlerOK
<1>0. /\ conn[c].user \in User \cup {NoOne} /\ conn[c].pod \in Pod \cup {NoOne}
      /\ conn[c].msg \in 0..MaxMsgs
  BY DEF TypeOK, HandlerType
<1>1. CASE \E u \in User \cup {NoOne}, p \in Pod \cup {NoOne}, s \in Step :
             conn' = [conn EXCEPT ![c] = Handler(u, p, s)]
  <2>1. PICK u \in User \cup {NoOne}, p \in Pod \cup {NoOne}, s \in Step :
          conn' = [conn EXCEPT ![c] = Handler(u, p, s)]
    BY <1>1
  <2>2. Fresh(c)
    BY <2>1, ResetEffect
  <2>3. QED
    BY <2>2 DEF Fresh
<1>2. CASE Again(c)
  BY <1>2, AgainEffect DEF Fresh
<1>3. CASE ReceiveLocation(c) \/ ReceiveOther(c)
  BY <1>3, ReceiveLocationEffect, ReceiveOtherEffect DEF Becomes
<1>4. CASE ReceiveMessage(c)
  <2>1. nlog + 1 \in 1..MaxMsgs
    BY <1>4, GatewayConstants DEF ReceiveMessage, TypeOK
  <2>2. QED
    BY <1>4, <2>1, ReceiveMessageEffect DEF Becomes
<1>5. CASE Ingest(c)
  BY <1>5, IngestEffect DEF Becomes, SameMessage, Ingest
<1>6. CASE StoreMessage(c)
  <2>1. To(c, "audience") /\ "audience" \in Step /\ conn[c].msg \in 1..MaxMsgs
    BY <1>6 DEF StoreMessage, Step
  <2>2. QED
    BY <1>6, <2>1, ToEffect, StoreMessageLog DEF Becomes, SameMessage
<1>7. CASE ReadAudience(c)
  <2>1. online \cap {u \in member : ~Present(u)} = {}
    BY DEF NoPhantomPresence
  <2>2. conn[c].step = "audience" /\ log' = log
    BY <1>7 DEF ReadAudience, At
  <2>3. QED
    BY <1>7, <2>1, <2>2, ReadAudienceEffect DEF Becomes
<1>8. CASE PushOffline(c)
  <2>1. To(c, "publish") /\ "publish" \in Step /\ conn[c].step = "push"
    BY <1>8 DEF PushOffline, Step, At
  <2>2. QED
    BY <1>8, <2>1, ToEffect, StoredStays DEF Becomes, SameMessage, Stored
<1>9. CASE \E s \in Step \ {"audience", "push", "publish"} : To(c, s)
  BY <1>9, ToEffect DEF Becomes, SameMessage
<1>10. QED
  BY <1>0, <1>1, <1>2, <1>3, <1>4, <1>5, <1>6, <1>7, <1>8, <1>9
     DEF HandlerStep, Setup, MarkOnline, Subscribe, Announce, Receive, Disconnect, Handle,
     CheckGhost, Publish, PublishExtra, Cleanup, MarkOffline, Unsubscribe, Farewell, Fail,
     HandlerDies, IngestFails, LoopFails, PumpDies, Closed, Step

LEMMA StepHandlers ==
  ASSUME TypeOK, NoPhantomPresence, ~Faults, [Next]_vars,
         \A c \in Conn : HandlerOK(c), NEW c \in Conn
  PROVE  HandlerOK(c)'
<1> USE DEF HandlerOK
<1>0. \A m \in 1..MaxMsgs : log[m].stored => log'[m].stored
  BY StoredStays DEF Stored
<1>1. ASSUME NEW d \in Conn, HandlerStep(d) PROVE HandlerOK(c)'
  <2>1. CASE c = d
    BY <1>1, <2>1, StepSender
  <2>2. CASE c # d
    <3>1. conn'[c] = conn[c]
      BY <1>1, <2>2, PresenceEffect DEF Becomes
    <3>2. QED
      BY <1>0, <3>1
  <2>3. QED
    BY <2>1, <2>2
<1>2. ASSUME NEW d \in Conn, NEW u \in User, NEW p \in Pod, Connect(d, u, p)
      PROVE  HandlerOK(c)'
  <2>1. Becomes(d, u, "accept") /\ Fresh(d)
    BY <1>2, ResetEffect DEF Connect, Step
  <2>2. QED
    BY <1>0, <2>1 DEF Becomes, Fresh
<1>3. ASSUME NEW u \in User, LeaveTrip(u) PROVE HandlerOK(c)'
  BY <1>0, <1>3, LeaveTripEffect DEF SameMessage
<1>4. ASSUME NEW u \in User, NEW on \in BOOLEAN, SetGhost(u, on) PROVE HandlerOK(c)'
  BY <1>0, <1>4, SetGhostEffect DEF SameMessage
<1>5. CASE conn' = conn
  BY <1>0, <1>5
<1>6. QED
  BY <1>1, <1>2, <1>3, <1>4, <1>5
     DEF Next, HandlerStep, vars, RejoinTrip, PostCommit, PostPublish, PostLost, Crash

LEMMA StepChat ==
  ASSUME TypeOK, NoPhantomPresence, ~Faults, ChatInv, StoredBeforeSeen, [Next]_vars
  PROVE  ChatInv' /\ StoredBeforeSeen'
<1>1. (\A c \in Conn : HandlerOK(c)) /\ (\A m \in 1..MaxMsgs : MessageOK(m))
  BY ChatInvParts
<1>2. (\A c \in Conn : HandlerOK(c)') /\ (\A m \in 1..MaxMsgs : MessageOK(m)')
  BY <1>1, StepHandlers, StepMessages
<1>3. QED
  BY <1>2 DEF ChatInv, StoredBeforeSeen, HandlerOK, MessageOK

-----------------------------------------------------------------------------
(* The theorems                                                            *)

\* The conjunction of the type invariant, the owner of each handler, ghost mode
\* up to the check and, for the instances they hold of, presence and chat is
\* inductive: every await of ws/trips.py may be followed by any other step.
THEOREM Invariance == Spec => []IInv
<1>1. IInv /\ [Next]_vars => IInv'
  <2> SUFFICES ASSUME IInv, [Next]_vars PROVE IInv'
    OBVIOUS
  <2>1. TypeOK' /\ OneHandler' /\ GhostInv'
    BY StepType, StepOneHandler, StepGhost DEF IInv
  <2>2. OneSocket => PresenceComplete'
    BY StepComplete DEF IInv
  <2>3. ~Faults => NoPhantomPresence' /\ ChatInv' /\ StoredBeforeSeen'
    BY StepPhantom, StepChat DEF IInv
  <2>4. QED
    BY <2>1, <2>2, <2>3 DEF IInv
<1>2. QED
  BY InitInv, <1>1, PTL DEF Spec

\* The handlers, the presence SET and the messages of the gateway keep their types.
THEOREM TypeCorrect == Spec => []TypeOK
<1>1. IInv => TypeOK
  BY DEF IInv
<1>2. QED
  BY <1>1, Invariance, PTL

\* When nothing fails, whoever is in the presence SET of redis.py has a socket
\* whose finally block will take him out.
THEOREM NobodyLeftOnline ==
  ASSUME ~Faults
  PROVE  Spec => []NoPhantomPresence
<1>1. IInv => NoPhantomPresence
  BY DEF IInv
<1>2. QED
  BY <1>1, Invariance, PTL

\* Where each user opens one socket at a time, an announced socket's user is in
\* the presence SET, whatever fails.
THEOREM EveryoneOnlineListed ==
  ASSUME OneSocket
  PROVE  Spec => []PresenceComplete
<1>1. IInv => PresenceComplete
  BY DEF IInv
<1>2. QED
  BY <1>1, Invariance, PTL

\* _is_ghost: what came in from a ghost is dropped, unless the ghost turned
\* visible or left before the check.
THEOREM GhostsStayHidden == Spec => []GhostFramesDropped
<1>1. IInv => GhostFramesDropped
  BY DEF IInv, GhostInv, GhostFramesDropped
<1>2. QED
  BY <1>1, Invariance, PTL

\* _push_to_offline_members: when nothing fails, who has no socket gets the push.
THEOREM NobodyMissesPush ==
  ASSUME ~Faults
  PROVE  Spec => []AbsentMembersPushed
<1>1. IInv => AbsentMembersPushed
  BY DEF IInv, ChatInv, AbsentMembersPushed
<1>2. QED
  BY <1>1, Invariance, PTL

\* Both ways to send a chat message commit it before they fan it out.
THEOREM HistoryIsComplete ==
  ASSUME ~Faults
  PROVE  Spec => []StoredBeforeSeen
<1>1. IInv => StoredBeforeSeen
  BY DEF IInv
<1>2. QED
  BY <1>1, Invariance, PTL
=============================================================================
