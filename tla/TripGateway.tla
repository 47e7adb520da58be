----------------------------- MODULE TripGateway -----------------------------
(***************************************************************************)
(* The WebSocket gateway of one trip (ws/trips.py): the handlers of the   *)
(* open sockets on every pod, the Redis presence SET and pub/sub channel  *)
(* of redis.py, the chat part of services/ingest.py, and the members'     *)
(* ghost_mode and left_at, which REST handlers change underneath.         *)
(*                                                                         *)
(* A handler is a coroutine: it yields at each await, so every step below *)
(* is one Redis command, one SELECT or one commit, and the steps of all   *)
(* the sockets and of the REST handlers interleave.  PUBLISH reaches the  *)
(* sockets subscribed at that moment, as Redis pub/sub keeps nothing.     *)
(***************************************************************************)
EXTENDS Integers, FiniteSets

CONSTANTS
  User,       \* the accounts that join the trip
  Conn,       \* sockets that may be open at the same time
  Pod,        \* backend processes
  Kind,       \* kinds of frame the clients of this instance send
  MaxMsgs,    \* bound: chat messages in a behaviour
  OneSocket,  \* TRUE: a user opens a socket only when the last one is cleaned up
  Faults,     \* TRUE: pods crash, calls to Redis and the database fail
  NoOne

\* A frame that is not JSON is skipped without any effect, so it is not a kind.
AllKinds == {"location", "message", "blank", "typing", "sos"}

ASSUME GatewayConstants ==
  /\ NoOne \notin User \cup Pod
  /\ Kind \subseteq AllKinds
  /\ MaxMsgs \in Nat
  /\ OneSocket \in BOOLEAN /\ Faults \in BOOLEAN

VARIABLES
  member,  \* users whose trip_members row has left_at NULL
  ghost,   \* users whose row has ghost_mode
  conn,    \* the handler of each socket
  online,  \* the presence SET trip:{id}:online
  log,     \* what became of each chat message
  nlog     \* chat messages so far

vars == <<member, ghost, conn, online, log, nlog>>

Step == {"closed", "accept", "subscribe", "announce", "receive", "check", "ingest",
         "audience", "push", "publish", "extra", "offline", "unsubscribe", "farewell"}

\* Between its SADD and its SREM a handler answers for its user's presence.
Marked == Step \ {"closed", "accept", "unsubscribe", "farewell"}

\* Subscribed, with the pump to the socket running or about to start.
Listening == {"announce", "receive", "check", "ingest", "audience", "push", "publish",
              "extra"}

\* saw: the presence set as read for a push; deaf: the pump task has died.
\* History: hid, the sender has been a ghost since the location frame came in;
\* out, and was outside the trip meanwhile; absent, who had no socket at the read.
Handler(u, p, step) ==
  [user |-> u, pod |-> p, step |-> step, frame |-> "typing", msg |-> 0, saw |-> {},
   absent |-> {}, extra |-> FALSE, hid |-> FALSE, out |-> FALSE, deaf |-> FALSE]

Closed == Handler(NoOne, NoOne, "closed")

NoMessage ==
  [stage |-> "none", stored |-> FALSE, pushed |-> {}, skipped |-> {}, absent |-> {},
   seen |-> {}]

Init ==
  /\ member = User
  /\ ghost = {}
  /\ conn = [c \in Conn |-> Closed]
  /\ online = {}
  /\ log = [m \in 1..MaxMsgs |-> NoMessage]
  /\ nlog = 0

Present(u) == \E c \in Conn : conn[c].user = u /\ conn[c].step \in Marked
Audience ==
  {conn[c].user : c \in {d \in Conn : conn[d].step \in Listening /\ ~conn[d].deaf}}

-----------------------------------------------------------------------------
(* REST handlers of the same trip, at their commits                        *)

LeaveTrip(u) ==
  /\ u \in member
  /\ member' = member \ {u}
  /\ conn' = [c \in Conn |-> IF conn[c].user = u /\ conn[c].hid
                            THEN [conn[c] EXCEPT !.out = TRUE] ELSE conn[c]]
  /\ UNCHANGED <<ghost, online, log, nlog>>

RejoinTrip(u) ==
  /\ u \notin member
  /\ member' = member \cup {u}
  /\ UNCHANGED <<ghost, conn, online, log, nlog>>

\* The handlers below read the membership in an earlier statement, so that the
\* user may have left by the time they commit.
SetGhost(u, on) ==
  /\ ghost' = IF on THEN ghost \cup {u} ELSE ghost \ {u}
  /\ conn' = [c \in Conn |-> IF conn[c].user = u /\ ~on
                            THEN [conn[c] EXCEPT !.hid = FALSE, !.out = FALSE]
                            ELSE conn[c]]
  /\ UNCHANGED <<member, online, log, nlog>>

\* POST /messages: the row is committed, then the frame is published.
PostCommit ==
  /\ nlog < MaxMsgs
  /\ nlog' = nlog + 1
  /\ log' = [log EXCEPT ![nlog + 1].stage = "committed", ![nlog + 1].stored = TRUE]
  /\ UNCHANGED <<member, ghost, conn, online>>

PostPublish(m) ==
  /\ log[m].stage = "committed"
  /\ log' = [log EXCEPT ![m].stage = "out", ![m].seen = Audience]
  /\ UNCHANGED <<member, ghost, conn, online, nlog>>

-----------------------------------------------------------------------------
(* The handler, up to its loop                                             *)

To(c, step) == conn' = [conn EXCEPT ![c].step = step]
At(c, step) == conn[c].step = step

\* _authenticate and _is_member; one who is not a member is turned away.
Connect(c, u, p) ==
  /\ At(c, "closed")
  /\ u \in member
  /\ OneSocket => \A d \in Conn : conn[d].user # u
  /\ conn' = [conn EXCEPT ![c] = Handler(u, p, "accept")]
  /\ UNCHANGED <<member, ghost, online, log, nlog>>

\* Mutant: the SADD is left out.
MarkOnlineNot(c) ==
  /\ At(c, "accept")
  /\ To(c, "subscribe")
  /\ UNCHANGED <<member, ghost, online, log, nlog>>

MarkOnline(c) ==
  /\ At(c, "accept")
  /\ online' = online \cup {conn[c].user}
  /\ To(c, "subscribe")
  /\ UNCHANGED <<member, ghost, log, nlog>>

Subscribe(c) ==
  /\ At(c, "subscribe")
  /\ To(c, "announce")
  /\ UNCHANGED <<member, ghost, online, log, nlog>>

\* presence joined; then the pump task is created and the loop starts.
Announce(c) ==
  /\ At(c, "announce")
  /\ To(c, "receive")
  /\ UNCHANGED <<member, ghost, online, log, nlog>>

-----------------------------------------------------------------------------
(* The loop                                                                *)

\* Ready for the next frame.
Again(c) ==
  conn' = [conn EXCEPT ![c] = [Handler(@.user, @.pod, "receive") EXCEPT
                                 !.deaf = conn[c].deaf]]

ReceiveLocation(c) ==
  /\ At(c, "receive") /\ "location" \in Kind
  /\ LET u == conn[c].user
     IN  conn' = [conn EXCEPT ![c] = [@ EXCEPT !.frame = "location", !.step = "check",
                                !.hid = u \in ghost,
                                !.out = u \in ghost /\ u \notin member]]
  /\ UNCHANGED <<member, ghost, online, log, nlog>>

ReceiveMessage(c) ==
  /\ At(c, "receive") /\ "message" \in Kind
  /\ nlog < MaxMsgs
  /\ nlog' = nlog + 1
  /\ log' = [log EXCEPT ![nlog + 1].stage = "handled"]
  /\ conn' = [conn EXCEPT ![c] = [@ EXCEPT !.frame = "message", !.step = "ingest",
                                         !.msg = nlog + 1]]
  /\ UNCHANGED <<member, ghost, online>>

ReceiveOther(c) ==
  /\ At(c, "receive")
  /\ \E k \in Kind \cap {"blank", "typing", "sos"} :
       conn' = [conn EXCEPT ![c] = [@ EXCEPT !.frame = k, !.step = "ingest"]]
  /\ UNCHANGED <<member, ghost, online, log, nlog>>

\* Mutant: a socket that is gone does not reach the finally block's SREM.
DisconnectEarly(c) ==
  /\ At(c, "receive")
  /\ conn' = [conn EXCEPT ![c] = Handler(@.user, @.pod, "unsubscribe")]
  /\ UNCHANGED <<member, ghost, online, log, nlog>>

\* The socket is gone, or a JSON value that is not an object has no setdefault:
\* either way the exception runs the finally block, which cancels the pump.
Disconnect(c) ==
  /\ At(c, "receive")
  /\ conn' = [conn EXCEPT ![c] = Handler(@.user, @.pod, "offline")]
  /\ UNCHANGED <<member, ghost, online, log, nlog>>

\* Mutant: the answer of _is_ghost is not used.
CheckGhostNot(c) ==
  /\ At(c, "check")
  /\ To(c, "ingest")
  /\ UNCHANGED <<member, ghost, online, log, nlog>>

\* _is_ghost looks only at a row with left_at NULL.
CheckGhost(c) ==
  /\ At(c, "check")
  /\ IF conn[c].user \in ghost \cap member THEN Again(c) ELSE To(c, "ingest")
  /\ UNCHANGED <<member, ghost, online, log, nlog>>

\* A location may raise an arrival or an alert; an sos always raises one.
Ingest(c) ==
  /\ At(c, "ingest") /\ conn[c].frame # "message"
  /\ \E extra \in (CASE conn[c].frame = "location" -> BOOLEAN
                    [] conn[c].frame = "sos" -> {TRUE}
                    [] OTHER -> {FALSE}) :
       conn' = [conn EXCEPT ![c] = [@ EXCEPT !.step = "publish", !.extra = extra]]
  /\ UNCHANGED <<member, ghost, online, log, nlog>>

\* Mutant: the row is added to the session but not committed.
StoreMessageUncommitted(c) ==
  /\ At(c, "ingest") /\ conn[c].frame = "message"
  /\ To(c, "audience")
  /\ UNCHANGED <<member, ghost, online, log, nlog>>

StoreMessage(c) ==
  /\ At(c, "ingest") /\ conn[c].frame = "message"
  /\ log' = [log EXCEPT ![conn[c].msg].stored = TRUE]
  /\ To(c, "audience")
  /\ UNCHANGED <<member, ghost, online, nlog>>

\* _push_to_offline_members: SMEMBERS of the presence set,
ReadAudience(c) ==
  /\ At(c, "audience")
  /\ conn' = [conn EXCEPT ![c] = [@ EXCEPT !.step = "push", !.saw = online,
                                 !.absent = {u \in member : ~Present(u)}]]
  /\ UNCHANGED <<member, ghost, online, log, nlog>>

\* Mutant: the push goes to those who are online.
PushOnline(c) ==
  /\ At(c, "push")
  /\ LET others == member \ {conn[c].user}
     IN  log' = [log EXCEPT ![conn[c].msg] =
                  [@ EXCEPT !.pushed = others \cap conn[c].saw,
                            !.skipped = others \ conn[c].saw,
                            !.absent = others \cap conn[c].absent]]
  /\ To(c, "publish")
  /\ UNCHANGED <<member, ghost, online, nlog>>

\* then the members, and FCM for those that were not in the set.
PushOffline(c) ==
  /\ At(c, "push")
  /\ LET others == member \ {conn[c].user}
     IN  log' = [log EXCEPT ![conn[c].msg] =
                  [@ EXCEPT !.pushed = others \ conn[c].saw,
                            !.skipped = others \cap conn[c].saw,
                            !.absent = others \cap conn[c].absent]]
  /\ To(c, "publish")
  /\ UNCHANGED <<member, ghost, online, nlog>>

Publish(c) ==
  /\ At(c, "publish")
  /\ log' = IF conn[c].frame = "message"
            THEN [log EXCEPT ![conn[c].msg] = [@ EXCEPT !.stage = "out", !.seen = Audience]]
            ELSE log
  /\ IF conn[c].extra THEN To(c, "extra") ELSE Again(c)
  /\ UNCHANGED <<member, ghost, online, nlog>>

PublishExtra(c) ==
  /\ At(c, "extra")
  /\ Again(c)
  /\ UNCHANGED <<member, ghost, online, log, nlog>>

-----------------------------------------------------------------------------
(* The finally block                                                       *)

MarkOffline(c) ==
  /\ At(c, "offline")
  /\ online' = online \ {conn[c].user}
  /\ To(c, "unsubscribe")
  /\ UNCHANGED <<member, ghost, log, nlog>>

Unsubscribe(c) ==
  /\ At(c, "unsubscribe")
  /\ To(c, "farewell")
  /\ UNCHANGED <<member, ghost, online, log, nlog>>

Farewell(c) ==
  /\ At(c, "farewell")
  /\ conn' = [conn EXCEPT ![c] = Closed]
  /\ UNCHANGED <<member, ghost, online, log, nlog>>

-----------------------------------------------------------------------------
(* Faults                                                                  *)

\* An exception before the try, or inside the finally, ends the handler there.
HandlerDies(c) ==
  /\ Faults
  /\ conn[c].step \in {"accept", "subscribe", "announce", "offline", "unsubscribe",
                       "farewell"}
  /\ conn' = [conn EXCEPT ![c] = Closed]
  /\ UNCHANGED <<member, ghost, online, log, nlog>>

\* ingest_frame raised: the frame is published all the same, without extras.
IngestFails(c) ==
  /\ Faults
  /\ conn[c].step \in {"ingest", "audience", "push"}
  /\ To(c, "publish")
  /\ UNCHANGED <<member, ghost, online, log, nlog>>

\* _is_ghost or publish_trip raised: out of the loop, into the finally block.
LoopFails(c) ==
  /\ Faults
  /\ conn[c].step \in {"check", "publish", "extra"}
  /\ conn' = [conn EXCEPT ![c] = Handler(@.user, @.pod, "offline")]
  /\ UNCHANGED <<member, ghost, online, log, nlog>>

\* pubsub.listen raised in the pump task: nobody awaits it, the loop goes on.
PumpDies(c) ==
  /\ Faults
  /\ conn[c].step \in Listening \ {"announce"} /\ ~conn[c].deaf
  /\ conn' = [conn EXCEPT ![c].deaf = TRUE]
  /\ UNCHANGED <<member, ghost, online, log, nlog>>

\* A pod dies with its handlers and subscriptions; no finally block runs.
Crash(p) ==
  /\ Faults
  /\ \E c \in Conn : conn[c].pod = p
  /\ conn' = [c \in Conn |-> IF conn[c].pod = p THEN Closed ELSE conn[c]]
  /\ UNCHANGED <<member, ghost, online, log, nlog>>

\* The pod that was serving POST /messages died between commit and publish.
PostLost(m) ==
  /\ Faults
  /\ log[m].stage = "committed"
  /\ log' = [log EXCEPT ![m].stage = "lost"]
  /\ UNCHANGED <<member, ghost, conn, online, nlog>>

-----------------------------------------------------------------------------
Setup(c) == MarkOnline(c) \/ Subscribe(c) \/ Announce(c)
Receive(c) == ReceiveLocation(c) \/ ReceiveMessage(c) \/ ReceiveOther(c)
Handle(c) ==
  \/ CheckGhost(c) \/ Ingest(c) \/ StoreMessage(c) \/ ReadAudience(c)
  \/ PushOffline(c) \/ Publish(c) \/ PublishExtra(c)
Cleanup(c) == MarkOffline(c) \/ Unsubscribe(c) \/ Farewell(c)
Fail(c) == HandlerDies(c) \/ IngestFails(c) \/ LoopFails(c) \/ PumpDies(c)

Next ==
  \/ \E u \in User : LeaveTrip(u) \/ RejoinTrip(u)
  \/ PostCommit
  \/ \E u \in User, on \in BOOLEAN : SetGhost(u, on)
  \/ \E m \in 1..MaxMsgs : PostPublish(m) \/ PostLost(m)
  \/ \E c \in Conn, u \in User, p \in Pod : Connect(c, u, p)
  \/ \E c \in Conn : \/ Setup(c) \/ Receive(c) \/ Disconnect(c)
                    \/ Handle(c) \/ Cleanup(c) \/ Fail(c)
  \/ \E p \in Pod : Crash(p)

Spec == Init /\ [][Next]_vars

-----------------------------------------------------------------------------
(* Properties                                                              *)

HandlerType ==
  [user : User \cup {NoOne}, pod : Pod \cup {NoOne}, step : Step,
   frame : AllKinds, msg : 0..MaxMsgs, saw : SUBSET User, absent : SUBSET User,
   extra : BOOLEAN, hid : BOOLEAN, out : BOOLEAN, deaf : BOOLEAN]

MessageType ==
  [stage : {"none", "handled", "committed", "out", "lost"}, stored : BOOLEAN,
   pushed : SUBSET User, skipped : SUBSET User, absent : SUBSET User,
   seen : SUBSET User]

\* Type invariant.
TypeOK ==
  /\ member \in SUBSET User /\ ghost \in SUBSET User /\ online \in SUBSET User
  /\ conn \in [Conn -> HandlerType]
  /\ log \in [1..MaxMsgs -> MessageType]
  /\ nlog \in 0..MaxMsgs

\* As long as nothing fails, whoever is in the presence set has a socket that
\* will take him out of it, however his sockets' handlers interleave: a finally
\* block always comes after its own SADD.
NoPhantomPresence == \A u \in online : Present(u)

\* The user of a socket that has been announced is in the presence set.  True,
\* even when pods crash, for users who never have two handlers at once.
PresenceComplete ==
  \A c \in Conn : conn[c].step \in Marked => conn[c].user \in online

\* As long as nothing fails, a member who had no socket when the presence set
\* was read for a chat message gets the push, if still a member at the next read.
AbsentMembersPushed ==
  \A m \in 1..MaxMsgs : log[m].stage = "out" => log[m].absent \subseteq log[m].pushed

\* As long as nothing fails, a chat message any socket shows is in the history,
\* whichever of the two ways it was sent.
StoredBeforeSeen ==
  \A m \in 1..MaxMsgs : log[m].seen # {} => log[m].stored

\* A location frame that came in while its sender was a ghost gets past the
\* check only if the sender stopped being a ghost, or a member, in between.
GhostFramesDropped ==
  \A c \in Conn :
    conn[c].hid /\ conn[c].step \in {"ingest", "publish", "extra"} => conn[c].out

\* The inductive invariant behind these: whose a handler is,
OneHandler ==
  /\ \A c \in Conn : conn[c].user = NoOne <=> conn[c].step = "closed"
  /\ OneSocket => \A c, d \in Conn :
       conn[c].step # "closed" /\ conn[c].user = conn[d].user => c = d

\* what is still so of a frame's sender, and up to where,
GhostInv ==
  \A c \in Conn : conn[c].hid /\ ~conn[c].out =>
    conn[c].user \in ghost \cap member /\ conn[c].step = "check"

\* and what is established for a message on its way from the commit to the fan-out.
ChatInv ==
  /\ \A c \in Conn : conn[c].absent \cap conn[c].saw = {}
  /\ \A m \in 1..MaxMsgs : log[m].absent \subseteq log[m].pushed
  /\ \A m \in 1..MaxMsgs : log[m].stage = "committed" => log[m].stored
  /\ \A c \in Conn : conn[c].frame = "message" =>
       /\ conn[c].msg \in 1..MaxMsgs
       /\ conn[c].step \in {"audience", "push", "publish"} => log[conn[c].msg].stored

IInv ==
  /\ TypeOK /\ OneHandler /\ GhostInv
  /\ OneSocket => PresenceComplete
  /\ ~Faults => NoPhantomPresence /\ ChatInv /\ StoredBeforeSeen

\* "Used to skip FCM pushes for users that already see the message live": those
\* whom the presence set spared the push did see the message.
SkippedSeeLive ==
  \A m \in 1..MaxMsgs : log[m].stage = "out" => log[m].skipped \subseteq log[m].seen
=============================================================================
