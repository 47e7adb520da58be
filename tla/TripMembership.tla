--------------------------- MODULE TripMembership ---------------------------
(***************************************************************************)
(* Membership of one trip: the rows of trips and trip_members, and the    *)
(* request handlers of routers/trips.py, routers/group.py and             *)
(* routers/privacy.py that write them.                                    *)
(*                                                                         *)
(* Every handler is a coroutine over its own database session.  Under     *)
(* READ COMMITTED each SELECT sees what is committed when it runs and the *)
(* row changes at the handler's commit, so a handler is a chain of read   *)
(* steps and one commit, and the steps of the requests in flight          *)
(* interleave.  The ORM writes a column only if the handler changed the   *)
(* value it had loaded: field "dirty" of a request.                       *)
(***************************************************************************)
EXTENDS Integers, FiniteSets

CONSTANTS
  User,          \* accounts that may call the API
  Req,           \* slots for requests being served at the same time
  Cap,           \* _FREE_MAX_MEMBERS
  PaletteSize,   \* Len(_PALETTE)
  Role,          \* roles a request may name, "owner" among them
  Op,            \* handlers the clients of this instance call
  ClientSerial,  \* TRUE: a client waits for an answer before it calls again
  NoUser

AllOps == {"join", "leave", "ghost", "share", "ready", "role", "end"}

ASSUME MembershipConstants ==
  /\ IsFiniteSet(User) /\ User # {} /\ NoUser \notin User
  /\ IsFiniteSet(Req) /\ Req # {}
  /\ Cap \in Nat \ {0}
  /\ PaletteSize \in Nat \ {0}
  /\ "none" \notin Role /\ {"owner", "member"} \subseteq Role
  /\ Op \subseteq AllOps
  /\ ClientSerial \in BOOLEAN

VARIABLES
  status,   \* trips.status: "none" before the trip exists, "planned", "ended"
  owner,    \* trips.owner_id
  role,     \* trip_members.role, "none" where the user has no row
  color,    \* trip_members.color as an index of _PALETTE, 0 where no row
  away,     \* users whose row has left_at set
  ghost,    \* users whose row has ghost_mode
  ready,    \* users whose row has is_ready
  req,      \* the request in each slot
  everLeft  \* history: users who have left at least once

row == <<role, color, away, ghost, ready, everLeft>>
vars == <<status, owner, role, color, away, ghost, ready, req, everLeft>>

Palette == 1..PaletteSize

Rows == {u \in User : role[u] # "none"}
Active == Rows \ away

Answer == {"none", "ok", "denied", "gone", "full", "missing", "badrole", "error"}

Step == {"idle", "start", "row", "count", "colors", "insert", "revive",
         "actor", "write"}

Idle(answer) ==
  [op |-> "none", user |-> NoUser, step |-> "idle", on |-> FALSE,
   target |-> NoUser, role |-> "member", color |-> 0, dirty |-> FALSE,
   born |-> "none", answer |-> answer]

Init ==
  /\ status = "none"
  /\ owner = NoUser
  /\ role = [u \in User |-> "none"]
  /\ color = [u \in User |-> 0]
  /\ away = {}
  /\ ghost = {}
  /\ ready = {}
  /\ req = [r \in Req |-> Idle("none")]
  /\ everLeft = {}

-----------------------------------------------------------------------------
(* Steps a handler is made of.                                             *)

GoTo(r, step) == req' = [req EXCEPT ![r].step = step]
Finish(r, answer) == req' = [req EXCEPT ![r] = Idle(answer)]
At(r, op, step) == req[r].op = op /\ req[r].step = step

\* POST /trips: the trip and its owner's row are one transaction.
CreateTrip(u) ==
  /\ status = "none"
  /\ status' = "planned"
  /\ owner' = u
  /\ role' = [role EXCEPT ![u] = "owner"]
  /\ color' = [color EXCEPT ![u] = 1]
  /\ UNCHANGED <<away, ghost, ready, req, everLeft>>

\* A client calls a handler; current_user has resolved the account.
Arrive(r, u, op, on, target, rl) ==
  /\ status # "none"
  /\ req[r].step = "idle"
  /\ ClientSerial => \A s \in Req : req[s].user # u
  /\ req' = [req EXCEPT ![r] =
       [Idle("none") EXCEPT !.op = op, !.user = u, !.step = "start", !.on = on,
                            !.target = target, !.role = rl, !.born = status]]
  /\ UNCHANGED <<status, owner, row>>

-----------------------------------------------------------------------------
(* POST /trips/join                                                        *)

\* Mutant: the trip's status is not looked at.
JoinReadTripUnchecked(r) ==
  /\ At(r, "join", "start")
  /\ GoTo(r, "row")
  /\ UNCHANGED <<status, owner, row>>

\* SELECT the trip by its code: 410 when it is over.
JoinReadTrip(r) ==
  /\ At(r, "join", "start")
  /\ IF status = "ended" THEN Finish(r, "gone") ELSE GoTo(r, "row")
  /\ UNCHANGED <<status, owner, row>>

\* Mutant: only rows with left_at NULL are looked for.
JoinReadActiveRow(r) ==
  /\ At(r, "join", "row")
  /\ IF req[r].user \in Active THEN Finish(r, "ok") ELSE GoTo(r, "count")
  /\ UNCHANGED <<status, owner, row>>

\* SELECT the caller's own row, whatever its left_at.
JoinReadRow(r) ==
  /\ At(r, "join", "row")
  /\ LET u == req[r].user
     IN  \/ u \notin Rows /\ GoTo(r, "count")
         \/ u \in Rows /\ u \in away /\ GoTo(r, "revive")
         \/ u \in Active /\ Finish(r, "ok")
  /\ UNCHANGED <<status, owner, row>>

\* Mutant: > instead of >=.
JoinCountAbove(r) ==
  /\ At(r, "join", "count")
  /\ IF Cardinality(Active) > Cap THEN Finish(r, "full") ELSE GoTo(r, "colors")
  /\ UNCHANGED <<status, owner, row>>

\* SELECT count(*) of the rows with left_at NULL: 402 when the trip is full.
JoinCount(r) ==
  /\ At(r, "join", "count")
  /\ IF Cardinality(Active) >= Cap THEN Finish(r, "full") ELSE GoTo(r, "colors")
  /\ UNCHANGED <<status, owner, row>>

UsedColors == {color[u] : u \in Rows}

\* The first palette colour no row holds, or the first colour of all.
IsNextColor(c) ==
  \/ c \notin UsedColors /\ 1..(c - 1) \subseteq UsedColors
  \/ c = 1 /\ Palette \subseteq UsedColors

JoinPickColor(r) ==
  /\ At(r, "join", "colors")
  /\ \E c \in Palette :
       /\ IsNextColor(c)
       /\ req' = [req EXCEPT ![r] = [@ EXCEPT !.step = "insert", !.color = c]]
  /\ UNCHANGED <<status, owner, row>>

\* INSERT and commit: (trip_id, user_id) is the primary key, so a second
\* insert of the same user raises IntegrityError and the answer is a 500.
JoinInsert(r) ==
  /\ At(r, "join", "insert")
  /\ LET u == req[r].user
     IN  \/ /\ u \notin Rows
            /\ role' = [role EXCEPT ![u] = "member"]
            /\ color' = [color EXCEPT ![u] = req[r].color]
            /\ Finish(r, "ok")
         \/ /\ u \in Rows
            /\ Finish(r, "error")
            /\ UNCHANGED <<role, color>>
  /\ UNCHANGED <<status, owner, away, ghost, ready, everLeft>>

\* The row of a member who had left: left_at becomes NULL, with no count.
JoinRevive(r) ==
  /\ At(r, "join", "revive")
  /\ away' = away \ {req[r].user}
  /\ Finish(r, "ok")
  /\ UNCHANGED <<status, owner, role, color, ghost, ready, everLeft>>

-----------------------------------------------------------------------------
(* Handlers that start with require_trip_member and write the caller's row. *)

\* Would the assignment the handler is about to make change what it loaded?
Changes(op, u, on) ==
  \/ op = "leave"
  \/ op = "ghost" /\ (u \in ghost) # on
  \/ op = "share" /\ u \in ghost
  \/ op = "ready" /\ (u \in ready) # on

RequireMember(r) ==
  /\ req[r].op \in {"leave", "ghost", "share", "ready"} /\ req[r].step = "start"
  /\ LET u == req[r].user
     IN  IF u \in Active
         THEN req' = [req EXCEPT ![r] =
                [@ EXCEPT !.step = "write", !.dirty = Changes(req[r].op, u, req[r].on)]]
         ELSE Finish(r, "denied")
  /\ UNCHANGED <<status, owner, row>>

\* S with u put in or taken out, if the ORM has something to write.
Assign(S, u, on, dirty) ==
  IF ~dirty THEN S ELSE IF on THEN S \cup {u} ELSE S \ {u}

Leave(r) ==
  /\ At(r, "leave", "write")
  /\ away' = away \cup {req[r].user}
  /\ everLeft' = everLeft \cup {req[r].user}
  /\ Finish(r, "ok")
  /\ UNCHANGED <<status, owner, role, color, ghost, ready>>

SetGhost(r) ==
  /\ At(r, "ghost", "write")
  /\ ghost' = Assign(ghost, req[r].user, req[r].on, req[r].dirty)
  /\ Finish(r, "ok")
  /\ UNCHANGED <<status, owner, role, color, away, ready, everLeft>>

\* Mutant: only share_until is set.
ShareForOnly(r) ==
  /\ At(r, "share", "write")
  /\ Finish(r, "ok")
  /\ UNCHANGED <<status, owner, row>>

\* share_for: besides share_until, which nothing reads, ghost_mode is cleared.
ShareFor(r) ==
  /\ At(r, "share", "write")
  /\ ghost' = Assign(ghost, req[r].user, FALSE, req[r].dirty)
  /\ Finish(r, "ok")
  /\ UNCHANGED <<status, owner, role, color, away, ready, everLeft>>

ToggleReady(r) ==
  /\ At(r, "ready", "write")
  /\ ready' = Assign(ready, req[r].user, req[r].on, req[r].dirty)
  /\ Finish(r, "ok")
  /\ UNCHANGED <<status, owner, role, color, away, ghost, everLeft>>

-----------------------------------------------------------------------------
(* POST /trips/{id}/members/{user}/role and POST /trips/{id}/end           *)

\* The role named must not be "owner"; then SELECT the target's row.
RoleReadTarget(r) ==
  /\ At(r, "role", "start")
  /\ LET t == req[r].target
     IN  \/ req[r].role = "owner" /\ Finish(r, "badrole")
         \/ req[r].role # "owner" /\ t \notin Rows /\ Finish(r, "missing")
         \/ /\ req[r].role # "owner" /\ t \in Rows
            /\ req' = [req EXCEPT ![r] =
                 [@ EXCEPT !.step = "actor", !.dirty = (role[t] # req[r].role)]]
  /\ UNCHANGED <<status, owner, row>>

\* Mutant: any member may set roles.
RoleReadActorMember(r) ==
  /\ At(r, "role", "actor")
  /\ IF req[r].user \in Active THEN GoTo(r, "write") ELSE Finish(r, "denied")
  /\ UNCHANGED <<status, owner, row>>

\* SELECT the caller's row: its role decides, its left_at does not.
RoleReadActor(r) ==
  /\ At(r, "role", "actor")
  /\ IF role[req[r].user] = "owner" THEN GoTo(r, "write") ELSE Finish(r, "denied")
  /\ UNCHANGED <<status, owner, row>>

SetMemberRole(r) ==
  /\ At(r, "role", "write")
  /\ role' = IF req[r].dirty THEN [role EXCEPT ![req[r].target] = req[r].role]
             ELSE role
  /\ Finish(r, "ok")
  /\ UNCHANGED <<status, owner, color, away, ghost, ready, everLeft>>

\* The trip's owner_id decides, whatever the caller's row says.
EndReadTrip(r) ==
  /\ At(r, "end", "start")
  /\ IF owner = req[r].user THEN GoTo(r, "write") ELSE Finish(r, "denied")
  /\ UNCHANGED <<status, owner, row>>

EndTrip(r) ==
  /\ At(r, "end", "write")
  /\ status' = "ended"
  /\ Finish(r, "ok")
  /\ UNCHANGED <<owner, row>>

-----------------------------------------------------------------------------
Join(r) ==
  \/ JoinReadTrip(r) \/ JoinReadRow(r) \/ JoinCount(r)
  \/ JoinPickColor(r) \/ JoinInsert(r) \/ JoinRevive(r)

Own(r) ==
  RequireMember(r) \/ Leave(r) \/ SetGhost(r) \/ ShareFor(r) \/ ToggleReady(r)

Govern(r) ==
  \/ RoleReadTarget(r) \/ RoleReadActor(r) \/ SetMemberRole(r)
  \/ EndReadTrip(r) \/ EndTrip(r)

Serve(r) == Join(r) \/ Own(r) \/ Govern(r)

\* The arguments that op takes; those it does not take have one value.
Call(r) ==
  \E u \in User, op \in Op :
    \/ op \in {"join", "leave", "share", "end"}
         /\ Arrive(r, u, op, FALSE, NoUser, "member")
    \/ op \in {"ghost", "ready"}
         /\ \E on \in BOOLEAN : Arrive(r, u, op, on, NoUser, "member")
    \/ op = "role"
         /\ \E t \in User, rl \in Role : Arrive(r, u, op, FALSE, t, rl)

Next ==
  \/ \E u \in User : CreateTrip(u)
  \/ \E r \in Req : Call(r) \/ Serve(r)

Spec == Init /\ [][Next]_vars

\* A request that is being served is eventually answered: its coroutine waits
\* only for the database.
FairSpec == Spec /\ \A r \in Req : WF_vars(Serve(r))

-----------------------------------------------------------------------------
(* Properties                                                              *)

RequestType ==
  [op : AllOps \cup {"none"}, user : User \cup {NoUser}, step : Step,
   on : BOOLEAN, target : User \cup {NoUser}, role : Role,
   color : Palette \cup {0}, dirty : BOOLEAN,
   born : {"none", "planned", "ended"}, answer : Answer]

\* Type invariant.
TypeOK ==
  /\ status \in {"none", "planned", "ended"}
  /\ owner \in User \cup {NoUser}
  /\ role \in [User -> Role \cup {"none"}]
  /\ color \in [User -> Palette \cup {0}]
  /\ away \in SUBSET User /\ ghost \in SUBSET User /\ ready \in SUBSET User
  /\ everLeft \in SUBSET User
  /\ req \in [Req -> RequestType]

\* Members who have held their seat since their first join.
Seated == Rows \ everLeft

\* The count of join_trip and its INSERT are separate statements, so concurrent
\* joins may exceed the cap; but by no more than one seat for every other
\* request that can be in flight, whatever the members who leave do.
OvershootBound == Cardinality(Seated) <= Cap - 1 + Cardinality(Req)

\* The requests past the count of join_trip: each will insert one row.
Passed == {r \in Req : req[r].op = "join" /\ req[r].step \in {"colors", "insert"}}

\* The inductive invariant behind the safety properties:
\* what a request being served has already established,
RequestOK(q) ==
  /\ q.op # "none" =>
       /\ q.user \in User
       /\ \/ q.born = "planned" /\ status # "none"
          \/ q.born = "ended" /\ status = "ended"
  /\ q.op = "join" /\ q.step # "start" => q.born = "planned"
  /\ q.op = "role" /\ q.step \in {"actor", "write"} =>
       q.target \in Rows /\ q.role # "owner"
  /\ q.op = "role" /\ q.step = "write" => q.user = owner
  /\ q.op = "leave" /\ q.step = "write" => q.user \in Rows

RequestInv == \A r \in Req : RequestOK(req[r])

\* what the rows satisfy,
RowInv ==
  /\ status = "none" => Rows = {}
  /\ away \subseteq everLeft /\ away \subseteq Rows
  /\ \A u \in User : role[u] = "owner" => u = owner

\* and that a seat is either taken or about to be taken by a counted join.
SeatInv ==
  Cardinality(Seated) + Cardinality(Passed) <= Cap - 1 + Cardinality(Req)

\* What the handlers of a client who waits for his answers rely on: he has one
\* request at a time,
OneAtATime ==
  \A r, s \in Req : r # s /\ req[r].user \in User => req[s].user # req[r].user

\* so what his request has read of his own row is still so when it writes.
OwnRowOK(q) ==
  /\ q.answer # "error"
  /\ q.op = "join" /\ q.step \in {"count", "colors", "insert"} => q.user \notin Rows
  /\ q.op = "join" /\ q.step = "revive" => q.user \in Rows
  /\ q.step = "write" /\ ~q.dirty =>
       /\ q.op = "ghost" => (q.user \in ghost) = q.on
       /\ q.op = "share" => q.user \notin ghost
       /\ q.op = "ready" => (q.user \in ready) = q.on

SerialInv == ClientSerial => OneAtATime /\ \A r \in Req : OwnRowOK(req[r])

IInv == TypeOK /\ RequestInv /\ RowInv /\ SeatInv /\ SerialInv

\* A request that arrives after the trip has ended never makes anyone a
\* member: only a join that was already being served when the owner ended the
\* trip (join_trip reads the status once) still gets in.
NoLateJoin ==
  [][\A u \in User :
       u \in Active' \ Active /\ status = "ended" =>
         \E r \in Req : /\ req[r].op = "join" /\ req[r].user = u
                       /\ req[r].born = "planned"]_vars

\* Nobody but the account that created the trip ever gets a member's role
\* changed, whoever is promoted, leaves or rejoins in between (set_member_role
\* looks at the caller's role, not at owner_id).
RoleAuthority ==
  [][\A u \in User :
       u \in Rows /\ role'[u] # role[u] =>
         \E r \in Req : /\ req[r].op = "role" /\ req[r].target = u
                       /\ req[r].user = owner]_vars

Succeeds(r, op) == req[r].op = op /\ req'[r].answer = "ok" /\ req'[r].op = "none"

\* For a client that waits for its answers, every 200 tells the truth about
\* the member's own row when it is given, whatever the other members do.
ReadYourWrites ==
  [][\A r \in Req :
       LET u == req[r].user
       IN  /\ Succeeds(r, "join")  => u \in Active'
           /\ Succeeds(r, "leave") => u \notin Active'
           /\ Succeeds(r, "ghost") => (u \in ghost') = req[r].on
           /\ Succeeds(r, "share") => u \notin ghost'
           /\ Succeeds(r, "ready") => (u \in ready') = req[r].on]_vars

\* For such clients join_trip never runs into the primary key of trip_members:
\* a member who left is found by the row read and revived, never re-inserted.
NoServerError == \A r \in Req : req[r].answer # "error"

\* Once the trip has ended and the joins then in flight are served, its
\* membership only shrinks.
MembershipSettles ==
  <>(status = "ended") => <>[][Active' \subseteq Active]_vars

\* "Free trips are capped at 5 members": no more than Cap members at any time.
CapHolds == Cardinality(Active) <= Cap
=============================================================================
