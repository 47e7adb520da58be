------------------------ MODULE TripMembershipProofs ------------------------
(* What holds of TripMembership for every number of users and requests.     *)
EXTENDS TripMembership, FiniteSetTheorems, TLAPS

LEMMA IdleType == \A a \in Answer : Idle(a) \in RequestType
BY MembershipConstants DEF Idle, RequestType, Step, Answer

\* A request that moves on, and may remember something, stays a request.
LEMMA MovesType ==
  ASSUME NEW q \in RequestType, NEW s \in Step
  PROVE  [q EXCEPT !.step = s] \in RequestType
BY DEF RequestType

LEMMA ColorMovesType ==
  ASSUME NEW q \in RequestType, NEW s \in Step, NEW c \in Palette
  PROVE  [q EXCEPT !.step = s, !.color = c] \in RequestType
BY DEF RequestType

LEMMA DirtyMovesType ==
  ASSUME NEW q \in RequestType, NEW s \in Step, NEW d \in BOOLEAN
  PROVE  [q EXCEPT !.step = s, !.dirty = d] \in RequestType
BY DEF RequestType

-----------------------------------------------------------------------------
(* Type correctness                                                        *)

LEMMA InitType == Init => TypeOK
BY IdleType DEF Init, TypeOK, Answer

LEMMA StepType == TypeOK /\ RequestInv /\ [Next]_vars => TypeOK'
<1> SUFFICES ASSUME TypeOK, RequestInv, [Next]_vars PROVE TypeOK'
  OBVIOUS
<1> USE MembershipConstants DEF row
<1>1. ASSUME NEW u \in User, CreateTrip(u) PROVE TypeOK'
  BY <1>1 DEF CreateTrip, TypeOK, Palette
<1>2. ASSUME NEW r \in Req, Call(r) PROVE TypeOK'
  <2>1. PICK u \in User, op \in Op, on \in BOOLEAN, t \in User \cup {NoUser}, rl \in Role :
          Arrive(r, u, op, on, t, rl)
    BY <1>2 DEF Call
  <2>2. req'[r] \in RequestType
    BY <2>1 DEF Arrive, TypeOK, Idle, RequestType, Step, Answer, Palette
  <2>3. QED
    BY <2>1, <2>2 DEF Arrive, TypeOK
<1>3. ASSUME NEW r \in Req, Join(r) PROVE TypeOK'
  <2>0. /\ req[r] \in RequestType
        /\ \A s \in Step : [req[r] EXCEPT !.step = s] \in RequestType
    BY MovesType DEF TypeOK
  <2> USE DEF TypeOK, GoTo, Finish, At
  <2>1. CASE JoinReadTrip(r)
    BY <2>0, <2>1, IdleType DEF JoinReadTrip, Answer, Step
  <2>2. CASE JoinReadRow(r)
    BY <2>0, <2>2, IdleType DEF JoinReadRow, Answer, Step
  <2>3. CASE JoinCount(r)
    BY <2>0, <2>3, IdleType DEF JoinCount, Answer, Step
  <2>4. CASE JoinPickColor(r)
    <3>1. PICK c \in Palette :
            req' = [req EXCEPT ![r] = [@ EXCEPT !.step = "insert", !.color = c]]
      BY <2>4 DEF JoinPickColor
    <3>2. [req[r] EXCEPT !.step = "insert", !.color = c] \in RequestType
      BY <2>0, ColorMovesType DEF Step
    <3>3. QED
      BY <2>4, <3>1, <3>2 DEF JoinPickColor
  <2>5. CASE JoinInsert(r)
    <3>1. req[r].color \in Palette \cup {0} /\ "member" \in Role
      BY <2>0 DEF RequestType
    <3>2. QED
      BY <2>5, <3>1, IdleType DEF JoinInsert, Answer
  <2>6. CASE JoinRevive(r)
    BY <2>6, IdleType DEF JoinRevive, Answer
  <2>7. QED
    BY <1>3, <2>1, <2>2, <2>3, <2>4, <2>5, <2>6 DEF Join
<1>4. ASSUME NEW r \in Req, Own(r) PROVE TypeOK'
  <2>0. req[r] \in RequestType /\ req[r].user \in User
    BY <1>4 DEF TypeOK, Own, RequireMember, Leave, SetGhost, ShareFor, ToggleReady,
                At, RequestInv, RequestOK
  <2> USE DEF TypeOK, Finish, At
  <2>1. CASE RequireMember(r)
    <3> DEFINE d == Changes(req[r].op, req[r].user, req[r].on)
    <3>1. [req[r] EXCEPT !.step = "write", !.dirty = d] \in RequestType
      <4>1. d \in BOOLEAN
        BY DEF Changes
      <4> HIDE DEF d
      <4>2. QED
        BY <2>0, <4>1, DirtyMovesType DEF Step
    <3> HIDE DEF d
    <3>2. req' = IF req[r].user \in Active
                 THEN [req EXCEPT ![r] = [@ EXCEPT !.step = "write", !.dirty = d]]
                 ELSE [req EXCEPT ![r] = Idle("denied")]
      BY <2>1 DEF RequireMember, d
    <3>3. QED
      BY <2>1, <3>1, <3>2, IdleType DEF RequireMember, Answer
  <2>2. CASE Leave(r)
    BY <2>0, <2>2, IdleType DEF Leave, Answer
  <2>3. CASE SetGhost(r)
    BY <2>0, <2>3, IdleType DEF SetGhost, Assign, Answer
  <2>4. CASE ShareFor(r)
    BY <2>0, <2>4, IdleType DEF ShareFor, Assign, Answer
  <2>5. CASE ToggleReady(r)
    BY <2>0, <2>5, IdleType DEF ToggleReady, Assign, Answer
  <2>6. QED
    BY <1>4, <2>1, <2>2, <2>3, <2>4, <2>5 DEF Own
<1>5. ASSUME NEW r \in Req, Govern(r) PROVE TypeOK'
  <2>0. /\ req[r] \in RequestType
        /\ \A s \in Step : [req[r] EXCEPT !.step = s] \in RequestType
    BY MovesType DEF TypeOK
  <2> USE DEF TypeOK, GoTo, Finish, At
  <2>1. CASE RoleReadTarget(r)
    <3> DEFINE d == role[req[r].target] # req[r].role
    <3>1. [req[r] EXCEPT !.step = "actor", !.dirty = d] \in RequestType
      <4>1. d \in BOOLEAN
        OBVIOUS
      <4> HIDE DEF d
      <4>2. QED
        BY <2>0, <4>1, DirtyMovesType DEF Step
    <3> HIDE DEF d
    <3>2. \/ req' = [req EXCEPT ![r] = [@ EXCEPT !.step = "actor", !.dirty = d]]
          \/ req' = [req EXCEPT ![r] = Idle("badrole")]
          \/ req' = [req EXCEPT ![r] = Idle("missing")]
      BY <2>1 DEF RoleReadTarget, d
    <3>3. QED
      BY <2>1, <3>1, <3>2, IdleType DEF RoleReadTarget, Answer
  <2>2. CASE RoleReadActor(r)
    BY <2>0, <2>2, IdleType DEF RoleReadActor, Answer, Step
  <2>3. CASE SetMemberRole(r)
    <3>1. req[r].role \in Role
      BY <2>0 DEF RequestType
    <3>2. QED
      BY <2>3, <3>1, IdleType DEF SetMemberRole, Answer
  <2>4. CASE EndReadTrip(r)
    BY <2>0, <2>4, IdleType DEF EndReadTrip, Answer, Step
  <2>5. CASE EndTrip(r)
    BY <2>5, IdleType DEF EndTrip, Answer
  <2>6. QED
    BY <1>5, <2>1, <2>2, <2>3, <2>4, <2>5 DEF Govern
<1>6. CASE UNCHANGED vars
  BY <1>6 DEF vars, TypeOK
<1>7. QED
  BY <1>1, <1>2, <1>3, <1>4, <1>5, <1>6 DEF Next, Serve

-----------------------------------------------------------------------------
(* What a step never takes back                                            *)

Monotone ==
  /\ Rows \subseteq Rows'
  /\ status # "none" => owner' = owner /\ status' # "none"
  /\ status = "ended" => status' = "ended"

LEMMA IdleOK == \A a \in Answer : RequestOK(Idle(a))' /\ Idle(a).op = "none"
BY DEF RequestOK, Idle

LEMMA StepMonotone == TypeOK /\ RequestInv /\ RowInv /\ [Next]_vars => Monotone
<1> SUFFICES ASSUME TypeOK, RequestInv, RowInv, [Next]_vars PROVE Monotone
  OBVIOUS
<1> USE DEF Monotone, Rows, row, At
<1>1. ASSUME NEW u \in User, CreateTrip(u) PROVE Monotone
  BY <1>1 DEF CreateTrip, RowInv, TypeOK
<1>2. ASSUME NEW r \in Req, Call(r) PROVE Monotone
  BY <1>2 DEF Call, Arrive
<1>3. ASSUME NEW r \in Req, Join(r) PROVE Monotone
  BY <1>3 DEF Join, JoinReadTrip, JoinReadRow, JoinCount, JoinPickColor, JoinInsert,
              JoinRevive, TypeOK
<1>4. ASSUME NEW r \in Req, Own(r) PROVE Monotone
  BY <1>4 DEF Own, RequireMember, Leave, SetGhost, ShareFor, ToggleReady
<1>5. ASSUME NEW r \in Req, Govern(r) PROVE Monotone
  <2>1. CASE SetMemberRole(r)
    <3>1. req[r].role \in Role /\ "none" \notin Role
      BY MembershipConstants DEF TypeOK, RequestType
    <3>2. QED
      BY <2>1, <3>1 DEF SetMemberRole, TypeOK
  <2>2. CASE EndTrip(r)
    BY <2>2 DEF EndTrip
  <2>3. CASE RoleReadTarget(r) \/ RoleReadActor(r) \/ EndReadTrip(r)
    BY <2>3 DEF RoleReadTarget, RoleReadActor, EndReadTrip
  <2>4. QED
    BY <1>5, <2>1, <2>2, <2>3 DEF Govern
<1>6. CASE UNCHANGED vars
  BY <1>6 DEF vars
<1>7. QED
  BY <1>1, <1>2, <1>3, <1>4, <1>5, <1>6 DEF Next, Serve

-----------------------------------------------------------------------------
(* Requests: what a step leaves alone stays true, and each handler's step   *)
(* establishes what its next step relies on.                                *)

LEMMA OthersKeep ==
  ASSUME TypeOK, RequestInv, RowInv, Monotone, NEW r \in Req, req'[r] = req[r]
  PROVE  RequestOK(req[r])'
BY DEF TypeOK, RequestInv, RequestOK, Monotone

\* How a step of its handler leaves a request: answered, or further on.
Answered(r) == req'[r].op = "none"

MovedTo(r, step) ==
  /\ req'[r].step = step
  /\ req'[r].op = req[r].op /\ req'[r].user = req[r].user
  /\ req'[r].born = req[r].born /\ req'[r].target = req[r].target
  /\ req'[r].role = req[r].role /\ req'[r].on = req[r].on
  /\ req'[r].answer = req[r].answer

LEMMA GoToMoves ==
  ASSUME TypeOK, NEW r \in Req, NEW step, GoTo(r, step)
  PROVE  MovedTo(r, step)
BY DEF TypeOK, RequestType, GoTo, MovedTo

LEMMA FinishAnswers ==
  ASSUME TypeOK, NEW r \in Req, NEW answer, Finish(r, answer)
  PROVE  Answered(r)
BY DEF TypeOK, Finish, Idle, Answered

\* A member's request goes on to write, and knows whether there is something to.
LEMMA RequireMemberWrites ==
  ASSUME TypeOK, NEW r \in Req, RequireMember(r), req[r].user \in Active
  PROVE  /\ MovedTo(r, "write")
         /\ req'[r].dirty = Changes(req[r].op, req[r].user, req[r].on)
<1> DEFINE d == Changes(req[r].op, req[r].user, req[r].on)
<1>1. req' = [req EXCEPT ![r] = [@ EXCEPT !.step = "write", !.dirty = d]]
  BY DEF RequireMember
<1> HIDE DEF d
<1>2. req \in [Req -> RequestType]
  BY DEF TypeOK
<1>3. MovedTo(r, "write") /\ req'[r].dirty = d
  BY <1>1, <1>2 DEF RequestType, MovedTo
<1>4. QED
  BY <1>3 DEF d

LEMMA RequireMemberMoves ==
  ASSUME TypeOK, NEW r \in Req, RequireMember(r)
  PROVE  Answered(r) \/ MovedTo(r, "write")
<1>1. CASE req[r].user \in Active
  BY <1>1, RequireMemberWrites
<1>2. CASE req[r].user \notin Active
  BY <1>2, FinishAnswers DEF RequireMember
<1>3. QED
  BY <1>1, <1>2

LEMMA RoleReadTargetMoves ==
  ASSUME TypeOK, NEW r \in Req, RoleReadTarget(r)
  PROVE  \/ Answered(r)
         \/ /\ MovedTo(r, "actor")
            /\ req[r].target \in Rows /\ req[r].role # "owner"
<1>1. CASE Finish(r, "badrole") \/ Finish(r, "missing")
  BY <1>1, FinishAnswers
<1>2. CASE /\ req[r].role # "owner" /\ req[r].target \in Rows
           /\ req' = [req EXCEPT ![r] = [@ EXCEPT !.step = "actor",
                       !.dirty = (role[req[r].target] # req[r].role)]]
  <2>1. MovedTo(r, "actor")
    BY <1>2 DEF TypeOK, RequestType, MovedTo
  <2>2. QED
    BY <1>2, <2>1
<1>3. QED
  BY <1>1, <1>2 DEF RoleReadTarget

LEMMA OtherSlots ==
  ASSUME TypeOK, NEW r \in Req, Serve(r), NEW s \in Req, s # r
  PROVE  req'[s] = req[s]
BY DEF TypeOK, Serve, Join, Own, Govern, GoTo, Finish, JoinReadTrip,
       JoinReadRow, JoinCount, JoinPickColor, JoinInsert, JoinRevive, RequireMember,
       Leave, SetGhost, ShareFor, ToggleReady, RoleReadTarget, RoleReadActor,
       SetMemberRole, EndReadTrip, EndTrip

LEMMA RequestStep == TypeOK /\ RequestInv /\ RowInv /\ [Next]_vars => RequestInv'
<1> SUFFICES ASSUME TypeOK, RequestInv, RowInv, [Next]_vars, NEW s \in Req
             PROVE  RequestOK(req[s])'
  BY DEF RequestInv
<1>0. Monotone
  BY StepMonotone
<1>a. CASE req'[s] = req[s]
  BY <1>0, <1>a, OthersKeep
<1>b. CASE Answered(s)
  BY <1>b DEF RequestOK, Answered
<1>1. ASSUME NEW u \in User, CreateTrip(u) PROVE RequestOK(req[s])'
  BY <1>1, <1>a DEF CreateTrip
<1>2. ASSUME NEW r \in Req, Call(r) PROVE RequestOK(req[s])'
  <2>1. PICK u \in User, op \in Op, on \in BOOLEAN, t \in User \cup {NoUser}, rl \in Role :
          Arrive(r, u, op, on, t, rl)
    BY <1>2, MembershipConstants DEF Call
  <2>2. CASE s = r
    BY <2>1, <2>2 DEF Arrive, RequestOK, Idle, TypeOK, row
  <2>3. CASE s # r
    BY <2>1, <2>3, <1>a DEF Arrive, TypeOK
  <2>4. QED
    BY <2>2, <2>3
<1>3. ASSUME NEW r \in Req, Join(r), s = r PROVE RequestOK(req[s])'
  <2>1. CASE JoinReadTrip(r)
    <3>1. Answered(r) \/ (MovedTo(r, "row") /\ status # "ended")
      BY <2>1, GoToMoves, FinishAnswers DEF JoinReadTrip
    <3>2. QED
      BY <1>0, <1>b, <1>3, <2>1, <3>1
      DEF JoinReadTrip, At, MovedTo, RequestInv, RequestOK, Monotone
  <2>2. CASE JoinReadRow(r) \/ JoinCount(r)
    <3>1. Answered(r) \/ \E step \in {"count", "revive", "colors"} : MovedTo(r, step)
      BY <2>2, GoToMoves, FinishAnswers DEF JoinReadRow, JoinCount
    <3>2. QED
      BY <1>0, <1>b, <1>3, <2>2, <3>1
      DEF JoinReadRow, JoinCount, At, MovedTo, RequestInv, RequestOK, Monotone
  <2>3. CASE JoinPickColor(r)
    <3>1. MovedTo(r, "insert")
      BY <2>3 DEF JoinPickColor, TypeOK, RequestType, MovedTo
    <3>2. QED
      BY <1>0, <1>3, <2>3, <3>1
      DEF JoinPickColor, At, MovedTo, RequestInv, RequestOK, Monotone
  <2>4. CASE JoinInsert(r) \/ JoinRevive(r)
    BY <1>b, <1>3, <2>4, FinishAnswers DEF JoinInsert, JoinRevive
  <2>5. QED
    BY <1>3, <2>1, <2>2, <2>3, <2>4 DEF Join
<1>4. ASSUME NEW r \in Req, Own(r), s = r PROVE RequestOK(req[s])'
  <2>1. CASE RequireMember(r)
    <3>1. CASE req[r].user \in Active
      <4>1. MovedTo(r, "write") /\ req[r].user \in Rows'
        BY <1>0, <2>1, <3>1, RequireMemberWrites DEF Active, Monotone
      <4>2. QED
        BY <1>0, <1>4, <2>1, <4>1
        DEF RequireMember, MovedTo, RequestInv, RequestOK, Monotone
    <3>2. CASE req[r].user \notin Active
      BY <1>b, <1>4, <2>1, <3>2, FinishAnswers DEF RequireMember
    <3>3. QED
      BY <3>1, <3>2
  <2>2. CASE Leave(r) \/ SetGhost(r) \/ ShareFor(r) \/ ToggleReady(r)
    BY <1>b, <1>4, <2>2, FinishAnswers DEF Leave, SetGhost, ShareFor, ToggleReady
  <2>3. QED
    BY <1>4, <2>1, <2>2 DEF Own
<1>5. ASSUME NEW r \in Req, Govern(r), s = r PROVE RequestOK(req[s])'
  <2>1. CASE RoleReadTarget(r)
    <3>1. \/ Answered(r)
          \/ /\ MovedTo(r, "actor")
             /\ req[r].target \in Rows /\ req[r].role # "owner"
      BY <2>1, RoleReadTargetMoves
    <3>2. QED
      BY <1>0, <1>b, <1>5, <2>1, <3>1
      DEF RoleReadTarget, At, MovedTo, RequestInv, RequestOK, Monotone
  <2>2. CASE RoleReadActor(r)
    <3>1. Answered(r) \/ (MovedTo(r, "write") /\ role[req[r].user] = "owner")
      BY <2>2, GoToMoves, FinishAnswers DEF RoleReadActor
    <3>2. QED
      BY <1>0, <1>b, <1>5, <2>2, <3>1
      DEF RoleReadActor, At, MovedTo, RequestInv, RequestOK, Monotone, RowInv
  <2>3. CASE EndReadTrip(r)
    <3>1. Answered(r) \/ MovedTo(r, "write")
      BY <2>3, GoToMoves, FinishAnswers DEF EndReadTrip
    <3>2. QED
      BY <1>0, <1>b, <1>5, <2>3, <3>1
      DEF EndReadTrip, At, MovedTo, RequestInv, RequestOK, Monotone
  <2>4. CASE SetMemberRole(r) \/ EndTrip(r)
    BY <1>b, <1>5, <2>4, FinishAnswers DEF SetMemberRole, EndTrip
  <2>5. QED
    BY <1>5, <2>1, <2>2, <2>3, <2>4 DEF Govern
<1>6. ASSUME NEW r \in Req, Serve(r), s # r PROVE RequestOK(req[s])'
  <2>1. req'[s] = req[s]
    BY <1>6, OtherSlots
  <2>2. QED
    BY <2>1, <1>a
<1>7. CASE UNCHANGED vars
  BY <1>7, <1>a DEF vars
<1>8. QED
  BY <1>1, <1>2, <1>3, <1>4, <1>5, <1>6, <1>7 DEF Next, Serve

LEMMA RowStep == TypeOK /\ RequestInv /\ RowInv /\ [Next]_vars => RowInv'
<1> SUFFICES ASSUME TypeOK, RequestInv, RowInv, [Next]_vars PROVE RowInv'
  OBVIOUS
<1> USE DEF RowInv, Rows, row, At
<1>1. ASSUME NEW u \in User, CreateTrip(u) PROVE RowInv'
  BY <1>1 DEF CreateTrip, TypeOK
<1>2. ASSUME NEW r \in Req, Call(r) PROVE RowInv'
  BY <1>2 DEF Call, Arrive
<1>3. ASSUME NEW r \in Req, Join(r) PROVE RowInv'
  <2>1. CASE JoinInsert(r)
    BY <2>1 DEF JoinInsert, RequestInv, RequestOK, TypeOK
  <2>2. CASE JoinRevive(r)
    BY <2>2 DEF JoinRevive
  <2>3. CASE JoinReadTrip(r) \/ JoinReadRow(r) \/ JoinCount(r) \/ JoinPickColor(r)
    BY <2>3 DEF JoinReadTrip, JoinReadRow, JoinCount, JoinPickColor
  <2>4. QED
    BY <1>3, <2>1, <2>2, <2>3 DEF Join
<1>4. ASSUME NEW r \in Req, Own(r) PROVE RowInv'
  <2>1. CASE Leave(r)
    BY <2>1 DEF Leave, RequestInv, RequestOK
  <2>2. CASE RequireMember(r) \/ SetGhost(r) \/ ShareFor(r) \/ ToggleReady(r)
    BY <2>2 DEF RequireMember, SetGhost, ShareFor, ToggleReady
  <2>3. QED
    BY <1>4, <2>1, <2>2 DEF Own
<1>5. ASSUME NEW r \in Req, Govern(r) PROVE RowInv'
  <2>1. CASE SetMemberRole(r)
    <3>1. Rows \subseteq Rows'
      BY StepMonotone DEF Monotone
    <3>2. QED
      BY <2>1, <3>1 DEF SetMemberRole, RequestInv, RequestOK, TypeOK
  <2>2. CASE EndTrip(r)
    BY <2>2 DEF EndTrip
  <2>3. CASE RoleReadTarget(r) \/ RoleReadActor(r) \/ EndReadTrip(r)
    BY <2>3 DEF RoleReadTarget, RoleReadActor, EndReadTrip
  <2>4. QED
    BY <1>5, <2>1, <2>2, <2>3 DEF Govern
<1>6. CASE UNCHANGED vars
  BY <1>6 DEF vars
<1>7. QED
  BY <1>1, <1>2, <1>3, <1>4, <1>5, <1>6 DEF Next, Serve

-----------------------------------------------------------------------------
(* Seats                                                                   *)

LEMMA SeatsFinite ==
  ASSUME TypeOK
  PROVE  /\ IsFiniteSet(Seated) /\ IsFiniteSet(Active) /\ IsFiniteSet(Passed)
         /\ Cardinality(Seated) \in Nat /\ Cardinality(Active) \in Nat
         /\ Cardinality(Passed) \in Nat
         /\ Cardinality(Req) \in Nat /\ Cardinality(Req) >= 1
<1>1. /\ Seated \subseteq User /\ Active \subseteq User /\ Passed \subseteq Req
      /\ IsFiniteSet(User) /\ IsFiniteSet(Req) /\ Req # {}
  BY MembershipConstants DEF Seated, Active, Rows, Passed
<1>2. IsFiniteSet(Seated) /\ IsFiniteSet(Active) /\ IsFiniteSet(Passed)
  BY <1>1, FS_Subset
<1>3. Cardinality(Req) \in Nat /\ Cardinality(Req) # 0
  BY <1>1, FS_CardinalityType, FS_EmptySet
<1>4. QED
  BY <1>2, <1>3, FS_CardinalityType

\* A step that gives no new seat and lets no join past its count.
LEMMA NoNewSeat ==
  ASSUME TypeOK, TypeOK', SeatInv, Seated' \subseteq Seated, Passed' \subseteq Passed
  PROVE  SeatInv'
<1>1. Cardinality(Seated') <= Cardinality(Seated)
  BY SeatsFinite, FS_Subset
<1>2. Cardinality(Passed') <= Cardinality(Passed)
  BY SeatsFinite, FS_Subset
<1>3. Cardinality(Seated)' \in Nat /\ Cardinality(Passed)' \in Nat
  <2>1. IsFiniteSet(Seated') /\ IsFiniteSet(Passed')
    BY SeatsFinite, FS_Subset
  <2>2. QED
    BY <2>1, FS_CardinalityType
<1>4. QED
  BY <1>1, <1>2, <1>3, SeatsFinite, MembershipConstants DEF SeatInv

LEMMA SeatStep ==
  IInv /\ TypeOK' /\ [Next]_vars => SeatInv'
<1> SUFFICES ASSUME TypeOK, RequestInv, RowInv, SeatInv, TypeOK', [Next]_vars
             PROVE  SeatInv'
  BY DEF IInv
<1>0. ASSUME NEW r \in Req, Serve(r), Answered(r) \/ req'[r].step \notin {"colors", "insert"}
      PROVE  Passed' \subseteq Passed \ {r}
  BY <1>0, OtherSlots DEF Passed, Answered
<1>1. ASSUME NEW u \in User, CreateTrip(u) PROVE SeatInv'
  <2>1. Passed' = {}
    BY <1>1 DEF CreateTrip, Passed, RequestInv, RequestOK
  <2>2. Seated' \subseteq {u}
    BY <1>1 DEF CreateTrip, Seated, Rows, RowInv, TypeOK
  <2>3. IsFiniteSet({u}) /\ Cardinality({u}) = 1
    BY FS_Singleton
  <2>4. Cardinality(Seated') <= 1 /\ IsFiniteSet(Seated')
    BY <2>2, <2>3, FS_Subset
  <2>5. Cardinality(Seated') \in Nat
    BY <2>4, FS_CardinalityType
  <2>6. Cardinality(Passed') = 0
    BY <2>1, FS_EmptySet
  <2>7. QED
    BY <2>4, <2>5, <2>6, SeatsFinite, MembershipConstants DEF SeatInv
<1>2. ASSUME NEW r \in Req, Call(r) PROVE SeatInv'
  <2>1. PICK u \in User, op \in Op, on \in BOOLEAN, t \in User \cup {NoUser}, rl \in Role :
          Arrive(r, u, op, on, t, rl)
    BY <1>2, MembershipConstants DEF Call
  <2>2. Seated' = Seated
    BY <2>1 DEF Arrive, row, Seated, Rows
  <2>3. Passed' \subseteq Passed
    BY <2>1 DEF Arrive, Passed, TypeOK, Idle
  <2>4. QED
    BY <2>2, <2>3, NoNewSeat
<1>3. ASSUME NEW r \in Req, Join(r) PROVE SeatInv'
  <2>0. Serve(r)
    BY <1>3 DEF Serve
  <2>1. CASE JoinReadTrip(r) \/ JoinReadRow(r)
    <3>1. Answered(r) \/ \E step \in {"row", "count", "revive"} : MovedTo(r, step)
      BY <2>1, GoToMoves, FinishAnswers DEF JoinReadTrip, JoinReadRow
    <3>2. Passed' \subseteq Passed
      BY <1>0, <2>0, <3>1 DEF MovedTo
    <3>3. Seated' = Seated
      BY <2>1 DEF JoinReadTrip, JoinReadRow, row, Seated, Rows
    <3>4. QED
      BY <3>2, <3>3, NoNewSeat
  <2>2. CASE JoinCount(r)
    <3>1. Seated' = Seated
      BY <2>2 DEF JoinCount, row, Seated, Rows
    <3>2. CASE Cardinality(Active) >= Cap
      <4>1. Answered(r)
        BY <2>2, <3>2, FinishAnswers DEF JoinCount
      <4>2. QED
        BY <1>0, <2>0, <3>1, <4>1, NoNewSeat
    <3>3. CASE ~ (Cardinality(Active) >= Cap)
      <4>1. Seated \subseteq Active
        BY DEF Seated, Active, RowInv
      <4>2. Cardinality(Seated) <= Cap - 1
        <5>1. Cardinality(Seated) <= Cardinality(Active)
          BY <4>1, SeatsFinite, FS_Subset
        <5>2. QED
          BY <3>3, <5>1, SeatsFinite, MembershipConstants
      <4>3. Cardinality(Passed') <= Cardinality(Req) /\ IsFiniteSet(Passed')
        BY MembershipConstants, FS_Subset DEF Passed
      <4>4. Cardinality(Passed') \in Nat
        BY <4>3, FS_CardinalityType
      <4>5. QED
        BY <3>1, <4>2, <4>3, <4>4, SeatsFinite, MembershipConstants DEF SeatInv
    <3>4. QED
      BY <3>2, <3>3
  <2>3. CASE JoinPickColor(r)
    <3>1. Seated' = Seated
      BY <2>3 DEF JoinPickColor, row, Seated, Rows
    <3>2. r \in Passed
      BY <2>3 DEF JoinPickColor, At, Passed
    <3>3. Passed' \subseteq Passed
      BY <2>0, <3>2, OtherSlots DEF Passed
    <3>4. QED
      BY <3>1, <3>3, NoNewSeat
  <2>4. CASE JoinInsert(r)
    <3>1. r \in Passed /\ Answered(r)
      BY <2>4, FinishAnswers DEF JoinInsert, At, Passed
    <3>2. Passed' \subseteq Passed \ {r}
      BY <1>0, <2>0, <3>1
    <3>3. Seated' \subseteq Seated \cup {req[r].user}
      BY <2>4 DEF JoinInsert, Seated, Rows, TypeOK
    <3>4. Cardinality(Seated') <= Cardinality(Seated) + 1 /\ Cardinality(Seated') \in Nat
      <4>1. /\ IsFiniteSet(Seated \cup {req[r].user})
            /\ Cardinality(Seated \cup {req[r].user}) <= Cardinality(Seated) + 1
        <5> DEFINE u == req[r].user
        <5> HIDE DEF u
        <5>1. /\ IsFiniteSet(Seated \cup {u})
              /\ Cardinality(Seated \cup {u}) = IF u \in Seated THEN Cardinality(Seated)
                                               ELSE Cardinality(Seated) + 1
          BY SeatsFinite, FS_AddElement
        <5>2. QED
          BY <5>1, SeatsFinite DEF u
      <4>2. IsFiniteSet(Seated') /\ Cardinality(Seated') <= Cardinality(Seated \cup {req[r].user})
        BY <3>3, <4>1, FS_Subset
      <4>3. Cardinality(Seated') \in Nat /\ Cardinality(Seated \cup {req[r].user}) \in Nat
        BY <4>1, <4>2, FS_CardinalityType
      <4>4. QED
        BY <4>1, <4>2, <4>3, SeatsFinite
    <3>5. Cardinality(Passed') <= Cardinality(Passed) - 1 /\ Cardinality(Passed') \in Nat
      <4>1. IsFiniteSet(Passed \ {r}) /\ Cardinality(Passed \ {r}) = Cardinality(Passed) - 1
        BY <3>1, SeatsFinite, FS_RemoveElement
      <4>2. IsFiniteSet(Passed') /\ Cardinality(Passed') <= Cardinality(Passed \ {r})
        BY <3>2, <4>1, FS_Subset
      <4>3. QED
        BY <4>1, <4>2, SeatsFinite, FS_CardinalityType
    <3>6. QED
      BY <3>4, <3>5, SeatsFinite, MembershipConstants DEF SeatInv
  <2>5. CASE JoinRevive(r)
    <3>1. Seated' = Seated
      BY <2>5 DEF JoinRevive, Seated, Rows
    <3>2. Answered(r)
      BY <2>5, FinishAnswers DEF JoinRevive
    <3>3. QED
      BY <1>0, <2>0, <3>1, <3>2, NoNewSeat
  <2>6. QED
    BY <1>3, <2>1, <2>2, <2>3, <2>4, <2>5 DEF Join
<1>4. ASSUME NEW r \in Req, Own(r) PROVE SeatInv'
  <2>1. Seated' \subseteq Seated
    BY <1>4 DEF Own, RequireMember, Leave, SetGhost, ShareFor, ToggleReady, row, Seated, Rows
  <2>2. Answered(r) \/ MovedTo(r, "write")
    <3>1. CASE RequireMember(r)
      BY <3>1, RequireMemberMoves
    <3>2. CASE Leave(r) \/ SetGhost(r) \/ ShareFor(r) \/ ToggleReady(r)
      BY <3>2, FinishAnswers DEF Leave, SetGhost, ShareFor, ToggleReady
    <3>3. QED
      BY <1>4, <3>1, <3>2 DEF Own
  <2>3. QED
    BY <1>0, <1>4, <2>1, <2>2, NoNewSeat DEF MovedTo, Serve
<1>5. ASSUME NEW r \in Req, Govern(r) PROVE SeatInv'
  <2>0. Serve(r)
    BY <1>5 DEF Serve
  <2>1. CASE SetMemberRole(r)
    <3>1. Rows' \subseteq Rows
      BY <2>1 DEF SetMemberRole, At, Rows, RequestInv, RequestOK, TypeOK
    <3>2. QED
      BY <1>0, <2>0, <2>1, <3>1, FinishAnswers, NoNewSeat DEF SetMemberRole, Seated
  <2>2. CASE RoleReadTarget(r)
    <3>1. Seated' = Seated
      BY <2>2 DEF RoleReadTarget, row, Seated, Rows
    <3>2. Passed' \subseteq Passed
      BY <1>0, <2>0, <2>2, RoleReadTargetMoves DEF MovedTo
    <3>3. QED
      BY <3>1, <3>2, NoNewSeat
  <2>3. CASE RoleReadActor(r) \/ EndReadTrip(r) \/ EndTrip(r)
    <3>1. Seated' = Seated
      BY <2>3 DEF RoleReadActor, EndReadTrip, EndTrip, row, Seated, Rows
    <3>2. Answered(r) \/ MovedTo(r, "write")
      BY <2>3, GoToMoves, FinishAnswers DEF RoleReadActor, EndReadTrip, EndTrip
    <3>3. QED
      BY <1>0, <2>0, <3>1, <3>2, NoNewSeat DEF MovedTo
  <2>4. QED
    BY <1>5, <2>1, <2>2, <2>3 DEF Govern
<1>6. CASE UNCHANGED vars
  BY <1>6, NoNewSeat DEF vars, Seated, Rows, Passed
<1>7. QED
  BY <1>1, <1>2, <1>3, <1>4, <1>5, <1>6 DEF Next, Serve

-----------------------------------------------------------------------------
(* Clients who wait for their answers                                      *)

\* A step answers its request, or moves it on.
LEMMA ServeMoves ==
  ASSUME TypeOK, NEW r \in Req, Serve(r)
  PROVE  \/ \E a \in Answer : req'[r] = Idle(a)
         \/ \E step : MovedTo(r, step)
<1>0. ASSUME NEW a \in Answer, Finish(r, a) PROVE \E b \in Answer : req'[r] = Idle(b)
  BY <1>0 DEF Finish, TypeOK
<1> USE DEF Answer
<1>1. CASE JoinReadTrip(r) \/ JoinReadRow(r) \/ JoinCount(r) \/ RoleReadActor(r)
          \/ EndReadTrip(r)
  BY <1>0, <1>1, GoToMoves
  DEF JoinReadTrip, JoinReadRow, JoinCount, RoleReadActor, EndReadTrip
<1>2. CASE JoinInsert(r) \/ JoinRevive(r) \/ Leave(r) \/ SetGhost(r) \/ ShareFor(r)
          \/ ToggleReady(r) \/ SetMemberRole(r) \/ EndTrip(r)
  BY <1>0, <1>2
  DEF JoinInsert, JoinRevive, Leave, SetGhost, ShareFor, ToggleReady, SetMemberRole, EndTrip
<1>3. CASE JoinPickColor(r)
  <2>1. MovedTo(r, "insert")
    BY <1>3 DEF JoinPickColor, TypeOK, RequestType, MovedTo
  <2>2. QED
    BY <2>1
<1>4. CASE RequireMember(r)
  <2>1. CASE req[r].user \in Active
    <3>1. MovedTo(r, "write")
      BY <1>4, <2>1, RequireMemberWrites
    <3>2. QED
      BY <3>1
  <2>2. CASE req[r].user \notin Active
    BY <1>0, <1>4, <2>2 DEF RequireMember
  <2>3. QED
    BY <2>1, <2>2
<1>5. CASE RoleReadTarget(r)
  <2>1. CASE Finish(r, "badrole") \/ Finish(r, "missing")
    BY <1>0, <2>1
  <2>2. CASE req' = [req EXCEPT ![r] = [@ EXCEPT !.step = "actor",
                       !.dirty = (role[req[r].target] # req[r].role)]]
    <3>1. MovedTo(r, "actor")
      BY <2>2 DEF TypeOK, RequestType, MovedTo
    <3>2. QED
      BY <3>1
  <2>3. QED
    BY <1>5, <2>1, <2>2 DEF RoleReadTarget
<1>6. QED
  BY <1>1, <1>2, <1>3, <1>4, <1>5 DEF Serve, Join, Own, Govern

\* A handler writes the row of its caller, or the role in a row that is there.
LEMMA OtherRows ==
  ASSUME TypeOK, RequestInv, NEW r \in Req, Serve(r), NEW v \in User, v # req[r].user
  PROVE  /\ (v \in Rows') = (v \in Rows)
         /\ (v \in ghost') = (v \in ghost)
         /\ (v \in ready') = (v \in ready)
<1> USE DEF Rows, row
<1>1. CASE Join(r)
  <2>1. CASE JoinInsert(r)
    BY <2>1 DEF JoinInsert, TypeOK
  <2>2. CASE JoinRevive(r)
    BY <2>2 DEF JoinRevive
  <2>3. CASE JoinReadTrip(r) \/ JoinReadRow(r) \/ JoinCount(r) \/ JoinPickColor(r)
    BY <2>3 DEF JoinReadTrip, JoinReadRow, JoinCount, JoinPickColor
  <2>4. QED
    BY <1>1, <2>1, <2>2, <2>3 DEF Join
<1>2. CASE Own(r)
  BY <1>2 DEF Own, RequireMember, Leave, SetGhost, ShareFor, ToggleReady, Assign
<1>3. CASE Govern(r)
  <2>1. CASE SetMemberRole(r)
    <3>1. req[r].role \in Role /\ "none" \notin Role /\ req[r].target \in Rows
      BY <2>1, MembershipConstants DEF SetMemberRole, At, TypeOK, RequestType, RequestInv,
         RequestOK
    <3>2. QED
      BY <2>1, <3>1 DEF SetMemberRole, TypeOK
  <2>2. CASE RoleReadTarget(r) \/ RoleReadActor(r) \/ EndReadTrip(r) \/ EndTrip(r)
    BY <2>2 DEF RoleReadTarget, RoleReadActor, EndReadTrip, EndTrip
  <2>3. QED
    BY <1>3, <2>1, <2>2 DEF Govern
<1>4. QED
  BY <1>1, <1>2, <1>3 DEF Serve

LEMMA OneAtATimeStep ==
  ASSUME TypeOK, RequestInv, OneAtATime, ClientSerial, [Next]_vars
  PROVE  OneAtATime'
<1>1. ASSUME NEW u \in User, CreateTrip(u) PROVE OneAtATime'
  BY <1>1 DEF CreateTrip, OneAtATime
<1>2. ASSUME NEW r \in Req, Call(r) PROVE OneAtATime'
  <2>1. PICK u \in User, op \in Op, on \in BOOLEAN, t \in User \cup {NoUser}, rl \in Role :
          Arrive(r, u, op, on, t, rl)
    BY <1>2, MembershipConstants DEF Call
  <2>2. /\ \A s \in Req : req[s].user # u
        /\ req'[r].user = u
        /\ \A s \in Req : s # r => req'[s] = req[s]
    BY <2>1 DEF Arrive, TypeOK, Idle
  <2>3. QED
    BY <2>2 DEF OneAtATime
<1>3. ASSUME NEW r \in Req, Serve(r) PROVE OneAtATime'
  <2>1. req'[r].user \in {NoUser, req[r].user}
    <3>1. CASE \E a \in Answer : req'[r] = Idle(a)
      BY <3>1 DEF Idle
    <3>2. CASE \E step : MovedTo(r, step)
      BY <3>2 DEF MovedTo
    <3>3. QED
      BY <1>3, <3>1, <3>2, ServeMoves
  <2>2. \A s \in Req : s # r => req'[s] = req[s]
    BY <1>3, OtherSlots
  <2>3. QED
    BY <2>1, <2>2, MembershipConstants DEF OneAtATime
<1>4. CASE UNCHANGED vars
  BY <1>4 DEF vars, OneAtATime
<1>5. QED
  BY <1>1, <1>2, <1>3, <1>4 DEF Next

LEMMA IdleOwnRow == \A a \in Answer \ {"error"} : \A q : q = Idle(a) => OwnRowOK(q)'
BY DEF OwnRowOK, Idle

\* The caller's own step: what it reads of his row, and what it keeps of it.
LEMMA OwnRowKept ==
  ASSUME TypeOK, RequestInv, NEW r \in Req, OwnRowOK(req[r]), Serve(r)
  PROVE  OwnRowOK(req[r])'
<1>0. ASSUME NEW a \in Answer \ {"error"}, Finish(r, a) PROVE OwnRowOK(req[r])'
  BY <1>0, IdleOwnRow DEF Finish, TypeOK
<1> USE DEF Answer
<1>1. CASE Join(r)
  <2>1. CASE JoinReadTrip(r)
    <3>1. CASE GoTo(r, "row")
      BY <2>1, <3>1, GoToMoves DEF JoinReadTrip, At, MovedTo, OwnRowOK
    <3>2. QED
      BY <1>0, <2>1, <3>1 DEF JoinReadTrip
  <2>2. CASE JoinReadRow(r)
    <3>1. CASE req[r].user \notin Rows /\ GoTo(r, "count")
      BY <2>2, <3>1, GoToMoves DEF JoinReadRow, At, MovedTo, OwnRowOK, Rows, row
    <3>2. CASE req[r].user \in Rows /\ GoTo(r, "revive")
      BY <2>2, <3>2, GoToMoves DEF JoinReadRow, At, MovedTo, OwnRowOK, Rows, row
    <3>3. QED
      BY <1>0, <2>2, <3>1, <3>2 DEF JoinReadRow
  <2>3. CASE JoinCount(r)
    <3>1. CASE GoTo(r, "colors")
      BY <2>3, <3>1, GoToMoves DEF JoinCount, At, MovedTo, OwnRowOK, Rows, row
    <3>2. QED
      BY <1>0, <2>3, <3>1 DEF JoinCount
  <2>4. CASE JoinPickColor(r)
    <3>1. MovedTo(r, "insert")
      BY <2>4 DEF JoinPickColor, TypeOK, RequestType, MovedTo
    <3>2. QED
      BY <2>4, <3>1 DEF JoinPickColor, At, MovedTo, OwnRowOK, Rows, row
  <2>5. CASE JoinInsert(r)
    <3>1. req[r].user \notin Rows
      BY <2>5 DEF JoinInsert, At, OwnRowOK
    <3>2. QED
      BY <1>0, <2>5, <3>1 DEF JoinInsert
  <2>6. CASE JoinRevive(r)
    BY <1>0, <2>6 DEF JoinRevive
  <2>7. QED
    BY <1>1, <2>1, <2>2, <2>3, <2>4, <2>5, <2>6 DEF Join
<1>2. CASE Own(r)
  <2>1. CASE RequireMember(r) /\ req[r].user \in Active
    <3>1. MovedTo(r, "write") /\ req'[r].dirty = Changes(req[r].op, req[r].user, req[r].on)
      BY <2>1, RequireMemberWrites
    <3>2. req[r].op \in {"leave", "ghost", "share", "ready"} /\ req[r].answer # "error"
      BY <2>1 DEF RequireMember, OwnRowOK
    <3>3. QED
      BY <2>1, <3>1, <3>2 DEF RequireMember, MovedTo, OwnRowOK, Changes, row
  <2>2. CASE RequireMember(r) /\ req[r].user \notin Active
    BY <1>0, <2>2 DEF RequireMember
  <2>3. CASE Leave(r) \/ SetGhost(r) \/ ShareFor(r) \/ ToggleReady(r)
    BY <1>0, <2>3 DEF Leave, SetGhost, ShareFor, ToggleReady
  <2>4. QED
    BY <1>2, <2>1, <2>2, <2>3 DEF Own
<1>3. CASE Govern(r)
  <2>1. CASE RoleReadTarget(r)
    <3>1. CASE Finish(r, "badrole") \/ Finish(r, "missing")
      BY <1>0, <3>1
    <3>2. CASE req' = [req EXCEPT ![r] = [@ EXCEPT !.step = "actor",
                         !.dirty = (role[req[r].target] # req[r].role)]]
      <4>1. MovedTo(r, "actor")
        BY <3>2 DEF TypeOK, RequestType, MovedTo
      <4>2. QED
        BY <2>1, <4>1 DEF RoleReadTarget, At, MovedTo, OwnRowOK
    <3>3. QED
      BY <2>1, <3>1, <3>2 DEF RoleReadTarget
  <2>2. CASE RoleReadActor(r) \/ EndReadTrip(r)
    <3>1. CASE GoTo(r, "write")
      BY <2>2, <3>1, GoToMoves DEF RoleReadActor, EndReadTrip, At, MovedTo, OwnRowOK
    <3>2. QED
      BY <1>0, <2>2, <3>1 DEF RoleReadActor, EndReadTrip
  <2>3. CASE SetMemberRole(r) \/ EndTrip(r)
    BY <1>0, <2>3 DEF SetMemberRole, EndTrip
  <2>4. QED
    BY <1>3, <2>1, <2>2, <2>3 DEF Govern
<1>4. QED
  BY <1>1, <1>2, <1>3 DEF Serve

LEMMA SerialStep ==
  ASSUME TypeOK, RequestInv, SerialInv, [Next]_vars
  PROVE  SerialInv'
<1> SUFFICES ASSUME ClientSerial PROVE OneAtATime' /\ \A s \in Req : OwnRowOK(req[s])'
  BY DEF SerialInv
<1>0. OneAtATime /\ \A s \in Req : OwnRowOK(req[s])
  BY DEF SerialInv
<1>1. OneAtATime'
  BY <1>0, OneAtATimeStep
<1>2. ASSUME NEW s \in Req PROVE OwnRowOK(req[s])'
  <2>0. OwnRowOK(req[s])
    BY <1>0
  <2>1. ASSUME NEW u \in User, CreateTrip(u) PROVE OwnRowOK(req[s])'
    <3>1. req[s].op = "none" /\ req' = req
      BY <2>1 DEF CreateTrip, RequestInv, RequestOK
    <3>2. req[s].answer # "error" /\ ghost' = ghost /\ ready' = ready
      BY <2>0, <2>1 DEF CreateTrip, OwnRowOK
    <3>3. QED
      BY <3>1, <3>2 DEF OwnRowOK
  <2>2. ASSUME NEW r \in Req, Call(r) PROVE OwnRowOK(req[s])'
    <3>1. PICK u \in User, op \in Op, on \in BOOLEAN, t \in User \cup {NoUser}, rl \in Role :
            Arrive(r, u, op, on, t, rl)
      BY <2>2, MembershipConstants DEF Call
    <3>2. CASE s = r
      BY <3>1, <3>2 DEF Arrive, OwnRowOK, Idle, TypeOK
    <3>3. CASE s # r
      BY <2>0, <3>1, <3>3 DEF Arrive, OwnRowOK, TypeOK, Rows, row
    <3>4. QED
      BY <3>2, <3>3
  <2>3. ASSUME NEW r \in Req, Serve(r) PROVE OwnRowOK(req[s])'
    <3>1. CASE s = r
      BY <2>0, <2>3, <3>1, OwnRowKept
    <3>2. CASE s # r
      <4>1. req'[s] = req[s]
        BY <2>3, <3>2, OtherSlots
      <4>2. CASE req[s].op = "none"
        BY <2>0, <4>1, <4>2 DEF OwnRowOK
      <4>3. CASE req[s].op # "none"
        <5>1. req[s].user \in User /\ req[s].user # req[r].user
          BY <1>0, <3>2, <4>3 DEF RequestInv, RequestOK, OneAtATime
        <5>2. /\ (req[s].user \in Rows') = (req[s].user \in Rows)
              /\ (req[s].user \in ghost') = (req[s].user \in ghost)
              /\ (req[s].user \in ready') = (req[s].user \in ready)
          BY <2>3, <5>1, OtherRows
        <5>3. QED
          BY <2>0, <4>1, <5>2 DEF OwnRowOK
      <4>4. QED
        BY <4>2, <4>3
    <3>3. QED
      BY <3>1, <3>2
  <2>4. CASE UNCHANGED vars
    BY <2>0, <2>4 DEF vars, OwnRowOK, Rows
  <2>5. QED
    BY <2>1, <2>2, <2>3, <2>4 DEF Next
<1>3. QED
  BY <1>1, <1>2

-----------------------------------------------------------------------------
(* Theorems                                                                *)

LEMMA InitInv == Init => IInv
<1> SUFFICES ASSUME Init PROVE IInv
  OBVIOUS
<1>1. TypeOK
  BY InitType
<1>2. RequestInv
  BY DEF Init, RequestInv, RequestOK, Idle
<1>3. RowInv
  BY DEF Init, RowInv, Rows
<1>4. SeatInv
  <2>1. Seated = {} /\ Passed = {}
    BY DEF Init, Seated, Rows, Passed, Idle
  <2>2. Cardinality({}) = 0
    BY FS_EmptySet
  <2>3. QED
    BY <1>1, <2>1, <2>2, SeatsFinite, MembershipConstants DEF SeatInv
<1>5. SerialInv
  BY MembershipConstants DEF Init, SerialInv, OneAtATime, OwnRowOK, Idle
<1>6. QED
  BY <1>1, <1>2, <1>3, <1>4, <1>5 DEF IInv

LEMMA StepInv == IInv /\ [Next]_vars => IInv'
<1> SUFFICES ASSUME IInv, [Next]_vars PROVE IInv'
  OBVIOUS
<1>1. TypeOK'
  BY StepType DEF IInv
<1>2. RequestInv'
  BY RequestStep DEF IInv
<1>3. RowInv'
  BY RowStep DEF IInv
<1>4. SeatInv'
  BY <1>1, SeatStep
<1>5. SerialInv'
  BY SerialStep DEF IInv
<1>6. QED
  BY <1>1, <1>2, <1>3, <1>4, <1>5 DEF IInv

\* The inductive invariant holds for any number of users and of requests in
\* flight, any cap and any palette.
THEOREM Invariance == Spec => []IInv
BY InitInv, StepInv, PTL DEF Spec

\* Every reachable state is well typed.
THEOREM TypeCorrect == Spec => []TypeOK
<1>1. IInv => TypeOK
  BY DEF IInv
<1>2. QED
  BY <1>1, Invariance, PTL

\* The count of join_trip and its INSERT are not atomic, but the members who
\* never left outnumber the cap by less than the number of requests in flight.
THEOREM CapOvershootBounded == Spec => []OvershootBound
<1>1. IInv => OvershootBound
  BY SeatsFinite, MembershipConstants DEF IInv, SeatInv, OvershootBound
<1>2. QED
  BY <1>1, Invariance, PTL

\* A step that makes a member while the trip is over is the last step of a join
\* that arrived before the trip ended.
THEOREM LateJoinsRefused == Spec => NoLateJoin
<1> DEFINE A == \A u \in User :
                  u \in Active' \ Active /\ status = "ended" =>
                    \E r \in Req : /\ req[r].op = "join" /\ req[r].user = u
                                  /\ req[r].born = "planned"
<1>1. IInv /\ [Next]_vars => [A]_vars
  <2> SUFFICES ASSUME IInv, [Next]_vars, NEW u \in User, u \in Active', u \notin Active,
                      status = "ended"
               PROVE  \E r \in Req : /\ req[r].op = "join" /\ req[r].user = u
                                    /\ req[r].born = "planned"
    OBVIOUS
  <2> USE DEF Active, Rows, row
  <2>1. ASSUME NEW v \in User, CreateTrip(v) PROVE FALSE
    BY <2>1 DEF CreateTrip
  <2>2. ASSUME NEW r \in Req, Call(r) PROVE FALSE
    BY <2>2 DEF Call, Arrive
  <2>3. PICK r \in Req : Join(r)
    <3>1. ASSUME NEW r \in Req, Own(r) PROVE FALSE
      BY <3>1 DEF Own, RequireMember, Leave, SetGhost, ShareFor, ToggleReady
    <3>2. ASSUME NEW r \in Req, Govern(r) PROVE FALSE
      <4>1. CASE SetMemberRole(r)
        BY <4>1 DEF SetMemberRole, At, IInv, RequestInv, RequestOK, TypeOK
      <4>2. CASE RoleReadTarget(r) \/ RoleReadActor(r) \/ EndReadTrip(r) \/ EndTrip(r)
        BY <4>2 DEF RoleReadTarget, RoleReadActor, EndReadTrip, EndTrip
      <4>3. QED
        BY <3>2, <4>1, <4>2 DEF Govern
    <3>3. CASE UNCHANGED vars
      BY <3>3 DEF vars
    <3>4. QED
      BY <2>1, <2>2, <3>1, <3>2, <3>3 DEF Next, Serve
  <2>4. CASE JoinInsert(r)
    <3>1. req[r].user = u
      BY <2>4 DEF JoinInsert, IInv, TypeOK
    <3>2. QED
      BY <2>4, <3>1 DEF JoinInsert, At, IInv, RequestInv, RequestOK
  <2>5. CASE JoinRevive(r)
    <3>1. req[r].user = u
      BY <2>5 DEF JoinRevive, IInv, TypeOK
    <3>2. QED
      BY <2>5, <3>1 DEF JoinRevive, At, IInv, RequestInv, RequestOK
  <2>6. CASE JoinReadTrip(r) \/ JoinReadRow(r) \/ JoinCount(r) \/ JoinPickColor(r)
    BY <2>6 DEF JoinReadTrip, JoinReadRow, JoinCount, JoinPickColor
  <2>7. QED
    BY <2>3, <2>4, <2>5, <2>6 DEF Join
<1>2. QED
  BY <1>1, Invariance, PTL DEF Spec, NoLateJoin

\* Only a request of the trip's creator ever changes the role of a member.
THEOREM OnlyCreatorGovernsRoles == Spec => RoleAuthority
<1> DEFINE A == \A u \in User :
                  u \in Rows /\ role'[u] # role[u] =>
                    \E r \in Req : /\ req[r].op = "role" /\ req[r].target = u
                                  /\ req[r].user = owner
<1>1. IInv /\ [Next]_vars => [A]_vars
  <2> SUFFICES ASSUME IInv, [Next]_vars, NEW u \in User, u \in Rows, role'[u] # role[u]
               PROVE  \E r \in Req : /\ req[r].op = "role" /\ req[r].target = u
                                    /\ req[r].user = owner
    OBVIOUS
  <2> USE DEF Rows, row, IInv
  <2>1. ASSUME NEW v \in User, CreateTrip(v) PROVE FALSE
    BY <2>1 DEF CreateTrip, RowInv
  <2>2. ASSUME NEW r \in Req, Call(r) PROVE FALSE
    BY <2>2 DEF Call, Arrive
  <2>3. ASSUME NEW r \in Req, Join(r) PROVE FALSE
    BY <2>3 DEF Join, JoinReadTrip, JoinReadRow, JoinCount, JoinPickColor, JoinInsert,
                JoinRevive, TypeOK
  <2>4. ASSUME NEW r \in Req, Own(r) PROVE FALSE
    BY <2>4 DEF Own, RequireMember, Leave, SetGhost, ShareFor, ToggleReady
  <2>5. PICK r \in Req : Govern(r)
    <3>1. CASE UNCHANGED vars
      BY <3>1 DEF vars
    <3>2. QED
      BY <2>1, <2>2, <2>3, <2>4, <3>1 DEF Next, Serve
  <2>6. CASE SetMemberRole(r)
    <3>1. req[r].target = u
      BY <2>6 DEF SetMemberRole, TypeOK
    <3>2. QED
      BY <2>6, <3>1 DEF SetMemberRole, At, RequestInv, RequestOK
  <2>7. CASE RoleReadTarget(r) \/ RoleReadActor(r) \/ EndReadTrip(r) \/ EndTrip(r)
    BY <2>7 DEF RoleReadTarget, RoleReadActor, EndReadTrip, EndTrip
  <2>8. QED
    BY <2>5, <2>6, <2>7 DEF Govern
<1>2. QED
  BY <1>1, Invariance, PTL DEF Spec, RoleAuthority

\* Where clients wait for their answers, no join ever runs into the primary key
\* of trip_members, for any number of users and of requests in flight.
THEOREM JoinsNeverFail == ClientSerial => (Spec => []NoServerError)
<1> SUFFICES ASSUME ClientSerial PROVE Spec => []NoServerError
  OBVIOUS
<1>1. IInv => NoServerError
  BY DEF IInv, SerialInv, OwnRowOK, NoServerError
<1>2. QED
  BY <1>1, Invariance, PTL

\* Where clients wait for their answers, a 200 leaves the caller's own row as he
\* has asked, whatever the other members' requests do meanwhile.
THEOREM AnswersAreTrue == ClientSerial => (Spec => ReadYourWrites)
<1> SUFFICES ASSUME ClientSerial PROVE Spec => ReadYourWrites
  OBVIOUS
<1> DEFINE A == \A r \in Req :
                  LET u == req[r].user
                  IN  /\ Succeeds(r, "join")  => u \in Active'
                      /\ Succeeds(r, "leave") => u \notin Active'
                      /\ Succeeds(r, "ghost") => (u \in ghost') = req[r].on
                      /\ Succeeds(r, "share") => u \notin ghost'
                      /\ Succeeds(r, "ready") => (u \in ready') = req[r].on
<1>1. IInv /\ [Next]_vars => [A]_vars
  <2> SUFFICES ASSUME IInv, Next, NEW s \in Req, NEW op \in AllOps, Succeeds(s, op)
               PROVE  LET u == req[s].user
                      IN  /\ op = "join"  => u \in Active'
                          /\ op = "leave" => u \notin Active'
                          /\ op = "ghost" => (u \in ghost') = req[s].on
                          /\ op = "share" => u \notin ghost'
                          /\ op = "ready" => (u \in ready') = req[s].on
    BY DEF AllOps
  <2>1. TypeOK /\ RequestInv /\ OwnRowOK(req[s])
    BY DEF IInv, SerialInv
  <2>2. req[s].op = op /\ op # "none" /\ req'[s].op = "none" /\ req'[s].answer = "ok"
    BY DEF Succeeds, AllOps
  <2>3. PICK r \in Req : Serve(r)
    <3>1. ASSUME NEW u \in User, CreateTrip(u) PROVE FALSE
      BY <2>2, <3>1 DEF CreateTrip
    <3>2. ASSUME NEW r \in Req, Call(r) PROVE FALSE
      <4>1. PICK u \in User, o \in Op, on \in BOOLEAN, t \in User \cup {NoUser}, rl \in Role :
              Arrive(r, u, o, on, t, rl)
        BY <3>2, MembershipConstants DEF Call
      <4>2. "none" \notin Op
        BY MembershipConstants DEF AllOps
      <4>3. req'[s].op # "none"
        BY <2>1, <2>2, <4>1, <4>2 DEF Arrive, TypeOK, Idle
      <4>4. QED
        BY <2>2, <4>3
    <3>3. QED
      BY <3>1, <3>2 DEF Next
  <2>4. r = s
    BY <2>1, <2>2, <2>3, OtherSlots
  <2>5. ~ \E step : MovedTo(s, step)
    BY <2>2 DEF MovedTo
  <2>6. ASSUME NEW a, Finish(s, a) PROVE a = "ok"
    BY <2>1, <2>2, <2>6 DEF Finish, TypeOK, Idle
  <2>7. CASE Join(s)
    <3>1. op = "join"
      BY <2>2, <2>7 DEF Join, JoinReadTrip, JoinReadRow, JoinCount, JoinPickColor, JoinInsert,
         JoinRevive, At
    <3>2. CASE JoinReadTrip(s) \/ JoinCount(s)
      BY <2>1, <2>5, <2>6, <3>2, GoToMoves DEF JoinReadTrip, JoinCount
    <3>3. CASE JoinReadRow(s)
      BY <2>1, <2>5, <3>1, <3>3, GoToMoves DEF JoinReadRow, Active, Rows, row
    <3>4. CASE JoinPickColor(s)
      <4>1. MovedTo(s, "insert")
        BY <2>1, <3>4 DEF JoinPickColor, TypeOK, RequestType, MovedTo
      <4>2. QED
        BY <2>5, <4>1
    <3>5. CASE JoinInsert(s)
      <4>1. req[s].user \in User /\ req[s].user \notin Rows
        BY <2>1, <2>2, <3>5 DEF JoinInsert, At, OwnRowOK, RequestInv, RequestOK
      <4>2. req[s].user \notin away
        BY <4>1 DEF IInv, RowInv, Rows
      <4>3. QED
        BY <2>1, <3>1, <3>5, <4>1, <4>2 DEF JoinInsert, TypeOK, Active, Rows
    <3>6. CASE JoinRevive(s)
      BY <2>1, <3>1, <3>6 DEF JoinRevive, At, OwnRowOK, Active, Rows
    <3>7. QED
      BY <2>7, <3>2, <3>3, <3>4, <3>5, <3>6 DEF Join
  <2>8. CASE Own(s)
    <3>1. CASE RequireMember(s)
      BY <2>1, <2>5, <2>6, <3>1, RequireMemberWrites DEF RequireMember
    <3>2. CASE Leave(s)
      BY <2>2, <3>2 DEF Leave, At, Active
    <3>3. CASE SetGhost(s)
      BY <2>1, <2>2, <3>3 DEF SetGhost, At, Assign, OwnRowOK, TypeOK, RequestType
    <3>4. CASE ShareFor(s)
      BY <2>1, <2>2, <3>4 DEF ShareFor, At, Assign, OwnRowOK
    <3>5. CASE ToggleReady(s)
      BY <2>1, <2>2, <3>5 DEF ToggleReady, At, Assign, OwnRowOK, TypeOK, RequestType
    <3>6. QED
      BY <2>8, <3>1, <3>2, <3>3, <3>4, <3>5 DEF Own
  <2>9. CASE Govern(s)
    BY <2>2, <2>9 DEF Govern, RoleReadTarget, RoleReadActor, SetMemberRole, EndReadTrip,
       EndTrip, At
  <2>10. QED
    BY <2>3, <2>4, <2>7, <2>8, <2>9 DEF Serve
<1>2. QED
  BY <1>1, Invariance, PTL DEF Spec, ReadYourWrites
=============================================================================
