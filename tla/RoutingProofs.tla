---------------------------- MODULE RoutingProofs ----------------------------
(***************************************************************************)
(* Proofs about Routing, for any requests, configurations and time-outs:   *)
(* a Mappls token outlasts its request, a list of ETAs loses nobody, the   *)
(* calls implement the Resolver, and what is shown of a route is true of   *)
(* its road, for any road.                                                 *)
(***************************************************************************)
EXTENDS Routing, FiniteSetTheorems, SequenceTheorems, NaturalsInduction,
        WellFoundedInduction, TLAPS

LEMMA Constants ==
  /\ Nobody \notin Calls /\ Directions \cap Rows = {}
  /\ Directions \subseteq Calls /\ Rows \subseteq Calls
  /\ \A case \in Case : case.rows \subseteq Rows
  /\ Patience \in Nat /\ Skew \in Nat /\ Skew >= Patience
  /\ Lifetime \subseteq Nat /\ \A life \in Lifetime : life > 2 * Patience
BY RoutingConstants DEF Calls

LEMMA Members ==
  /\ "at" \in Fields /\ "todo" \in Fields /\ "since" \in Fields
  /\ "good" \in Fields /\ "out" \in Fields /\ "line" \in Fields
  /\ "idle" \in At /\ "ready" \in At /\ "lock" \in At /\ "token" \in At
  /\ "ask" \in At /\ "done" \in At
  /\ "none" \in Kinds /\ "route" \in Kinds /\ "noroute" \in Kinds
  /\ "maps" \in Kinds /\ "crash" \in Kinds
BY DEF Fields, At, Kinds

-----------------------------------------------------------------------------
(* How a call goes on after one provider.                                  *)

Waiting(todo) == IF Head(todo) = "mappls" THEN "lock" ELSE "ask"

Answered(q, n) ==
  /\ n.at = "done" /\ n.todo = q.todo
  /\ n.out = [kind |-> "route", by |-> Head(q.todo)]

Crashed(q, n) ==
  /\ n.at = "done" /\ n.todo = q.todo
  /\ n.out = [kind |-> "crash", by |-> "none"]

GivenUp(q, n, kind) ==
  /\ Tail(q.todo) = <<>> /\ n.todo = <<>> /\ n.at = "done"
  /\ n.out = [kind |-> kind, by |-> "none"]

PassedOn(q, n) ==
  /\ Tail(q.todo) # <<>> /\ n.todo = Tail(q.todo) /\ n.at = Waiting(n.todo)
  /\ n.out = q.out

GoesOn(q, n) ==
  /\ DOMAIN n = Fields /\ n.since = 0 /\ n.good = 0
  /\ \/ Answered(q, n) \/ Crashed(q, n) \/ PassedOn(q, n)
     \/ GivenUp(q, n, "noroute") \/ GivenUp(q, n, "maps")

LEMMA TurnTo ==
  ASSUME NEW q, DOMAIN q = Fields, NEW todo
  PROVE  /\ DOMAIN Turn(q, todo) = Fields
         /\ Turn(q, todo).todo = todo /\ Turn(q, todo).out = q.out
         /\ Turn(q, todo).at = Waiting(todo)
         /\ Turn(q, todo).since = 0 /\ Turn(q, todo).good = 0
BY Members DEF Turn, Waiting

LEMMA FoundGoesOn ==
  ASSUME NEW q, DOMAIN q = Fields, NEW line
  PROVE  GoesOn(q, Found(q, line))
BY Members DEF GoesOn, Answered, Found

LEMMA BrokenGoesOn ==
  ASSUME NEW q, DOMAIN q = Fields
  PROVE  GoesOn(q, Broken(q))
BY Members DEF GoesOn, Crashed, Broken

LEMMA DeclinedGoesOn ==
  ASSUME NEW q, DOMAIN q = Fields, NEW kind \in {"noroute", "maps"}
  PROVE  GoesOn(q, Declined(q, kind))
<1>1. CASE Tail(q.todo) = <<>>
  <2> DEFINE n == [q EXCEPT !.todo = <<>>, !.at = "done", !.since = 0, !.good = 0,
                            !.out = [kind |-> kind, by |-> "none"]]
  <2>1. Declined(q, kind) = n
    BY <1>1 DEF Declined
  <2>2. /\ DOMAIN n = Fields /\ n.since = 0 /\ n.good = 0
        /\ n.todo = <<>> /\ n.at = "done" /\ n.out = [kind |-> kind, by |-> "none"]
    BY Members
  <2> HIDE DEF n
  <2>3. GivenUp(q, n, kind)
    BY <1>1, <2>2 DEF GivenUp
  <2> QED
    BY <2>1, <2>2, <2>3 DEF GoesOn
<1>2. CASE Tail(q.todo) # <<>>
  <2>1. Declined(q, kind) = Turn(q, Tail(q.todo))
    BY <1>2 DEF Declined
  <2> QED
    BY <1>2, <2>1, TurnTo DEF GoesOn, PassedOn
<1> QED
  BY <1>1, <1>2

LEMMA FailedGoesOn ==
  ASSUME NEW q, DOMAIN q = Fields, NEW answer
  PROVE  GoesOn(q, Failed(q, answer))
BY DeclinedGoesOn, BrokenGoesOn DEF Failed

\* Whatever a service answers.
LEMMA AdaptedGoesOn ==
  ASSUME NEW q, DOMAIN q = Fields, NEW answer, NEW third
  PROVE  GoesOn(q, Adapted(q, answer, third))
<1>1. GoesOn(q, Google(q, answer))
  BY FoundGoesOn, FailedGoesOn DEF Google
<1>2. GoesOn(q, Mappls(q, answer))
  BY <1>1, FoundGoesOn DEF Mappls
<1>3. GoesOn(q, Here(q, answer, third))
  BY FoundGoesOn, DeclinedGoesOn, FailedGoesOn DEF Here
<1>4. GoesOn(q, Mapbox(q, answer))
  BY FoundGoesOn, FailedGoesOn DEF Mapbox
<1>5. GoesOn(q, TomTom(q, answer))
  BY <1>4, FoundGoesOn DEF TomTom
<1> QED
  BY <1>1, <1>2, <1>3, <1>4, <1>5 DEF Adapted, Osrm

-----------------------------------------------------------------------------
(* One call changes.                                                       *)

\* The parts of the invariant that are about one call.
OneOK(q) == CallOK(q) /\ PhaseOK(q) /\ TimeOK(q)

LEMMA GoesOnOK ==
  ASSUME NEW q, NEW n, CallOK(q), q.todo # <<>>, q.out = Open, GoesOn(q, n)
  PROVE  OneOK(n)
<1>1. DOMAIN n = Fields /\ n.since = 0 /\ n.good = 0
  BY DEF GoesOn
<1>2. CASE Answered(q, n)
  BY <1>1, <1>2, Members DEF Answered, OneOK, CallOK, PhaseOK, TimeOK
<1>3. CASE Crashed(q, n)
  BY <1>1, <1>3, Members DEF Crashed, OneOK, CallOK, PhaseOK, TimeOK
<1>4. CASE PassedOn(q, n)
  <2>1. n.at \in {"lock", "ask"} /\ (n.at = "ask" => Head(n.todo) # "mappls")
    BY <1>4 DEF PassedOn, Waiting
  <2>2. n.todo # <<>> /\ n.out = Open
    BY <1>4 DEF PassedOn
  <2> QED
    BY <1>1, <2>1, <2>2, Members DEF OneOK, CallOK, PhaseOK, TimeOK, Open
<1>5. CASE GivenUp(q, n, "noroute")
  BY <1>1, <1>5, Members DEF GivenUp, OneOK, CallOK, PhaseOK, TimeOK
<1>6. CASE GivenUp(q, n, "maps")
  BY <1>1, <1>6, Members DEF GivenUp, OneOK, CallOK, PhaseOK, TimeOK
<1> QED
  BY <1>2, <1>3, <1>4, <1>5, <1>6 DEF GoesOn

\* A call under way changes to n, and nothing else but the token and the lock.
LEMMA CallChanges ==
  ASSUME IInv, NEW c \in Calls, NEW n,
         call[c].at \notin {"idle", "done"},
         call' = [call EXCEPT ![c] = n],
         CallOK(n), PhaseOK(n), TimeOK(n), n.at # "idle",
         UNCHANGED <<setting, road, now, page, etas>>,
         token' \in TokenType, token'.have => token'.until <= token'.good,
         lock' \in Calls \cup {Nobody}, LockHeld'
  PROVE  IInv'
<1>1. /\ DOMAIN call' = Calls /\ call'[c] = n
      /\ \A s \in Calls \ {c} : call'[s] = call[s]
  BY DEF IInv, TypeOK
<1>2. TypeOK'
  <2>1. \A s \in Calls : CallOK(call'[s])
    BY <1>1 DEF IInv, TypeOK
  <2> QED
    BY <1>1, <2>1 DEF IInv, TypeOK, CallOK
<1>3. \A s \in Calls : (PhaseOK(call[s]) /\ TimeOK(call[s]))'
  BY <1>1 DEF IInv, PhaseOK, TimeOK
<1>4. PagesOK'
  <2>1. \A d \in Directions : (page[d].at = "new" => call[d].at = "idle")'
    BY <1>1, Constants DEF IInv, PagesOK
  <2>2. etas.rows \subseteq Calls
    BY Constants DEF IInv, TypeOK
  <2>3. (etas.at = "new" => etas.status # 200
                            /\ \A s \in etas.rows : call[s].at = "idle")'
    BY <1>1, <2>2 DEF IInv, PagesOK
  <2>4. (etas.status = 200 =>
          \A s \in etas.rows \ etas.members :
            call[s].at = "done" /\ call[s].out.kind \in {"noroute", "maps"})'
    BY <1>1, <2>2 DEF IInv, PagesOK
  <2> QED
    BY <2>1, <2>3, <2>4 DEF PagesOK
<1> QED
  BY <1>2, <1>3, <1>4 DEF IInv

\* The lock, when a call that does not hold it goes on, or its holder.
LEMMA LockKept ==
  ASSUME IInv, NEW c \in Calls, NEW n, call' = [call EXCEPT ![c] = n],
         call[c].at # "token", n.at # "token", lock' = lock
  PROVE  LockHeld' /\ lock' \in Calls \cup {Nobody}
<1>1. call'[c] = n /\ \A s \in Calls \ {c} : call'[s] = call[s]
  BY DEF IInv, TypeOK
<1>2. ASSUME NEW s \in Calls PROVE (call[s].at = "token" <=> lock = s)'
  BY <1>1 DEF IInv, LockHeld
<1> QED
  BY <1>2 DEF LockHeld, IInv, TypeOK

LEMMA LockFreed ==
  ASSUME IInv, NEW c \in Calls, NEW n, call' = [call EXCEPT ![c] = n],
         call[c].at = "token", n.at # "token", lock' = Nobody
  PROVE  LockHeld' /\ lock' \in Calls \cup {Nobody}
<1>1. call'[c] = n /\ \A s \in Calls \ {c} : call'[s] = call[s]
  BY DEF IInv, TypeOK
<1>2. ASSUME NEW s \in Calls PROVE (call[s].at = "token" <=> lock = s)'
  BY <1>1, Constants DEF IInv, LockHeld
<1> QED
  BY <1>2 DEF LockHeld

LEMMA LockTaken ==
  ASSUME IInv, NEW c \in Calls, NEW n, call' = [call EXCEPT ![c] = n],
         lock = Nobody, n.at = "token", lock' = c
  PROVE  LockHeld' /\ lock' \in Calls \cup {Nobody}
<1>1. call'[c] = n /\ \A s \in Calls \ {c} : call'[s] = call[s]
  BY DEF IInv, TypeOK
<1>2. ASSUME NEW s \in Calls PROVE (call[s].at = "token" <=> lock = s)'
  BY <1>1, Constants DEF IInv, LockHeld
<1> QED
  BY <1>2 DEF LockHeld

-----------------------------------------------------------------------------
(* The invariant holds at first and after each step.                       *)

LEMMA Initially == Init => IInv
<1>1. SUFFICES ASSUME Init PROVE IInv
  OBVIOUS
<1> DEFINE first == [at |-> "idle", todo |-> <<>>, since |-> 0, good |-> 0,
                     out |-> Open, line |-> <<>>]
<1>2. DOMAIN call = Calls /\ \A c \in Calls : call[c] = first
  BY <1>1 DEF Init
<1>3. /\ DOMAIN first = Fields /\ first.at = "idle" /\ first.todo = <<>>
      /\ first.since = 0 /\ first.good = 0 /\ first.out = Open
  BY DEF Fields
<1> HIDE DEF first
<1>4. CallOK(first) /\ PhaseOK(first) /\ TimeOK(first)
  BY <1>3, Members DEF CallOK, PhaseOK, TimeOK, Open
<1>5. /\ DOMAIN page = Directions
      /\ \A d \in Directions :
           DOMAIN page[d] = {"at", "status", "weather", "profile"}
  BY <1>1 DEF Init
<1>6. PICK case \in Case : /\ setting = case.setting /\ road = case.road
                          /\ etas = [at |-> "new", status |-> 0,
                                     rows |-> case.rows, members |-> {}]
  BY <1>1 DEF Init
<1>7. /\ etas.at = "new" /\ etas.status = 0 /\ etas.rows = case.rows
      /\ DOMAIN etas = {"at", "status", "rows", "members"}
  BY <1>6
<1>8. /\ now = 0 /\ lock = Nobody
      /\ token = [have |-> FALSE, until |-> 0, good |-> 0]
  BY <1>1 DEF Init
<1>9. token \in TokenType /\ ~ token.have
  BY <1>8 DEF TokenType
<1>10. TypeOK
  BY <1>2, <1>4, <1>5, <1>6, <1>7, <1>8, <1>9 DEF TypeOK
<1>11. LockHeld
  BY <1>2, <1>3, <1>8, Constants DEF LockHeld
<1>12. PagesOK
  BY <1>2, <1>3, <1>6, <1>7, Constants DEF PagesOK
<1> QED
  BY <1>2, <1>4, <1>9, <1>10, <1>11, <1>12 DEF IInv

LEMMA AfterGetDirections ==
  ASSUME IInv, NEW c \in Calls, GetDirections(c) PROVE IInv'
<1>1. /\ call[c].at = "ready" /\ CallOK(call[c]) /\ PhaseOK(call[c])
      /\ UNCHANGED <<setting, road, now, token, lock, page, etas>>
  BY DEF GetDirections, IInv, TypeOK
<1>2. PICK n : /\ call' = [call EXCEPT ![c] = n]
               /\ n = IF Plan(setting) = <<>>
                      THEN [call[c] EXCEPT !.at = "done",
                                     !.out = [kind |-> "maps", by |-> "none"]]
                      ELSE Turn(call[c], Plan(setting))
  BY DEF GetDirections
<1>3. n.at \in {"lock", "ask", "done"} /\ CallOK(n) /\ PhaseOK(n) /\ TimeOK(n)
  <2>1. CASE Plan(setting) = <<>>
    <3>1. /\ DOMAIN n = Fields /\ n.at = "done" /\ n.todo = call[c].todo
          /\ n.since = call[c].since /\ n.good = call[c].good
          /\ n.out = [kind |-> "maps", by |-> "none"]
      BY <1>1, <1>2, <2>1, Members DEF CallOK
    <3> QED
      BY <1>1, <3>1, Members DEF CallOK, PhaseOK, TimeOK
  <2>2. CASE Plan(setting) # <<>>
    <3>1. /\ DOMAIN n = Fields /\ n.todo = Plan(setting)
          /\ n.out = call[c].out /\ n.at = Waiting(Plan(setting))
          /\ n.since = 0 /\ n.good = 0
      BY <1>1, <1>2, <2>2, TurnTo DEF CallOK
    <3>2. n.at \in {"lock", "ask"} /\ (n.at = "ask" => Head(n.todo) # "mappls")
      BY <3>1 DEF Waiting
    <3>3. n.out = Open
      BY <1>1, <3>1 DEF PhaseOK
    <3>4. CallOK(n)
      BY <3>1, <3>2, <3>3, Members DEF CallOK, Open
    <3>5. PhaseOK(n) /\ TimeOK(n)
      BY <2>2, <3>1, <3>2, <3>3 DEF PhaseOK, TimeOK
    <3> QED
      BY <3>2, <3>4, <3>5
  <2> QED
    BY <2>1, <2>2
<1>4. LockHeld' /\ lock' \in Calls \cup {Nobody}
  BY <1>1, <1>2, <1>3, LockKept
<1>5. token' \in TokenType /\ (token'.have => token'.until <= token'.good)
  BY <1>1 DEF IInv, TypeOK
<1> QED
  BY <1>1, <1>2, <1>3, <1>4, <1>5, CallChanges

\* What a call that a service has answered is like.
LEMMA AnswerOK ==
  ASSUME IInv, NEW c \in Calls, call[c].at \in {"token", "ask"},
         NEW n, GoesOn(call[c], n)
  PROVE  /\ n.at \in {"lock", "ask", "done"}
         /\ CallOK(n) /\ PhaseOK(n) /\ TimeOK(n)
<1>1. CallOK(call[c]) /\ call[c].todo # <<>> /\ call[c].out = Open
  BY DEF IInv, TypeOK, PhaseOK
<1>2. OneOK(n)
  BY <1>1, GoesOnOK
<1>3. n.at \in {"lock", "ask", "done"}
  BY DEF GoesOn, Answered, Crashed, PassedOn, GivenUp, Waiting
<1> QED
  BY <1>2, <1>3 DEF OneOK

LEMMA AfterProviderAnswers ==
  ASSUME IInv, NEW c \in Calls, ProviderAnswers(c) PROVE IInv'
<1>1. /\ call[c].at = "ask" /\ CallOK(call[c])
      /\ UNCHANGED <<setting, road, now, token, lock, page, etas>>
  BY DEF ProviderAnswers, IInv, TypeOK
<1>2. PICK answer \in Upstream, third \in {0, 2} :
        call' = [call EXCEPT ![c] = Adapted(call[c], answer, third)]
  BY DEF ProviderAnswers
<1> DEFINE n == Adapted(call[c], answer, third)
<1>3. GoesOn(call[c], n)
  BY <1>1, AdaptedGoesOn DEF CallOK
<1>4. call' = [call EXCEPT ![c] = n]
  BY <1>2
<1> HIDE DEF n
<1>5. n.at \in {"lock", "ask", "done"} /\ CallOK(n) /\ PhaseOK(n) /\ TimeOK(n)
  BY <1>1, <1>3, AnswerOK
<1>6. LockHeld' /\ lock' \in Calls \cup {Nobody}
  BY <1>1, <1>4, <1>5, LockKept
<1>7. token' \in TokenType /\ (token'.have => token'.until <= token'.good)
  BY <1>1 DEF IInv, TypeOK
<1> QED
  BY <1>1, <1>4, <1>5, <1>6, <1>7, CallChanges

LEMMA AfterTokenFails ==
  ASSUME IInv, NEW c \in Calls, TokenFails(c) PROVE IInv'
<1>1. /\ call[c].at = "token" /\ CallOK(call[c]) /\ lock' = Nobody
      /\ UNCHANGED <<setting, road, now, token, page, etas>>
  BY DEF TokenFails, IInv, TypeOK
<1>2. PICK answer : call' = [call EXCEPT ![c] = Failed(call[c], answer)]
  BY DEF TokenFails
<1> DEFINE n == Failed(call[c], answer)
<1>3. GoesOn(call[c], n)
  BY <1>1, FailedGoesOn DEF CallOK
<1>4. call' = [call EXCEPT ![c] = n]
  BY <1>2
<1> HIDE DEF n
<1>5. n.at \in {"lock", "ask", "done"} /\ CallOK(n) /\ PhaseOK(n) /\ TimeOK(n)
  BY <1>1, <1>3, AnswerOK
<1>6. LockHeld' /\ lock' \in Calls \cup {Nobody}
  BY <1>1, <1>4, <1>5, LockFreed
<1>7. token' \in TokenType /\ (token'.have => token'.until <= token'.good)
  BY <1>1 DEF IInv, TypeOK
<1> QED
  BY <1>1, <1>4, <1>5, <1>6, <1>7, CallChanges

LEMMA AfterTakeLock ==
  ASSUME IInv, NEW c \in Calls, TakeLock(c) PROVE IInv'
<1>1. /\ call[c].at = "lock" /\ lock = Nobody /\ CallOK(call[c])
      /\ PhaseOK(call[c]) /\ now \in Nat /\ token \in TokenType
      /\ token.have => token.until <= token.good
      /\ UNCHANGED <<setting, road, now, token, page, etas>>
  BY DEF TakeLock, IInv, TypeOK
<1>2. token' \in TokenType /\ (token'.have => token'.until <= token'.good)
  BY <1>1
<1>3. CASE token.have /\ now < token.until - Skew
  <2> DEFINE n == [call[c] EXCEPT !.at = "ask", !.since = now, !.good = token.good]
  <2>1. call' = [call EXCEPT ![c] = n] /\ lock' = lock
    BY <1>3 DEF TakeLock
  <2>2. /\ DOMAIN n = Fields /\ n.at = "ask" /\ n.todo = call[c].todo
        /\ n.since = now /\ n.good = token.good /\ n.out = call[c].out
    BY <1>1, Members DEF CallOK
  <2> HIDE DEF n
  <2>3. CallOK(n) /\ PhaseOK(n)
    BY <1>1, <2>2, Members DEF CallOK, PhaseOK, TokenType
  <2>4. TimeOK(n)
    <3>1. now <= now + Patience /\ now + Patience < token.good
      BY <1>1, <1>3, Constants DEF TokenType
    <3> QED
      BY <2>2, <3>1 DEF TimeOK
  <2>5. LockHeld' /\ lock' \in Calls \cup {Nobody}
    BY <1>1, <2>1, <2>2, LockKept
  <2> QED
    BY <1>1, <1>2, <2>1, <2>2, <2>3, <2>4, <2>5, CallChanges
<1>4. CASE ~ (token.have /\ now < token.until - Skew)
  <2> DEFINE n == [call[c] EXCEPT !.at = "token", !.since = now]
  <2>1. call' = [call EXCEPT ![c] = n] /\ lock' = c
    BY <1>4 DEF TakeLock
  <2>2. /\ DOMAIN n = Fields /\ n.at = "token" /\ n.todo = call[c].todo
        /\ n.since = now /\ n.good = call[c].good /\ n.out = call[c].out
    BY <1>1, Members DEF CallOK
  <2> HIDE DEF n
  <2>3. CallOK(n) /\ PhaseOK(n)
    BY <1>1, <2>2, Members DEF CallOK, PhaseOK
  <2>4. TimeOK(n)
    <3>1. now <= now /\ now <= now + Patience
      BY <1>1, Constants
    <3> QED
      BY <2>2, <3>1 DEF TimeOK
  <2>5. LockHeld' /\ lock' \in Calls \cup {Nobody}
    BY <1>1, <2>1, <2>2, LockTaken
  <2> QED
    BY <1>1, <1>2, <2>1, <2>2, <2>3, <2>4, <2>5, CallChanges
<1> QED
  BY <1>3, <1>4

LEMMA AfterTokenArrives ==
  ASSUME IInv, NEW c \in Calls, TokenArrives(c) PROVE IInv'
<1>1. /\ call[c].at = "token" /\ CallOK(call[c]) /\ PhaseOK(call[c])
      /\ TimeOK(call[c]) /\ now \in Nat /\ lock' = Nobody
      /\ UNCHANGED <<setting, road, now, page, etas>>
  BY DEF TokenArrives, IInv, TypeOK
<1>2. PICK life \in Lifetime, given \in call[c].since..now :
        /\ token' = [have |-> TRUE, until |-> call[c].since + life,
                     good |-> given + life]
        /\ call' = [call EXCEPT ![c].at = "ask", ![c].since = now,
                                ![c].good = given + life]
  BY DEF TokenArrives
<1>3. /\ call[c].since \in Nat /\ now <= call[c].since + Patience
      /\ life \in Nat /\ life > 2 * Patience /\ Patience \in Nat
      /\ given \in Nat /\ call[c].since <= given /\ given <= now
  BY <1>1, <1>2, Constants DEF CallOK, TimeOK
<1> DEFINE n == [call[c] EXCEPT !.at = "ask", !.since = now, !.good = given + life]
<1>4. call' = [call EXCEPT ![c] = n]
  BY <1>2
<1>5. /\ DOMAIN n = Fields /\ n.at = "ask" /\ n.todo = call[c].todo
      /\ n.since = now /\ n.good = given + life /\ n.out = call[c].out
  BY <1>1, Members DEF CallOK
<1> HIDE DEF n
<1>6. given + life \in Nat /\ call[c].since + life \in Nat
  BY <1>3
<1>7. CallOK(n) /\ PhaseOK(n)
  BY <1>1, <1>5, <1>6, Members DEF CallOK, PhaseOK
<1>8. TimeOK(n)
  <2>1. now <= now + Patience /\ now + Patience < given + life
    BY <1>1, <1>3
  <2> QED
    BY <1>5, <2>1 DEF TimeOK
<1>9. LockHeld' /\ lock' \in Calls \cup {Nobody}
  BY <1>1, <1>4, <1>5, LockFreed
<1>10. token' \in TokenType /\ (token'.have => token'.until <= token'.good)
  <2>1. token' \in TokenType
    BY <1>2, <1>6 DEF TokenType
  <2>2. token'.until = call[c].since + life /\ token'.good = given + life
    BY <1>2
  <2>3. call[c].since + life <= given + life
    BY <1>3
  <2> QED
    BY <2>1, <2>2, <2>3
<1> QED
  BY <1>1, <1>4, <1>5, <1>7, <1>8, <1>9, <1>10, CallChanges

LEMMA AfterRequestDirections ==
  ASSUME IInv, NEW d \in Directions, RequestDirections(d) PROVE IInv'
<1>1. /\ page[d].at = "new" /\ call[d].at = "idle" /\ d \in Calls
      /\ d \notin etas.rows
      /\ UNCHANGED <<setting, road, now, token, lock, etas>>
  BY Constants DEF RequestDirections, IInv, PagesOK, TypeOK
<1> DEFINE n == [call[d] EXCEPT !.at = "ready"]
<1>2. call' = [call EXCEPT ![d] = n]
  BY DEF RequestDirections
<1>3. CallOK(call[d]) /\ PhaseOK(call[d])
  BY <1>1 DEF IInv, TypeOK
<1>4. /\ DOMAIN n = Fields /\ n.at = "ready" /\ n.todo = call[d].todo
      /\ n.since = call[d].since /\ n.good = call[d].good /\ n.out = call[d].out
  BY <1>3, Members DEF CallOK
<1> HIDE DEF n
<1>5. CallOK(n) /\ PhaseOK(n) /\ TimeOK(n)
  BY <1>1, <1>3, <1>4, Members DEF CallOK, PhaseOK, TimeOK
<1>6. /\ DOMAIN call' = Calls /\ call'[d] = n
      /\ \A s \in Calls \ {d} : call'[s] = call[s]
  BY <1>1, <1>2 DEF IInv, TypeOK
<1>7. /\ DOMAIN page' = Directions /\ page'[d].at = "route"
      /\ \A s \in Directions :
           DOMAIN page'[s] = {"at", "status", "weather", "profile"}
      /\ \A s \in Directions \ {d} : page'[s] = page[s]
  BY DEF RequestDirections, IInv, TypeOK
<1>8. TypeOK'
  <2>1. \A s \in Calls : CallOK(call[s])'
    BY <1>5, <1>6 DEF IInv, TypeOK, CallOK
  <2> QED
    BY <1>1, <1>6, <1>7, <2>1 DEF IInv, TypeOK
<1>9. \A s \in Calls : (PhaseOK(call[s]) /\ TimeOK(call[s]))'
  BY <1>1, <1>5, <1>6 DEF IInv, PhaseOK, TimeOK
<1>10. LockHeld' /\ (token'.have => token'.until <= token'.good)
  BY <1>1, <1>2, <1>4, LockKept DEF IInv
<1>11. PagesOK'
  <2>1. \A s \in Directions : (page[s].at = "new" => call[s].at = "idle")'
    BY <1>6, <1>7, Constants DEF IInv, PagesOK
  <2>2. etas.rows \subseteq Calls \ {d}
    BY <1>1, Constants DEF IInv, TypeOK
  <2>3. (etas.at = "new" => etas.status # 200
                            /\ \A s \in etas.rows : call[s].at = "idle")'
    BY <1>1, <1>6, <2>2 DEF IInv, PagesOK
  <2>4. (etas.status = 200 =>
          \A s \in etas.rows \ etas.members :
            call[s].at = "done" /\ call[s].out.kind \in {"noroute", "maps"})'
    BY <1>1, <1>6, <2>2 DEF IInv, PagesOK
  <2> QED
    BY <2>1, <2>3, <2>4 DEF PagesOK
<1> QED
  BY <1>8, <1>9, <1>10, <1>11 DEF IInv

\* Handlers that go on with what their calls have brought.
LEMMA PageChanges ==
  ASSUME IInv, UNCHANGED <<setting, road, now, token, lock, call, etas>>,
         NEW d \in Directions, page'[d].at # "new", DOMAIN page' = Directions,
         DOMAIN page'[d] = {"at", "status", "weather", "profile"},
         \A s \in Directions \ {d} : page'[s] = page[s]
  PROVE  IInv'
<1>1. TypeOK'
  BY DEF IInv, TypeOK, CallOK
<1>2. PagesOK'
  BY DEF IInv, PagesOK
<1> QED
  BY <1>1, <1>2 DEF IInv, PhaseOK, TimeOK, LockHeld

LEMMA AfterRouteResolved ==
  ASSUME IInv, NEW d \in Directions, RouteResolved(d) PROVE IInv'
<1>1. UNCHANGED <<setting, road, now, token, lock, call, etas>>
  BY DEF RouteResolved
<1>2. PICK p : /\ page' = [page EXCEPT ![d] = p]
               /\ \/ \E status : p = [page[d] EXCEPT !.at = "sent",
                                                    !.status = status]
                  \/ \E weather : p = [page[d] EXCEPT !.at = "elevation",
                                                     !.weather = weather]
  BY DEF RouteResolved
<1>3. DOMAIN page[d] = {"at", "status", "weather", "profile"}
  BY DEF IInv, TypeOK
<1>4. /\ DOMAIN p = {"at", "status", "weather", "profile"}
      /\ p.at \in {"sent", "elevation"}
  BY <1>2, <1>3
<1>5. /\ DOMAIN page' = Directions /\ page'[d] = p
      /\ \A s \in Directions \ {d} : page'[s] = page[s]
  BY <1>2 DEF IInv, TypeOK
<1> QED
  BY <1>1, <1>4, <1>5, PageChanges

LEMMA AfterElevationAnswers ==
  ASSUME IInv, NEW d \in Directions, ElevationAnswers(d) PROVE IInv'
<1>1. UNCHANGED <<setting, road, now, token, lock, call, etas>>
  BY DEF ElevationAnswers
<1>2. PICK status, profile :
        page' = [page EXCEPT ![d].at = "sent", ![d].status = status,
                             ![d].profile = profile]
  BY DEF ElevationAnswers
<1> DEFINE p == [page[d] EXCEPT !.at = "sent", !.status = status,
                               !.profile = profile]
<1>3. DOMAIN page[d] = {"at", "status", "weather", "profile"}
  BY DEF IInv, TypeOK
<1>4. DOMAIN p = {"at", "status", "weather", "profile"} /\ p.at = "sent"
  BY <1>3
<1>5. page' = [page EXCEPT ![d] = p]
  BY <1>2
<1> HIDE DEF p
<1>6. /\ DOMAIN page' = Directions /\ page'[d] = p
      /\ \A s \in Directions \ {d} : page'[s] = page[s]
  BY <1>5 DEF IInv, TypeOK
<1> QED
  BY <1>1, <1>4, <1>6, PageChanges

LEMMA AfterRequestEtas ==
  ASSUME IInv, RequestEtas PROVE IInv'
<1>1. /\ etas.at = "new" /\ etas.rows \subseteq Rows
      /\ UNCHANGED <<setting, road, now, token, lock, page>>
  BY Constants DEF RequestEtas, IInv, TypeOK
<1>2. DOMAIN etas = {"at", "status", "rows", "members"} /\ etas.status # 200
  BY <1>1 DEF IInv, TypeOK, PagesOK
<1>3. /\ DOMAIN etas' = {"at", "status", "rows", "members"}
      /\ etas'.rows = etas.rows /\ etas'.at # "new"
      /\ etas'.status = 200 => etas.rows = {}
  BY <1>2 DEF RequestEtas
<1>4. DOMAIN call' = Calls
  BY DEF RequestEtas
<1>5. ASSUME NEW c \in Calls
      PROVE  /\ CallOK(call'[c]) /\ PhaseOK(call'[c]) /\ TimeOK(call'[c])
             /\ call'[c].at = "token" <=> call[c].at = "token"
             /\ c \in Directions => call'[c] = call[c]
  <2>1. CallOK(call[c]) /\ PhaseOK(call[c]) /\ TimeOK(call[c])
    BY DEF IInv, TypeOK
  <2>2. CASE c \in etas.rows
    <3> DEFINE n == [call[c] EXCEPT !.at = "ready"]
    <3>1. call'[c] = n
      BY <2>2 DEF RequestEtas
    <3>2. call[c].at = "idle" /\ c \notin Directions
      BY <1>1, <2>2, Constants DEF IInv, PagesOK
    <3>3. /\ DOMAIN n = Fields /\ n.at = "ready" /\ n.todo = call[c].todo
          /\ n.since = call[c].since /\ n.good = call[c].good
          /\ n.out = call[c].out
      BY <2>1, Members DEF CallOK
    <3> HIDE DEF n
    <3>4. CallOK(n) /\ PhaseOK(n) /\ TimeOK(n)
      BY <2>1, <3>2, <3>3, Members DEF CallOK, PhaseOK, TimeOK
    <3> QED
      BY <3>1, <3>2, <3>3, <3>4
  <2>3. CASE c \notin etas.rows
    <3>1. call'[c] = call[c]
      BY <2>3 DEF RequestEtas
    <3> QED
      BY <2>1, <3>1
  <2> QED
    BY <2>2, <2>3
<1>6. TypeOK'
  <2>1. \A c \in Calls : CallOK(call[c])'
    BY <1>5 DEF CallOK
  <2> QED
    BY <1>1, <1>3, <1>4, <2>1 DEF IInv, TypeOK
<1>7. \A c \in Calls : (PhaseOK(call[c]) /\ TimeOK(call[c]))'
  BY <1>1, <1>5 DEF PhaseOK, TimeOK
<1>8. LockHeld' /\ (token'.have => token'.until <= token'.good)
  BY <1>1, <1>5 DEF IInv, LockHeld
<1>9. PagesOK'
  BY <1>1, <1>3, <1>5, Constants DEF IInv, PagesOK
<1> QED
  BY <1>6, <1>7, <1>8, <1>9 DEF IInv

\* The list of ETAs is sent.
LEMMA EtasChange ==
  ASSUME IInv, UNCHANGED <<setting, road, now, token, lock, call, page>>,
         DOMAIN etas' = {"at", "status", "rows", "members"},
         etas'.rows = etas.rows, etas'.at # "new",
         etas'.status = 200 =>
           \A c \in etas.rows \ etas'.members :
             call[c].at = "done" /\ call[c].out.kind \in {"noroute", "maps"}
  PROVE  IInv'
<1>1. TypeOK'
  BY DEF IInv, TypeOK, CallOK
<1>2. PagesOK'
  BY DEF IInv, PagesOK
<1> QED
  BY <1>1, <1>2 DEF IInv, PhaseOK, TimeOK, LockHeld

LEMMA AfterGatherAll == ASSUME IInv, GatherAll PROVE IInv'
<1>1. UNCHANGED <<setting, road, now, token, lock, call, page>>
  BY DEF GatherAll
<1>2. DOMAIN etas = {"at", "status", "rows", "members"}
  BY DEF IInv, TypeOK
<1>3. /\ DOMAIN etas' = {"at", "status", "rows", "members"}
      /\ etas'.rows = etas.rows /\ etas'.at = "sent"
      /\ etas'.members = Ended(etas.rows, {"route"})
  BY <1>2 DEF GatherAll
<1>4. etas.rows = Ended(etas.rows, {"route", "noroute", "maps"})
  BY DEF GatherAll
<1>5. \A c \in etas.rows \ etas'.members :
        call[c].at = "done" /\ call[c].out.kind \in {"noroute", "maps"}
  BY <1>3, <1>4 DEF Ended
<1> QED
  BY <1>1, <1>3, <1>5, EtasChange

LEMMA AfterGatherBreaks == ASSUME IInv, GatherBreaks PROVE IInv'
<1>1. UNCHANGED <<setting, road, now, token, lock, call, page>>
  BY DEF GatherBreaks
<1>2. DOMAIN etas = {"at", "status", "rows", "members"}
  BY DEF IInv, TypeOK
<1>3. /\ DOMAIN etas' = {"at", "status", "rows", "members"}
      /\ etas'.rows = etas.rows /\ etas'.at = "sent" /\ etas'.status = 500
  BY <1>2 DEF GatherBreaks
<1> QED
  BY <1>1, <1>3, EtasChange

LEMMA AfterTick == ASSUME IInv, Tick PROVE IInv'
<1>1. /\ now \in Nat /\ now' = now + 1
      /\ UNCHANGED <<setting, road, token, lock, call, page, etas>>
  BY DEF Tick, IInv, TypeOK
<1>2. TypeOK'
  BY <1>1 DEF IInv, TypeOK, CallOK
<1>3. ASSUME NEW c \in Calls PROVE (PhaseOK(call[c]) /\ TimeOK(call[c]))'
  <2>1. PhaseOK(call[c]) /\ TimeOK(call[c]) /\ call[c].since \in Nat
    BY DEF IInv, TypeOK, CallOK
  <2>2. Timed(c) => now + 1 <= call[c].since + Patience
    BY <1>1, <2>1, Constants DEF Tick
  <2>3. call[c].since <= now => call[c].since <= now + 1
    BY <1>1, <2>1
  <2> QED
    BY <1>1, <2>1, <2>2, <2>3 DEF PhaseOK, TimeOK, Timed
<1>4. LockHeld' /\ PagesOK' /\ (token'.have => token'.until <= token'.good)
  BY <1>1 DEF IInv, LockHeld, PagesOK
<1> QED
  BY <1>2, <1>3, <1>4 DEF IInv

LEMMA AfterStutter == ASSUME IInv, UNCHANGED vars PROVE IInv'
BY DEF vars, IInv, TypeOK, CallOK, PhaseOK, TimeOK, LockHeld, PagesOK

LEMMA AfterStep == ASSUME IInv, [Next]_vars PROVE IInv'
<1>1. ASSUME NEW c \in Calls, CallStep(c) PROVE IInv'
  BY <1>1, AfterGetDirections, AfterProviderAnswers, AfterTakeLock,
     AfterTokenArrives, AfterTokenFails DEF CallStep
<1>2. ASSUME NEW d \in Directions, RequestDirections(d) PROVE IInv'
  BY <1>2, AfterRequestDirections
<1>3. ASSUME NEW d \in Directions, PageStep(d) PROVE IInv'
  BY <1>3, AfterRouteResolved, AfterElevationAnswers DEF PageStep
<1>4. CASE RequestEtas
  BY <1>4, AfterRequestEtas
<1>5. CASE EtasStep
  BY <1>5, AfterGatherAll, AfterGatherBreaks DEF EtasStep
<1>6. CASE Tick
  BY <1>6, AfterTick
<1>7. CASE UNCHANGED vars
  BY <1>7, AfterStutter
<1> QED
  BY <1>1, <1>2, <1>3, <1>4, <1>5, <1>6, <1>7 DEF Next

-----------------------------------------------------------------------------
(* The calls implement the resolver.                                       *)

LEMMA ResolverStarts == Init => R!Init
<1>1. SUFFICES ASSUME Init PROVE R!Init
  OBVIOUS
<1>2. \A c \in Calls : call[c].todo = <<>> /\ call[c].out = Open
  BY <1>1 DEF Init
<1>3. Plan(setting) \in {Plan(case.setting) : case \in Case}
  BY <1>1 DEF Init
<1> QED
  BY <1>2, <1>3 DEF R!Init, R!Open, Open

LEMMA PlanKept == ASSUME setting' = setting PROVE Plan(setting)' = Plan(setting)
<1>1. Plan(setting)' = Plan(setting')
  OBVIOUS
<1> QED
  BY <1>1

\* What the resolver sees of a call that changes to n.
LEMMA Seen ==
  ASSUME IInv, NEW c \in Calls, NEW n, call' = [call EXCEPT ![c] = n]
  PROVE  /\ [s \in Calls |-> call[s].todo]'
              = [[s \in Calls |-> call[s].todo] EXCEPT ![c] = n.todo]
         /\ [s \in Calls |-> call[s].out]'
              = [[s \in Calls |-> call[s].out] EXCEPT ![c] = n.out]
         /\ [s \in Calls |-> call[s].todo][c] = call[c].todo
         /\ [s \in Calls |-> call[s].out][c] = call[c].out
BY DEF IInv, TypeOK

\* A step of the resolver, from what it sees before and after.
LEMMA ResolverDoes ==
  ASSUME IInv, NEW c \in Calls, NEW n, call' = [call EXCEPT ![c] = n],
         setting' = setting,
         \/ /\ call[c].out = Open /\ call[c].todo = <<>>
            /\ n.todo = Plan(setting)
            /\ IF Plan(setting) = <<>>
               THEN n.out = [kind |-> "maps", by |-> "none"]
               ELSE n.out = call[c].out
         \/ /\ call[c].out = Open /\ call[c].todo # <<>>
            /\ \/ Answered(call[c], n) \/ Crashed(call[c], n)
               \/ PassedOn(call[c], n)
               \/ \E kind \in {"noroute", "maps"} : GivenUp(call[c], n, kind)
  PROVE  R!Next
<1> DEFINE Todo == [s \in Calls |-> call[s].todo]
           Out == [s \in Calls |-> call[s].out]
<1>1. /\ Todo' = [Todo EXCEPT ![c] = n.todo] /\ Out' = [Out EXCEPT ![c] = n.out]
      /\ Todo[c] = call[c].todo /\ Out[c] = call[c].out
  BY Seen
<1>2. Todo[c] = n.todo => Todo' = Todo
  BY <1>1
<1>3. Out[c] = n.out => Out' = Out
  BY <1>1
<1>4. Plan(setting)' = Plan(setting)
  BY PlanKept
<1> HIDE DEF Todo, Out
<1>5. CASE /\ call[c].out = Open /\ call[c].todo = <<>>
           /\ n.todo = Plan(setting)
           /\ IF Plan(setting) = <<>>
              THEN n.out = [kind |-> "maps", by |-> "none"]
              ELSE n.out = call[c].out
  <2>1. R!Begin(c)
    BY <1>1, <1>3, <1>4, <1>5 DEF R!Begin, R!Settle, R!Open, Open, Todo, Out
  <2> QED
    BY <2>1 DEF R!Next
<1>6. ASSUME call[c].out = Open, call[c].todo # <<>>, Answered(call[c], n)
      PROVE  R!Next
  <2>1. R!Answer(c)
    BY <1>1, <1>2, <1>4, <1>6
    DEF Answered, R!Answer, R!Settle, R!Open, Open, Todo, Out
  <2> QED
    BY <2>1 DEF R!Next
<1>7. ASSUME call[c].out = Open, call[c].todo # <<>>, Crashed(call[c], n)
      PROVE  R!Next
  <2>1. R!Break(c)
    BY <1>1, <1>2, <1>4, <1>7
    DEF Crashed, R!Break, R!Settle, R!Open, Open, Todo, Out
  <2> QED
    BY <2>1 DEF R!Next
<1>8. ASSUME call[c].out = Open, call[c].todo # <<>>, PassedOn(call[c], n)
      PROVE  R!Next
  <2>1. R!Decline(c)
    BY <1>1, <1>3, <1>4, <1>8 DEF PassedOn, R!Decline, R!Open, Open, Todo, Out
  <2> QED
    BY <2>1 DEF R!Next
<1>9. ASSUME call[c].out = Open, call[c].todo # <<>>,
             NEW kind \in {"noroute", "maps"}, GivenUp(call[c], n, kind)
      PROVE  R!Next
  <2>1. R!Decline(c)
    BY <1>1, <1>4, <1>9
    DEF GivenUp, R!Decline, R!Declines, R!Settle, R!Open, Open, Todo, Out
  <2> QED
    BY <2>1 DEF R!Next
<1> QED
  BY <1>5, <1>6, <1>7, <1>8, <1>9

\* A call that a service has answered.
LEMMA ResolverHears ==
  ASSUME IInv, NEW c \in Calls, call[c].at \in {"token", "ask"}, NEW n,
         call' = [call EXCEPT ![c] = n], GoesOn(call[c], n), setting' = setting
  PROVE  R!Next
<1>1. call[c].out = Open /\ call[c].todo # <<>>
  BY DEF IInv, PhaseOK
<1> QED
  BY <1>1, ResolverDoes DEF GoesOn

LEMMA ResolverBegins ==
  ASSUME IInv, NEW c \in Calls, GetDirections(c) PROVE R!Next
<1>1. /\ call[c].out = Open /\ call[c].todo = <<>> /\ DOMAIN call[c] = Fields
      /\ setting' = setting
  BY DEF GetDirections, IInv, TypeOK, CallOK, PhaseOK
<1>2. PICK n : /\ call' = [call EXCEPT ![c] = n]
               /\ n = IF Plan(setting) = <<>>
                      THEN [call[c] EXCEPT !.at = "done",
                                     !.out = [kind |-> "maps", by |-> "none"]]
                      ELSE Turn(call[c], Plan(setting))
  BY DEF GetDirections
<1>3. /\ n.todo = Plan(setting)
      /\ IF Plan(setting) = <<>>
         THEN n.out = [kind |-> "maps", by |-> "none"]
         ELSE n.out = call[c].out
  <2>1. CASE Plan(setting) = <<>>
    BY <1>1, <1>2, <2>1, Members
  <2>2. CASE Plan(setting) # <<>>
    BY <1>1, <1>2, <2>2, TurnTo
  <2> QED
    BY <2>1, <2>2
<1> QED
  BY <1>1, <1>2, <1>3, ResolverDoes

\* Steps that the resolver does not see.
LEMMA ResolverRests ==
  ASSUME IInv, setting' = setting,
         \A c \in Calls : call'[c].todo = call[c].todo /\ call'[c].out = call[c].out
  PROVE  UNCHANGED R!vars
<1>1. Plan(setting)' = Plan(setting)
  BY PlanKept
<1> QED
  BY <1>1 DEF R!vars

LEMMA Unseen ==
  ASSUME IInv, NEW c \in Calls, TakeLock(c) \/ TokenArrives(c)
  PROVE  UNCHANGED R!vars
<1>1. setting' = setting /\ DOMAIN call = Calls /\ DOMAIN call[c] = Fields
  BY DEF TakeLock, TokenArrives, IInv, TypeOK, CallOK
<1>2. PICK n : /\ call' = [call EXCEPT ![c] = n]
               /\ n.todo = call[c].todo /\ n.out = call[c].out
  <2>1. CASE TakeLock(c)
    BY <1>1, <2>1, Members DEF TakeLock
  <2>2. CASE TokenArrives(c)
    <3>1. PICK good :
            call' = [call EXCEPT ![c] = [call[c] EXCEPT !.at = "ask", !.since = now,
                                                         !.good = good]]
      BY <2>2 DEF TokenArrives
    <3> DEFINE n == [call[c] EXCEPT !.at = "ask", !.since = now, !.good = good]
    <3>2. n.todo = call[c].todo /\ n.out = call[c].out
      BY <1>1, Members
    <3>3. call' = [call EXCEPT ![c] = n]
      BY <3>1
    <3> HIDE DEF n
    <3> QED
      BY <3>2, <3>3
  <2> QED
    BY <2>1, <2>2
<1> QED
  BY <1>1, <1>2, ResolverRests

LEMMA ResolverSteps ==
  ASSUME IInv, [Next]_vars PROVE [R!Next]_(R!vars)
<1>1. ASSUME NEW c \in Calls, GetDirections(c) PROVE R!Next
  BY <1>1, ResolverBegins
<1>2. ASSUME NEW c \in Calls, ProviderAnswers(c) PROVE R!Next
  <2>1. /\ call[c].at = "ask" /\ setting' = setting /\ DOMAIN call[c] = Fields
    BY <1>2 DEF ProviderAnswers, IInv, TypeOK, CallOK
  <2>2. PICK answer \in Upstream, third \in {0, 2} :
          call' = [call EXCEPT ![c] = Adapted(call[c], answer, third)]
    BY <1>2 DEF ProviderAnswers
  <2> QED
    BY <2>1, <2>2, AdaptedGoesOn, ResolverHears
<1>3. ASSUME NEW c \in Calls, TokenFails(c) PROVE R!Next
  <2>1. /\ call[c].at = "token" /\ setting' = setting /\ DOMAIN call[c] = Fields
    BY <1>3 DEF TokenFails, IInv, TypeOK, CallOK
  <2>2. PICK answer : call' = [call EXCEPT ![c] = Failed(call[c], answer)]
    BY <1>3 DEF TokenFails
  <2> QED
    BY <2>1, <2>2, FailedGoesOn, ResolverHears
<1>4. ASSUME NEW c \in Calls, TakeLock(c) \/ TokenArrives(c)
      PROVE  UNCHANGED R!vars
  BY <1>4, Unseen
<1>5. ASSUME NEW d \in Directions, RequestDirections(d) PROVE UNCHANGED R!vars
  <2>1. /\ setting' = setting /\ call' = [call EXCEPT ![d].at = "ready"]
        /\ DOMAIN call = Calls /\ d \in Calls /\ DOMAIN call[d] = Fields
    BY <1>5, Constants DEF RequestDirections, IInv, TypeOK, CallOK
  <2>2. \A c \in Calls : call'[c].todo = call[c].todo /\ call'[c].out = call[c].out
    BY <2>1, Members
  <2> QED
    BY <2>1, <2>2, ResolverRests
<1>6. CASE RequestEtas
  <2>1. setting' = setting
    BY <1>6 DEF RequestEtas
  <2>2. \A c \in Calls : call'[c].todo = call[c].todo /\ call'[c].out = call[c].out
    BY <1>6, Members DEF RequestEtas, IInv, TypeOK, CallOK
  <2> QED
    BY <2>1, <2>2, ResolverRests
<1>7. CASE UNCHANGED <<setting, call>>
  BY <1>7, ResolverRests
<1>8. ASSUME NEW d \in Directions, PageStep(d) PROVE UNCHANGED <<setting, call>>
  BY <1>8 DEF PageStep, RouteResolved, ElevationAnswers
<1>9. EtasStep \/ Tick \/ UNCHANGED vars => UNCHANGED <<setting, call>>
  BY DEF EtasStep, GatherAll, GatherBreaks, Tick, vars
<1> QED
  BY <1>1, <1>2, <1>3, <1>4, <1>5, <1>6, <1>7, <1>8, <1>9 DEF Next, CallStep

-----------------------------------------------------------------------------
(* Induction.  The library states it with an operator for what is proved;  *)
(* here that is a set, the set of what it is true of.                      *)

\* What is true of a number and of the next of each of which it is true is true
\* of all numbers from there.
LEMMA Upwards ==
  ASSUME NEW m \in Nat, NEW n \in Nat, NEW T, m \in T,
         \A i \in m..(n - 1) : i \in T => i + 1 \in T
  PROVE  \A i \in m..n : i \in T
<1> DEFINE B == {i \in m..n : i \notin T}
           Less == OpToRel(<, Nat)
<1>1. SUFFICES ASSUME B # {} PROVE FALSE
  OBVIOUS
<1>2. IsWellFoundedOn(Less, Nat)
  BY NatLessThanWellFounded DEF Less
<1>3. B \subseteq Nat
  OBVIOUS
<1> HIDE DEF Less, B
<1>4. PICK i \in B : \A j \in B : ~ (<<j, i>> \in Less)
  BY <1>1, <1>2, <1>3, WFMin
<1>5. i \in m..n /\ i \notin T /\ i # m
  BY DEF B
<1>6. i - 1 \in m..(n - 1) /\ (i - 1) + 1 = i
  BY <1>5
<1>7. i - 1 \notin T
  BY <1>5, <1>6
<1>8. i - 1 \in B
  BY <1>6, <1>7 DEF B
<1>9. <<i - 1, i>> \in Less
  <2>1. i \in Nat /\ i - 1 \in Nat /\ i - 1 < i
    BY <1>5, <1>6
  <2> QED
    BY <2>1 DEF Less, OpToRel
<1> QED
  BY <1>4, <1>8, <1>9

\* A nonempty set of subsets of a finite set has a minimal element.
LEMMA MinimalSubset ==
  ASSUME NEW S, IsFiniteSet(S), NEW T, T \subseteq SUBSET S, T # {}
  PROVE  \E x \in T : \A y \in T : y \subseteq x => y = x
<1>1. T \subseteq FiniteSubsetsOf(S)
  BY FS_FiniteSubsetsOfFinite
<1>2. \E x \in T : \A y \in T : ~ (<<y, x>> \in StrictSubsetOrdering(S))
  BY <1>1, FS_StrictSubsetOrderingWellFounded, WFMin
<1> QED
  BY <1>2 DEF StrictSubsetOrdering

(* MapThenFoldSet computes what the equation it is defined by says.  "take" *)
(* is which element it takes from a set, "then" what it makes of the value  *)
(* for the rest and that element.                                           *)
Folded(base, take, then, it, s) ==
  IF s = {} THEN base ELSE then[<<it[s \ {take[s]}], take[s]>>]

FoldsOf(S, A, base, take, then) ==
  {it \in [SUBSET S -> A] : \A s \in SUBSET S : it[s] = Folded(base, take, then, it, s)}

LEMMA FoldsAgree ==
  ASSUME NEW S, IsFiniteSet(S), NEW A, NEW base \in A, NEW take, NEW then,
         \A s \in SUBSET S : s # {} => take[s] \in s,
         NEW U \in SUBSET S, NEW g \in FoldsOf(S, A, base, take, then),
         NEW h \in FoldsOf(U, A, base, take, then)
  PROVE  \A s \in SUBSET U : g[s] = h[s]
<1> DEFINE T == {s \in SUBSET U : g[s] # h[s]}
<1>1. SUFFICES ASSUME T # {} PROVE FALSE
  OBVIOUS
<1>2. IsFiniteSet(U)
  BY FS_Subset
<1>3. PICK s \in T : \A t \in T : t \subseteq s => t = s
  <2>1. T \subseteq SUBSET U
    OBVIOUS
  <2> HIDE DEF T
  <2> QED
    BY <1>1, <1>2, <2>1, MinimalSubset
<1>4. g[s] = Folded(base, take, then, g, s) /\ h[s] = Folded(base, take, then, h, s)
  BY DEF FoldsOf
<1>5. s # {} => take[s] \in s
  OBVIOUS
<1>6. s # {} => g[s \ {take[s]}] = h[s \ {take[s]}]
  BY <1>3, <1>5
<1> QED
  BY <1>3, <1>4, <1>6 DEF Folded

LEMMA FoldExists ==
  ASSUME NEW S, IsFiniteSet(S), NEW A, NEW base \in A, NEW take, NEW then,
         \A s \in SUBSET S : s # {} => take[s] \in s,
         \A a \in A, x \in S : then[<<a, x>>] \in A
  PROVE  FoldsOf(S, A, base, take, then) # {}
<1> DEFINE All(X) == FoldsOf(X, A, base, take, then)
           T == {X \in SUBSET S : All(X) = {}}
<1>1. SUFFICES ASSUME T # {} PROVE FALSE
  OBVIOUS
<1>2. PICK X \in T : \A Y \in T : Y \subseteq X => Y = X
  <2>1. T \subseteq SUBSET S
    OBVIOUS
  <2> HIDE DEF T
  <2> QED
    BY <1>1, <2>1, MinimalSubset
<1> DEFINE G(s) == CHOOSE g : g \in All(s)
           V(s) == G(s)[s]
           W(s) == IF s = {} THEN base ELSE then[<<V(s \ {take[s]}), take[s]>>]
           k == [s \in SUBSET X |-> W(s)]
<1>3. ASSUME NEW s \in SUBSET X, s # X
      PROVE  G(s) \in All(s) /\ V(s) \in A
  <2>1. \E g : g \in All(s)
    BY <1>2, <1>3
  <2>2. G(s) \in All(s)
    BY <2>1
  <2> QED
    BY <2>2 DEF FoldsOf
<1>4. ASSUME NEW s \in SUBSET X, s # {}
      PROVE  take[s] \in s /\ take[s] \in S
  BY <1>4
<1>5. ASSUME NEW s \in SUBSET X, s # X
      PROVE  V(s) = W(s)
  <2>1. G(s) \in All(s)
    BY <1>3, <1>5
  <2>2. CASE s = {}
    <3> HIDE DEF G
    <3> QED
      BY <2>1, <2>2 DEF FoldsOf, Folded
  <2>3. CASE s # {}
    <3> DEFINE t == s \ {take[s]}
    <3>1. t \in SUBSET X /\ t # X /\ t \in SUBSET s
      BY <1>4, <2>3
    <3>2. IsFiniteSet(s) /\ \A u \in SUBSET s : u # {} => take[u] \in u
      BY FS_Subset
    <3>3. G(t) \in All(t)
      BY <1>3, <3>1
    <3> HIDE DEF t, G
    <3>4. G(s)[t] = G(t)[t]
      BY <2>1, <3>1, <3>2, <3>3, FoldsAgree
    <3>5. G(s)[s] = then[<<G(s)[t], take[s]>>]
      BY <2>1, <2>3 DEF FoldsOf, Folded, t
    <3> QED
      BY <2>3, <3>4, <3>5 DEF t
  <2> QED
    BY <2>2, <2>3
<1>6. ASSUME NEW s \in SUBSET X
      PROVE  W(s) \in A /\ Folded(base, take, then, k, s) = W(s)
  <2>1. CASE s = {}
    BY <2>1 DEF Folded
  <2>2. CASE s # {}
    <3>1. s \ {take[s]} \in SUBSET X /\ s \ {take[s]} # X
      BY <1>4, <2>2
    <3>2. /\ k[s \ {take[s]}] = V(s \ {take[s]})
          /\ V(s \ {take[s]}) \in A
      BY <1>3, <1>5, <3>1
    <3>3. take[s] \in S
      BY <1>4, <2>2
    <3> HIDE DEF k, V
    <3> QED
      BY <2>2, <3>2, <3>3 DEF Folded
  <2> QED
    BY <2>1, <2>2
<1> HIDE DEF W
<1>7. k \in All(X)
  BY <1>6 DEF FoldsOf
<1> QED
  BY <1>2, <1>7


-----------------------------------------------------------------------------
(* Folds from the left, over a sequence of n elements.                     *)

Top(n) == [s \in SUBSET (1..n) |-> Max(s)]
Lefts(n, A, base, then) == FoldsOf(1..n, A, base, Top(n), then)

LEMMA TopTakes ==
  ASSUME NEW n \in Nat, NEW s \in SUBSET (1..n), s # {}
  PROVE  Top(n)[s] = Max(s) /\ Max(s) \in s /\ \A x \in s : x <= Max(s)
<1> DEFINE B == {k \in Nat : s \subseteq 1..k}
           Less == OpToRel(<, Nat)
<1>1. n \in B /\ B \subseteq Nat
  OBVIOUS
<1>2. IsWellFoundedOn(Less, Nat)
  BY NatLessThanWellFounded DEF Less
<1> HIDE DEF B, Less
<1>3. PICK k \in B : \A j \in B : ~ (<<j, k>> \in Less)
  BY <1>1, <1>2, WFMin
<1>4. k \in Nat /\ s \subseteq 1..k
  BY <1>3 DEF B
<1>5. k \in s
  <2>1. SUFFICES ASSUME k \notin s PROVE FALSE
    OBVIOUS
  <2>2. k > 0 /\ k - 1 \in Nat /\ s \subseteq 1..(k - 1)
    <3>1. \A x \in s : x \in 1..k /\ x # k
      BY <1>4, <2>1
    <3>2. \A x \in 1..k : x # k => x \in 1..(k - 1)
      BY <1>4
    <3>3. \E x \in s : TRUE
      OBVIOUS
    <3> QED
      BY <1>4, <3>1, <3>2, <3>3
  <2>3. k - 1 \in B
    BY <2>2 DEF B
  <2>4. <<k - 1, k>> \in Less
    BY <1>4, <2>2 DEF Less, OpToRel
  <2> QED
    BY <1>3, <2>3, <2>4
<1>6. \A x \in s : x <= k /\ x \in Int
  BY <1>4
<1>7. Max(s) \in s /\ \A x \in s : Max(s) >= x
  BY <1>5, <1>6 DEF Max
<1>8. \A x \in s : x <= Max(s)
  BY <1>6, <1>7
<1> QED
  BY <1>7, <1>8 DEF Top

LEMMA TopOfRange ==
  ASSUME NEW n \in Nat, NEW k \in 1..n
  PROVE  /\ Top(n)[1..k] = k /\ 1..k \in SUBSET (1..n) /\ 1..k # {}
         /\ (1..k) \ {k} = 1..(k - 1)
<1>1. 1..k \in SUBSET (1..n) /\ k \in 1..k /\ (1..k) \ {k} = 1..(k - 1)
  OBVIOUS
<1>2. Top(n)[1..k] \in 1..k /\ \A x \in 1..k : x <= Top(n)[1..k]
  BY <1>1, TopTakes
<1> QED
  BY <1>1, <1>2

\* The values of a fold go from the front to the back.
LEMMA LeftFold ==
  ASSUME NEW n \in Nat, NEW A, NEW base \in A, NEW then,
         NEW it \in Lefts(n, A, base, then)
  PROVE  /\ it[1..0] = base
         /\ \A k \in 0..n : it[1..k] \in A
         /\ \A k \in 1..n : it[1..k] = then[<<it[1..(k - 1)], k>>]
<1>1. it[1..0] = base
  <2>1. 1..0 = {} /\ {} \in SUBSET (1..n)
    OBVIOUS
  <2>2. it[{}] = base
    BY <2>1 DEF Lefts, FoldsOf, Folded
  <2> QED
    BY <2>1, <2>2
<1>2. ASSUME NEW k \in 0..n PROVE it[1..k] \in A
  BY DEF Lefts, FoldsOf
<1>3. ASSUME NEW k \in 1..n PROVE it[1..k] = then[<<it[1..(k - 1)], k>>]
  BY TopOfRange DEF Lefts, FoldsOf, Folded
<1> QED
  BY <1>1, <1>2, <1>3

LEMMA LeftFoldExists ==
  ASSUME NEW n \in Nat, NEW A, NEW base \in A, NEW then,
         \A a \in A, k \in 1..n : then[<<a, k>>] \in A
  PROVE  \E it : it \in Lefts(n, A, base, then)
<1>1. IsFiniteSet(1..n)
  BY FS_Interval
<1>2. \A s \in SUBSET (1..n) : s # {} => Top(n)[s] \in s
  BY TopTakes
<1> DEFINE S == 1..n
<1> HIDE DEF S
<1>3. FoldsOf(S, A, base, Top(n), then) # {}
  BY <1>1, <1>2, FoldExists DEF S
<1> QED
  BY <1>3 DEF Lefts, S

\* What computes the values of a fold one from the other is the fold.
Solves(f, n, A, base, then) ==
  /\ DOMAIN f = SUBSET (1..n)
  /\ f[{}] = base
  /\ \A s \in SUBSET (1..n) :
       (s # {} /\ f[s \ {Max(s)}] \in A) => f[s] = then[<<f[s \ {Max(s)}], Max(s)>>]

LEMMA SolvesFold ==
  ASSUME NEW n \in Nat, NEW A, NEW base \in A, NEW then,
         NEW it \in Lefts(n, A, base, then), NEW f, Solves(f, n, A, base, then)
  PROVE  \A s \in SUBSET (1..n) : f[s] = it[s]
<1> DEFINE S == 1..n
           T == {s \in SUBSET S : f[s] # it[s]}
<1>1. SUFFICES ASSUME T # {} PROVE FALSE
  OBVIOUS
<1>2. PICK s \in T : \A t \in T : t \subseteq s => t = s
  <2>1. T \subseteq SUBSET S /\ IsFiniteSet(S)
    BY FS_Interval
  <2> HIDE DEF T, S
  <2> QED
    BY <1>1, <2>1, MinimalSubset
<1>3. s \in SUBSET (1..n) /\ f[s] # it[s]
  OBVIOUS
<1>4. CASE s = {}
  BY <1>3, <1>4 DEF Solves, Lefts, FoldsOf, Folded
<1>5. CASE s # {}
  <2>1. Top(n)[s] = Max(s) /\ Max(s) \in s
    BY <1>3, <1>5, TopTakes
  <2>2. f[s \ {Max(s)}] = it[s \ {Max(s)}]
    BY <1>2, <2>1
  <2>3. it[s \ {Max(s)}] \in A
    BY <1>3 DEF Lefts, FoldsOf
  <2>4. f[s] = then[<<f[s \ {Max(s)}], Max(s)>>]
    BY <1>3, <1>5, <2>2, <2>3 DEF Solves
  <2>5. it[s] = then[<<it[s \ {Max(s)}], Max(s)>>]
    BY <1>3, <1>5, <2>1 DEF Lefts, FoldsOf, Folded
  <2> QED
    BY <1>3, <2>2, <2>4, <2>5
<1> QED
  BY <1>4, <1>5

-----------------------------------------------------------------------------
(* Reading a text.                                                         *)

Acc == [whole : Seq(Nat), part : Nat, unit : Nat]
Reads(text) == [p \in Acc \X (1..Len(text)) |-> Digit(p[1], text[p[2]])]
Reading(text) == Lefts(Len(text), Acc, Start, Reads(text))

LEMMA DigitReads ==
  ASSUME NEW a \in Acc, NEW d \in Nat
  PROVE  Digit(a, d) \in Acc
<1>1. a.whole \in Seq(Nat) /\ a.part \in Nat /\ a.unit \in Nat
  BY DEF Acc
<1>2. \A e \in Nat, p \in Nat, u \in Nat : p + e * u \in Nat /\ u * 32 \in Nat
  <2>1. \A e \in Nat, u \in Nat : e * u \in Nat
    OBVIOUS
  <2> QED
    BY <2>1
<1>3. d >= 32 => a.part + (d - 32) * a.unit \in Nat
  <2>1. d >= 32 => d - 32 \in Nat
    OBVIOUS
  <2> QED
    BY <1>1, <1>2, <2>1
<1>4. Append(a.whole, a.part + d * a.unit) \in Seq(Nat)
  <2>1. \A x \in Nat : Append(a.whole, x) \in Seq(Nat)
    BY <1>1
  <2>2. a.part + d * a.unit \in Nat
    BY <1>1, <1>2
  <2> QED
    BY <2>1, <2>2
<1> QED
  BY <1>1, <1>2, <1>3, <1>4 DEF Digit, Acc

LEMMA StartReads == Start \in Acc
BY DEF Start, Acc

LEMMA Readable ==
  ASSUME NEW text \in Seq(Nat)
  PROVE  \E it : it \in Reading(text)
<1>1. \A a \in Acc, k \in 1..Len(text) : Reads(text)[<<a, k>>] \in Acc
  BY DigitReads DEF Reads
<1>2. Len(text) \in Nat
  OBVIOUS
<1> QED
  BY <1>1, <1>2, StartReads, LeftFoldExists DEF Reading

\* The equation Varints is defined by is that of a fold.
LEMMA VarintsFold ==
  ASSUME NEW text \in Seq(Nat), NEW g \in Reading(text)
  PROVE  Varints(text) = g[1..Len(text)]
<1> DEFINE n == Len(text)
           Eq(it) == it = [s \in SUBSET (DOMAIN text) |->
                             IF s = {} THEN Start
                             ELSE Digit(it[s \ {Max(s)}], text[Max(s)])]
           f == CHOOSE it : Eq(it)
<1>1. Varints(text) = f[DOMAIN text]
  BY DEF Varints, FoldLeft, MapThenFoldSet
<1>2. DOMAIN text = 1..n /\ n \in Nat /\ \A k \in 1..n : text[k] \in Nat
  OBVIOUS
<1>3. g \in [SUBSET (1..n) -> Acc]
  BY DEF Reading, Lefts, FoldsOf
<1>4. ASSUME NEW s \in SUBSET (1..n)
      PROVE  g[s] = IF s = {} THEN Start ELSE Digit(g[s \ {Max(s)}], text[Max(s)])
  <2>1. s # {} => Top(n)[s] = Max(s) /\ Max(s) \in 1..n
    BY <1>2, TopTakes
  <2>2. s # {} => g[s \ {Max(s)}] \in Acc
    BY <1>3
  <2>3. g[s] = Folded(Start, Top(n), Reads(text), g, s)
    BY DEF Reading, Lefts, FoldsOf
  <2> QED
    BY <2>1, <2>2, <2>3 DEF Folded, Reads
<1>5. Eq(g)
  BY <1>2, <1>3, <1>4
<1>6. Eq(f)
  BY <1>5
<1> HIDE DEF f
<1>7. Solves(f, n, Acc, Start, Reads(text))
  <2>1. DOMAIN f = SUBSET (1..n) /\ f[{}] = Start
    BY <1>2, <1>6
  <2>2. ASSUME NEW s \in SUBSET (1..n), s # {}, f[s \ {Max(s)}] \in Acc
        PROVE  f[s] = Reads(text)[<<f[s \ {Max(s)}], Max(s)>>]
    <3>1. f[s] = Digit(f[s \ {Max(s)}], text[Max(s)])
      BY <1>2, <1>6, <2>2
    <3>2. Max(s) \in 1..n
      BY <1>2, <2>2, TopTakes
    <3> QED
      BY <2>2, <3>1, <3>2 DEF Reads
  <2> QED
    BY <2>1, <2>2 DEF Solves
<1>8. \A s \in SUBSET (1..n) : f[s] = g[s]
  BY <1>2, <1>7, StartReads, SolvesFold DEF Reading
<1> QED
  BY <1>1, <1>2, <1>8

LEMMA VarintsNothing == Varints(<<>>) = Start
<1> DEFINE text == <<>>
           n == Len(text)
<1>1. text \in Seq(Nat) /\ n = 0 /\ n \in Nat
  OBVIOUS
<1> HIDE DEF text, n
<1>2. PICK g : g \in Reading(text)
  BY <1>1, Readable
<1>3. Varints(text) = g[1..n]
  BY <1>1, <1>2, VarintsFold DEF n
<1>4. g \in Lefts(n, Acc, Start, Reads(text))
  BY <1>2 DEF Reading, n
<1>5. g[1..0] = Start
  BY <1>1, <1>4, StartReads, LeftFold
<1> QED
  BY <1>1, <1>3, <1>5 DEF text

\* One character more is one digit more.
LEMMA VarintsAppend ==
  ASSUME NEW text \in Seq(Nat), NEW d \in Nat
  PROVE  /\ Varints(text) \in Acc
         /\ Varints(Append(text, d)) = Digit(Varints(text), d)
<1> DEFINE n == Len(text)
           more == Append(text, d)
<1>1. n \in Nat /\ more \in Seq(Nat) /\ Len(more) = n + 1 /\ more[n + 1] = d
      /\ \A k \in 1..n : more[k] = text[k]
  OBVIOUS
<1>2. PICK g : g \in Reading(text)
  BY Readable
<1>3. PICK h : h \in Reading(more)
  BY <1>1, Readable
<1>4. Varints(text) = g[1..n] /\ Varints(more) = h[1..(n + 1)]
  BY <1>1, <1>2, <1>3, VarintsFold
<1>5. /\ g[1..0] = Start /\ h[1..0] = Start
      /\ \A k \in 0..n : g[1..k] \in Acc
      /\ \A k \in 0..(n + 1) : h[1..k] \in Acc
      /\ \A k \in 1..n : g[1..k] = Reads(text)[<<g[1..(k - 1)], k>>]
      /\ \A k \in 1..(n + 1) : h[1..k] = Reads(more)[<<h[1..(k - 1)], k>>]
  <2>1. n + 1 \in Nat /\ Len(text) = n
    BY <1>1
  <2> HIDE DEF n, more
  <2>2. g \in Lefts(n, Acc, Start, Reads(text)) /\ h \in Lefts(n + 1, Acc, Start, Reads(more))
    BY <1>1, <1>2, <1>3, <2>1 DEF Reading
  <2>3. /\ g[1..0] = Start /\ \A k \in 0..n : g[1..k] \in Acc
        /\ \A k \in 1..n : g[1..k] = Reads(text)[<<g[1..(k - 1)], k>>]
    BY <1>1, <2>2, StartReads, LeftFold
  <2> DEFINE m == n + 1
  <2>4. m \in Nat /\ h \in Lefts(m, Acc, Start, Reads(more))
    BY <2>1, <2>2
  <2> HIDE DEF m
  <2>5. /\ h[1..0] = Start /\ \A k \in 0..m : h[1..k] \in Acc
        /\ \A k \in 1..m : h[1..k] = Reads(more)[<<h[1..(k - 1)], k>>]
    BY <2>4, StartReads, LeftFold
  <2> QED
    BY <2>3, <2>5 DEF m
<1> DEFINE T == {k \in Nat : g[1..k] = h[1..k]}
           zero == 0
<1>6. zero \in T /\ zero \in Nat /\ n \in zero..n
  BY <1>1, <1>5
<1>7. ASSUME NEW k \in zero..(n - 1), k \in T PROVE k + 1 \in T
  <2>1. k + 1 \in 1..n /\ k + 1 \in 1..(n + 1) /\ (k + 1) - 1 = k /\ k \in 0..n /\ k + 1 \in Nat
    BY <1>1
  <2>2. g[1..(k + 1)] = Reads(text)[<<g[1..k], k + 1>>]
    BY <1>5, <2>1
  <2>3. h[1..(k + 1)] = Reads(more)[<<h[1..k], k + 1>>]
    BY <1>5, <2>1
  <2>4. g[1..k] = h[1..k] /\ g[1..k] \in Acc
    BY <1>5, <1>7, <2>1
  <2>5. g[1..(k + 1)] = Digit(g[1..k], text[k + 1])
    BY <2>1, <2>2, <2>4 DEF Reads
  <2>6. h[1..(k + 1)] = Digit(h[1..k], more[k + 1])
    BY <1>1, <2>1, <2>3, <2>4 DEF Reads
  <2> QED
    BY <1>1, <2>1, <2>4, <2>5, <2>6
<1>8. n \in T
  <2> HIDE DEF T, zero, n
  <2>1. \A k \in zero..n : k \in T
    BY <1>1, <1>6, <1>7, Upwards
  <2> QED
    BY <1>6, <2>1
<1>9. h[1..(n + 1)] = Digit(h[1..n], d) /\ g[1..n] = h[1..n] /\ g[1..n] \in Acc
  <2>1. n + 1 \in 1..(n + 1) /\ (n + 1) - 1 = n /\ n \in 0..(n + 1) /\ n \in 0..n
    BY <1>1
  <2>2. h[1..(n + 1)] = Reads(more)[<<h[1..n], n + 1>>] /\ h[1..n] \in Acc /\ g[1..n] \in Acc
    BY <1>5, <2>1
  <2> HIDE DEF more
  <2>3. Reads(more)[<<h[1..n], n + 1>>] = Digit(h[1..n], d)
    BY <1>1, <2>1, <2>2 DEF Reads
  <2> QED
    BY <1>8, <2>2, <2>3
<1> QED
  BY <1>4, <1>9


-----------------------------------------------------------------------------
(* Digits is defined by recursion on its argument: it is what the          *)
(* approximations up to a bound agree on.                                  *)

Lead(d, u) == IF u < 32 THEN <<u>> ELSE <<(u % 32) + 32>> \o d

UpTo(n) ==
  {f \in [0..n -> Seq(Nat)] : \A u \in 0..n : f[u] = Lead(f[u \div 32], u)}

LEMMA LeadGrows ==
  ASSUME NEW u \in Nat
  PROVE  /\ u \div 32 \in 0..u /\ u >= 32 => (u \div 32 < u /\ u \div 32 >= 1)
         /\ \A d \in Seq(Nat) : Lead(d, u) \in Seq(Nat) /\ Lead(d, u) # <<>>
<1>1. u \div 32 \in 0..u /\ (u >= 32 => (u \div 32 < u /\ u \div 32 >= 1))
      /\ (u % 32) + 32 \in Nat
  OBVIOUS
<1>2. ASSUME NEW d \in Seq(Nat) PROVE Lead(d, u) \in Seq(Nat) /\ Lead(d, u) # <<>>
  <2> DEFINE x == (u % 32) + 32
  <2>1. x \in Nat /\ Lead(d, u) = IF u < 32 THEN <<u>> ELSE <<x>> \o d
    BY <1>1 DEF Lead
  <2> HIDE DEF x
  <2>2. <<u>> \in Seq(Nat) /\ <<x>> \o d \in Seq(Nat) /\ <<u>> # <<>> /\ <<x>> \o d # <<>>
    BY <2>1
  <2> QED
    BY <2>1, <2>2
<1> QED
  BY <1>1, <1>2

LEMMA UpToAgree ==
  ASSUME NEW n \in Nat, NEW m \in Nat, NEW f \in UpTo(n), NEW g \in UpTo(m)
  PROVE  \A u \in 0..n : u \in 0..m => f[u] = g[u]
<1> DEFINE B == {u \in 0..n : u \in 0..m /\ f[u] # g[u]}
           Less == OpToRel(<, Nat)
<1>1. SUFFICES ASSUME B # {} PROVE FALSE
  OBVIOUS
<1>2. IsWellFoundedOn(Less, Nat)
  BY NatLessThanWellFounded DEF Less
<1>3. B \subseteq Nat
  OBVIOUS
<1> HIDE DEF Less, B
<1>4. PICK u \in B : \A v \in B : ~ (<<v, u>> \in Less)
  BY <1>1, <1>2, <1>3, WFMin
<1>5. u \in 0..n /\ u \in 0..m /\ f[u] # g[u] /\ u \in Nat
  BY <1>4 DEF B
<1>6. f[u] = Lead(f[u \div 32], u) /\ g[u] = Lead(g[u \div 32], u)
  BY <1>5 DEF UpTo
<1>7. u >= 32
  BY <1>5, <1>6 DEF Lead
<1> DEFINE v == u \div 32
<1>8. v \in Nat /\ v < u /\ v \in 0..n /\ v \in 0..m
  BY <1>5, <1>7
<1>9. f[v] # g[v]
  BY <1>5, <1>6
<1> HIDE DEF v
<1>10. v \in B /\ <<v, u>> \in Less
  BY <1>5, <1>8, <1>9 DEF B, Less, OpToRel
<1> QED
  BY <1>4, <1>10

LEMMA UpToExists ==
  ASSUME NEW n \in Nat
  PROVE  UpTo(n) # {}
<1> DEFINE T == {k \in Nat : UpTo(k) # {}}
           zero == 0
<1>1. zero \in T
  <2> DEFINE f == [u \in 0..0 |-> <<u>>]
  <2>1. \A u \in 0..0 : u = 0
    OBVIOUS
  <2>2. <<0>> \in Seq(Nat)
    OBVIOUS
  <2>3. f \in [0..0 -> Seq(Nat)]
    BY <2>1, <2>2
  <2>4. \A u \in 0..0 : f[u] = Lead(f[u \div 32], u)
    BY <2>1 DEF Lead
  <2>5. f \in UpTo(0)
    BY <2>3, <2>4 DEF UpTo
  <2> QED
    BY <2>5
<1>2. ASSUME NEW k \in zero..(n - 1), k \in T PROVE k + 1 \in T
  <2>1. k \in Nat /\ k + 1 \in Nat /\ 0..(k + 1) = 0..k \cup {k + 1} /\ k + 1 \notin 0..k
    OBVIOUS
  <2>2. PICK f : f \in UpTo(k)
    BY <1>2
  <2> DEFINE c == Lead(f[(k + 1) \div 32], k + 1)
             g == [u \in 0..(k + 1) |-> IF u = k + 1 THEN c ELSE f[u]]
  <2>3. f \in [0..k -> Seq(Nat)] /\ \A u \in 0..k : f[u] = Lead(f[u \div 32], u)
    BY <2>2 DEF UpTo
  <2>4. (k + 1) \div 32 \in 0..k
    BY <2>1
  <2>5. c \in Seq(Nat)
    BY <2>1, <2>3, <2>4, LeadGrows
  <2> HIDE DEF c
  <2>6. g \in [0..(k + 1) -> Seq(Nat)]
    BY <2>1, <2>3, <2>5
  <2>7. g[k + 1] = Lead(g[(k + 1) \div 32], k + 1)
    BY <2>1, <2>4 DEF c
  <2>8. ASSUME NEW u \in 0..k PROVE g[u] = Lead(g[u \div 32], u)
    <3>1. u \div 32 \in 0..k /\ u # k + 1 /\ u \div 32 # k + 1 /\ u \in 0..(k + 1)
      BY <2>1
    <3>2. u \div 32 \in 0..(k + 1)
      BY <2>1, <3>1
    <3>3. g[u] = f[u] /\ g[u \div 32] = f[u \div 32]
      BY <3>1, <3>2
    <3> HIDE DEF g
    <3> QED
      BY <2>3, <3>3
  <2> HIDE DEF g
  <2>9. \A u \in 0..(k + 1) : g[u] = Lead(g[u \div 32], u)
    BY <2>1, <2>7, <2>8
  <2>10. g \in UpTo(k + 1)
    BY <2>6, <2>9 DEF UpTo
  <2> QED
    BY <2>1, <2>10
<1>3. zero \in Nat /\ n \in zero..n
  OBVIOUS
<1> HIDE DEF T, zero
<1>4. \A k \in zero..n : k \in T
  BY <1>1, <1>2, <1>3, Upwards
<1> QED
  BY <1>3, <1>4 DEF T

LEMMA DigitsAre ==
  ASSUME NEW u \in Nat
  PROVE  /\ Digits[u] = Lead(Digits[u \div 32], u)
         /\ Digits[u] \in Seq(Nat) /\ Digits[u] # <<>>
<1> DEFINE F(n) == CHOOSE f : f \in UpTo(n)
           g == [n \in Nat |-> F(n)[n]]
           Eq(f) == f = [n \in Nat |-> IF n < 32 THEN <<n>>
                                       ELSE <<(n % 32) + 32>> \o f[n \div 32]]
<1>1. ASSUME NEW n \in Nat PROVE F(n) \in UpTo(n)
  <2>1. \E f : f \in UpTo(n)
    BY UpToExists
  <2> QED
    BY <2>1
<1> HIDE DEF F
<1>2. ASSUME NEW n \in Nat
      PROVE  g[n] = Lead(g[n \div 32], n) /\ g[n] \in Seq(Nat)
  <2>1. F(n) \in UpTo(n) /\ n \in 0..n /\ n \div 32 \in 0..n /\ n \div 32 \in Nat
    BY <1>1
  <2>2. F(n)[n] = Lead(F(n)[n \div 32], n) /\ F(n)[n] \in Seq(Nat)
    BY <2>1 DEF UpTo
  <2>3. F(n)[n \div 32] = F(n \div 32)[n \div 32]
    <3> DEFINE v == n \div 32
    <3>1. v \in Nat /\ v \in 0..n /\ v \in 0..v /\ F(v) \in UpTo(v)
      BY <1>1, <2>1
    <3> HIDE DEF v
    <3>2. F(n)[v] = F(v)[v]
      BY <2>1, <3>1, UpToAgree
    <3> QED
      BY <3>2 DEF v
  <2> QED
    BY <2>1, <2>2, <2>3
<1>3. Eq(g)
  <2>1. \A n \in Nat : g[n] = IF n < 32 THEN <<n>> ELSE <<(n % 32) + 32>> \o g[n \div 32]
    BY <1>2 DEF Lead
  <2>2. DOMAIN g = Nat /\ g = [n \in Nat |-> g[n]]
    OBVIOUS
  <2> HIDE DEF g
  <2> QED
    BY <2>1, <2>2
<1> HIDE DEF g
<1>4. Eq(Digits)
  BY <1>3 DEF Digits
<1>5. \A n \in Nat : Digits[n] = Lead(Digits[n \div 32], n)
  BY <1>4 DEF Lead
<1> DEFINE T == {n \in Nat : Digits[n] \notin Seq(Nat)}
           Less == OpToRel(<, Nat)
<1>6. T = {}
  <2>1. SUFFICES ASSUME T # {} PROVE FALSE
    OBVIOUS
  <2>2. IsWellFoundedOn(Less, Nat) /\ T \subseteq Nat
    BY NatLessThanWellFounded DEF Less
  <2> HIDE DEF Less, T
  <2>3. PICK n \in T : \A v \in T : ~ (<<v, n>> \in Less)
    BY <2>1, <2>2, WFMin
  <2>4. n \in Nat /\ Digits[n] \notin Seq(Nat)
    BY <2>3 DEF T
  <2>5. n >= 32
    <3>1. SUFFICES ASSUME n < 32 PROVE FALSE
      BY <2>4
    <3>2. Digits[n] = Lead(Digits[n \div 32], n)
      BY <1>5, <2>4
    <3>3. Digits[n] = <<n>>
      BY <3>1, <3>2 DEF Lead
    <3> QED
      BY <2>4, <3>3
  <2> DEFINE v == n \div 32
  <2>6. v \in Nat /\ v < n
    BY <2>4, <2>5
  <2> HIDE DEF v
  <2>7. Digits[v] \notin Seq(Nat)
    BY <1>5, <2>4, LeadGrows DEF v
  <2>8. v \in T /\ <<v, n>> \in Less
    BY <2>4, <2>6, <2>7 DEF T, Less, OpToRel
  <2> QED
    BY <2>3, <2>8
<1> HIDE DEF T
<1>7. \A n \in Nat : Digits[n] \in Seq(Nat)
  BY <1>6 DEF T
<1>8. Digits[u \div 32] \in Seq(Nat)
  BY <1>7
<1> QED
  BY <1>5, <1>7, <1>8, LeadGrows


\* The digits of a number are read as the number, and no sooner.
ReadsAs(D, v) ==
  \A t \in Seq(Nat) :
    Varints(t).unit >= 1 =>
      /\ Varints(t \o D) = [whole |-> Append(Varints(t).whole,
                                             Varints(t).part + v * Varints(t).unit),
                            part |-> 0, unit |-> 1]
      /\ Varints(t \o Cut(D)).whole = Varints(t).whole

ReadsOne(v) == ReadsAs(Digits[v], v)

LEMMA TakesTime ==
  ASSUME NEW a \in Nat, NEW b \in Nat, NEW c \in Nat, NEW p \in Nat
  PROVE  (p + a * c) + b * (c * 32) = p + (32 * b + a) * c
<1>1. b * (c * 32) = 32 * (b * c) /\ (32 * b + a) * c = 32 * (b * c) + a * c
  OBVIOUS
<1>2. a * c \in Nat /\ b * c \in Nat
  OBVIOUS
<1> QED
  BY <1>1, <1>2

LEMMA ReadsShort ==
  ASSUME NEW v \in Nat, v < 32
  PROVE  ReadsOne(v)
<1>1. Digits[v] = <<v>>
  BY DigitsAre DEF Lead
<1> DEFINE D == <<v>>
<1>2. Len(D) = 1 /\ Cut(D) = <<>>
  BY DEF Cut
<1>3. SUFFICES ASSUME NEW t \in Seq(Nat)
               PROVE  /\ Varints(t \o D)
                           = [whole |-> Append(Varints(t).whole,
                                               Varints(t).part + v * Varints(t).unit),
                              part |-> 0, unit |-> 1]
                      /\ Varints(t \o Cut(D)).whole = Varints(t).whole
  BY <1>1 DEF ReadsOne, ReadsAs
<1>4. t \o D = Append(t, v) /\ t \o Cut(D) = t
  BY <1>2
<1>5. Varints(Append(t, v)) = Digit(Varints(t), v)
  BY VarintsAppend
<1>6. Digit(Varints(t), v)
        = [whole |-> Append(Varints(t).whole, Varints(t).part + v * Varints(t).unit),
           part |-> 0, unit |-> 1]
  BY DEF Digit
<1> HIDE DEF D
<1> QED
  BY <1>4, <1>5, <1>6

LEMMA ReadsLong ==
  ASSUME NEW v \in Nat, v >= 32, ReadsOne(v \div 32)
  PROVE  ReadsOne(v)
<1> DEFINE b == v \div 32
           a == v % 32
           D == Digits[b]
           x == a + 32
<1>1. a \in Nat /\ b \in Nat /\ a < 32 /\ v = 32 * b + a /\ b < v /\ x \in Nat
      /\ x >= 32 /\ x - 32 = a
  OBVIOUS
<1>2. Digits[v] = <<x>> \o D
  <2>1. Digits[v] = Lead(D, v)
    BY DigitsAre
  <2> HIDE DEF D, b
  <2> QED
    BY <2>1 DEF Lead
<1>3. D \in Seq(Nat) /\ D # <<>> /\ Len(D) \in Nat /\ Len(D) >= 1
  <2>1. D \in Seq(Nat) /\ D # <<>>
    BY <1>1, DigitsAre
  <2> HIDE DEF D
  <2> QED
    BY <2>1
<1>4. ReadsAs(D, b)
  BY DEF ReadsOne
<1> HIDE DEF x, D, a, b
<1> DEFINE E == <<x>> \o D
<1>5. Len(E) = Len(D) + 1 /\ Cut(E) = <<x>> \o Cut(D)
  BY <1>1, <1>3 DEF Cut
<1>6. SUFFICES ASSUME NEW t \in Seq(Nat), Varints(t).unit >= 1
               PROVE  /\ Varints(t \o E)
                           = [whole |-> Append(Varints(t).whole,
                                               Varints(t).part + v * Varints(t).unit),
                              part |-> 0, unit |-> 1]
                      /\ Varints(t \o Cut(E)).whole = Varints(t).whole
  <2> HIDE DEF E
  <2> QED
    BY <1>2 DEF ReadsOne, ReadsAs, E
<1> DEFINE s == Append(t, x)
           w == Varints(t).whole
           p == Varints(t).part
           c == Varints(t).unit
           q == p + a * c
           k == c * 32
<1>7. s \in Seq(Nat) /\ t \o E = s \o D /\ t \o Cut(E) = s \o Cut(D)
  <2>1. s \in Seq(Nat) /\ s = t \o <<x>> /\ <<x>> \in Seq(Nat)
    BY <1>1
  <2>2. Cut(D) \in Seq(Nat)
    BY <1>3 DEF Cut
  <2>3. \A y \in Seq(Nat) : t \o (<<x>> \o y) = (t \o <<x>>) \o y
    <3> DEFINE r == <<x>>
    <3>1. r \in Seq(Nat)
      BY <1>1
    <3> HIDE DEF r
    <3>2. \A y \in Seq(Nat) : t \o (r \o y) = (t \o r) \o y
      BY <3>1
    <3> QED
      BY <3>2 DEF r
  <2>4. t \o E = t \o (<<x>> \o D) /\ t \o Cut(E) = t \o (<<x>> \o Cut(D))
    BY <1>5
  <2> HIDE DEF s, E
  <2> QED
    BY <1>3, <2>1, <2>2, <2>3, <2>4
<1>8. w \in Seq(Nat) /\ p \in Nat /\ c \in Nat /\ c >= 1
  <2>1. Varints(t) \in Acc
    BY VarintsAppend
  <2> QED
    BY <1>6, <2>1 DEF Acc
<1>9. Varints(s) = [whole |-> w, part |-> q, unit |-> k]
  <2>1. Varints(s) = Digit(Varints(t), x)
    BY <1>1, VarintsAppend
  <2>2. ~ (x < 32)
    BY <1>1
  <2> HIDE DEF s
  <2> QED
    BY <1>1, <2>1, <2>2 DEF Digit
<1> HIDE DEF s, w, p, c
<1>10. q \in Nat /\ k \in Nat /\ k >= 32 /\ k = 32 * c
  <2>1. a * c \in Nat
    BY <1>1, <1>8
  <2> QED
    BY <1>8, <2>1
<1>11. q + b * k = p + v * c
  BY <1>1, <1>8, TakesTime
<1> HIDE DEF q, k
<1>12. Varints(s).whole = w /\ Varints(s).part = q /\ Varints(s).unit = k
  BY <1>9
<1>13. /\ Varints(s \o D) = [whole |-> Append(w, q + b * k), part |-> 0, unit |-> 1]
       /\ Varints(s \o Cut(D)).whole = w
  <2>1. Varints(s).unit >= 1
    BY <1>10, <1>12
  <2> QED
    BY <1>4, <1>7, <1>12, <2>1 DEF ReadsAs
<1> HIDE DEF E
<1> QED
  BY <1>7, <1>11, <1>13 DEF w, p, c

LEMMA ReadsEach == \A v \in Nat : ReadsOne(v)
<1> DEFINE T == {v \in Nat : ~ ReadsOne(v)}
           Less == OpToRel(<, Nat)
<1>1. SUFFICES ASSUME T # {} PROVE FALSE
  OBVIOUS
<1>2. IsWellFoundedOn(Less, Nat) /\ T \subseteq Nat
  BY NatLessThanWellFounded DEF Less
<1> HIDE DEF Less, T
<1>3. PICK v \in T : \A u \in T : ~ (<<u, v>> \in Less)
  BY <1>1, <1>2, WFMin
<1>4. v \in Nat /\ ~ ReadsOne(v)
  BY <1>3 DEF T
<1>5. v >= 32
  BY <1>4, ReadsShort
<1> DEFINE u == v \div 32
<1>6. u \in Nat /\ u < v
  BY <1>4, <1>5
<1>7. ~ ReadsOne(u)
  BY <1>4, <1>5, ReadsLong
<1> HIDE DEF u
<1>8. u \in T /\ <<u, v>> \in Less
  BY <1>4, <1>6, <1>7 DEF T, Less, OpToRel
<1> QED
  BY <1>3, <1>8


\* FlattenSeq appends one part after the other.
LEMMA Flattened ==
  ASSUME NEW V, NEW s \in Seq(Seq(V)), Len(s) > 0
  PROVE  \E f \in [1..Len(s) -> Seq(V)] :
           /\ f[1] = s[1]
           /\ \A i \in 2..Len(s) : f[i] = f[i - 1] \o s[i]
           /\ FlattenSeq(s) = f[Len(s)]
<1> DEFINE n == Len(s)
           A == Seq(V)
           Eq(f) == f = [i \in 1..n |-> IF i = 1 THEN s[i] ELSE f[i - 1] \o s[i]]
           f == CHOOSE f : Eq(f)
           then == [p \in A \X (1..n) |-> p[1] \o s[p[2]]]
           base == <<>>
<1>1. FlattenSeq(s) = f[n]
  BY DEF FlattenSeq
<1>2. n \in Nat /\ n \in 1..n /\ 1 \in 1..n /\ \A i \in 1..n : s[i] \in A
  OBVIOUS
<1>3. base \in A
  OBVIOUS
<1>4. \A a \in A, k \in 1..n : then[<<a, k>>] \in A
  BY <1>2
<1>5. PICK it : it \in Lefts(n, A, base, then)
  <2> HIDE DEF n, A, then, base
  <2> QED
    BY <1>2, <1>3, <1>4, LeftFoldExists
<1>6. /\ it[1..0] = base
      /\ \A k \in 0..n : it[1..k] \in A
      /\ \A k \in 1..n : it[1..k] = then[<<it[1..(k - 1)], k>>]
  <2> HIDE DEF n, A, then, base
  <2> QED
    BY <1>2, <1>3, <1>5, LeftFold
<1> DEFINE g == [i \in 1..n |-> it[1..i]]
<1>7. ASSUME NEW i \in 1..n PROVE it[1..i] = it[1..(i - 1)] \o s[i]
  <2>1. i - 1 \in 0..n
    BY <1>2
  <2>2. it[1..(i - 1)] \in A /\ it[1..i] = then[<<it[1..(i - 1)], i>>]
    BY <1>6, <2>1
  <2> HIDE DEF A, n
  <2> QED
    BY <2>2
<1>8. g[1] = s[1]
  <2>1. g[1] = it[1..0] \o s[1]
    <3>1. it[1..1] = it[1..0] \o s[1]
      <4> DEFINE k == 1
                 j == k - 1
      <4>1. k \in 1..n /\ j = 0
        BY <1>2
      <4> HIDE DEF k, n
      <4>2. it[1..k] = it[1..j] \o s[k]
        BY <1>7, <4>1
      <4> HIDE DEF j
      <4>3. it[1..k] = it[1..0] \o s[k]
        BY <4>1, <4>2
      <4> QED
        BY <4>3 DEF k
    <3>2. g[1] = it[1..1]
      BY <1>2
    <3> HIDE DEF g
    <3> QED
      BY <3>1, <3>2
  <2>2. s[1] \in Seq(V) /\ it[1..0] = <<>>
    BY <1>2, <1>6
  <2> QED
    BY <2>1, <2>2
<1>9. ASSUME NEW i \in 1..n, i # 1 PROVE g[i] = g[i - 1] \o s[i]
  <2>1. i - 1 \in 1..n
    BY <1>2, <1>9
  <2> QED
    BY <1>7, <2>1
<1>10. Eq(g)
  <2>1. \A i \in 1..n : g[i] = IF i = 1 THEN s[i] ELSE g[i - 1] \o s[i]
    BY <1>8, <1>9
  <2>2. g = [i \in 1..n |-> g[i]]
    OBVIOUS
  <2> HIDE DEF g, n
  <2> QED
    BY <2>1, <2>2
<1>11. Eq(f)
  <2> HIDE DEF g
  <2> QED
    BY <1>10
<1> HIDE DEF f
<1>12. /\ f[1] = s[1]
       /\ \A i \in 2..n : f[i] = f[i - 1] \o s[i]
  <2>1. \A i \in 1..n : f[i] = IF i = 1 THEN s[i] ELSE f[i - 1] \o s[i]
    BY <1>11
  <2>2. \A i \in 2..n : i \in 1..n /\ i # 1
    BY <1>2
  <2> QED
    BY <1>2, <2>1, <2>2
<1> DEFINE T == {i \in Nat : f[i] \in A}
           one == 1
<1>13. one \in T /\ one \in Nat
  BY <1>2, <1>12
<1>14. ASSUME NEW i \in one..(n - 1), i \in T PROVE i + 1 \in T
  <2>1. i + 1 \in 2..n /\ i + 1 \in 1..n /\ (i + 1) - 1 = i /\ i + 1 \in Nat
    BY <1>2
  <2>2. f[i + 1] = f[i] \o s[i + 1]
    BY <1>12, <2>1
  <2>3. f[i] \in Seq(V) /\ s[i + 1] \in Seq(V)
    BY <1>2, <1>14, <2>1
  <2>4. f[i] \o s[i + 1] \in Seq(V)
    BY <2>3
  <2>5. f[i + 1] \in A
    BY <2>2, <2>4
  <2> HIDE DEF A
  <2> QED
    BY <2>1, <2>5
<1>15. \A i \in one..n : i \in T
  <2> HIDE DEF T, one, n
  <2> QED
    BY <1>2, <1>13, <1>14, Upwards
<1>16. f \in [1..n -> A]
  <2>1. f = [i \in 1..n |-> f[i]]
    BY <1>11
  <2>2. \A i \in 1..n : f[i] \in A
    BY <1>15
  <2> HIDE DEF A, n
  <2> QED
    BY <2>1, <2>2
<1> QED
  BY <1>1, <1>12, <1>16

\* What is written is read, and so is all but the last number of what is cut off.
LEMMA WrittenReads ==
  ASSUME NEW numbers \in Seq(Nat)
  PROVE  /\ Written(numbers) \in Seq(Nat)
         /\ Varints(Written(numbers)) = [whole |-> numbers, part |-> 0, unit |-> 1]
         /\ numbers # <<>> =>
              /\ Varints(Cut(Written(numbers))).whole = Cut(numbers)
              /\ Written(numbers) # <<>>
<1> DEFINE n == Len(numbers)
           s == [i \in DOMAIN numbers |-> Digits[numbers[i]]]
<1>1. /\ DOMAIN numbers = 1..n /\ n \in Nat
      /\ \A i \in 1..n : numbers[i] \in Nat
      /\ \A i \in 1..n : s[i] = Digits[numbers[i]]
  OBVIOUS
<1>2. \A i \in 1..n : s[i] \in Seq(Nat) /\ s[i] # <<>>
  BY <1>1, DigitsAre
<1>3. s \in Seq(Seq(Nat)) /\ Len(s) = n /\ DOMAIN s = 1..n
  <2>1. s = [i \in 1..n |-> s[i]]
    BY <1>1
  <2> HIDE DEF s, n
  <2>2. s \in [1..n -> Seq(Nat)]
    BY <1>2, <2>1
  <2> QED
    BY <1>1, <2>2
<1>4. Written(numbers) = FlattenSeq(s)
  BY DEF Written
<1> HIDE DEF s
<1>5. CASE n = 0
  <2>1. numbers = <<>> /\ Written(numbers) = <<>>
    BY <1>3, <1>4, <1>5 DEF FlattenSeq
  <2> QED
    BY <2>1, VarintsNothing DEF Start
<1>6. CASE n # 0
  <2>1. PICK f \in [1..n -> Seq(Nat)] :
          /\ f[1] = s[1]
          /\ \A i \in 2..n : f[i] = f[i - 1] \o s[i]
          /\ FlattenSeq(s) = f[n]
    <3> DEFINE V == Nat
    <3>1. Len(s) > 0 /\ s \in Seq(Seq(V))
      BY <1>1, <1>3, <1>6
    <3> HIDE DEF V
    <3>2. \E f \in [1..Len(s) -> Seq(V)] :
            /\ f[1] = s[1]
            /\ \A i \in 2..Len(s) : f[i] = f[i - 1] \o s[i]
            /\ FlattenSeq(s) = f[Len(s)]
      BY <3>1, Flattened
    <3> QED
      BY <1>3, <3>2 DEF V
  <2> DEFINE pre == [i \in 1..n |-> IF i = 1 THEN <<>> ELSE f[i - 1]]
             Read(i) == [whole |-> SubSeq(numbers, 1, i), part |-> 0, unit |-> 1]
             T == {i \in Nat : i \in 1..n => /\ f[i] = pre[i] \o s[i]
                                             /\ pre[i] \in Seq(Nat)
                                             /\ Varints(pre[i]) = Read(i - 1)
                                             /\ Varints(f[i]) = Read(i)}
  <2>2. ASSUME NEW i \in 1..n, NEW p \in Seq(Nat), Varints(p) = Read(i - 1)
        PROVE  /\ Varints(p \o s[i]) = Read(i)
               /\ Varints(p \o Cut(s[i])).whole = SubSeq(numbers, 1, i - 1)
    <3> DEFINE v == numbers[i]
               w == SubSeq(numbers, 1, i - 1)
    <3>1. v \in Nat /\ s[i] = Digits[v] /\ ReadsAs(s[i], v)
      BY <1>1, ReadsEach DEF s, ReadsOne
    <3>2. Varints(p).whole = w /\ Varints(p).part = 0 /\ Varints(p).unit = 1
      BY <2>2
    <3>3. 0 + v * 1 = v
      BY <3>1
    <3>4. Append(w, v) = SubSeq(numbers, 1, i)
      BY <1>1
    <3> HIDE DEF v, w
    <3>5. Varints(p).unit >= 1
      BY <3>2
    <3>6. /\ Varints(p \o s[i]) = [whole |-> Append(w, 0 + v * 1), part |-> 0, unit |-> 1]
          /\ Varints(p \o Cut(s[i])).whole = w
      BY <3>1, <3>2, <3>5 DEF ReadsAs
    <3> QED
      BY <3>3, <3>4, <3>6 DEF w
  <2> DEFINE one == 1
  <2>3. one \in T
    <3>1. 1 \in 1..n /\ pre[1] = <<>> /\ SubSeq(numbers, 1, 0) = <<>>
      BY <1>1, <1>6
    <3>2. Varints(pre[1]) = Read(1 - 1)
      <4>1. Varints(pre[1]) = [whole |-> <<>>, part |-> 0, unit |-> 1]
        BY <3>1, VarintsNothing DEF Start
      <4>2. Read(1 - 1) = [whole |-> <<>>, part |-> 0, unit |-> 1]
        <5>1. 1 - 1 = 0
          OBVIOUS
        <5> QED
          BY <3>1, <5>1
      <4> HIDE DEF Read, pre
      <4> QED
        BY <4>1, <4>2
    <3>3. f[1] = pre[1] \o s[1] /\ pre[1] \in Seq(Nat)
      BY <1>2, <2>1, <3>1
    <3> HIDE DEF Read, pre
    <3>4. Varints(f[1]) = Read(1)
      BY <2>2, <3>1, <3>2, <3>3
    <3> QED
      BY <3>2, <3>3, <3>4
  <2>4. ASSUME NEW i \in one..(n - 1), i \in T PROVE i + 1 \in T
    <3>1. i \in 1..n /\ i + 1 \in 2..n /\ i + 1 \in 1..n /\ (i + 1) - 1 = i /\ i + 1 # 1
          /\ i + 1 \in Nat
      BY <1>1
    <3>2. pre[i + 1] = f[i] /\ f[i] \in Seq(Nat)
      BY <2>1, <3>1
    <3> HIDE DEF pre
    <3>3. f[i + 1] = pre[i + 1] \o s[i + 1]
      BY <2>1, <3>1, <3>2
    <3>4. Varints(f[i]) = Read(i)
      BY <2>4, <3>1
    <3> HIDE DEF Read
    <3>5. Varints(pre[i + 1]) = Read((i + 1) - 1)
      BY <3>1, <3>2, <3>4
    <3>6. Varints(f[i + 1]) = Read(i + 1)
      BY <2>2, <3>1, <3>2, <3>3, <3>5
    <3> QED
      BY <3>1, <3>2, <3>3, <3>5, <3>6
  <2>5. n \in T /\ n \in 1..n
    <3>1. n \in one..n /\ one \in Nat
      BY <1>1, <1>6
    <3> HIDE DEF T, one, n
    <3>2. \A i \in one..n : i \in T
      BY <1>1, <2>3, <2>4, <3>1, Upwards
    <3> QED
      BY <3>1, <3>2 DEF one
  <2>6. f[n] = pre[n] \o s[n] /\ pre[n] \in Seq(Nat)
        /\ Varints(pre[n]) = Read(n - 1) /\ Varints(f[n]) = Read(n) /\ f[n] \in Seq(Nat)
    BY <2>1, <2>5
  <2>7. SubSeq(numbers, 1, n) = numbers
    BY <1>1
  <2>8. Cut(f[n]) = pre[n] \o Cut(s[n]) /\ f[n] # <<>>
    <3> DEFINE a == pre[n]
               b == s[n]
    <3>1. a \in Seq(Nat) /\ b \in Seq(Nat) /\ b # <<>>
      BY <1>2, <2>5, <2>6
    <3> HIDE DEF a, b
    <3>2. Cut(a \o b) = a \o Cut(b) /\ a \o b # <<>>
      BY <3>1 DEF Cut
    <3> QED
      BY <2>6, <3>2 DEF a, b
  <2>9. Varints(Cut(f[n])).whole = Cut(numbers)
    <3> HIDE DEF pre
    <3> QED
      BY <2>2, <2>5, <2>6, <2>8 DEF Cut
  <2>10. f[n] \in Seq(Nat) /\ Varints(f[n]) = [whole |-> numbers, part |-> 0, unit |-> 1]
    BY <2>6, <2>7
  <2> QED
    BY <1>4, <2>1, <2>8, <2>9, <2>10
<1> QED
  BY <1>5, <1>6


-----------------------------------------------------------------------------
(* From differences to points.                                             *)

Gap(line, k, j) == line[k][j] - (IF k = 1 THEN 0 ELSE line[k - 1][j])

LEMMA SignedBack ==
  ASSUME NEW d \in Int
  PROVE  Unsigned(d) \in Nat /\ Signed(Unsigned(d)) = d
<1>1. CASE d < 0
  <2> DEFINE u == -2 * d - 1
  <2>1. u \in Nat /\ u % 2 = 1 /\ u \div 2 = -d - 1
    BY <1>1
  <2>2. Unsigned(d) = u
    BY <1>1 DEF Unsigned
  <2> HIDE DEF u
  <2> QED
    BY <2>1, <2>2 DEF Signed
<1>2. CASE d >= 0
  <2> DEFINE u == 2 * d
  <2>1. u \in Nat /\ u % 2 = 0 /\ u \div 2 = d
    BY <1>2
  <2>2. Unsigned(d) = u
    BY <1>2 DEF Unsigned
  <2> HIDE DEF u
  <2> QED
    BY <2>1, <2>2 DEF Signed
<1> QED
  BY <1>1, <1>2

LEMMA GapsAre ==
  ASSUME NEW line \in Seq(Int \X Int), NEW k \in 1..Len(line), NEW j \in {1, 2}
  PROVE  Gap(line, k, j) \in Int
<1> DEFINE here == line[k][j]
           before == line[k - 1][j]
<1>1. \A i \in 1..Len(line) : line[i] \in Int \X Int
  OBVIOUS
<1>2. here \in Int
  BY <1>1
<1>3. k # 1 => before \in Int
  <2>1. k # 1 => k - 1 \in 1..Len(line)
    OBVIOUS
  <2> QED
    BY <1>1, <2>1
<1>4. Gap(line, k, j) = here - (IF k = 1 THEN 0 ELSE before)
  BY DEF Gap
<1> HIDE DEF here, before
<1>5. k = 1 => Gap(line, k, j) \in Int
  BY <1>2, <1>4
<1>6. k # 1 => Gap(line, k, j) \in Int
  BY <1>2, <1>3, <1>4
<1> QED
  BY <1>5, <1>6

LEMMA Placed ==
  ASSUME NEW n \in Nat, NEW k \in 1..n, NEW arity \in {2, 3}, NEW j \in {1, 2}
  PROVE  /\ arity * (k - 1) + j \in 1..(arity * n)
         /\ 1 + ((arity * (k - 1) + j - 1) \div arity) = k
         /\ 1 + ((arity * (k - 1) + j - 1) % arity) = j
<1> DEFINE q == k - 1
<1>1. q \in Nat /\ q + 1 = k /\ q < n
  OBVIOUS
<1> SUFFICES /\ arity * q + j \in 1..(arity * n)
             /\ (arity * q + j - 1) \div arity = q
             /\ (arity * q + j - 1) % arity = j - 1
  BY <1>1
<1> HIDE DEF q
<1>2. CASE arity = 2 /\ j = 1
  BY <1>1, <1>2
<1>3. CASE arity = 2 /\ j = 2
  BY <1>1, <1>3
<1>4. CASE arity = 3 /\ j = 1
  BY <1>1, <1>4
<1>5. CASE arity = 3 /\ j = 2
  BY <1>1, <1>5
<1> QED
  BY <1>2, <1>3, <1>4, <1>5

LEMMA DeltasAre ==
  ASSUME NEW line \in Seq(Int \X Int), NEW arity \in {2, 3}
  PROVE  /\ Deltas(line, arity) \in Seq(Nat)
         /\ Len(Deltas(line, arity)) = arity * Len(line)
         /\ \A k \in 1..Len(line), j \in {1, 2} :
              /\ arity * (k - 1) + j \in 1..(arity * Len(line))
              /\ Deltas(line, arity)[arity * (k - 1) + j] = Unsigned(Gap(line, k, j))
<1> DEFINE n == Len(line)
           m == arity * n
           K(i) == 1 + ((i - 1) \div arity)
           J(i) == 1 + ((i - 1) % arity)
           I(k, j) == arity * (k - 1) + j
           Of(i) == Unsigned(IF J(i) = 3 THEN 1 ELSE Gap(line, K(i), J(i)))
           ds == Deltas(line, arity)
<1>1. n \in Nat /\ m \in Nat
  OBVIOUS
<1>2. ds = [i \in 1..m |-> Of(i)]
  BY DEF Deltas, Gap
<1>3. ASSUME NEW i \in 1..m PROVE K(i) \in 1..n /\ J(i) \in {1, 2, 3}
  <2>1. CASE arity = 2
    BY <1>1, <2>1
  <2>2. CASE arity = 3
    BY <1>1, <2>2
  <2> QED
    BY <2>1, <2>2
<1>4. ASSUME NEW i \in 1..m PROVE Of(i) \in Nat
  <2> HIDE DEF K, J, n
  <2>1. CASE J(i) = 3
    BY <2>1, SignedBack
  <2>2. CASE J(i) # 3
    <3>1. Gap(line, K(i), J(i)) \in Int
      BY <1>3, <2>2, GapsAre DEF n
    <3> QED
      BY <2>2, <3>1, SignedBack
  <2> QED
    BY <2>1, <2>2
<1>5. ds \in Seq(Nat) /\ Len(ds) = m
  <2> HIDE DEF Of, ds, m
  <2> QED
    BY <1>1, <1>2, <1>4
<1>6. ASSUME NEW k \in 1..n, NEW j \in {1, 2}
      PROVE  I(k, j) \in 1..m /\ K(I(k, j)) = k /\ J(I(k, j)) = j
  BY <1>1, Placed
<1>7. ASSUME NEW k \in 1..n, NEW j \in {1, 2}
      PROVE  /\ arity * (k - 1) + j \in 1..m
             /\ ds[arity * (k - 1) + j] = Unsigned(Gap(line, k, j))
  <2>1. j # 3
    OBVIOUS
  <2> HIDE DEF I, K, J, m, ds
  <2>2. I(k, j) \in 1..m /\ K(I(k, j)) = k /\ J(I(k, j)) = j
    BY <1>6
  <2>3. ds[I(k, j)] = Unsigned(Gap(line, k, j))
    BY <1>2, <2>1, <2>2
  <2> QED
    BY <2>2, <2>3 DEF I
<1> HIDE DEF ds
<1> QED
  BY <1>5, <1>7 DEF ds

Moved(numbers, arity, line, k) ==
  LET from == IF line = <<>> THEN <<0, 0>> ELSE line[Len(line)]
  IN  Append(line, <<from[1] + Signed(numbers[arity * (k - 1) + 1]),
                     from[2] + Signed(numbers[arity * (k - 1) + 2])>>)

Grown(V, line, k) ==
  /\ k + 1 \in 1..Len(line) /\ line[k + 1] \in V
  /\ Len(SubSeq(line, 1, k)) = k
  /\ Append(SubSeq(line, 1, k), line[k + 1]) = SubSeq(line, 1, k + 1)
  /\ k = 0 => SubSeq(line, 1, k) = <<>>
  /\ k # 0 => /\ SubSeq(line, 1, k) # <<>>
              /\ SubSeq(line, 1, k)[k] = line[k]
              /\ line[k] \in V

LEMMA Growing ==
  ASSUME NEW V, NEW line \in Seq(V), NEW k \in Nat, k < Len(line)
  PROVE  Grown(V, line, k)
BY DEF Grown

\* The numbers are the differences between the first N points of a line.
GapsOf(numbers, arity, line, N) ==
  /\ N = Len(numbers) \div arity
  /\ \A k \in 1..N, j \in {1, 2} :
       numbers[arity * (k - 1) + j] = Unsigned(Gap(line, k, j))

LEMMA PointsAre ==
  ASSUME NEW arity \in {2, 3}, NEW numbers \in Seq(Nat), NEW line \in Seq(Int \X Int),
         NEW N \in Nat, N <= Len(line), GapsOf(numbers, arity, line, N)
  PROVE  Points(numbers, arity) = SubSeq(line, 1, N)
<1> DEFINE A == Seq(Int \X Int)
           seq == [k \in 1..N |-> k]
           Move(l, k) == Moved(numbers, arity, l, k)
           then == [p \in A \X (1..N) |-> Move(p[1], p[2])]
           Eq(it) == it = [s \in SUBSET (DOMAIN seq) |->
                             IF s = {} THEN <<>>
                             ELSE Move(it[s \ {Max(s)}], seq[Max(s)])]
           f == CHOOSE it : Eq(it)
           base == <<>>
<1>1. Points(numbers, arity) = f[DOMAIN seq]
  BY DEF Points, FoldLeft, MapThenFoldSet, Moved, GapsOf
<1>2. DOMAIN seq = 1..N
  OBVIOUS
<1>3. ASSUME NEW k \in 1..N, NEW j \in {1, 2}
      PROVE  Signed(numbers[arity * (k - 1) + j]) = Gap(line, k, j) /\ Gap(line, k, j) \in Int
  <2>1. k \in 1..Len(line)
    OBVIOUS
  <2> QED
    BY <2>1, GapsAre, SignedBack DEF GapsOf
<1>4. base \in A
  OBVIOUS
<1>5. ASSUME NEW l \in A, NEW k \in 1..N PROVE Move(l, k) \in A
  <2> DEFINE from == IF l = <<>> THEN <<0, 0>> ELSE l[Len(l)]
  <2>1. from \in Int \X Int
    <3>1. CASE l = <<>>
      BY <3>1
    <3>2. CASE l # <<>>
      <4>1. Len(l) \in 1..Len(l)
        BY <3>2
      <4> QED
        BY <3>2, <4>1
    <3> QED
      BY <3>1, <3>2
  <2>2. Signed(numbers[arity * (k - 1) + 1]) \in Int /\ Signed(numbers[arity * (k - 1) + 2]) \in Int
    BY <1>3
  <2> DEFINE a == Signed(numbers[arity * (k - 1) + 1])
             b == Signed(numbers[arity * (k - 1) + 2])
  <2>3. Move(l, k) = Append(l, <<from[1] + a, from[2] + b>>)
    BY DEF Moved
  <2> HIDE DEF Move, from, a, b
  <2>4. <<from[1] + a, from[2] + b>> \in Int \X Int
    <3>1. from[1] + a \in Int
      BY <2>1, <2>2 DEF a
    <3>2. from[2] + b \in Int
      BY <2>1, <2>2 DEF b
    <3> QED
      BY <3>1, <3>2
  <2> QED
    BY <2>3, <2>4
<1>6. \A a \in A, k \in 1..N : then[<<a, k>>] \in A
  <2> HIDE DEF A, Move
  <2> QED
    BY <1>5
<1>7. PICK it : it \in Lefts(N, A, base, then)
  <2> HIDE DEF A, then, base
  <2> QED
    BY <1>4, <1>6, LeftFoldExists
<1>8. /\ it[1..0] = base
      /\ \A k \in 0..N : it[1..k] \in A
      /\ \A k \in 1..N : it[1..k] = then[<<it[1..(k - 1)], k>>]
  <2> HIDE DEF A, then, base
  <2> QED
    BY <1>4, <1>7, LeftFold
<1>9. ASSUME NEW s \in SUBSET (1..N)
      PROVE  it[s] = IF s = {} THEN <<>> ELSE Move(it[s \ {Max(s)}], seq[Max(s)])
  <2>1. s # {} => Top(N)[s] = Max(s) /\ Max(s) \in 1..N
    BY TopTakes
  <2>2. s # {} => it[s \ {Max(s)}] \in A
    <3> HIDE DEF A, then, base
    <3> QED
      BY <1>7 DEF Lefts, FoldsOf
  <2>3. it[s] = Folded(base, Top(N), then, it, s)
    <3> HIDE DEF A, then, base
    <3> QED
      BY <1>7 DEF Lefts, FoldsOf
  <2> HIDE DEF A, Move
  <2> QED
    BY <2>1, <2>2, <2>3 DEF Folded
<1>10. Eq(it)
  <2>1. it = [s \in SUBSET (1..N) |-> it[s]]
    <3> HIDE DEF A, then, base
    <3> QED
      BY <1>7 DEF Lefts, FoldsOf
  <2> HIDE DEF Move, seq
  <2> QED
    BY <1>2, <1>9, <2>1
<1>11. Eq(f)
  BY <1>10
<1> HIDE DEF f
<1>12. Solves(f, N, A, base, then)
  <2>1. DOMAIN f = SUBSET (1..N) /\ f[{}] = base
    BY <1>2, <1>11
  <2>2. ASSUME NEW s \in SUBSET (1..N), s # {}, f[s \ {Max(s)}] \in A
        PROVE  f[s] = then[<<f[s \ {Max(s)}], Max(s)>>]
    <3>1. Max(s) \in 1..N
      BY <2>2, TopTakes
    <3>2. f[s] = Move(f[s \ {Max(s)}], seq[Max(s)])
      <4> HIDE DEF Move, seq
      <4> QED
        BY <1>2, <1>11, <2>2
    <3> HIDE DEF A, Move
    <3> QED
      BY <2>2, <3>1, <3>2
  <2> HIDE DEF A, then, base
  <2> QED
    BY <2>1, <2>2 DEF Solves
<1>13. Points(numbers, arity) = it[1..N]
  <2> HIDE DEF A, then, base, seq
  <2>1. \A s \in SUBSET (1..N) : f[s] = it[s]
    BY <1>4, <1>7, <1>12, SolvesFold
  <2> QED
    BY <1>1, <1>2, <2>1
<1> DEFINE pairs == Int \X Int
<1>22. line \in Seq(pairs)
  OBVIOUS
<1> DEFINE T == {k \in Nat : it[1..k] = SubSeq(line, 1, k)}
           zero == 0
<1>14. zero \in T /\ zero \in Nat
  <2>1. SubSeq(line, 1, 0) = <<>>
    OBVIOUS
  <2> QED
    BY <1>8, <2>1
<1>15. ASSUME NEW k \in zero..(N - 1), k \in T PROVE k + 1 \in T
  <2> DEFINE l == SubSeq(line, 1, k)
             m == k + 1
  <2>1. k \in 0..N /\ m \in 1..N /\ m - 1 = k /\ m \in Nat /\ k \in Nat
    OBVIOUS
  <2>0. k < Len(line)
    <3> DEFINE n == Len(line)
    <3>1. n \in Nat /\ N <= n /\ k \in 0..(N - 1)
      OBVIOUS
    <3> HIDE DEF n
    <3>2. k < n
      BY <3>1
    <3> QED
      BY <3>2 DEF n
  <2>2. it[1..m] = then[<<it[1..(m - 1)], m>>] /\ it[1..k] = l
    <3> HIDE DEF then, m
    <3> QED
      BY <1>8, <1>15, <2>1
  <2>3. l \in A
    BY <1>8, <2>1, <2>2
  <2>4. it[1..m] = Move(l, m)
    <3> HIDE DEF Move, A, m, l
    <3> QED
      BY <2>1, <2>2, <2>3
  <2>5. Move(l, m) = Append(l, line[m])
    <3> DEFINE from == IF l = <<>> THEN <<0, 0>> ELSE l[Len(l)]
    <3>1. /\ Len(l) = k /\ line[m] \in pairs
          /\ k = 0 => l = <<>>
          /\ k # 0 => l # <<>> /\ l[k] = line[k] /\ line[k] \in pairs
      <4>1. Grown(pairs, line, k)
        <5> HIDE DEF pairs
        <5> QED
          BY <2>0, <2>1, <1>22, Growing
      <4> HIDE DEF pairs
      <4> QED
        BY <4>1 DEF Grown
    <3>2. Move(l, m) = Append(l, <<from[1] + Gap(line, m, 1), from[2] + Gap(line, m, 2)>>)
      <4>1. /\ Signed(numbers[arity * (m - 1) + 1]) = Gap(line, m, 1)
            /\ Signed(numbers[arity * (m - 1) + 2]) = Gap(line, m, 2)
        BY <1>3, <2>1
      <4> HIDE DEF l, m
      <4> QED
        BY <4>1 DEF Moved
    <3>3. ASSUME NEW j \in {1, 2} PROVE from[j] + Gap(line, m, j) = line[m][j]
      <4> DEFINE x == line[m][j]
      <4>1. x \in Int
        BY <3>1 DEF pairs
      <4>2. CASE k = 0
        <5>1. l = <<>> /\ m = 1
          BY <3>1, <4>2
        <5>2. from[j] = 0
          BY <5>1
        <5>3. Gap(line, m, j) = x - 0
          BY <5>1 DEF Gap
        <5> HIDE DEF from, l, m, x
        <5>4. from[j] + Gap(line, m, j) = x
          BY <4>1, <5>2, <5>3
        <5> QED
          BY <5>4 DEF x
      <4>3. CASE k # 0
        <5> DEFINE y == line[k][j]
        <5>1. l # <<>> /\ l[Len(l)] = line[k] /\ m # 1
          <6>1. m # 1
            BY <2>1, <4>3
          <6> HIDE DEF l, m
          <6> QED
            BY <3>1, <4>3, <6>1
        <5>2. from = line[k] /\ y \in Int
          BY <3>1, <4>3, <5>1 DEF pairs
        <5>3. Gap(line, m, j) = x - y
          <6> HIDE DEF l, m
          <6> QED
            BY <2>1, <5>1 DEF Gap
        <5>4. from[j] = y
          BY <5>2
        <5> HIDE DEF from, l, m, x, y
        <5>5. from[j] + Gap(line, m, j) = x
          BY <4>1, <5>2, <5>3, <5>4
        <5> QED
          BY <5>5 DEF x
      <4> QED
        BY <4>2, <4>3
    <3>4. line[m] = <<line[m][1], line[m][2]>>
      <4> DEFINE p == line[m]
      <4>1. p \in Int \X Int
        BY <3>1 DEF pairs
      <4> HIDE DEF p
      <4>2. p = <<p[1], p[2]>>
        BY <4>1
      <4> QED
        BY <4>2 DEF p
    <3> HIDE DEF from, Move, l, m
    <3> QED
      BY <3>2, <3>3, <3>4
  <2>6. Append(l, line[m]) = SubSeq(line, 1, m)
    <3>1. Grown(pairs, line, k)
      <4> HIDE DEF pairs
      <4> QED
        BY <2>0, <2>1, <1>22, Growing
    <3> QED
      BY <3>1 DEF Grown
  <2> HIDE DEF l, m
  <2>7. m \in T
    <3> HIDE DEF Move
    <3> QED
      BY <2>1, <2>4, <2>5, <2>6
  <2> QED
    BY <2>7 DEF m
<1>16. N \in zero..N
  OBVIOUS
<1> HIDE DEF T, zero
<1>17. N \in T
  <2>1. \A k \in zero..N : k \in T
    BY <1>14, <1>15, Upwards
  <2> QED
    BY <1>16, <2>1
<1> QED
  BY <1>13, <1>17 DEF T


-----------------------------------------------------------------------------
(* What the decoders make of what the services write.                      *)

LEMMA PolylineTrue ==
  ASSUME NEW line \in Seq(Int \X Int)
  PROVE  /\ DecodePolyline(EncodePolyline(line)) = line
         /\ DecodePolyline(Cut(EncodePolyline(line))) = SubSeq(line, 1, Len(line) - 1)
<1> DEFINE ds == Deltas(line, 2)
           n == Len(line)
           text == EncodePolyline(line)
<1>1. /\ ds \in Seq(Nat) /\ Len(ds) = 2 * n /\ n \in Nat
      /\ \A k \in 1..n, j \in {1, 2} :
           /\ 2 * (k - 1) + j \in 1..(2 * n)
           /\ ds[2 * (k - 1) + j] = Unsigned(Gap(line, k, j))
  BY DeltasAre
<1>2. text = Written(ds)
  BY DEF EncodePolyline
<1> HIDE DEF ds, text
<1>3. /\ Varints(text).whole = ds
      /\ ds # <<>> => Varints(Cut(text)).whole = Cut(ds)
  BY <1>1, <1>2, WrittenReads
<1>4. Points(ds, 2) = SubSeq(line, 1, n)
  <2>1. GapsOf(ds, 2, line, n)
    BY <1>1 DEF GapsOf
  <2> DEFINE arity == 2
  <2>2. arity \in {2, 3} /\ GapsOf(ds, arity, line, n) /\ n <= Len(line)
    BY <1>1, <2>1
  <2> HIDE DEF arity, n
  <2>3. Points(ds, arity) = SubSeq(line, 1, n)
    BY <1>1, <2>2, PointsAre
  <2> QED
    BY <2>3 DEF arity
<1>5. SubSeq(line, 1, n) = line
  OBVIOUS
<1>6. DecodePolyline(text) = line
  BY <1>3, <1>4, <1>5 DEF DecodePolyline
<1>7. CASE n = 0
  <2>1. ds = <<>> /\ line = <<>>
    BY <1>1, <1>7
  <2>2. text = <<>>
    BY <1>2, <2>1 DEF Written, FlattenSeq
  <2>3. Cut(text) = text /\ SubSeq(line, 1, n - 1) = line
    BY <1>7, <2>1, <2>2 DEF Cut
  <2> QED
    BY <1>6, <2>3 DEF text
<1>8. CASE n # 0
  <2> DEFINE m == n - 1
             cut == Cut(ds)
  <2>1. m \in Nat /\ m <= Len(line) /\ ds # <<>>
    BY <1>1, <1>8
  <2>2. /\ cut \in Seq(Nat) /\ Len(cut) = 2 * m + 1
        /\ \A i \in 1..(2 * m) : cut[i] = ds[i]
    BY <1>1, <1>8 DEF Cut
  <2>3. Len(cut) \div 2 = m
    BY <2>1, <2>2
  <2>4. \A k \in 1..m, j \in {1, 2} :
          k \in 1..n /\ 2 * (k - 1) + j \in 1..(2 * m)
    <3> DEFINE arity == 2
    <3>1. arity \in {2, 3} /\ 1..m \subseteq 1..n
      BY <1>1, <2>1
    <3> HIDE DEF arity, m, n
    <3>2. \A k \in 1..m, j \in {1, 2} : arity * (k - 1) + j \in 1..(arity * m)
      BY <2>1, <3>1, Placed
    <3> QED
      BY <3>1, <3>2 DEF arity
  <2>5. GapsOf(cut, 2, line, m)
    <3> HIDE DEF cut, m
    <3> QED
      BY <1>1, <2>2, <2>3, <2>4 DEF GapsOf
  <2> DEFINE arity == 2
  <2>6. arity \in {2, 3} /\ GapsOf(cut, arity, line, m)
    BY <2>5
  <2> HIDE DEF arity, m, cut
  <2>7. Points(cut, arity) = SubSeq(line, 1, m)
    BY <2>1, <2>2, <2>6, PointsAre
  <2>8. DecodePolyline(Cut(text)) = Points(cut, 2)
    BY <1>3, <2>1 DEF DecodePolyline, cut
  <2> QED
    BY <1>6, <2>7, <2>8 DEF arity, m, text
<1> QED
  BY <1>7, <1>8

LEMMA Headed ==
  ASSUME NEW a \in Nat, NEW b \in Nat, NEW ds \in Seq(Nat)
  PROVE  LET all == <<a, b>> \o ds
         IN  /\ all \in Seq(Nat) /\ all # <<>> /\ Len(all) = 2 + Len(ds)
             /\ all[1] = a /\ all[2] = b
             /\ SubSeq(all, 3, Len(all)) = ds
<1> DEFINE head == <<a, b>>
           all == head \o ds
<1>1. head \in Seq(Nat) /\ Len(head) = 2 /\ head[1] = a /\ head[2] = b
  OBVIOUS
<1> HIDE DEF head
<1>2. /\ all \in Seq(Nat) /\ Len(all) = 2 + Len(ds)
      /\ \A i \in 1..2 : all[i] = head[i]
      /\ \A i \in 1..Len(ds) : all[2 + i] = ds[i]
  <2> DEFINE nats == Nat
  <2>1. head \in Seq(nats) /\ ds \in Seq(nats)
    BY <1>1
  <2> HIDE DEF nats
  <2>2. /\ head \o ds \in Seq(nats)
        /\ Len(head \o ds) = Len(head) + Len(ds)
        /\ \A i \in 1..(Len(head) + Len(ds)) :
             (head \o ds)[i] = IF i <= Len(head) THEN head[i] ELSE ds[i - Len(head)]
    BY <2>1, ConcatProperties
  <2>3. /\ all \in Seq(nats) /\ Len(all) = 2 + Len(ds) /\ Len(ds) \in Nat
        /\ \A i \in 1..(2 + Len(ds)) : all[i] = IF i <= 2 THEN head[i] ELSE ds[i - 2]
    BY <1>1, <2>2
  <2> HIDE DEF all
  <2>4. \A i \in 1..2 : all[i] = head[i]
    BY <2>3
  <2>5. ASSUME NEW i \in 1..Len(ds) PROVE all[2 + i] = ds[i]
    <3>1. 2 + i \in 1..(2 + Len(ds)) /\ ~ (2 + i <= 2) /\ (2 + i) - 2 = i
      BY <2>3
    <3> QED
      BY <2>3, <3>1
  <2> QED
    BY <2>3, <2>4, <2>5 DEF nats
<1> HIDE DEF all
<1>3. SubSeq(all, 3, Len(all)) = ds
  <2>1. Len(ds) \in Nat
    OBVIOUS
  <2>2. SubSeq(all, 3, Len(all)) = [i \in 1..Len(ds) |-> all[2 + i]]
    <3> DEFINE n == Len(ds)
               sub == SubSeq(all, 3, Len(all))
    <3>1. /\ sub \in Seq(Nat) /\ Len(sub) = n
          /\ \A i \in 1..n : sub[i] = all[3 + i - 1] /\ 3 + i - 1 = 2 + i
      BY <1>2, <2>1
    <3> HIDE DEF sub, n
    <3>2. sub = [i \in 1..n |-> sub[i]]
      BY <3>1
    <3>3. sub = [i \in 1..n |-> all[2 + i]]
      BY <3>1, <3>2
    <3> QED
      BY <3>3 DEF sub, n
  <2>3. ds = [i \in 1..Len(ds) |-> ds[i]]
    OBVIOUS
  <2> QED
    BY <1>2, <2>2, <2>3
<1>4. all # <<>>
  BY <1>2
<1>5. all[1] = a /\ all[2] = b
  BY <1>1, <1>2
<1> QED
  BY <1>2, <1>3, <1>4, <1>5 DEF all, head

LEMMA Shorter ==
  ASSUME NEW all \in Seq(Nat), NEW p \in Nat, Len(all) = 2 + p
  PROVE  /\ Cut(all) \in Seq(Nat) /\ Len(Cut(all)) = 1 + p
         /\ Cut(all)[1] = all[1] /\ Cut(all) # <<>>
         /\ p > 0 => Cut(all)[2] = all[2]
         /\ p > 0 => Len(SubSeq(Cut(all), 3, Len(Cut(all)))) = p - 1
<1> DEFINE r == Cut(all)
<1>1. /\ r \in Seq(Nat) /\ Len(r) = 1 + p
      /\ \A i \in 1..(1 + p) : r[i] = all[i]
  BY DEF Cut
<1> HIDE DEF r
<1>2. r # <<>> /\ r[1] = all[1] /\ (p > 0 => r[2] = all[2])
  BY <1>1
<1>3. p > 0 => Len(SubSeq(r, 3, Len(r))) = p - 1
  <2>1. Len(SubSeq(r, 3, Len(r))) = IF 3 <= Len(r) THEN Len(r) - 2 ELSE 0
    BY <1>1
  <2> QED
    BY <1>1, <2>1
<1> QED
  BY <1>1, <1>2, <1>3 DEF r

LEMMA FlexibleTrue ==
  ASSUME NEW line \in Seq(Int \X Int), NEW third \in {0, 2}
  PROVE  /\ DecodeFlexible(EncodeFlexible(line, third)) = [ok |-> TRUE, line |-> line]
         /\ ~ DecodeFlexible(Cut(EncodeFlexible(line, third))).ok
<1> DEFINE arity == IF third = 0 THEN 2 ELSE 3
           ds == Deltas(line, arity)
           n == Len(line)
           head == <<1, 5 + 16 * third>>
           all == head \o ds
           text == EncodeFlexible(line, third)
           cut == Cut(text)
<1>1. arity \in {2, 3} /\ n \in Nat /\ arity * n \in Nat
  OBVIOUS
<1>2. /\ ds \in Seq(Nat) /\ Len(ds) = arity * n
      /\ \A k \in 1..n, j \in {1, 2} :
           /\ arity * (k - 1) + j \in 1..(arity * n)
           /\ ds[arity * (k - 1) + j] = Unsigned(Gap(line, k, j))
  <2> HIDE DEF arity
  <2> QED
    BY <1>1, DeltasAre
<1>3. text = Written(all)
  BY DEF EncodeFlexible
<1>5. /\ (5 + 16 * third) \in Nat
      /\ (IF ((5 + 16 * third) \div 16) % 8 = 0 THEN 2 ELSE 3) = arity
  OBVIOUS
<1> HIDE DEF ds, text, arity, head
<1>6. /\ all \in Seq(Nat) /\ all # <<>> /\ Len(all) = 2 + arity * n
      /\ all[1] = 1 /\ all[2] = 5 + 16 * third
      /\ SubSeq(all, 3, Len(all)) = ds
  <2> DEFINE a == 1
             b == 5 + 16 * third
  <2>1. a \in Nat /\ b \in Nat /\ all = <<a, b>> \o ds
    BY <1>5 DEF head
  <2> HIDE DEF a, b, all
  <2>2. /\ all \in Seq(Nat) /\ all # <<>> /\ Len(all) = 2 + Len(ds)
        /\ all[1] = a /\ all[2] = b
        /\ SubSeq(all, 3, Len(all)) = ds
    BY <1>2, <2>1, Headed
  <2> QED
    BY <1>2, <2>2 DEF a, b
<1> HIDE DEF all
<1>7. /\ text \in Seq(Nat) /\ text # <<>>
      /\ Varints(text) = [whole |-> all, part |-> 0, unit |-> 1]
      /\ Varints(cut).whole = Cut(all)
  BY <1>3, <1>6, WrittenReads
<1>8. (arity * n) % arity = 0 /\ (arity * n) \div arity = n
  <2>1. CASE arity = 2
    BY <1>1, <2>1
  <2>2. CASE arity = 3
    BY <1>1, <2>2
  <2> QED
    BY <1>1, <2>1, <2>2
<1>9. Points(ds, arity) = line
  <2>1. GapsOf(ds, arity, line, n) /\ n <= Len(line)
    BY <1>1, <1>2, <1>8 DEF GapsOf
  <2>2. Points(ds, arity) = SubSeq(line, 1, n)
    <3> HIDE DEF n
    <3> QED
      BY <1>1, <1>2, <2>1, PointsAre
  <2> QED
    BY <2>2
<1>10. DecodeFlexible(text) = [ok |-> TRUE, line |-> line]
  <2>1. Varints(text).whole = all /\ Varints(text).unit = 1
    BY <1>7
  <2>2. all[1] % 16 = 1 /\ Len(all) # 1 /\ Len(ds) % arity = 0
    BY <1>1, <1>2, <1>6, <1>8
  <2>3. ~ CutOff(text)
    BY <2>1 DEF CutOff
  <2>4. (IF (all[2] \div 16) % 8 = 0 THEN 2 ELSE 3) = arity
    BY <1>5, <1>6
  <2> QED
    BY <1>6, <1>7, <1>9, <2>1, <2>2, <2>3, <2>4 DEF DecodeFlexible
<1>11. ~ DecodeFlexible(cut).ok
  <2> DEFINE rest == Cut(all)
             body == SubSeq(rest, 3, Len(rest))
  <2> DEFINE p == arity * n
  <2>1. /\ rest \in Seq(Nat) /\ Len(rest) = 1 + p /\ rest[1] = 1 /\ rest # <<>>
        /\ p > 0 => rest[2] = 5 + 16 * third
        /\ p > 0 => Len(body) = p - 1
    <3>1. p \in Nat /\ Len(all) = 2 + p
      BY <1>1, <1>6
    <3> HIDE DEF p
    <3> QED
      BY <1>6, <3>1, Shorter
  <2>2. cut # <<>>
    <3>1. Varints(<<>>).whole = <<>>
      BY VarintsNothing DEF Start
    <3> HIDE DEF cut
    <3> QED
      BY <1>7, <2>1, <3>1
  <2>3. Truncated.ok = FALSE
    BY DEF Truncated
  <2>4. n # 0 => Len(body) % (IF (rest[2] \div 16) % 8 = 0 THEN 2 ELSE 3) # 0
    <3>1. SUFFICES ASSUME n # 0 PROVE Len(body) % arity # 0 /\ rest[2] = 5 + 16 * third
      BY <1>5
    <3>2. p > 0
      BY <1>1, <3>1
    <3>3. Len(body) = arity * n - 1 /\ rest[2] = 5 + 16 * third
      BY <2>1, <3>2
    <3>4. (arity * n - 1) % arity # 0
      <4>1. CASE arity = 2
        BY <1>1, <4>1
      <4>2. CASE arity = 3
        BY <1>1, <4>2
      <4> QED
        BY <1>1, <4>1, <4>2
    <3> QED
      BY <3>3, <3>4
  <2>5. n = 0 => Len(rest) = 1
    BY <1>1, <2>1
  <2>6. Varints(cut).whole = rest
    BY <1>7
  <2> HIDE DEF cut, rest, n, arity
  <2> QED
    BY <2>1, <2>2, <2>3, <2>4, <2>5, <2>6 DEF DecodeFlexible
<1> QED
  BY <1>10, <1>11 DEF text

-----------------------------------------------------------------------------
(* The weather samples.                                                    *)

LEMMA Wants ==
  /\ WeatherWant \in Nat /\ WeatherWant > 1
  /\ HeightWant \in Nat /\ HeightWant > 0
BY RoutingConstants

\* Rounding is off by a half at most.
LEMMA HalfAtMost ==
  ASSUME NEW p \in Nat, NEW q \in Nat, q > 0
  PROVE  /\ Rounded(p, q) \in Nat
         /\ 2 * (Rounded(p, q) * q) <= 2 * p + q
         /\ 2 * p <= 2 * (Rounded(p, q) * q) + q
<1> DEFINE w == p \div q
           r == p % q
<1>1. w \in Nat /\ r \in Nat /\ r < q /\ p = w * q + r
  OBVIOUS
<1>2. (w + 1) * q = w * q + q /\ w * q \in Nat
  BY <1>1
<1>3. Rounded(p, q) = IF 2 * r > q \/ (2 * r = q /\ w % 2 = 1) THEN w + 1 ELSE w
  BY DEF Rounded
<1> HIDE DEF w, r
<1>4. CASE Rounded(p, q) = w /\ 2 * r <= q
  BY <1>1, <1>2, <1>4
<1>5. CASE Rounded(p, q) = w + 1 /\ 2 * r >= q
  BY <1>1, <1>2, <1>5
<1> QED
  BY <1>1, <1>3, <1>4, <1>5

\* Points that lie further apart than the divisor are rounded to different ones.
LEMMA FurtherOn ==
  ASSUME NEW p \in Nat, NEW n \in Nat, NEW q \in Nat, q > 0, n > q
  PROVE  Rounded(p, q) < Rounded(p + n, q)
<1> DEFINE a == Rounded(p, q)
           b == Rounded(p + n, q)
<1>1. /\ a \in Nat /\ 2 * (a * q) <= 2 * p + q
      /\ b \in Nat /\ 2 * (p + n) <= 2 * (b * q) + q
  <2>1. a \in Nat /\ 2 * (a * q) <= 2 * p + q
    BY HalfAtMost
  <2> DEFINE m == p + n
  <2>2. m \in Nat
    OBVIOUS
  <2> HIDE DEF m
  <2>3. Rounded(m, q) \in Nat /\ 2 * m <= 2 * (Rounded(m, q) * q) + q
    BY <2>2, HalfAtMost
  <2> QED
    BY <2>1, <2>3 DEF m
<1> HIDE DEF a, b
<1>2. a * q < b * q
  <2>1. a * q \in Nat /\ b * q \in Nat
    BY <1>1
  <2> QED
    BY <1>1, <2>1
<1>3. a < b
  <2> SUFFICES ASSUME b <= a PROVE FALSE
    BY <1>1
  <2>1. PICK c \in Nat : a = b + c
    BY <1>1
  <2>2. a * q = b * q + c * q /\ c * q \in Nat
    BY <1>1, <2>1
  <2> QED
    BY <1>1, <1>2, <2>2
<1> QED
  BY <1>3 DEF a, b

\* Nothing is lost where there is nothing to round.
LEMMA RoundedWhole ==
  ASSUME NEW n \in Nat, NEW q \in Nat, q > 0
  PROVE  Rounded(q * n, q) = n
<1>1. (q * n) \div q = n /\ (q * n) % q = 0
  <2>1. q * n \in Nat /\ q * n = n * q + 0
    OBVIOUS
  <2> DEFINE w == (q * n) \div q
             r == (q * n) % q
  <2>2. w \in Nat /\ r \in Nat /\ r < q /\ q * n = w * q + r
    BY <2>1
  <2> HIDE DEF w, r
  <2>3. w = n
    <3>1. CASE w < n
      <4>1. PICK c \in Nat : n = w + 1 + c
        BY <2>2, <3>1
      <4>2. n * q = w * q + q + c * q /\ c * q \in Nat
        BY <2>2, <4>1
      <4> QED
        BY <2>1, <2>2, <4>2
    <3>2. CASE n < w
      <4>1. PICK c \in Nat : w = n + 1 + c
        BY <2>2, <3>2
      <4>2. w * q = n * q + q + c * q /\ c * q \in Nat
        BY <2>2, <4>1
      <4> QED
        BY <2>1, <2>2, <4>2
    <3> QED
      BY <2>2, <3>1, <3>2
  <2>4. r = 0
    BY <2>1, <2>2, <2>3
  <2> QED
    BY <2>3, <2>4 DEF w, r
<1> QED
  BY <1>1 DEF Rounded

\* The samples of a line of n points: from the first to the last one, each further on.
LEMMA SamplesGoAlong ==
  ASSUME NEW n \in Nat, n > 0
  PROVE  LET w == SampleIndices(n)
         IN  /\ w \in Seq(Nat)
             /\ Len(w) = IF n < WeatherWant THEN n ELSE WeatherWant
             /\ w[1] = 1 /\ w[Len(w)] = n
             /\ \A i \in 1..(Len(w) - 1) : w[i] < w[i + 1]
<1> DEFINE w == SampleIndices(n)
<1>1. CASE n <= WeatherWant
  <2>1. w = [i \in 1..n |-> i]
    BY <1>1 DEF SampleIndices
  <2>2. w \in Seq(Nat) /\ Len(w) = n
    BY <2>1
  <2> QED
    BY <1>1, <2>1, <2>2, Wants
<1>2. CASE n > WeatherWant
  <2> DEFINE q == WeatherWant - 1
             Nth(i) == Rounded((i - 1) * (n - 1), q)
  <2>1. w = [i \in 1..WeatherWant |-> 1 + Nth(i)]
    BY <1>2, Wants DEF SampleIndices
  <2>2. q \in Nat /\ q > 0 /\ n - 1 \in Nat /\ n - 1 > q
    BY <1>2, Wants
  <2>3. ASSUME NEW i \in 1..WeatherWant
        PROVE  (i - 1) * (n - 1) \in Nat /\ Nth(i) \in Nat
    <3>1. i - 1 \in Nat
      BY Wants
    <3>2. (i - 1) * (n - 1) \in Nat
      BY <2>2, <3>1
    <3> QED
      BY <2>2, <3>2, HalfAtMost
  <2>4. ASSUME NEW i \in 1..(WeatherWant - 1)
        PROVE  Nth(i) < Nth(i + 1)
    <3>1. (i - 1) * (n - 1) \in Nat
      BY <2>3, Wants
    <3>2. ((i + 1) - 1) * (n - 1) = (i - 1) * (n - 1) + (n - 1)
      BY Wants
    <3> QED
      BY <2>2, <3>1, <3>2, FurtherOn
  <2>5. Nth(1) = 0
    <3>1. (1 - 1) * (n - 1) = q * 0
      BY <2>2
    <3> QED
      BY <2>2, <3>1, RoundedWhole
  <2>6. Nth(WeatherWant) = n - 1
    BY <2>2, RoundedWhole
  <2> HIDE DEF Nth, q
  <2>7. w \in Seq(Nat) /\ Len(w) = WeatherWant
    BY <2>1, <2>3, Wants
  <2> QED
    BY <1>2, <2>1, <2>3, <2>4, <2>5, <2>6, <2>7, Wants
<1> QED
  BY <1>1, <1>2, Wants

-----------------------------------------------------------------------------
(* Sums of the steps of a profile.                                         *)

Difference(h, i) == h[i + 1] - h[i]
Total(h, S) == MapThenSumSet(LAMBDA i : h[i + 1] - h[i], S)
Some(S) == [s \in SUBSET S |-> CHOOSE x \in s : TRUE]
Plus(h, S) == [p \in Int \X S |-> Difference(h, p[2]) + p[1]]
Totals(h, U, S) == FoldsOf(S, Int, 0, Some(U), Plus(h, U))

LEMMA SomeTakes ==
  ASSUME NEW S
  PROVE  \A s \in SUBSET S : s # {} => Some(S)[s] \in s
BY DEF Some

\* The equation a sum is defined by is that of a fold.
LEMMA TotalIsFold ==
  ASSUME NEW U, NEW S \in SUBSET U, IsFiniteSet(S), NEW h,
         \A i \in S : Difference(h, i) \in Int
  PROVE  \E it \in Totals(h, U, S) : Total(h, S) = it[S]
<1> DEFINE Eq(it) == it = [s \in SUBSET S |->
                             IF s = {} THEN 0
                             ELSE Difference(h, CHOOSE x \in s : TRUE)
                                    + it[s \ {CHOOSE x \in s : TRUE}]]
           it == CHOOSE it : Eq(it)
<1>1. Total(h, S) = it[S]
  BY DEF Total, MapThenSumSet, MapThenFoldSet, Difference
<1>2. PICK g : g \in Totals(h, U, S)
  <2>1. \A a \in Int, x \in S : Plus(h, U)[<<a, x>>] \in Int
    BY DEF Plus
  <2> QED
    BY <2>1, SomeTakes, FoldExists DEF Totals
<1>3. ASSUME NEW f \in [SUBSET S -> Int], NEW s \in SUBSET S, s # {}
      PROVE  Folded(0, Some(U), Plus(h, U), f, s)
               = Difference(h, CHOOSE x \in s : TRUE) + f[s \ {CHOOSE x \in s : TRUE}]
  <2> DEFINE x == CHOOSE x \in s : TRUE
  <2>1. x \in s /\ x \in S /\ Some(U)[s] = x
    BY <1>3 DEF Some
  <2> HIDE DEF x
  <2>2. f[s \ {x}] \in Int
    OBVIOUS
  <2>3. Plus(h, U)[<<f[s \ {x}], x>>] = Difference(h, x) + f[s \ {x}]
    BY <2>1, <2>2 DEF Plus
  <2>4. Folded(0, Some(U), Plus(h, U), f, s) = Difference(h, x) + f[s \ {x}]
    BY <1>3, <2>1, <2>3 DEF Folded
  <2> QED
    BY <2>4 DEF x
<1>4. Eq(g)
  BY <1>2, <1>3 DEF Totals, FoldsOf, Folded
<1>5. Eq(it)
  BY <1>4
<1>6. it \in [SUBSET S -> Int]
  <2> DEFINE T == {s \in SUBSET S : it[s] # g[s]}
  <2>1. SUFFICES ASSUME T # {} PROVE FALSE
    <3>1. g \in [SUBSET S -> Int]
      BY <1>2 DEF Totals, FoldsOf
    <3> HIDE DEF it
    <3>2. it = [s \in SUBSET S |-> it[s]]
      BY <1>5
    <3> QED
      BY <3>1, <3>2
  <2>2. PICK s \in T : \A t \in T : t \subseteq s => t = s
    <3>1. T \subseteq SUBSET S
      OBVIOUS
    <3> HIDE DEF T
    <3> QED
      BY <2>1, <3>1, MinimalSubset
  <2> DEFINE x == CHOOSE x \in s : TRUE
             t == s \ {x}
  <2>3. s # {} => x \in s
    OBVIOUS
  <2>4. /\ it[s] = IF s = {} THEN 0 ELSE Difference(h, x) + it[t]
        /\ g[s] = IF s = {} THEN 0 ELSE Difference(h, x) + g[t]
    <3> HIDE DEF it
    <3> QED
      BY <1>4, <1>5
  <2> HIDE DEF it, x
  <2>5. s # {} => it[t] = g[t]
    BY <2>2, <2>3
  <2> QED
    BY <2>2, <2>4, <2>5
<1> QED
  BY <1>1, <1>3, <1>5, <1>6 DEF Totals, FoldsOf, Folded

\* A sum of nothing is 0, a sum of integers is one, and of any other sum what is
\* chosen from its set can be taken.
LEMMA TotalPick ==
  ASSUME NEW S, IsFiniteSet(S), NEW h, \A i \in S : Difference(h, i) \in Int
  PROVE  /\ Total(h, S) \in Int
         /\ S = {} => Total(h, S) = 0
         /\ S # {} => \E x \in S : Total(h, S) = Difference(h, x) + Total(h, S \ {x})
<1>1. PICK it \in Totals(h, S, S) : Total(h, S) = it[S]
  BY TotalIsFold
<1>2. Total(h, S) \in Int /\ (S = {} => Total(h, S) = 0)
  BY <1>1 DEF Totals, FoldsOf, Folded
<1>3. ASSUME S # {}
      PROVE  \E x \in S : Total(h, S) = Difference(h, x) + Total(h, S \ {x})
  <2> DEFINE x == Some(S)[S]
             Less == S \ {x}
  <2>1. x \in S
    BY <1>3, SomeTakes
  <2>2. Less \in SUBSET S /\ IsFiniteSet(Less)
    BY FS_Subset
  <2> HIDE DEF x
  <2>3. PICK on \in Totals(h, S, Less) : Total(h, Less) = on[Less]
    <3>1. \A i \in Less : Difference(h, i) \in Int
      OBVIOUS
    <3> HIDE DEF Less
    <3> QED
      BY <2>2, <3>1, TotalIsFold
  <2>4. it[Less] = on[Less]
    <3>1. Less \in SUBSET Less
      OBVIOUS
    <3> HIDE DEF Less
    <3>2. /\ it \in FoldsOf(S, Int, 0, Some(S), Plus(h, S))
          /\ on \in FoldsOf(Less, Int, 0, Some(S), Plus(h, S))
      BY <1>1, <2>3 DEF Totals
    <3>3. \A s \in SUBSET S : s # {} => Some(S)[s] \in s
      BY SomeTakes
    <3> DEFINE take == Some(S)
               then == Plus(h, S)
               zero == 0
               ints == Int
    <3>5. zero \in ints
      OBVIOUS
    <3> HIDE DEF take, then, zero, ints
    <3>4. \A s \in SUBSET Less : it[s] = on[s]
      <4>1. /\ it \in FoldsOf(S, ints, zero, take, then)
            /\ on \in FoldsOf(Less, ints, zero, take, then)
            /\ \A s \in SUBSET S : s # {} => take[s] \in s
        BY <3>2, <3>3 DEF take, then, zero, ints
      <4> QED
        BY <2>2, <3>5, <4>1, FoldsAgree
    <3> QED
      BY <3>1, <3>4
  <2>5. it[Less] \in Int
    BY <1>1, <2>2 DEF Totals, FoldsOf
  <2>6. it[S] = Plus(h, S)[<<it[Less], x>>]
    BY <1>1, <1>3 DEF Totals, FoldsOf, Folded, x
  <2>7. it[S] = Difference(h, x) + it[Less]
    BY <2>1, <2>5, <2>6 DEF Plus
  <2> QED
    BY <1>1, <2>1, <2>3, <2>4, <2>7
<1> QED
  BY <1>2, <1>3

\* Whichever is taken, the rest is the sum of the others.
LEMMA TotalRemove ==
  ASSUME NEW S, IsFiniteSet(S), NEW h, \A i \in S : Difference(h, i) \in Int, NEW z \in S
  PROVE  Total(h, S) = Difference(h, z) + Total(h, S \ {z})
<1> DEFINE T == {X \in SUBSET S : \E x \in X : Total(h, X) # Difference(h, x) + Total(h, X \ {x})}
<1>1. SUFFICES ASSUME T # {} PROVE FALSE
  OBVIOUS
<1>2. PICK X \in T : \A Y \in T : Y \subseteq X => Y = X
  <2>1. T \subseteq SUBSET S
    OBVIOUS
  <2> HIDE DEF T
  <2> QED
    BY <1>1, <2>1, MinimalSubset
<1>3. PICK x \in X : Total(h, X) # Difference(h, x) + Total(h, X \ {x})
  OBVIOUS
<1>4. IsFiniteSet(X) /\ X \in SUBSET S
  BY FS_Subset
<1>5. PICK p \in X : Total(h, X) = Difference(h, p) + Total(h, X \ {p})
  BY <1>3, <1>4, TotalPick
<1> DEFINE Less == (X \ {p}) \ {x}
<1>6. p # x
  BY <1>3, <1>5
<1>7. Total(h, X \ {p}) = Difference(h, x) + Total(h, Less)
  <2>1. x \in X \ {p} /\ X \ {p} \in SUBSET S /\ X \ {p} # X /\ X \ {p} \subseteq X
    BY <1>6
  <2> QED
    BY <1>2, <2>1
<1>8. Total(h, X \ {x}) = Difference(h, p) + Total(h, Less)
  <2>1. p \in X \ {x} /\ X \ {x} \in SUBSET S /\ X \ {x} # X /\ X \ {x} \subseteq X
    BY <1>6
  <2>2. Total(h, X \ {x}) = Difference(h, p) + Total(h, (X \ {x}) \ {p})
    BY <1>2, <2>1
  <2>3. (X \ {x}) \ {p} = Less
    OBVIOUS
  <2> HIDE DEF Less
  <2> QED
    BY <2>2, <2>3
<1>9. Total(h, Less) \in Int /\ Difference(h, p) \in Int /\ Difference(h, x) \in Int
  <2>1. IsFiniteSet(Less) /\ \A i \in Less : Difference(h, i) \in Int
    BY <1>4, FS_Subset
  <2> HIDE DEF Less
  <2> QED
    BY <1>4, <2>1, TotalPick
<1> HIDE DEF Less
<1> QED
  BY <1>3, <1>5, <1>7, <1>8, <1>9

\* The steps up and the steps down among the first m points.
Ups(h, m) == {i \in 1..(m - 1) : Difference(h, i) > 0}
Downs(h, m) == {i \in 1..(m - 1) : Difference(h, i) <= 0}
Gain(h, m) == Total(h, Ups(h, m))
Loss(h, m) == -Total(h, Downs(h, m))

ClimbTo(h, m) ==
  /\ Gain(h, m) \in Int /\ Loss(h, m) \in Int
  /\ Gain(h, m) >= 0 /\ Loss(h, m) >= 0
  /\ Gain(h, m) - Loss(h, m) = h[m] - h[1]
  /\ \A i, j \in 1..m : h[i] - h[j] <= Gain(h, m) + Loss(h, m)

LEMMA StepTotal ==
  ASSUME NEW n \in Nat, NEW h \in [1..n -> Int], NEW S \in SUBSET (1..(n - 1))
  PROVE  /\ IsFiniteSet(S) /\ \A i \in S : Difference(h, i) \in Int
         /\ Total(h, S) \in Int /\ (S = {} => Total(h, S) = 0)
         /\ \A z \in S : Total(h, S) = Difference(h, z) + Total(h, S \ {z})
<1>1. IsFiniteSet(S)
  <2> DEFINE k == n - 1
  <2>1. k \in Int
    OBVIOUS
  <2> HIDE DEF k
  <2>2. IsFiniteSet(1..k)
    BY <2>1, FS_Interval
  <2> QED
    BY <2>2, FS_Subset DEF k
<1>2. \A i \in S : Difference(h, i) \in Int
  BY DEF Difference
<1> QED
  BY <1>1, <1>2, TotalPick, TotalRemove

LEMMA Climbing ==
  ASSUME NEW n \in Nat, NEW h \in [1..n -> Int]
  PROVE  \A m \in 1..n : ClimbTo(h, m)
<1> DEFINE T == {m \in Nat : m \in 1..n => ClimbTo(h, m)}
<1>1. 1 \in T
  <2> SUFFICES ASSUME 1 \in 1..n PROVE ClimbTo(h, 1)
    OBVIOUS
  <2>1. Ups(h, 1) = {} /\ Downs(h, 1) = {}
    BY DEF Ups, Downs
  <2>2. Gain(h, 1) = 0 /\ Loss(h, 1) = 0
    <3>1. Total(h, {}) = 0
      BY StepTotal
    <3> QED
      BY <2>1, <3>1 DEF Gain, Loss
  <2>3. h[1] \in Int /\ \A i \in 1..1 : i = 1
    OBVIOUS
  <2> QED
    BY <2>2, <2>3 DEF ClimbTo
<1>2. ASSUME NEW m \in 1..(n - 1), m \in T PROVE m + 1 \in T
  <2>1. m \in 1..n /\ m + 1 \in 1..n /\ ClimbTo(h, m) /\ h[m] \in Int /\ h[m + 1] \in Int
    BY <1>2
  <2> DEFINE d == Difference(h, m)
             U == Ups(h, m)
             D == Downs(h, m)
  <2>2. d \in Int /\ d = h[m + 1] - h[m]
    BY <2>1 DEF Difference
  <2>3. /\ d > 0 => Ups(h, m + 1) = U \cup {m} /\ Downs(h, m + 1) = D
        /\ d <= 0 => Ups(h, m + 1) = U /\ Downs(h, m + 1) = D \cup {m}
    <3>1. 1..((m + 1) - 1) = 1..(m - 1) \cup {m}
      BY <2>1
    <3> QED
      BY <2>2, <3>1 DEF Ups, Downs
  <2>4. ASSUME NEW S \in SUBSET (1..(m - 1))
        PROVE  Total(h, S \cup {m}) = d + Total(h, S) /\ Total(h, S) \in Int
    <3>1. /\ S \cup {m} \in SUBSET (1..(n - 1)) /\ S \in SUBSET (1..(n - 1))
          /\ m \in S \cup {m} /\ (S \cup {m}) \ {m} = S
      BY <2>1
    <3> QED
      BY <3>1, StepTotal
  <2>5. U \in SUBSET (1..(m - 1)) /\ D \in SUBSET (1..(m - 1))
    BY DEF Ups, Downs
  <2> DEFINE g == Gain(h, m)
             l == Loss(h, m)
             gg == Gain(h, m + 1)
             ll == Loss(h, m + 1)
  <2>6. /\ d > 0 => gg = g + d /\ ll = l
        /\ d <= 0 => gg = g /\ ll = l - d
    <3>1. Total(h, U) \in Int /\ Total(h, D) \in Int
      BY <2>4, <2>5
    <3>2. Total(h, U \cup {m}) = d + Total(h, U) /\ Total(h, D \cup {m}) = d + Total(h, D)
      BY <2>4, <2>5
    <3>3. CASE d > 0
      <4>1. Ups(h, m + 1) = U \cup {m} /\ Downs(h, m + 1) = D
        BY <2>3, <3>3
      <4>2. gg = d + Total(h, U) /\ ll = -Total(h, D)
        BY <3>2, <4>1 DEF Gain, Loss
      <4>3. g = Total(h, U) /\ l = -Total(h, D)
        BY DEF Gain, Loss
      <4> HIDE DEF d, g, l, gg, ll, U, D
      <4> QED
        BY <2>2, <3>1, <3>3, <4>2, <4>3
    <3>4. CASE d <= 0
      <4>1. Ups(h, m + 1) = U /\ Downs(h, m + 1) = D \cup {m}
        BY <2>3, <3>4
      <4>2. gg = Total(h, U) /\ ll = -(d + Total(h, D))
        BY <3>2, <4>1 DEF Gain, Loss
      <4>3. g = Total(h, U) /\ l = -Total(h, D)
        BY DEF Gain, Loss
      <4> HIDE DEF d, g, l, gg, ll, U, D
      <4> QED
        BY <2>2, <3>1, <3>4, <4>2, <4>3
    <3> HIDE DEF d, g, l, gg, ll
    <3> QED
      BY <2>2, <3>3, <3>4
  <2>7. /\ g \in Int /\ l \in Int /\ g >= 0 /\ l >= 0
        /\ g - l = h[m] - h[1] /\ h[1] \in Int
        /\ \A i, j \in 1..m : h[i] - h[j] <= g + l
    BY <2>1 DEF ClimbTo
  <2> HIDE DEF d, g, l, gg, ll
  <2>8. /\ gg \in Int /\ ll \in Int /\ gg >= 0 /\ ll >= 0
        /\ gg - ll = h[m + 1] - h[1]
        /\ g + l + d <= gg + ll /\ g + l - d <= gg + ll
    <3> DEFINE a == h[m]
               b == h[m + 1]
               c == h[1]
    <3>1. a \in Int /\ b \in Int /\ c \in Int /\ d = b - a
      BY <2>1, <2>2, <2>7 DEF d
    <3>2. g \in Int /\ l \in Int /\ g >= 0 /\ l >= 0 /\ g - l = a - c
      BY <2>7
    <3>3. d \in Int
      BY <2>2
    <3> SUFFICES /\ gg \in Int /\ ll \in Int /\ gg >= 0 /\ ll >= 0
                 /\ gg - ll = b - c
                 /\ g + l + d <= gg + ll /\ g + l - d <= gg + ll
      OBVIOUS
    <3> HIDE DEF a, b, c
    <3>4. CASE d > 0
      <4>1. gg = g + d /\ ll = l
        BY <2>6, <3>4
      <4> QED
        BY <3>1, <3>2, <3>3, <3>4, <4>1
    <3>5. CASE d <= 0
      <4>1. gg = g /\ ll = l - d
        BY <2>6, <3>5
      <4> QED
        BY <3>1, <3>2, <3>3, <3>5, <4>1
    <3> QED
      BY <3>3, <3>4, <3>5
  <2>9. ASSUME NEW i \in 1..(m + 1), NEW j \in 1..(m + 1)
        PROVE  h[i] - h[j] <= gg + ll
    <3> DEFINE x == h[i]
               y == h[j]
               a == h[m]
    <3>1. x \in Int /\ y \in Int /\ a \in Int
      BY <2>1
    <3>2. h[m + 1] = a + d /\ d \in Int
      BY <2>1, <2>2 DEF d
    <3>3. /\ gg \in Int /\ ll \in Int /\ gg >= 0 /\ ll >= 0 /\ g \in Int /\ l \in Int
          /\ g + l + d <= gg + ll /\ g + l - d <= gg + ll
      BY <2>7, <2>8
    <3>4. /\ (i \in 1..m /\ j \in 1..m) => x - y <= g + l
          /\ i \in 1..m => x - a <= g + l
          /\ j \in 1..m => a - y <= g + l
          /\ i \notin 1..m => x = a + d
          /\ j \notin 1..m => y = a + d
      <4>1. m \in 1..m
        BY <2>1
      <4>2. i \notin 1..m => i = m + 1
        BY <2>1
      <4>3. j \notin 1..m => j = m + 1
        BY <2>1
      <4>4. \A u, v \in 1..m : h[u] - h[v] <= g + l
        BY <2>7
      <4> QED
        BY <3>2, <4>1, <4>2, <4>3, <4>4
    <3> SUFFICES x - y <= gg + ll
      OBVIOUS
    <3> HIDE DEF x, y, a
    <3>5. CASE i \in 1..m /\ j \in 1..m
      <4>1. x - y <= g + l
        BY <3>4, <3>5
      <4> QED
        BY <3>1, <3>2, <3>3, <4>1
    <3>6. CASE i \in 1..m /\ j \notin 1..m
      <4>1. x - a <= g + l /\ y = a + d
        BY <3>4, <3>6
      <4> QED
        BY <3>1, <3>2, <3>3, <4>1
    <3>7. CASE i \notin 1..m /\ j \in 1..m
      <4>1. a - y <= g + l /\ x = a + d
        BY <3>4, <3>7
      <4> QED
        BY <3>1, <3>2, <3>3, <4>1
    <3>8. CASE i \notin 1..m /\ j \notin 1..m
      <4>1. x = a + d /\ y = a + d
        BY <3>4, <3>8
      <4> QED
        BY <3>1, <3>2, <3>3, <4>1
    <3> QED
      BY <3>5, <3>6, <3>7, <3>8
  <2>10. ClimbTo(h, m + 1)
    BY <2>8, <2>9 DEF ClimbTo, gg, ll
  <2> QED
    BY <2>1, <2>10
<1> HIDE DEF T
<1>3. \A m \in 1..n : m \in T
  BY <1>1, <1>2, Upwards
<1> QED
  BY <1>3 DEF T

\* The highest and the lowest point are points.
LEMMA Extremes ==
  ASSUME NEW n \in Nat, n > 0, NEW h \in [1..n -> Int]
  PROVE  Max(Range(h)) \in Range(h) /\ Min(Range(h)) \in Range(h)
<1> DEFINE T == {m \in Nat : m \in 1..n =>
                   /\ \E a \in 1..m : \A j \in 1..m : h[a] >= h[j]
                   /\ \E a \in 1..m : \A j \in 1..m : h[a] <= h[j]}
<1>1. 1 \in T
  <2>1. \A j \in 1..1 : j = 1
    OBVIOUS
  <2>2. 1 \in 1..1 /\ h[1] >= h[1] /\ h[1] <= h[1]
    OBVIOUS
  <2> QED
    BY <2>1, <2>2
<1>2. ASSUME NEW m \in 1..(n - 1), m \in T PROVE m + 1 \in T
  <2>1. m \in 1..n /\ m + 1 \in 1..n /\ 1..m \subseteq 1..n
    OBVIOUS
  <2>2. /\ \E a \in 1..m : \A j \in 1..m : h[a] >= h[j]
        /\ \E a \in 1..m : \A j \in 1..m : h[a] <= h[j]
    BY <1>2, <2>1
  <2>3. 1..(m + 1) = 1..m \cup {m + 1} /\ \A j \in 1..(m + 1) : h[j] \in Int
    BY <2>1
  <2>4. \E a \in 1..(m + 1) : \A j \in 1..(m + 1) : h[a] >= h[j]
    <3>1. PICK a \in 1..m : \A j \in 1..m : h[a] >= h[j]
      BY <2>2
    <3>2. CASE h[a] >= h[m + 1]
      BY <2>3, <3>1, <3>2
    <3>3. CASE h[a] < h[m + 1]
      <4>1. \A j \in 1..(m + 1) : h[m + 1] >= h[j]
        BY <2>3, <3>1, <3>3
      <4> QED
        BY <2>3, <4>1
    <3>4. h[a] \in Int /\ h[m + 1] \in Int
      BY <2>3
    <3> QED
      BY <3>2, <3>3, <3>4
  <2>5. \E a \in 1..(m + 1) : \A j \in 1..(m + 1) : h[a] <= h[j]
    <3>1. PICK a \in 1..m : \A j \in 1..m : h[a] <= h[j]
      BY <2>2
    <3>2. CASE h[a] <= h[m + 1]
      BY <2>3, <3>1, <3>2
    <3>3. CASE h[a] > h[m + 1]
      <4>1. \A j \in 1..(m + 1) : h[m + 1] <= h[j]
        BY <2>3, <3>1, <3>3
      <4> QED
        BY <2>3, <4>1
    <3>4. h[a] \in Int /\ h[m + 1] \in Int
      BY <2>3
    <3> QED
      BY <3>2, <3>3, <3>4
  <2>6. m + 1 \in Nat
    OBVIOUS
  <2> QED
    BY <2>4, <2>5, <2>6
<1> DEFINE one == 1
<1>3. one \in Nat /\ one \in T /\ n \in one..n
  BY <1>1
<1>4. \A i \in one..(n - 1) : i \in T => i + 1 \in T
  BY <1>2
<1> HIDE DEF T, one
<1>5. n \in T
  <2>1. \A i \in one..n : i \in T
    BY <1>3, <1>4, Upwards
  <2> QED
    BY <1>3, <2>1
<1>6. /\ \E a \in 1..n : \A j \in 1..n : h[a] >= h[j]
      /\ \E a \in 1..n : \A j \in 1..n : h[a] <= h[j]
  BY <1>3, <1>5 DEF T, one
<1>7. \E x \in Range(h) : \A y \in Range(h) : x >= y
  BY <1>6 DEF Range
<1>8. \E x \in Range(h) : \A y \in Range(h) : x <= y
  BY <1>6 DEF Range
<1> QED
  BY <1>7, <1>8 DEF Max, Min

\* The climb of a profile adds up.
LEMMA ProfileOK ==
  ASSUME NEW picked \in Seq(Int \X Int), NEW height \in [Int \X Int -> Int],
         height \in {[q \in Int \X Int |-> Terrain(q)], [q \in Int \X Int |-> Mock(q)]}
  PROVE  ClimbOK(Profile(picked, [i \in DOMAIN picked |-> height[picked[i]]]))
<1> DEFINE h == [i \in DOMAIN picked |-> height[picked[i]]]
           n == Len(picked)
           p == Profile(picked, h)
<1>1. CASE picked = <<>>
  BY <1>1 DEF ClimbOK, Profile, NoProfile
<1>2. CASE picked # <<>>
  <2>1. n \in Nat /\ n > 0 /\ h \in [1..n -> Int] /\ 1 \in 1..n /\ n \in 1..n
    BY <1>2
  <2>2. /\ p.picked = picked /\ p.low = Min(Range(h)) /\ p.high = Max(Range(h))
        /\ p.gain = Gain(h, n) /\ p.loss = Loss(h, n)
    BY <1>2 DEF Profile, Gain, Loss, Total, Ups, Downs, Difference
  <2> HIDE DEF p
  <2>3. ClimbTo(h, n)
    BY <2>1, Climbing
  <2>4. /\ h[n] = height[picked[n]] /\ h[1] = height[picked[1]]
        /\ picked[n] \in ToSet(picked) /\ picked[1] \in ToSet(picked)
        /\ ToSet(picked) \subseteq Int \X Int
    <3>1. DOMAIN picked = 1..n /\ \A i \in 1..n : picked[i] \in Int \X Int
      OBVIOUS
    <3>2. ToSet(picked) = {picked[i] : i \in 1..n}
      BY <3>1 DEF ToSet
    <3>3. h[n] = height[picked[n]] /\ h[1] = height[picked[1]]
      BY <2>1, <3>1
    <3> HIDE DEF n, h
    <3> QED
      BY <2>1, <3>1, <3>2, <3>3
  <2> HIDE DEF h
  <2>5. \E i, j \in 1..n : p.high = h[i] /\ p.low = h[j]
    <3>1. p.high \in Range(h) /\ p.low \in Range(h)
      BY <2>1, <2>2, Extremes
    <3> QED
      BY <2>1, <3>1 DEF Range
  <2>6. /\ p.gain >= 0 /\ p.loss >= 0 /\ p.high - p.low <= p.gain + p.loss
        /\ p.gain - p.loss = h[n] - h[1]
    BY <2>2, <2>3, <2>5 DEF ClimbTo
  <2>7. \E Height \in {[q \in ToSet(picked) |-> Terrain(q)],
                       [q \in ToSet(picked) |-> Mock(q)]} :
          h[n] - h[1] = Height[picked[n]] - Height[picked[1]]
    <3>1. CASE height = [q \in Int \X Int |-> Terrain(q)]
      <4>1. /\ height[picked[n]] = Terrain(picked[n])
            /\ height[picked[1]] = Terrain(picked[1])
        BY <2>4, <3>1
      <4> QED
        BY <2>4, <4>1
    <3>2. CASE height = [q \in Int \X Int |-> Mock(q)]
      <4>1. /\ height[picked[n]] = Mock(picked[n])
            /\ height[picked[1]] = Mock(picked[1])
        BY <2>4, <3>2
      <4> QED
        BY <2>4, <4>1
    <3> QED
      BY <3>1, <3>2
  <2>8. ClimbOK(p)
    BY <2>2, <2>6, <2>7 DEF ClimbOK
  <2> QED
    BY <2>8 DEF p, h
<1> QED
  BY <1>1, <1>2

-----------------------------------------------------------------------------
(* What the adapters make of the road.                                     *)

LEMMA RoadIs == ASSUME IInv PROVE road \in Roads /\ road \in Seq(Int \X Int)
BY RoutingConstants DEF IInv, TypeOK, Roads

LEMMA Begins ==
  ASSUME NEW V, NEW line \in Seq(V)
  PROVE  /\ IsPrefix(line, line) /\ IsPrefix(<<>>, line)
         /\ IsPrefix(SubSeq(line, 1, Len(line) - 1), line)
         /\ SubSeq(line, 1, Len(line) - 1) \in Seq(V)
<1> DEFINE n == Len(line)
           cut == SubSeq(line, 1, n - 1)
<1>1. n \in Nat /\ SubSeq(line, 1, n) = line
  OBVIOUS
<1>2. IsPrefix(line, line)
  BY <1>1 DEF IsPrefix
<1>3. IsPrefix(<<>>, line)
  BY <1>1 DEF IsPrefix
<1>4. cut \in Seq(V)
  OBVIOUS
<1>5. CASE n = 0
  <2>1. cut = <<>>
    BY <1>5
  <2> QED
    BY <1>2, <1>3, <1>4, <2>1
<1>6. CASE n # 0
  <2>1. Len(cut) = n - 1 /\ SubSeq(cut, 1, Len(cut)) = cut
    BY <1>1, <1>4, <1>6
  <2> QED
    BY <1>1, <1>2, <1>3, <1>4, <2>1 DEF IsPrefix
<1> QED
  BY <1>5, <1>6

LEMMA FromPolyline ==
  ASSUME IInv, NEW cut \in BOOLEAN
  PROVE  /\ IsPrefix(AsPolyline[road][cut], road)
         /\ AsPolyline[road][cut] \in Seq(Int \X Int)
<1> DEFINE points == Int \X Int
           text == EncodePolyline(road)
<1>1. road \in Roads /\ road \in Seq(points)
  BY RoadIs
<1>2. AsPolyline[road][cut] = DecodePolyline(IF cut THEN Cut(text) ELSE text)
  BY <1>1 DEF AsPolyline
<1>3. DecodePolyline(text) = road /\ DecodePolyline(Cut(text)) = SubSeq(road, 1, Len(road) - 1)
  BY <1>1, PolylineTrue
<1> HIDE DEF points, text
<1>4. AsPolyline[road][cut] \in {road, SubSeq(road, 1, Len(road) - 1)}
  BY <1>2, <1>3
<1>5. /\ IsPrefix(AsPolyline[road][cut], road)
      /\ AsPolyline[road][cut] \in Seq(points)
  BY <1>1, <1>4, Begins
<1> QED
  BY <1>5 DEF points

LEMMA FlattenedFew ==
  ASSUME NEW V, NEW s \in Seq(Seq(V))
  PROVE  /\ Len(s) = 1 => FlattenSeq(s) = s[1]
         /\ Len(s) = 2 => FlattenSeq(s) = s[1] \o s[2]
<1>1. SUFFICES ASSUME Len(s) \in {1, 2}
               PROVE  /\ Len(s) = 1 => FlattenSeq(s) = s[1]
                      /\ Len(s) = 2 => FlattenSeq(s) = s[1] \o s[2]
  OBVIOUS
<1>2. PICK f \in [1..Len(s) -> Seq(V)] :
        /\ f[1] = s[1]
        /\ \A i \in 2..Len(s) : f[i] = f[i - 1] \o s[i]
        /\ FlattenSeq(s) = f[Len(s)]
  <2>1. Len(s) > 0
    BY <1>1
  <2> QED
    BY <2>1, Flattened
<1>3. ASSUME Len(s) = 2 PROVE f[2] = f[1] \o s[2]
  <2> DEFINE two == 2
  <2>1. two \in 2..Len(s) /\ two - 1 = 1
    BY <1>3
  <2> HIDE DEF two
  <2>2. f[two] = f[1] \o s[two]
    BY <1>2, <2>1
  <2> QED
    BY <2>2 DEF two
<1> QED
  BY <1>2, <1>3

\* A line in one section, or in two that share an end.
LEMMA SectionsAre ==
  ASSUME NEW V, NEW line \in Seq(V)
  PROVE  \/ Sections(line) = <<line>>
         \/ /\ 2 \in DOMAIN line
            /\ Sections(line) = <<SubSeq(line, 1, 2), SubSeq(line, 2, Len(line))>>
BY DEF Sections

LEMMA FromFlexible ==
  ASSUME IInv, NEW cut \in BOOLEAN, NEW third \in {0, 2}, AsFlexible[road][cut][third].ok
  PROVE  LET line == AsFlexible[road][cut][third].line
         IN  /\ line \in Seq(Int \X Int)
             /\ \/ line = road
                \/ \E k \in DOMAIN road :
                     line = SubSeq(road, 1, k) \o SubSeq(road, k, Len(road))
<1> DEFINE points == Int \X Int
           sections == Sections(road)
           texts == [k \in DOMAIN sections |-> EncodeFlexible(sections[k], third)]
           sent == IF cut THEN [texts EXCEPT ![Len(texts)] = Cut(@)] ELSE texts
           parts == [k \in DOMAIN sent |-> DecodeFlexible(sent[k])]
           lines == [k \in DOMAIN parts |-> parts[k].line]
           shown == AsFlexible[road][cut][third]
<1>1. road \in Roads /\ road \in Seq(points)
  BY RoadIs
<1>2. shown = [ok |-> \A k \in DOMAIN parts : parts[k].ok, line |-> FlattenSeq(lines)]
  BY <1>1 DEF AsFlexible
<1>3. /\ sections \in Seq(Seq(points))
      /\ Len(sections) \in {1, 2}
      /\ Len(sections) = 1 => sections[1] = road
      /\ Len(sections) = 2 => /\ 2 \in DOMAIN road
                              /\ sections[1] = SubSeq(road, 1, 2)
                              /\ sections[2] = SubSeq(road, 2, Len(road))
  <2> DEFINE a == SubSeq(road, 1, 2)
             b == SubSeq(road, 2, Len(road))
  <2> HIDE DEF points
  <2>1. 2 \in DOMAIN road => a \in Seq(points) /\ b \in Seq(points)
    BY <1>1
  <2>2. CASE sections = <<road>>
    <3> HIDE DEF sections
    <3> QED
      BY <1>1, <2>2
  <2>3. CASE 2 \in DOMAIN road /\ sections = <<a, b>>
    <3> HIDE DEF sections, a, b
    <3>1. sections \in Seq(Seq(points)) /\ Len(sections) = 2
          /\ sections[1] = a /\ sections[2] = b
      BY <2>1, <2>3
    <3> QED
      BY <2>3, <3>1 DEF a, b
  <2> QED
    BY <1>1, <2>2, <2>3, SectionsAre
<1> DEFINE m == Len(sections)
<1>4. /\ m \in Nat /\ DOMAIN sections = 1..m /\ m \in 1..m
      /\ \A k \in 1..m : sections[k] \in Seq(points)
  <2> HIDE DEF sections, points
  <2> QED
    BY <1>3
<1>5. /\ DOMAIN texts = 1..m /\ Len(texts) = m
      /\ \A k \in 1..m : texts[k] = EncodeFlexible(sections[k], third)
  <2> HIDE DEF sections
  <2> QED
    BY <1>4
<1>6. ASSUME NEW k \in 1..m
      PROVE  /\ DecodeFlexible(texts[k]) = [ok |-> TRUE, line |-> sections[k]]
             /\ ~ DecodeFlexible(Cut(texts[k])).ok
  <2>1. sections[k] \in Seq(Int \X Int)
    BY <1>4
  <2> HIDE DEF texts, sections
  <2> QED
    BY <1>5, <2>1, FlexibleTrue
<1> HIDE DEF texts, sections, points, m, shown
<1>7. DOMAIN sent = 1..m
  BY <1>5
<1>8. ~ cut
  <2>1. SUFFICES ASSUME cut PROVE FALSE
    OBVIOUS
  <2>2. sent[m] = Cut(texts[m])
    BY <1>4, <1>5, <2>1
  <2> HIDE DEF sent
  <2>3. parts[m] = DecodeFlexible(Cut(texts[m])) /\ m \in DOMAIN parts
    BY <1>4, <1>7, <2>2
  <2> HIDE DEF parts, lines
  <2>4. ~ shown.ok
    BY <1>2, <1>4, <1>6, <2>3
  <2> QED
    BY <2>4 DEF shown
<1>9. sent = texts
  BY <1>8
<1> HIDE DEF sent
<1>10. lines = sections
  <2>1. DOMAIN lines = 1..m /\ \A k \in 1..m : lines[k] = sections[k]
    BY <1>6, <1>7, <1>9
  <2>2. lines = [k \in 1..m |-> lines[k]] /\ sections = [k \in 1..m |-> sections[k]]
    <3>1. sections = [k \in 1..m |-> sections[k]]
      BY <1>3, <1>4
    <3> QED
      BY <2>1, <3>1
  <2> HIDE DEF lines
  <2> QED
    BY <2>1, <2>2
<1> HIDE DEF parts, lines
<1>11. shown.line = FlattenSeq(sections)
  BY <1>2, <1>10
<1>12. \/ shown.line = road
       \/ /\ 2 \in DOMAIN road
          /\ shown.line = SubSeq(road, 1, 2) \o SubSeq(road, 2, Len(road))
  BY <1>3, <1>11, FlattenedFew DEF m
<1>13. shown.line \in Seq(points)
  <2> DEFINE a == SubSeq(road, 1, 2)
             b == SubSeq(road, 2, Len(road))
  <2>1. 2 \in DOMAIN road => a \in Seq(points) /\ b \in Seq(points)
    BY <1>1
  <2> HIDE DEF a, b
  <2>2. 2 \in DOMAIN road => a \o b \in Seq(points)
    BY <2>1
  <2> QED
    BY <1>1, <1>12, <2>2 DEF a, b
<1> QED
  BY <1>12, <1>13 DEF shown, points

-----------------------------------------------------------------------------
(* Routes are shown as they are.                                           *)

CallShown(q) == RouteShown(q) /\ q.line \in Seq(Int \X Int)

LEMMA FoundShows ==
  ASSUME NEW q, DOMAIN q = Fields, NEW line \in Seq(Int \X Int), NEW by, Head(q.todo) = by,
         /\ by \in {"mapbox", "osrm"} => line = road
         /\ by = "here" =>
              \/ line = road
              \/ \E k \in DOMAIN road :
                   line = SubSeq(road, 1, k) \o SubSeq(road, k, Len(road))
         /\ by \in {"google", "mappls", "tomtom"} => IsPrefix(line, road)
  PROVE  CallShown(Found(q, line))
<1> DEFINE n == Found(q, line)
<1>1. n.line = line /\ n.out.kind = "route" /\ n.out.by = by
  BY Members DEF Found
<1> HIDE DEF n
<1>2. n.out.by \in {"mapbox", "osrm"} => n.line = road
  BY <1>1
<1>3. n.out.by = "here" =>
        \/ n.line = road
        \/ \E k \in DOMAIN road :
             n.line = SubSeq(road, 1, k) \o SubSeq(road, k, Len(road))
  BY <1>1
<1>4. n.out.by \in {"google", "mappls", "tomtom"} => IsPrefix(n.line, road)
  BY <1>1
<1>5. n.line \in Seq(Int \X Int)
  BY <1>1
<1>6. RouteShown(n)
  BY <1>2, <1>3, <1>4 DEF RouteShown
<1> QED
  BY <1>5, <1>6 DEF CallShown, n

\* A call that has not ended with a route has the line it had.
Unshown(q, n) == n.line = q.line /\ n.out.kind # "route"

LEMMA UnshownShows ==
  ASSUME NEW q, NEW n, q.line \in Seq(Int \X Int), Unshown(q, n)
  PROVE  CallShown(n)
BY DEF Unshown, CallShown, RouteShown

LEMMA TurnUnshown ==
  ASSUME NEW q, DOMAIN q = Fields, q.out = Open, NEW todo
  PROVE  Unshown(q, Turn(q, todo))
BY Members DEF Turn, Unshown, Open

LEMMA BrokenUnshown ==
  ASSUME NEW q, DOMAIN q = Fields
  PROVE  Unshown(q, Broken(q))
BY Members DEF Broken, Unshown

LEMMA DeclinedUnshown ==
  ASSUME NEW q, DOMAIN q = Fields, q.out = Open, NEW kind \in {"noroute", "maps"}
  PROVE  Unshown(q, Declined(q, kind))
<1>1. CASE Tail(q.todo) = <<>>
  BY <1>1, Members DEF Declined, Unshown
<1>2. CASE Tail(q.todo) # <<>>
  BY <1>2, TurnUnshown DEF Declined
<1> QED
  BY <1>1, <1>2

LEMMA FailedUnshown ==
  ASSUME NEW q, DOMAIN q = Fields, q.out = Open, NEW answer
  PROVE  Unshown(q, Failed(q, answer))
BY DeclinedUnshown, BrokenUnshown DEF Failed

LEMMA AdaptedShows ==
  ASSUME IInv, NEW q, DOMAIN q = Fields, q.out = Open, q.line \in Seq(Int \X Int),
         NEW answer, NEW third \in {0, 2}
  PROVE  CallShown(Adapted(q, answer, third))
<1> DEFINE by == Head(q.todo)
<1>1. road \in Seq(Int \X Int) /\ IsPrefix(road, road) /\ IsPrefix(<<>>, road)
  <2> DEFINE points == Int \X Int
  <2>1. road \in Seq(points)
    BY RoadIs
  <2> HIDE DEF points
  <2>2. IsPrefix(road, road) /\ IsPrefix(<<>>, road)
    BY <2>1, Begins
  <2> QED
    BY <2>1, <2>2 DEF points
<1>2. CallShown(Failed(q, answer)) /\ CallShown(Declined(q, "maps"))
      /\ CallShown(Declined(q, "noroute"))
  BY FailedUnshown, DeclinedUnshown, UnshownShows
<1>3. \A cut \in BOOLEAN : /\ IsPrefix(AsPolyline[road][cut], road)
                           /\ AsPolyline[road][cut] \in Seq(Int \X Int)
  BY FromPolyline
<1>4. (answer = "cut") \in BOOLEAN /\ <<>> \in Seq(Int \X Int)
  OBVIOUS
<1>5. by \in {"google", "mappls"} => CallShown(Google(q, answer))
  <2>1. SUFFICES ASSUME by \in {"google", "mappls"} PROVE CallShown(Google(q, answer))
    OBVIOUS
  <2> DEFINE line == AsPolyline[road][answer = "cut"]
  <2>2. line \in Seq(Int \X Int) /\ IsPrefix(line, road)
    BY <1>3, <1>4
  <2> HIDE DEF line
  <2>3. CallShown(Found(q, line))
    BY <2>1, <2>2, FoundShows
  <2> QED
    BY <1>2, <2>3 DEF Google, line
<1>6. by = "mappls" => CallShown(Mappls(q, answer))
  <2>1. by = "mappls" => CallShown(Found(q, <<>>))
    BY <1>1, <1>4, FoundShows
  <2> QED
    BY <1>5, <2>1 DEF Mappls
<1>7. by = "here" => CallShown(Here(q, answer, third))
  <2>1. SUFFICES ASSUME by = "here" PROVE CallShown(Here(q, answer, third))
    OBVIOUS
  <2> DEFINE shown == AsFlexible[road][answer = "cut"][third]
  <2>2. ASSUME shown.ok PROVE CallShown(Found(q, shown.line))
    <3> DEFINE cut == (answer = "cut")
               line == AsFlexible[road][cut][third].line
    <3>1. cut \in BOOLEAN /\ AsFlexible[road][cut][third].ok /\ line = shown.line
      BY <1>4, <2>2
    <3> HIDE DEF cut, shown
    <3>2. /\ line \in Seq(Int \X Int)
          /\ \/ line = road
             \/ \E k \in DOMAIN road :
                  line = SubSeq(road, 1, k) \o SubSeq(road, k, Len(road))
      BY <3>1, FromFlexible
    <3> HIDE DEF line
    <3>3. CallShown(Found(q, line))
      BY <2>1, <3>2, FoundShows
    <3> QED
      BY <3>1, <3>3
  <2>3. Here(q, answer, third)
          = IF answer \in {"route", "cut"}
            THEN IF shown.ok THEN Found(q, shown.line) ELSE Declined(q, "maps")
            ELSE IF answer = "bare" THEN Declined(q, "noroute")
            ELSE Failed(q, answer)
    BY DEF Here
  <2> HIDE DEF shown
  <2> QED
    BY <1>2, <2>2, <2>3
<1>8. by \in {"mapbox", "tomtom", "osrm"} => CallShown(Mapbox(q, answer))
  <2>1. by \in {"mapbox", "tomtom", "osrm"} => CallShown(Found(q, road))
    BY <1>1, FoundShows
  <2> QED
    BY <1>2, <2>1 DEF Mapbox
<1>9. by = "tomtom" => CallShown(TomTom(q, answer))
  <2>1. by = "tomtom" => CallShown(Found(q, <<>>))
    BY <1>1, <1>4, FoundShows
  <2> QED
    BY <1>8, <2>1 DEF TomTom
<1>10. by \notin Provider => CallShown(Mapbox(q, answer))
  <2>1. by \notin Provider => CallShown(Found(q, road))
    BY <1>1, FoundShows DEF Provider
  <2> QED
    BY <1>2, <2>1 DEF Mapbox
<1> HIDE DEF by
<1> QED
  BY <1>5, <1>6, <1>7, <1>8, <1>9, <1>10 DEF Adapted, Osrm, Provider, by

-----------------------------------------------------------------------------
(* ... and after each step.                                                *)

LEMMA ShownFirst == Init => ShownInv
<1>1. SUFFICES ASSUME Init PROVE ShownInv
  OBVIOUS
<1>2. ASSUME NEW c \in Calls PROVE RouteShown(call[c]) /\ call[c].line \in Seq(Int \X Int)
  <2>1. call[c].line = <<>> /\ call[c].out.kind = "none"
    BY <1>1 DEF Init, Open
  <2> QED
    BY <2>1 DEF RouteShown
<1>3. ASSUME NEW d \in Directions PROVE page[d].weather = <<>> /\ page[d].profile.picked = <<>>
  BY <1>1 DEF Init, NoProfile
<1> QED
  BY <1>2, <1>3 DEF ShownInv, ClimbAddsUp, ClimbOK

\* One call that is not done changes.
LEMMA CallShownKept ==
  ASSUME IInv, ShownInv, NEW c \in Calls, call[c].at # "done", NEW n, CallShown(n),
         call' = [call EXCEPT ![c] = n], UNCHANGED <<road, page>>
  PROVE  ShownInv'
<1>1. /\ call'[c] = n /\ \A s \in Calls \ {c} : call'[s] = call[s]
      /\ road' = road /\ page' = page
  BY DEF IInv, TypeOK
<1>2. ASSUME NEW s \in Calls PROVE (RouteShown(call[s]) /\ call[s].line \in Seq(Int \X Int))'
  BY <1>1 DEF ShownInv, CallShown, RouteShown
<1>3. ASSUME NEW d \in Directions, page[d].weather # <<>>
      PROVE  /\ call'[d].at = "done" /\ call'[d].line # <<>>
             /\ page[d].weather = SampleIndices(Len(call'[d].line))
  <2>1. /\ call[d].at = "done" /\ call[d].line # <<>>
        /\ page[d].weather = SampleIndices(Len(call[d].line))
    BY <1>3 DEF ShownInv
  <2>2. d \in Calls \ {c}
    BY <2>1, Constants
  <2>3. call'[d] = call[d]
    BY <1>1, <2>2
  <2> QED
    BY <2>1, <2>3
<1>4. ClimbAddsUp'
  BY <1>1 DEF ShownInv, ClimbAddsUp
<1> QED
  BY <1>1, <1>2, <1>3, <1>4 DEF ShownInv, SampleIndices

LEMMA ShownAfterCall ==
  ASSUME IInv, ShownInv, NEW c \in Calls, CallStep(c)
  PROVE  ShownInv'
<1> DEFINE q == call[c]
<1>1. DOMAIN q = Fields /\ PhaseOK(q) /\ q.line \in Seq(Int \X Int) /\ DOMAIN call = Calls
  BY DEF IInv, TypeOK, CallOK, ShownInv
<1>2. UNCHANGED <<road, page>>
  BY DEF CallStep, GetDirections, ProviderAnswers, TakeLock, TokenArrives, TokenFails
<1>3. \E n : q.at # "done" /\ CallShown(n) /\ call' = [call EXCEPT ![c] = n]
  <2>1. CASE GetDirections(c)
    <3> DEFINE n == IF Plan(setting) = <<>>
                    THEN [q EXCEPT !.at = "done",
                                   !.out = [kind |-> "maps", by |-> "none"]]
                    ELSE Turn(q, Plan(setting))
    <3>1. call' = [call EXCEPT ![c] = n] /\ q.at = "ready"
      BY <2>1 DEF GetDirections
    <3>2. q.out = Open
      BY <1>1, <3>1 DEF PhaseOK
    <3> HIDE DEF q
    <3>3. CASE Plan(setting) = <<>>
      <4>1. Unshown(q, n)
        BY <1>1, <3>3, Members DEF Unshown
      <4> HIDE DEF n
      <4>2. CallShown(n)
        BY <1>1, <4>1, UnshownShows
      <4> QED
        BY <3>1, <4>2
    <3>4. CASE Plan(setting) # <<>>
      <4>1. Unshown(q, n)
        BY <1>1, <3>2, <3>4, TurnUnshown
      <4> HIDE DEF n
      <4>2. CallShown(n)
        BY <1>1, <4>1, UnshownShows
      <4> QED
        BY <3>1, <4>2
    <3> QED
      BY <3>3, <3>4
  <2>2. CASE ProviderAnswers(c)
    <3>1. PICK answer \in Upstream, third \in {0, 2} :
            call' = [call EXCEPT ![c] = Adapted(q, answer, third)]
      BY <2>2 DEF ProviderAnswers
    <3>2. q.at = "ask" /\ q.out = Open
      BY <1>1, <2>2 DEF ProviderAnswers, PhaseOK
    <3> HIDE DEF q
    <3>3. CallShown(Adapted(q, answer, third))
      BY <1>1, <3>2, AdaptedShows
    <3> QED
      BY <3>1, <3>2, <3>3
  <2>3. CASE TakeLock(c)
    <3>1. q.at = "lock" /\ q.out = Open
      BY <1>1, <2>3 DEF TakeLock, PhaseOK
    <3>2. PICK at, since, good :
            call' = [call EXCEPT ![c] = [q EXCEPT !.at = at, !.since = since, !.good = good]]
      <4>1. CASE token.have /\ now < token.until - Skew
        <5>1. call' = [call EXCEPT ![c] = [q EXCEPT !.at = "ask", !.since = now,
                                                    !.good = token.good]]
          BY <2>3, <4>1 DEF TakeLock
        <5> QED
          BY <5>1
      <4>2. CASE ~ (token.have /\ now < token.until - Skew)
        <5>1. call' = [call EXCEPT ![c] = [q EXCEPT !.at = "token", !.since = now]]
          BY <2>3, <4>2 DEF TakeLock
        <5>2. [q EXCEPT !.at = "token", !.since = now]
                = [q EXCEPT !.at = "token", !.since = now, !.good = q.good]
          BY <1>1, Members
        <5> HIDE DEF q
        <5>3. call' = [call EXCEPT ![c] = [q EXCEPT !.at = "token", !.since = now,
                                                    !.good = q.good]]
          BY <5>1, <5>2
        <5> QED
          BY <5>3
      <4> QED
        BY <4>1, <4>2
    <3> DEFINE n == [q EXCEPT !.at = at, !.since = since, !.good = good]
    <3> HIDE DEF q
    <3>3. Unshown(q, n)
      BY <1>1, <3>1, Members DEF Unshown, Open
    <3> HIDE DEF n
    <3>4. CallShown(n)
      BY <1>1, <3>3, UnshownShows
    <3> QED
      BY <3>1, <3>2, <3>4 DEF n
  <2>4. CASE TokenArrives(c)
    <3>1. q.at = "token" /\ q.out = Open
      BY <1>1, <2>4 DEF TokenArrives, PhaseOK
    <3>2. PICK good :
            call' = [call EXCEPT ![c] = [q EXCEPT !.at = "ask", !.since = now, !.good = good]]
      BY <2>4 DEF TokenArrives
    <3> DEFINE n == [q EXCEPT !.at = "ask", !.since = now, !.good = good]
    <3> HIDE DEF q
    <3>3. Unshown(q, n)
      BY <1>1, <3>1, Members DEF Unshown, Open
    <3> HIDE DEF n
    <3>4. CallShown(n)
      BY <1>1, <3>3, UnshownShows
    <3> QED
      BY <3>1, <3>2, <3>4 DEF n
  <2>5. CASE TokenFails(c)
    <3>1. PICK answer : call' = [call EXCEPT ![c] = Failed(q, answer)]
      BY <2>5 DEF TokenFails
    <3>2. q.at = "token" /\ q.out = Open
      BY <1>1, <2>5 DEF TokenFails, PhaseOK
    <3> HIDE DEF q
    <3>3. CallShown(Failed(q, answer))
      BY <1>1, <3>2, FailedUnshown, UnshownShows
    <3> QED
      BY <3>1, <3>2, <3>3
  <2> QED
    BY <2>1, <2>2, <2>3, <2>4, <2>5 DEF CallStep
<1> QED
  BY <1>2, <1>3, CallShownKept

\* What a page shows of a call.
PageShown(p, q) ==
  /\ p.weather # <<>> => /\ q.at = "done" /\ q.line # <<>>
                         /\ p.weather = SampleIndices(Len(q.line))
  /\ ClimbOK(p.profile)

LEMMA ShownApart ==
  ShownInv <=> /\ \A c \in Calls : CallShown(call[c])
               /\ \A d \in Directions : PageShown(page[d], call[d])
BY DEF ShownInv, CallShown, PageShown, ClimbAddsUp

\* The calls keep what they have shown, and end once.
CallsKeep ==
  \A c \in Calls : /\ call'[c].line = call[c].line /\ call'[c].out = call[c].out
                   /\ call[c].at = "done" => call'[c].at = "done"

LEMMA ShownKept ==
  ASSUME ShownInv, UNCHANGED road, CallsKeep,
         \A d \in Directions : PageShown(page'[d], call[d])
  PROVE  ShownInv'
<1>1. ASSUME NEW c \in Calls
      PROVE  RouteShown(call[c])' /\ call'[c].line \in Seq(Int \X Int)
  <2>1. RouteShown(call[c]) /\ call[c].line \in Seq(Int \X Int)
    BY DEF ShownInv
  <2>2. call'[c].line = call[c].line /\ call'[c].out = call[c].out
    BY DEF CallsKeep
  <2> QED
    BY <2>1, <2>2 DEF RouteShown
<1>2. ASSUME NEW d \in Directions, page'[d].weather # <<>>
      PROVE  /\ call'[d].at = "done" /\ call'[d].line # <<>>
             /\ page'[d].weather = SampleIndices(Len(call'[d].line))
  <2>1. /\ call[d].at = "done" /\ call[d].line # <<>>
        /\ page'[d].weather = SampleIndices(Len(call[d].line))
    BY <1>2 DEF PageShown
  <2>2. call'[d].line = call[d].line /\ call'[d].at = "done"
    BY <2>1, Constants DEF CallsKeep
  <2> QED
    BY <2>1, <2>2
<1>3. ASSUME NEW d \in Directions PROVE ClimbOK(page'[d].profile)
  BY DEF PageShown
<1>4. ClimbAddsUp'
  BY <1>3 DEF ClimbAddsUp, ClimbOK, Terrain, Mock
<1> QED
  BY <1>1, <1>2, <1>4 DEF ShownInv, SampleIndices, Rounded

LEMMA ShownAfterRequestDirections ==
  ASSUME IInv, ShownInv, NEW d \in Directions, RequestDirections(d) PROVE ShownInv'
<1>1. /\ page[d].at = "new" /\ call[d].at = "idle" /\ d \in Calls /\ road' = road
      /\ DOMAIN call = Calls /\ DOMAIN call[d] = Fields
      /\ call' = [call EXCEPT ![d].at = "ready"]
  BY Constants DEF RequestDirections, IInv, PagesOK, TypeOK, CallOK
<1>2. CallsKeep
  <2>1. call'[d].line = call[d].line /\ call'[d].out = call[d].out
    BY <1>1, Members
  <2>2. \A s \in Calls \ {d} : call'[s] = call[s]
    BY <1>1
  <2> QED
    BY <1>1, <2>1, <2>2 DEF CallsKeep
<1>3. ASSUME NEW s \in Directions PROVE PageShown(page'[s], call[s])
  <2>1. page'[s].weather = page[s].weather /\ page'[s].profile = page[s].profile
    BY DEF RequestDirections, IInv, TypeOK
  <2>2. PageShown(page[s], call[s])
    BY ShownApart
  <2> QED
    BY <2>1, <2>2 DEF PageShown
<1> QED
  BY <1>1, <1>2, <1>3, ShownKept

LEMMA ShownAfterRequestEtas ==
  ASSUME IInv, ShownInv, RequestEtas PROVE ShownInv'
<1>1. /\ etas.at = "new" /\ UNCHANGED <<road, page>>
      /\ \A c \in etas.rows : call[c].at = "idle"
  BY DEF RequestEtas, IInv, PagesOK
<1>2. CallsKeep
  <2>1. SUFFICES ASSUME NEW c \in Calls
                 PROVE  /\ call'[c].line = call[c].line /\ call'[c].out = call[c].out
                        /\ call[c].at = "done" => call'[c].at = "done"
    BY DEF CallsKeep
  <2>2. DOMAIN call[c] = Fields
    BY DEF IInv, TypeOK, CallOK
  <2>3. CASE c \in etas.rows
    <3>1. call'[c] = [call[c] EXCEPT !.at = "ready"] /\ call[c].at = "idle"
      BY <1>1, <2>3 DEF RequestEtas
    <3> QED
      BY <2>2, <3>1, Members
  <2>4. CASE c \notin etas.rows
    BY <2>4 DEF RequestEtas
  <2> QED
    BY <2>3, <2>4
<1>3. \A s \in Directions : PageShown(page'[s], call[s])
  BY <1>1, ShownApart
<1> QED
  BY <1>1, <1>2, <1>3, ShownKept

\* One page changes.
LEMMA ShownAfterPage ==
  ASSUME IInv, ShownInv, NEW d \in Directions, NEW p, PageShown(p, call[d]),
         page' = [page EXCEPT ![d] = p], UNCHANGED <<road, call>>
  PROVE  ShownInv'
<1>1. page'[d] = p /\ \A s \in Directions \ {d} : page'[s] = page[s]
  BY DEF IInv, TypeOK
<1>2. ASSUME NEW s \in Directions PROVE PageShown(page'[s], call[s])
  <2>1. PageShown(page[s], call[s])
    BY ShownApart
  <2> QED
    BY <1>1, <2>1
<1>3. CallsKeep
  BY DEF CallsKeep
<1> QED
  BY <1>2, <1>3, ShownKept

LEMMA ShownAfterRouteResolved ==
  ASSUME IInv, ShownInv, NEW d \in Directions, RouteResolved(d) PROVE ShownInv'
<1> DEFINE q == call[d]
           line == q.line
           kind == q.out.kind
           refused == [page[d] EXCEPT !.at = "sent", !.status = ErrorStatus[kind]]
           bare == [page[d] EXCEPT !.at = "sent", !.status = 200]
           full == [page[d] EXCEPT !.at = "elevation",
                                   !.weather = SampleIndices(Len(line))]
<1>1. /\ UNCHANGED <<road, call>> /\ q.at = "done"
      /\ DOMAIN page[d] = {"at", "status", "weather", "profile"}
      /\ PageShown(page[d], q)
  BY ShownApart DEF RouteResolved, IInv, TypeOK
<1>2. page' = [page EXCEPT ![d] = IF kind # "route" THEN refused
                                  ELSE IF line = <<>> THEN bare ELSE full]
  BY DEF RouteResolved
<1>3. /\ refused.weather = page[d].weather /\ refused.profile = page[d].profile
      /\ bare.weather = page[d].weather /\ bare.profile = page[d].profile
      /\ full.weather = SampleIndices(Len(line)) /\ full.profile = page[d].profile
  BY <1>1
<1> HIDE DEF refused, bare, full
<1>4. PageShown(refused, q) /\ PageShown(bare, q)
  BY <1>1, <1>3 DEF PageShown
<1>5. line # <<>> => PageShown(full, q)
  BY <1>1, <1>3 DEF PageShown
<1>6. CASE kind # "route"
  <2>1. page' = [page EXCEPT ![d] = refused]
    BY <1>2, <1>6
  <2> QED
    BY <1>1, <1>4, <2>1, ShownAfterPage
<1>7. CASE kind = "route" /\ line = <<>>
  <2>1. page' = [page EXCEPT ![d] = bare]
    BY <1>2, <1>7
  <2> QED
    BY <1>1, <1>4, <2>1, ShownAfterPage
<1>8. CASE kind = "route" /\ line # <<>>
  <2>1. page' = [page EXCEPT ![d] = full]
    BY <1>2, <1>8
  <2> QED
    BY <1>1, <1>5, <1>8, <2>1, ShownAfterPage
<1> QED
  BY <1>6, <1>7, <1>8

\* Of n parts of q each, what lies below all of them lies in one.
LEMMA Below ==
  ASSUME NEW n \in Nat, NEW q \in Nat, q > 0, NEW k \in Nat, k < q * n
  PROVE  1 + k \div q \in 1..n
<1> DEFINE w == k \div q
           r == k % q
<1>1. w \in Nat /\ r \in Nat /\ r < q /\ k = w * q + r
  OBVIOUS
<1> HIDE DEF w, r
<1>2. w < n
  <2> SUFFICES ASSUME n <= w PROVE FALSE
    BY <1>1
  <2>1. PICK c \in Nat : w = n + c
    BY <1>1
  <2>2. w * q = q * n + c * q /\ c * q \in Nat
    BY <1>1, <2>1
  <2> QED
    BY <1>1, <2>2
<1> QED
  BY <1>1, <1>2 DEF w

LEMMA PickedPoints ==
  ASSUME NEW V, NEW line \in Seq(V) PROVE Picked(line) \in Seq(V)
<1> DEFINE n == Len(line)
<1>1. CASE n > HeightWant
  <2> DEFINE Spot(i) == 1 + ((i - 1) * n) \div HeightWant
  <2>1. ASSUME NEW i \in 1..HeightWant PROVE Spot(i) \in 1..n
    <3> DEFINE k == (i - 1) * n
    <3>1. n \in Nat /\ n > 0 /\ HeightWant \in Nat /\ HeightWant > 0
      BY <1>1, Wants
    <3>2. k \in Nat /\ k < HeightWant * n
      <4> DEFINE j == i - 1
                 rest == HeightWant - 1 - j
      <4>1. j \in Nat /\ rest \in Nat /\ HeightWant = j + 1 + rest
        BY <3>1
      <4> HIDE DEF j, rest, n
      <4>2. j * n \in Nat /\ rest * n \in Nat
        BY <3>1, <4>1
      <4>3. HeightWant * n = j * n + n + rest * n
        BY <3>1, <4>1
      <4>4. j * n < HeightWant * n
        BY <3>1, <4>2, <4>3
      <4> QED
        BY <4>2, <4>4 DEF j
    <3> HIDE DEF k, n
    <3> QED
      BY <3>1, <3>2, Below DEF k, n
  <2>2. Picked(line) = [i \in 1..HeightWant |-> line[Spot(i)]]
    BY <1>1 DEF Picked
  <2>3. \A i \in 1..HeightWant : line[Spot(i)] \in V
    <3> HIDE DEF Spot
    <3> QED
      BY <2>1
  <2> HIDE DEF Spot
  <2> QED
    BY <2>2, <2>3, Wants
<1>2. CASE ~ (n > HeightWant)
  BY <1>2 DEF Picked
<1> QED
  BY <1>1, <1>2

LEMMA HeightsShow ==
  ASSUME NEW picked \in Seq(Int \X Int)
  PROVE  /\ ClimbOK(Profile(picked, [i \in DOMAIN picked |-> Terrain(picked[i])]))
         /\ ClimbOK(Profile(picked, [i \in DOMAIN picked |-> Mock(picked[i])]))
<1> DEFINE terrain == [q \in Int \X Int |-> Terrain(q)]
           mock == [q \in Int \X Int |-> Mock(q)]
<1>1. terrain \in [Int \X Int -> Int] /\ mock \in [Int \X Int -> Int]
  BY DEF Terrain, Mock
<1>2. \A i \in DOMAIN picked : picked[i] \in Int \X Int
  OBVIOUS
<1>3. /\ [i \in DOMAIN picked |-> terrain[picked[i]]]
           = [i \in DOMAIN picked |-> Terrain(picked[i])]
      /\ [i \in DOMAIN picked |-> mock[picked[i]]]
           = [i \in DOMAIN picked |-> Mock(picked[i])]
  BY <1>2
<1>4. terrain \in {[q \in Int \X Int |-> Terrain(q)], [q \in Int \X Int |-> Mock(q)]}
  OBVIOUS
<1>5. mock \in {[q \in Int \X Int |-> Terrain(q)], [q \in Int \X Int |-> Mock(q)]}
  OBVIOUS
<1> HIDE DEF terrain, mock
<1>6. /\ ClimbOK(Profile(picked, [i \in DOMAIN picked |-> terrain[picked[i]]]))
      /\ ClimbOK(Profile(picked, [i \in DOMAIN picked |-> mock[picked[i]]]))
  BY <1>1, <1>4, <1>5, ProfileOK
<1> QED
  BY <1>3, <1>6

LEMMA ShownAfterElevationAnswers ==
  ASSUME IInv, ShownInv, NEW d \in Directions, ElevationAnswers(d) PROVE ShownInv'
<1> DEFINE q == call[d]
           picked == Picked(q.line)
           terrain == Profile(picked, [i \in DOMAIN picked |-> Terrain(picked[i])])
           mock == Profile(picked, [i \in DOMAIN picked |-> Mock(picked[i])])
           points == Int \X Int
<1>1. /\ UNCHANGED <<road, call>> /\ d \in Calls
      /\ DOMAIN page[d] = {"at", "status", "weather", "profile"}
      /\ PageShown(page[d], q)
  BY ShownApart, Constants DEF ElevationAnswers, IInv, TypeOK
<1>2. PICK status, profile :
        /\ page' = [page EXCEPT ![d].at = "sent", ![d].status = status,
                                ![d].profile = profile]
        /\ profile \in {terrain, mock, NoProfile}
  BY DEF ElevationAnswers
<1>3. picked \in Seq(points)
  <2>1. q.line \in Seq(points)
    BY <1>1 DEF ShownInv
  <2> HIDE DEF points, q
  <2> QED
    BY <2>1, PickedPoints
<1> HIDE DEF picked
<1>4. ClimbOK(terrain) /\ ClimbOK(mock)
  BY <1>3, HeightsShow DEF points
<1> HIDE DEF terrain, mock
<1>5. ClimbOK(NoProfile)
  BY DEF ClimbOK, NoProfile
<1>6. ClimbOK(profile)
  BY <1>2, <1>4, <1>5
<1> DEFINE p == [page[d] EXCEPT !.at = "sent", !.status = status, !.profile = profile]
<1>7. p.weather = page[d].weather /\ p.profile = profile
  BY <1>1
<1>8. page' = [page EXCEPT ![d] = p]
  BY <1>2
<1> HIDE DEF p
<1> HIDE DEF q
<1>9. PageShown(p, q)
  BY <1>1, <1>6, <1>7 DEF PageShown
<1> QED
  BY <1>1, <1>8, <1>9, ShownAfterPage DEF q

LEMMA ShownAfterRest ==
  ASSUME ShownInv, UNCHANGED <<road, call, page>> PROVE ShownInv'
<1>1. CallsKeep
  BY DEF CallsKeep
<1>2. \A d \in Directions : PageShown(page'[d], call[d])
  BY ShownApart
<1> QED
  BY <1>1, <1>2, ShownKept

LEMMA ShownAfterStep == ASSUME IInv, ShownInv, [Next]_vars PROVE ShownInv'
<1>1. ASSUME NEW c \in Calls, CallStep(c) PROVE ShownInv'
  BY <1>1, ShownAfterCall
<1>2. ASSUME NEW d \in Directions, RequestDirections(d) PROVE ShownInv'
  BY <1>2, ShownAfterRequestDirections
<1>3. ASSUME NEW d \in Directions, PageStep(d) PROVE ShownInv'
  BY <1>3, ShownAfterRouteResolved, ShownAfterElevationAnswers DEF PageStep
<1>4. CASE RequestEtas
  BY <1>4, ShownAfterRequestEtas
<1>5. CASE EtasStep
  BY <1>5, ShownAfterRest DEF EtasStep, GatherAll, GatherBreaks
<1>6. CASE Tick
  BY <1>6, ShownAfterRest DEF Tick
<1>7. CASE UNCHANGED vars
  BY <1>7, ShownAfterRest DEF vars
<1> QED
  BY <1>1, <1>2, <1>3, <1>4, <1>5, <1>6, <1>7 DEF Next

LEMMA SamplesShow == ASSUME ShownInv PROVE SamplesCoverRoute
<1>1. SUFFICES ASSUME NEW d \in Directions, page[d].weather # <<>>
               PROVE  LET w == page[d].weather
                          n == Len(call[d].line)
                      IN  /\ Len(w) = IF n < WeatherWant THEN n ELSE WeatherWant
                          /\ w[1] = 1 /\ w[Len(w)] = n
                          /\ \A i \in 1..(Len(w) - 1) : w[i] < w[i + 1]
  BY DEF SamplesCoverRoute
<1> DEFINE line == call[d].line
           n == Len(line)
           points == Int \X Int
<1>2. line # <<>> /\ line \in Seq(points) /\ page[d].weather = SampleIndices(n)
  BY <1>1, Constants DEF ShownInv
<1>3. n \in Nat /\ n > 0
  <2> HIDE DEF line, points
  <2> QED
    BY <1>2
<1> HIDE DEF n
<1> QED
  BY <1>2, <1>3, SamplesGoAlong DEF n

-----------------------------------------------------------------------------
(* The theorems.                                                           *)

(* The invariant that the others rest on: where each call is in its plan   *)
(* (registry.py:100-125), with its token (mappls.py:52-74), and what the   *)
(* handlers wait for.                                                      *)
THEOREM Invariance == Spec => []IInv
<1>1. Init => IInv
  BY Initially
<1>2. IInv /\ [Next]_vars => IInv'
  BY AfterStep
<1> QED
  BY <1>1, <1>2, PTL DEF Spec

(* The variables keep their types, as far as the control goes.             *)
THEOREM TypeCorrect == Spec => []TypeOK
<1>1. IInv => TypeOK
  BY DEF IInv
<1> QED
  BY <1>1, Invariance, PTL

(* No request to Mappls is sent with a token that expires before the       *)
(* request ends: the 60 seconds of mappls.py:54 cover the time-outs.       *)
THEOREM TokensLast == Spec => []TokenGood
<1>1. ASSUME IInv PROVE TokenGood
  <2>1. SUFFICES ASSUME NEW c \in Calls, call[c].at = "ask",
                        Head(call[c].todo) = "mappls"
                 PROVE  now < call[c].good
    BY DEF TokenGood
  <2>2. /\ now \in Nat /\ call[c].since \in Nat /\ call[c].good \in Nat
        /\ TimeOK(call[c])
    BY <1>1 DEF IInv, TypeOK, CallOK
  <2> QED
    BY <2>1, <2>2, Constants DEF TimeOK
<1> QED
  BY <1>1, Invariance, PTL

(* The token lock is held by the one call that fetches a token, and by     *)
(* nobody once it is done (mappls.py:52-74).                               *)
THEOREM LockIsHeld == Spec => []LockHeld
<1>1. IInv => LockHeld
  BY DEF IInv
<1> QED
  BY <1>1, Invariance, PTL

(* A list of ETAs leaves out only members for whom every provider of the   *)
(* plan was asked in vain (etas.py:84-121).                                *)
THEOREM EtasAreComplete == Spec => []EtasLoseNobody
<1>1. ASSUME IInv PROVE EtasLoseNobody
  <2>1. SUFFICES ASSUME etas.status = 200, NEW c \in etas.rows \ etas.members
                 PROVE  call[c].todo = <<>> /\ call[c].out.kind \in {"noroute", "maps"}
    BY DEF EtasLoseNobody
  <2>2. call[c].at = "done" /\ call[c].out.kind \in {"noroute", "maps"}
    BY <1>1, <2>1 DEF IInv, PagesOK
  <2>3. c \in Calls
    BY <1>1, <2>1, Constants DEF IInv, TypeOK
  <2> QED
    BY <1>1, <2>2, <2>3 DEF IInv, PhaseOK
<1> QED
  BY <1>1, Invariance, PTL

(* What calls and pages hold of routes is true to the road: each line is   *)
(* the road as its provider writes it (google.py:31-56, here.py:132-147),  *)
(* the samples are those of a call that is done (directions.py:106-141),   *)
(* and each profile is one of its heights (elevation.py:25-46).            *)
THEOREM ShownIsKept == Spec => []ShownInv
<1>1. Init => ShownInv
  BY ShownFirst
<1>2. IInv /\ ShownInv /\ [Next]_vars => ShownInv'
  BY ShownAfterStep
<1> QED
  BY <1>1, <1>2, Invariance, PTL DEF Spec

(* What a client is shown of a route is true of it, for any road: the line *)
(* decodes to the road point for point (google.py:31-56), the weather      *)
(* samples go from its start to its end (weather.py:31-35), and climb and  *)
(* descent account for the heights at its ends (elevation.py:25-46).       *)
THEOREM RoutesAreTrue == Spec => []AnswerTrue
<1>1. ASSUME ShownInv PROVE AnswerTrue
  <2>1. LineIsRoad /\ ClimbAddsUp
    BY <1>1 DEF ShownInv, LineIsRoad
  <2>2. SamplesCoverRoute
    BY <1>1, SamplesShow
  <2> QED
    BY <2>1, <2>2 DEF AnswerTrue
<1> QED
  BY <1>1, ShownIsKept, PTL

(* Routing implements the Resolver: with token fetches, the lock and the   *)
(* other calls between its steps, each call still goes through its plan in *)
(* order, and ends with the first route or the last error                  *)
(* (registry.py:100-125).                                                  *)
THEOREM Refinement == Spec => Resolves
<1>1. Init => R!Init
  BY ResolverStarts
<1>2. IInv /\ [Next]_vars => [R!Next]_(R!vars)
  BY ResolverSteps
<1> QED
  BY <1>1, <1>2, Invariance, PTL DEF Spec, Resolves, R!Spec
=============================================================================
