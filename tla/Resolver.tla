------------------------------ MODULE Resolver ------------------------------
(***************************************************************************)
(* What services/maps/registry.py promises of directions, whatever the     *)
(* providers need to be asked: the first provider of the plan that has a   *)
(* route answers; a provider that fails or has no route passes the call on *)
(* to the next one; the error of the last one is told only after all of    *)
(* them.  And what it does not promise: an exception it does not know ends *)
(* the call at once.                                                       *)
(***************************************************************************)
EXTENDS Sequences

CONSTANTS
  Calls,     \* calls of get_directions
  Plans      \* what may be configured: sequences of providers

VARIABLES
  plan,      \* the configured candidates, in order
  todo,      \* todo[c]: candidates call c has not heard from
  outcome    \* outcome[c]: how call c ended, and the provider that answered it

vars == <<plan, todo, outcome>>

Open == [kind |-> "none", by |-> "none"]
Declines == {"noroute", "maps"}

Init ==
  /\ plan \in Plans
  /\ todo = [c \in Calls |-> <<>>]
  /\ outcome = [c \in Calls |-> Open]

Settle(c, kind, by) ==
  outcome' = [outcome EXCEPT ![c] = [kind |-> kind, by |-> by]]

Begin(c) ==
  /\ outcome[c] = Open /\ todo[c] = <<>>
  /\ todo' = [todo EXCEPT ![c] = plan]
  /\ IF plan = <<>> THEN Settle(c, "maps", "none") ELSE UNCHANGED outcome
  /\ UNCHANGED plan

Answer(c) ==
  /\ outcome[c] = Open /\ todo[c] # <<>>
  /\ Settle(c, "route", Head(todo[c]))
  /\ UNCHANGED <<plan, todo>>

Break(c) ==
  /\ outcome[c] = Open /\ todo[c] # <<>>
  /\ Settle(c, "crash", "none")
  /\ UNCHANGED <<plan, todo>>

Decline(c) ==
  /\ outcome[c] = Open /\ todo[c] # <<>>
  /\ todo' = [todo EXCEPT ![c] = Tail(@)]
  /\ IF Tail(todo[c]) = <<>>
     THEN \E kind \in Declines : Settle(c, kind, "none")
     ELSE UNCHANGED outcome
  /\ UNCHANGED plan

Next == \E c \in Calls : Begin(c) \/ Answer(c) \/ Break(c) \/ Decline(c)

Spec == Init /\ [][Next]_vars
=============================================================================
