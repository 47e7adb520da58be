------------------------------ MODULE Expenses ------------------------------
(***************************************************************************)
(* The expenses of one trip (routers/expenses.py): each is paid by one     *)
(* member and split among several, and /balances adds up who owes whom.    *)
(*                                                                         *)
(* A step is one statement.  An expense and its shares are committed       *)
(* together and never changed; what moves between the statements of a      *)
(* request are the members of the trip and the list of expenses.  Money is *)
(* an integer number of cents.  The order in which the database returns    *)
(* rows is not specified, and neither is it here.                          *)
(***************************************************************************)
EXTENDS Integers, Sequences, FiniteSets, Functions

CONSTANTS
  User,         \* the accounts
  Req,          \* slots for POST /expenses
  Reader,       \* slots for GET /expenses/balances
  Amount,       \* amounts the clients of this instance enter
  Payload,      \* lists of shares they send, <<>> where none are given
  MaxExpenses,  \* bound: expenses in a behaviour
  NoUser

Share == [user : User, cents : Nat]

ASSUME ExpensesConstants ==
  /\ IsFiniteSet(User) /\ NoUser \notin User
  /\ Amount \subseteq Nat \ {0}
  /\ Payload \subseteq Seq(Share)
  /\ MaxExpenses \in Nat

VARIABLES
  member,  \* users whose trip_members row has left_at NULL
  book,    \* the expenses and their shares, in the order of their commits
  bill,    \* the request in each slot of Req
  sheet    \* the request in each slot of Reader, and its last answer

expensesVars == <<member, book, bill, sheet>>

NoShares == [u \in User |-> 0]

\* share: what each user owes, among: those the expense is split among.
\* History: stay, who has been a member ever since the request came in; met,
\* who has been one at some time since.
Free ==
  [step |-> "idle", payer |-> NoUser, amount |-> 0, list |-> <<>>,
   share |-> NoShares, among |-> {}, stay |-> {}, met |-> {}]

\* todo: expenses whose shares are still to be read; read: how many there are.
\* History: due, how many there were when the request came in.
Blank ==
  [step |-> "idle", todo |-> {}, read |-> 0, total |-> 0, net |-> [u \in User |-> 0],
   due |-> 0]

ExpensesInit ==
  /\ member = User
  /\ book = <<>>
  /\ bill = [r \in Req |-> Free]
  /\ sheet = [q \in Reader |-> Blank]

-----------------------------------------------------------------------------
(* The members come and go.                                                *)

LeaveTrip(u) ==
  /\ u \in member
  /\ member' = member \ {u}
  /\ bill' = [r \in Req |-> [bill[r] EXCEPT !.stay = @ \ {u}]]
  /\ UNCHANGED <<book, sheet>>

JoinTrip(u) ==
  /\ u \notin member
  /\ member' = member \cup {u}
  /\ bill' = [r \in Req |-> IF bill[r].step = "idle" THEN bill[r]
                           ELSE [bill[r] EXCEPT !.met = @ \cup {u}]]
  /\ UNCHANGED <<book, sheet>>

-----------------------------------------------------------------------------
(* POST /trips/{trip_id}/expenses                                          *)

\* require_trip_member lets the caller in; the payload has been validated.
AddExpense(r, u, amount, list) ==
  /\ bill[r].step = "idle"
  /\ u \in member
  /\ Len(book) + Cardinality({s \in Req : bill[s].step # "idle"}) < MaxExpenses
  /\ bill' = [bill EXCEPT ![r] =
       [Free EXCEPT !.step = "split", !.payer = u, !.amount = amount, !.list = list,
                    !.stay = member, !.met = member]]
  /\ UNCHANGED <<member, book, sheet>>

Records(r, share) ==
  book' = Append(book, [payer |-> bill[r].payer, amount |-> bill[r].amount,
                        share |-> share])

Finish(r) == bill' = [bill EXCEPT ![r] = Free]

Listed(list) == {list[i].user : i \in 1..Len(list)}
Cents(list) == SumFunction([i \in 1..Len(list) |-> list[i].cents])

\* What each user owes according to the list.
AsAsked(list) ==
  [u \in User |-> IF u \in Listed(list)
                  THEN list[CHOOSE i \in 1..Len(list) : list[i].user = u].cents ELSE 0]

\* The shares were given: they must add up (400), and a user listed twice breaks
\* the primary key of expense_shares at the commit (500).
SplitAsAsked(r) ==
  /\ bill[r].step = "split" /\ bill[r].list # <<>>
  /\ LET list == bill[r].list
     IN  IF Cents(list) = bill[r].amount /\ Cardinality(Listed(list)) = Len(list)
         THEN Records(r, AsAsked(list))
         ELSE UNCHANGED book
  /\ Finish(r)
  /\ UNCHANGED <<member, sheet>>

\* Mutant: what the division leaves is dropped.
EqualSharesRoundedDown(amount, users) ==
  {[u \in User |-> IF u \in users THEN amount \div Cardinality(users) ELSE 0]}

\* Everybody the same, and the cents that remain to those who come first.
EqualShares(amount, users) ==
  LET n == Cardinality(users)
      per == amount \div n
      remainder == amount - per * n
  IN  {[u \in User |-> IF u \notin users THEN 0 ELSE IF u \in first THEN per + 1 ELSE per] :
         first \in {s \in SUBSET users : Cardinality(s) = remainder}}

SplitsAmong(r, users) ==
  \E share \in EqualShares(bill[r].amount, users) :
    bill' = [bill EXCEPT ![r] =
      [@ EXCEPT !.step = "commit", !.share = share, !.among = users]]

\* Mutant: among all who have a row, left_at or not.
SplitEquallyAll(r) ==
  /\ bill[r].step = "split" /\ bill[r].list = <<>>
  /\ SplitsAmong(r, User)
  /\ UNCHANGED <<member, book, sheet>>

\* No shares were given: the members are read; 400 if there are none left.
SplitEqually(r) ==
  /\ bill[r].step = "split" /\ bill[r].list = <<>>
  /\ \/ member = {} /\ Finish(r)
     \/ member # {} /\ SplitsAmong(r, member)
  /\ UNCHANGED <<member, book, sheet>>

CommitExpense(r) ==
  /\ bill[r].step = "commit"
  /\ Records(r, bill[r].share)
  /\ Finish(r)
  /\ UNCHANGED <<member, sheet>>

-----------------------------------------------------------------------------
(* GET /trips/{trip_id}/expenses/balances                                  *)

\* A member asks; the answer to the last question is thrown away.
AskBalances(q) ==
  /\ sheet[q].step \in {"idle", "done"}
  /\ member # {}
  /\ sheet' = [sheet EXCEPT ![q] =
       [Blank EXCEPT !.step = "expenses", !.due = Len(book)]]
  /\ UNCHANGED <<member, book, bill>>

\* SELECT the expenses.
ReadExpenses(q) ==
  /\ sheet[q].step = "expenses"
  /\ sheet' = [sheet EXCEPT ![q] =
       [@ EXCEPT !.step = "shares", !.todo = 1..Len(book), !.read = Len(book)]]
  /\ UNCHANGED <<member, book, bill>>

PaidBy(e, u) == IF u = e.payer THEN e.amount ELSE 0

\* Expense i, which is e, goes into the sheet.
Added(s, i, e) ==
  [s EXCEPT !.todo = s.todo \ {i}, !.total = s.total + e.amount,
            !.net = [u \in User |-> s.net[u] + PaidBy(e, u) - e.share[u]]]

\* Mutant: the shares are those of the latest expense.
ReadSharesOfLatest(q) ==
  /\ sheet[q].step = "shares"
  /\ \E i \in sheet[q].todo :
       sheet' = [sheet EXCEPT ![q] =
         Added(sheet[q], i, [book[i] EXCEPT !.share = book[Len(book)].share])]
  /\ UNCHANGED <<member, book, bill>>

\* For each expense, SELECT its shares.
ReadShares(q) ==
  /\ sheet[q].step = "shares"
  /\ \E i \in sheet[q].todo :
       sheet' = [sheet EXCEPT ![q] = Added(sheet[q], i, book[i])]
  /\ UNCHANGED <<member, book, bill>>

Answer(q) ==
  /\ sheet[q].step = "shares" /\ sheet[q].todo = {}
  /\ sheet' = [sheet EXCEPT ![q].step = "done"]
  /\ UNCHANGED <<member, book, bill>>

Create(r) == SplitAsAsked(r) \/ SplitEqually(r) \/ CommitExpense(r)
Balances(q) == AskBalances(q) \/ ReadExpenses(q) \/ ReadShares(q) \/ Answer(q)

ExpensesNext ==
  \/ \E u \in User : LeaveTrip(u) \/ JoinTrip(u)
  \/ \E r \in Req :
       \/ \E u \in User, a \in Amount, list \in Payload : AddExpense(r, u, a, list)
       \/ Create(r)
  \/ \E q \in Reader : Balances(q)

ExpensesSpec == ExpensesInit /\ [][ExpensesNext]_expensesVars

-----------------------------------------------------------------------------
(* Properties                                                              *)

\* Type invariant.
ExpensesTypeOK ==
  /\ member \in SUBSET User
  /\ book \in Seq([payer : User, amount : Nat, share : [User -> Nat]])
  /\ bill \in [Req -> [step : {"idle", "split", "commit"}, payer : User \cup {NoUser},
                       amount : Nat, list : Payload \cup {<<>>}, share : [User -> Nat],
                       among : SUBSET User, stay : SUBSET User, met : SUBSET User]]
  /\ sheet \in [Reader -> [step : {"idle", "expenses", "shares", "done"},
                           todo : SUBSET (1..Len(book)), read : 0..Len(book),
                           total : Nat, net : [User -> Int], due : 0..Len(book)]]

\* "integer cents throughout": no cent of a committed expense is lost or made by
\* the split, whoever leaves or joins while it is being worked out, and whatever
\* list of shares was sent.
SharesAddUp == \A i \in 1..Len(book) : SumFunction(book[i].share) = book[i].amount

\* "split equally across all active members": a split is to the cent, nobody who
\* was a member all the time is spared, and nobody pays who was not one while
\* the request was served.
EvenSplit ==
  \A r \in Req : bill[r].step = "commit" =>
    /\ \A u, v \in bill[r].among : bill[r].share[u] <= bill[r].share[v] + 1
    /\ bill[r].stay \subseteq bill[r].among
    /\ bill[r].among \subseteq bill[r].met

\* The balances of an answer add up to zero and to the total, however many
\* expenses are committed while they are computed, and an answer has every
\* expense that was there when it was asked for.
BalancesAddUp ==
  \A q \in Reader : sheet[q].step = "done" =>
    /\ SumFunction(sheet[q].net) = 0
    /\ sheet[q].read >= sheet[q].due
    /\ sheet[q].total =
         SumFunction([i \in 1..sheet[q].read |-> book[i].amount])

\* The inductive invariant behind EvenSplit: somebody pays, who has stayed is a
\* member, and the members have all been met.
BillInv ==
  \A r \in Req : bill[r].step # "idle" =>
    /\ bill[r].payer \in User
    /\ bill[r].stay \subseteq member
    /\ member \subseteq bill[r].met

\* The one behind SharesAddUp: what is about to be committed adds up,
ShareInv ==
  /\ \A r \in Req : bill[r].step = "commit" =>
       SumFunction(bill[r].share) = bill[r].amount
  /\ SharesAddUp

\* and the one behind BalancesAddUp: a sheet accounts for the expenses read whose
\* shares have been added, and for nothing else.
Booked(S) == SumFunctionOnSet([i \in 1..Len(book) |-> book[i].amount], S)

SheetInv ==
  \A q \in Reader :
    LET s == sheet[q]
    IN  /\ s.step = "expenses" => s.total = 0 /\ s.net = [u \in User |-> 0]
        /\ s.step \in {"shares", "done"} =>
             /\ s.due <= s.read
             /\ s.todo \subseteq 1..s.read
             /\ s.total = Booked((1..s.read) \ s.todo)
             /\ SumFunction(s.net) = 0
        /\ s.step = "done" => s.todo = {}

ExpensesInv == ExpensesTypeOK /\ BillInv /\ EvenSplit /\ ShareInv /\ SheetInv
=============================================================================
