\* Expenses.cfg
SPECIFICATION ExpensesSpec
CONSTANTS
  User = {u1, u2, u3}
  u1 = u1
  u2 = u2
  u3 = u3
  Req = {r1}
  Reader = {q1}
  Amount = {1, 5}
  Payload <- Lists
  MaxExpenses = 2
  NoUser = NoUser
  r1 = r1
  q1 = q1
INVARIANTS
  SharesAddUp
  EvenSplit
  BalancesAddUp
