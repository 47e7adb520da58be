------------------------------- MODULE SignIn -------------------------------
(***************************************************************************)
(* Sign-in with a code sent to a phone: request_otp and verify_otp of      *)
(* routers/auth.py for one phone number, over its three Redis keys (the    *)
(* code, the counter of failures and the cooldown) and its row in users.   *)
(*                                                                         *)
(* Each Redis command and each statement is an await of its own, at which  *)
(* requests interleave and a pod may die.  Keys expire by the clock, which *)
(* runs in coarse units: a command takes less than one.  Codes are         *)
(* numbered in the order they are sent; two of them are never equal, and 0 *)
(* is a code that was never sent.                                          *)
(***************************************************************************)
EXTENDS Integers, FiniteSets

CONSTANTS
  Slot,       \* places for verifications that are served at the same time
  OtpTtl,     \* otp_ttl_seconds
  Window,     \* _FAIL_WINDOW_SECONDS
  Threshold,  \* _FAIL_THRESHOLD
  Cooldown,   \* _COOLDOWN_SECONDS
  MaxNow, MaxCodes, MaxDeaths  \* bounds of the clock, the codes, the deaths

ASSUME SignInConstants ==
  /\ IsFiniteSet(Slot)
  /\ {OtpTtl, Window, Threshold, Cooldown, MaxNow, MaxCodes, MaxDeaths}
       \subseteq Nat
  /\ Threshold > 1
  /\ 0 < Window /\ Window <= Cooldown

Never == MaxNow + Window + 1  \* the expiry of a key without one
LongAgo == 0 - Window         \* the time of a failure that is forgotten

VARIABLES
  now,
  codes,   \* how many codes have been sent; the last one is the newest
  otp,     \* otp:<phone>: the code and when it expires
  fail,    \* otp:fail:<phone>: the counter and when it expires
  cool,    \* otp:cooldown:<phone>: when it expires, 0 where there is none
  user,    \* the phone has its row in users
  req,     \* the verification in each slot
  failed,  \* history: when the last verifications failed, the newest first
  spent,   \* history: codes that a verification has consumed
  deaths   \* history: verifications that died with their pod

vars == <<now, codes, otp, fail, cool, user, req, failed, spent, deaths>>

Statuses == {0, 200, 401, 429, 500}

NoCode == [code |-> 0, until |-> 0]
NoCount == [count |-> 0, until |-> 0]

Init ==
  /\ now = 0
  /\ codes = 0
  /\ otp = NoCode
  /\ fail = NoCount
  /\ cool = 0
  /\ user = FALSE
  /\ req = [r \in Slot |-> [at |-> "idle", code |-> 0, late |-> FALSE,
                            lone |-> FALSE, status |-> 0]]
  /\ failed = [i \in 1..Threshold |-> LongAgo]
  /\ spent = {}
  /\ deaths = 0

Code == otp.code
Fails == fail.count

GoTo(r, at) == req' = [req EXCEPT ![r].at = at]
Respond(r, status) ==
  req' = [req EXCEPT ![r].at = "idle", ![r].status = status]

(* History: r is no longer by itself, or has not been.                     *)
Joined == [r \in Slot |-> [req[r] EXCEPT !.lone = FALSE]]

-----------------------------------------------------------------------------
(* request_otp: a new code replaces the last one.                          *)
RequestOtp ==
  /\ codes < MaxCodes
  /\ codes' = codes + 1
  /\ otp' = [code |-> codes + 1, until |-> now + OtpTtl]
  /\ req' = Joined
  /\ UNCHANGED <<now, fail, cool, user, failed, spent, deaths>>

(* A verification arrives.  History: "late" if its code has been consumed, *)
(* "lone" if it is the only one, of the code that counts.                  *)
Verify(r) ==
  /\ req[r].at = "idle"
  /\ \E code \in 0..codes :
       req' = [Joined EXCEPT ![r] =
         [at |-> "cooldown", code |-> code, late |-> code \in spent,
          lone |-> /\ \A q \in Slot : req[q].at = "idle"
                   /\ code # 0 /\ code = Code /\ cool = 0,
          status |-> 0]]
  /\ UNCHANGED <<now, codes, otp, fail, cool, user, failed, spent, deaths>>

ReadCooldown(r) ==
  /\ req[r].at = "cooldown"
  /\ IF cool # 0 THEN Respond(r, 429) ELSE GoTo(r, "code")
  /\ UNCHANGED <<now, codes, otp, fail, cool, user, failed, spent, deaths>>

ReadCode(r) ==
  /\ req[r].at = "code"
  /\ GoTo(r, IF Code = 0 \/ Code # req[r].code THEN "incr" ELSE "del")
  /\ UNCHANGED <<now, codes, otp, fail, cool, user, failed, spent, deaths>>

(* INCR: a counter that is not there starts without an expiry.             *)
CountFailure(r) ==
  /\ req[r].at = "incr"
  /\ fail' = [count |-> Fails + 1,
              until |-> IF Fails = 0 THEN Never ELSE fail.until]
  /\ failed' = [i \in 1..Threshold |-> IF i = 1 THEN now ELSE failed[i - 1]]
  /\ IF Fails = 0 THEN GoTo(r, "expire")
     ELSE IF Fails + 1 >= Threshold THEN GoTo(r, "lock")
     ELSE Respond(r, 401)
  /\ UNCHANGED <<now, codes, otp, cool, user, spent, deaths>>

\* Mutant: the counter never expires.
ExpireCounter_Never(r) ==
  /\ req[r].at = "expire"
  /\ Respond(r, 401)
  /\ UNCHANGED <<now, codes, otp, fail, cool, user, failed, spent, deaths>>

(* EXPIRE does nothing where the counter is gone.                          *)
ExpireCounter(r) ==
  /\ req[r].at = "expire"
  /\ fail' = IF Fails = 0 THEN fail ELSE [fail EXCEPT !.until = now + Window]
  /\ Respond(r, 401)
  /\ UNCHANGED <<now, codes, otp, cool, user, failed, spent, deaths>>

\* Mutant: the cooldown is shorter than the window.
StartCooldown_Short(r) ==
  /\ req[r].at = "lock"
  /\ cool' = now + 1
  /\ Respond(r, 401)
  /\ UNCHANGED <<now, codes, otp, fail, user, failed, spent, deaths>>

StartCooldown(r) ==
  /\ req[r].at = "lock"
  /\ cool' = now + Cooldown
  /\ Respond(r, 401)
  /\ UNCHANGED <<now, codes, otp, fail, user, failed, spent, deaths>>

\* Mutant: the code is left to expire.
DeleteCode_Kept(r) ==
  /\ req[r].at = "del"
  /\ spent' = spent \cup {req[r].code}
  /\ GoTo(r, "reset")
  /\ UNCHANGED <<now, codes, otp, fail, cool, user, failed, deaths>>

(* Whatever code is there by now.                                          *)
DeleteCode(r) ==
  /\ req[r].at = "del"
  /\ otp' = NoCode
  /\ spent' = spent \cup {req[r].code}
  /\ GoTo(r, "reset")
  /\ UNCHANGED <<now, codes, fail, cool, user, failed, deaths>>

DeleteCounter(r) ==
  /\ req[r].at = "reset"
  /\ fail' = NoCount
  /\ GoTo(r, "select")
  /\ UNCHANGED <<now, codes, otp, cool, user, failed, spent, deaths>>

SelectUser(r) ==
  /\ req[r].at = "select"
  /\ IF user THEN Respond(r, 200) ELSE GoTo(r, "insert")
  /\ UNCHANGED <<now, codes, otp, fail, cool, user, failed, spent, deaths>>

(* users.phone is unique: the second of two first sign-ins fails.          *)
InsertUser(r) ==
  /\ req[r].at = "insert"
  /\ user' = TRUE
  /\ Respond(r, IF user THEN 500 ELSE 200)
  /\ UNCHANGED <<now, codes, otp, fail, cool, failed, spent, deaths>>

PodDies(r) ==
  /\ deaths < MaxDeaths
  /\ req[r].at # "idle"
  /\ deaths' = deaths + 1
  /\ req' = [req EXCEPT ![r].at = "idle", ![r].status = 0]
  /\ UNCHANGED <<now, codes, otp, fail, cool, user, failed, spent>>

(* Time passes and keys expire.  The commands that follow a failure come   *)
(* at once; the others may take any time.  Failures that no counter        *)
(* reaches back to are forgotten.                                          *)
Tick ==
  /\ now < MaxNow
  /\ \A r \in Slot : req[r].at \notin {"expire", "lock"}
  /\ now' = now + 1
  /\ otp' = IF now + 1 < otp.until THEN otp ELSE NoCode
  /\ fail' = IF now + 1 < fail.until THEN fail ELSE NoCount
  /\ cool' = IF now + 1 < cool THEN cool ELSE 0
  /\ req' = Joined
  /\ failed' = [i \in 1..Threshold |->
                  IF failed[i] + Window > now + 1 THEN failed[i] ELSE LongAgo]
  /\ UNCHANGED <<codes, user, spent, deaths>>

Serve(r) ==
  \/ ReadCooldown(r) \/ ReadCode(r) \/ CountFailure(r) \/ ExpireCounter(r)
  \/ StartCooldown(r) \/ DeleteCode(r) \/ DeleteCounter(r) \/ SelectUser(r)
  \/ InsertUser(r)

Next ==
  \/ RequestOtp
  \/ \E r \in Slot : Verify(r) \/ Serve(r) \/ PodDies(r)
  \/ Tick

Spec == Init /\ [][Next]_vars

-----------------------------------------------------------------------------
(* Properties.                                                             *)

Step == {"idle", "cooldown", "code", "incr", "expire", "lock", "del", "reset",
         "select", "insert"}
Sent == 0..MaxCodes
RequestType ==
  [at : Step, code : Sent, late : BOOLEAN, lone : BOOLEAN, status : Statuses]

(* Types of all variables.                                                 *)
TypeOK ==
  /\ now \in 0..MaxNow /\ codes \in 0..MaxCodes /\ deaths \in 0..MaxDeaths
  /\ otp \in [code : 0..codes, until : Nat]
  /\ fail \in [count : Nat, until : Nat]
  /\ cool \in Nat /\ user \in BOOLEAN /\ spent \subseteq 1..codes
  /\ req \in [Slot -> RequestType]
  /\ failed \in [1..Threshold -> LongAgo..MaxNow]

(* A code opens the account once: a verification that arrives after        *)
(* another one has consumed its code never succeeds, not even when codes   *)
(* are sent, consumed and deleted in between.  (Two that overlap may both  *)
(* succeed.)                                                               *)
CodeSpentOnce == \A r \in Slot : req[r].late => req[r].status # 200

(* However verifications overlap, a counter counts no more failures than   *)
(* the threshold allows plus those that were under way when the cooldown   *)
(* began, and one for each pod that died before it could begin it.  The    *)
(* counter is gone before the cooldown ends.                               *)
GuessesBounded ==
  fail.until # Never =>
    Fails <= Threshold - 1 + Cardinality(Slot) + deaths

(* What the two rest on.  A code that has been consumed is not the one that *)
(* counts, and a verification that is late does not get past ReadCode.     *)
LateOK(q) ==
  /\ q.late => /\ q.code \in spent /\ q.status # 200
               /\ q.at \in {"idle", "cooldown", "code", "incr", "expire", "lock"}
  /\ q.at = "del" => q.code \in 1..codes

CodeInv == Code \notin spent /\ \A r \in Slot : LateOK(req[r])

In(steps) == {r \in Slot : req[r].at \in steps}
Locking == In({"lock"})
Guessing == In({"code", "incr"})
Expiring == In({"expire"})

(* When the counter expires, or will if its EXPIRE is still to come.       *)
Due == IF fail.until = Never THEN now + Window ELSE fail.until

(* Failures past the threshold are being turned into a cooldown, or the    *)
(* cooldown has begun, outlasts the counter, and leaves only those who are *)
(* past its check; except for a counter that lost its EXPIRE with a pod.   *)
Few == Fails <= Threshold - 1 + Cardinality(Locking) + deaths
Cooling ==
  /\ cool # 0 /\ Due <= cool
  /\ Fails + Cardinality(Guessing) <= Threshold - 1 + Cardinality(Slot) + deaths

CounterInv ==
  /\ fail.until = Never \/ fail.until <= now + Window
  /\ Expiring # {} => Fails = 0 \/ fail.until \in {Never, now + Window}
  /\ (fail.until # Never \/ Expiring # {}) => Few \/ Cooling

(* The failures a counter counts lie within the window that ends with it,  *)
(* and all of them in this unit where it is still to get its expiry; so    *)
(* whoever has counted up to the threshold has that many behind him.       *)
Lately(i) == failed[i] + Window > now
Counted == {i \in 1..Threshold : i <= Fails}

EarnedInv ==
  deaths = 0 =>
    /\ Fails # 0 => fail.until > now /\ (fail.until = Never => Expiring # {})
    /\ \A i \in Counted :
         IF fail.until = Never \/ Expiring # {} THEN failed[i] = now
         ELSE failed[i] + Window >= fail.until
    /\ Locking # {} => \A i \in 1..Threshold : Lately(i)

(* A verification by itself finds what it found when it arrived.           *)
LoneOK(r) ==
  req[r].lone =>
    /\ \A q \in Slot \ {r} : req[q].at = "idle"
    /\ req[r].at \in {"idle", "cooldown", "code", "del", "reset", "select", "insert"}
    /\ req[r].at = "cooldown" => cool = 0
    /\ req[r].at \in {"cooldown", "code"} => req[r].code # 0 /\ req[r].code = Code
    /\ req[r].at = "insert" => ~user
    /\ req[r].at = "idle" => req[r].status \in {0, 200}

LoneInv == \A r \in Slot : LoneOK(r)

IInv == TypeOK /\ CodeInv /\ CounterInv /\ EarnedInv /\ LoneInv

(* A cooldown is earned: as many failures as the threshold lie within the  *)
(* window before it, unless a pod died between counting a failure and      *)
(* giving the counter its expiry.                                          *)
LockoutEarned ==
  \A r \in Slot :
    (req[r].at = "lock" /\ deaths = 0) => Lately(Threshold)

(* A verification of the newest code, with none other under way and no     *)
(* cooldown, succeeds, whatever failures, crashes and races came before.   *)
LoneSignInWorks ==
  \A r \in Slot :
    (req[r].lone /\ req[r].at = "idle") => req[r].status \in {0, 200}

(* The owner of the phone is kept out only with a cause.                   *)
OwnerGetsIn == LockoutEarned /\ LoneSignInWorks
=============================================================================
