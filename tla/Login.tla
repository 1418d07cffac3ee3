------------------------------- MODULE Login -------------------------------
(***************************************************************************)
(* $login: the password, the code mailed as a second factor, and the lock  *)
(* after too many failures.  One user, one process.                        *)
(*                                                                         *)
(* A login reads the user once and judges by that copy; it compares the    *)
(* password, which takes long; a failure adds one to failedLoginCount by   *)
(* an update nobody awaits, a success writes zero.  A slot of Requests is  *)
(* busy until the request's last update has reached the database.          *)
(***************************************************************************)
EXTENDS Integers, FiniteSets

CONSTANTS
  Requests,    \* slots for the logins under way
  LimitCount,  \* rateLimitCount
  Cap,         \* longest lock, in ticks (one second in the code)
  CodeTicks,   \* twoFaEmailTimeoutMinutes, in ticks
  MaxTime,     \* bound: the clock stops there
  MaxCodes,    \* bound: no more codes are mailed
  MaxFails,    \* bound: no more passwords are found wrong
  MaxGrants    \* bound: no more logins succeed

LoginAssumption ==
  /\ IsFiniteSet(Requests) /\ Requests # {}
  /\ LimitCount \in Nat \ {0}
  /\ Cap \in Nat /\ Cap >= LimitCount * LimitCount
  /\ CodeTicks \in Nat \ {0}
  /\ {MaxTime, MaxCodes, MaxFails, MaxGrants} \subseteq Nat

VARIABLES
  now,     \* the clock
  recent,  \* userLastLoginAttemptMap has an attempt of the last 600 ms
  user,    \* the user in the database
  req,     \* what each slot is doing
  codes,   \* history: codes mailed
  spent,   \* history: codes that let somebody in
  fails,   \* history: passwords found wrong
  grants   \* history: logins that succeeded

vars == <<now, recent, user, req, codes, spent, fails, grants>>

Never == -CodeTicks   \* lastTwoFACodeSent when no code is pending
NoCode == 0

\* count: failedLoginCount   last: lastLoginAttempt   twoFA: the option
\* code: lastTwoFACode       sent: lastTwoFACodeSent
\* hash: whether saltRounds is what the user's role calls for
User == [count : Nat, last : Nat, twoFA : BOOLEAN, code : Nat,
         sent : Int, hash : {"current", "outdated"}]

Pcs == { "idle",       \* the slot is free
         "reading",    \* the user is being read from the database
         "mailing",    \* a new code is being made
         "comparing",  \* bcrypt is at work
         "counting",   \* refused, the increment is on its way
         "granting" }  \* the password is right, the patch is on its way

\* right: the password is the user's   code: the code given, or NoCode
\* at: the date of the attempt         copy: the user as it was read
Slot == [pc : Pcs, right : BOOLEAN, code : Nat, at : Nat, copy : User]

Unread == [count |-> 0, last |-> 0, twoFA |-> FALSE, code |-> NoCode,
           sent |-> Never, hash |-> "current"]

Idle == [pc |-> "idle", right |-> FALSE, code |-> NoCode, at |-> 0, copy |-> Unread]

Become(r, next) == req' = [req EXCEPT ![r] = next]

Least(a, b) == IF a < b THEN a ELSE b

\* How long a user with n failures is locked, counted from the last attempt.
LockTicks(n) == Least(n * n, Cap)

Init ==
  /\ now = 0
  /\ recent = FALSE
  /\ user \in {[Unread EXCEPT !.twoFA = b] : b \in BOOLEAN}
  /\ req = [r \in Requests |-> Idle]
  /\ codes = 0
  /\ spent = {}
  /\ fails = 0
  /\ grants = 0

-----------------------------------------------------------------------------
(***************************************************************************)
(* One login.                                                              *)
(***************************************************************************)

\* An attempt too soon after the last one changes nothing; others are noted
\* before anything is known of them.
Enter(r, right, code) ==
  /\ req[r] = Idle
  /\ ~recent
  /\ recent' = TRUE
  /\ Become(r, [Idle EXCEPT !.pc = "reading", !.right = right, !.code = code])
  /\ UNCHANGED <<now, user, codes, spent, fails, grants>>

\* Mutant of Locked: one failure more.
Locked_OffByOne == user.count > LimitCount /\ now - user.last < LockTicks(user.count)

Locked == user.count >= LimitCount /\ now - user.last < LockTicks(user.count)

\* verifyTwoFA
CodeIsGood(c) == user.code # NoCode /\ user.code = c /\ user.sent + CodeTicks >= now

\* The user is read; everything up to the next await is judged by that copy.
Read(r) ==
  /\ req[r].pc = "reading"
  /\ Become(r,
       IF Locked THEN Idle
       ELSE IF user.twoFA /\ req[r].code = NoCode
       THEN IF user.sent + CodeTicks > now THEN Idle
            ELSE [req[r] EXCEPT !.pc = "mailing", !.copy = user]
       ELSE IF user.twoFA /\ ~CodeIsGood(req[r].code) THEN Idle
       ELSE [req[r] EXCEPT !.pc = "comparing", !.copy = user, !.at = now])
  /\ UNCHANGED <<now, recent, user, codes, spent, fails, grants>>

\* Mutant of Mail: the date of the code is not written.
Mail_NoDate(r) ==
  /\ req[r].pc = "mailing"
  /\ codes < MaxCodes
  /\ codes' = codes + 1
  /\ user' = [user EXCEPT !.code = codes + 1]
  /\ Become(r, Idle)
  /\ UNCHANGED <<now, recent, spent, fails, grants>>

\* $sendTwoFACode: a new code is mailed and written; the login is refused.
Mail(r) ==
  /\ req[r].pc = "mailing"
  /\ codes < MaxCodes
  /\ codes' = codes + 1
  /\ user' = [user EXCEPT !.code = codes + 1, !.sent = now]
  /\ Become(r, Idle)
  /\ UNCHANGED <<now, recent, spent, fails, grants>>

Compare(r) ==
  /\ req[r].pc = "comparing"
  /\ IF req[r].right
     THEN /\ Become(r, [req[r] EXCEPT !.pc = "granting"])
          /\ UNCHANGED fails
     ELSE /\ fails < MaxFails
          /\ fails' = fails + 1
          /\ Become(r, [req[r] EXCEPT !.pc = "counting"])
  /\ UNCHANGED <<now, recent, user, codes, spent, grants>>

\* Mutant of Count: the increment is applied twice.
Count_Twice(r) ==
  /\ req[r].pc = "counting"
  /\ user' = [user EXCEPT !.count = @ + 2, !.last = req[r].at]
  /\ Become(r, Idle)
  /\ UNCHANGED <<now, recent, codes, spent, fails, grants>>

\* $unsecure_incPatch, atomic in the database.
Count(r) ==
  /\ req[r].pc = "counting"
  /\ user' = [user EXCEPT !.count = @ + 1, !.last = req[r].at]
  /\ Become(r, Idle)
  /\ UNCHANGED <<now, recent, codes, spent, fails, grants>>

\* Mutant of Granted: the code is not withdrawn.
Granted_KeepsCode(r) == [user EXCEPT !.count = 0, !.last = req[r].at]

\* What the success patch makes of the user.
Granted(r) ==
  LET u == [user EXCEPT !.count = 0, !.last = req[r].at]
  IN  IF req[r].copy.twoFA THEN [u EXCEPT !.code = NoCode, !.sent = Never] ELSE u

\* The success patch.  A user whose hash is outdated gets the password in it
\* as well, without the role that getSaltRounds needs, and the patch throws.
Grant(r) ==
  /\ req[r].pc = "granting"
  /\ IF req[r].copy.hash = "outdated"
     THEN UNCHANGED <<user, spent, grants>>
     ELSE /\ grants < MaxGrants
          /\ user' = Granted(r)
          /\ spent' = spent \cup ({req[r].code} \ {NoCode})
          /\ grants' = grants + 1
  /\ Become(r, Idle)
  /\ UNCHANGED <<now, recent, codes, fails>>

-----------------------------------------------------------------------------
(***************************************************************************)
(* What goes on besides.                                                   *)
(***************************************************************************)

\* The user is given a role that calls for other salt rounds.
ChangeRole ==
  /\ user.hash = "current"
  /\ user' = [user EXCEPT !.hash = "outdated"]
  /\ UNCHANGED <<now, recent, req, codes, spent, fails, grants>>

\* change_password and reset_password hash anew, with the role.
NewPassword ==
  /\ user.hash = "outdated"
  /\ user' = [user EXCEPT !.hash = "current"]
  /\ UNCHANGED <<now, recent, req, codes, spent, fails, grants>>

\* 600 ms go by, or the attempt falls out of the LRU map.
Forget ==
  /\ recent
  /\ recent' = FALSE
  /\ UNCHANGED <<now, user, req, codes, spent, fails, grants>>

Tick ==
  /\ now < MaxTime
  /\ now' = now + 1
  /\ UNCHANGED <<recent, user, req, codes, spent, fails, grants>>

Next ==
  \/ \E r \in Requests :
       \/ \E right \in BOOLEAN, code \in 0..codes : Enter(r, right, code)
       \/ Read(r) \/ Mail(r) \/ Compare(r) \/ Count(r) \/ Grant(r)
  \/ ChangeRole \/ NewPassword \/ Forget \/ Tick

Spec == Init /\ [][Next]_vars

-----------------------------------------------------------------------------
\* Type invariant; the count in the database never passes the number of
\* failures there were.
TypeOK ==
  /\ now \in 0..MaxTime
  /\ recent \in BOOLEAN
  /\ user \in User /\ user.count <= fails
  /\ req \in [Requests -> Slot]
  /\ codes \in Nat
  /\ spent \subseteq 1..codes
  /\ fails \in Nat
  /\ grants \in Nat

\* Until the first lock could be over, wrong passwords are limited: between
\* two successes rateLimitCount of them, and those that were being compared
\* when the last of these was counted.
GuessBound ==
  now < LockTicks(LimitCount) =>
    fails <= (LimitCount - 1 + Cardinality(Requests)) * (grants + 1)

\* Until the first code could be over, the user gets one mail, or as many as
\* there are logins that found no code pending, between two successes.
MailBound ==
  now < CodeTicks => codes <= Cardinality(Requests) * (grants + 1)

\* A code that has let somebody in is good for no login that has not read the
\* user yet: whatever else writes the user, it does not come back.
SpentCodeIsDead ==
  [][\A r \in Requests :
       user.twoFA /\ req[r].pc = "reading" /\ req'[r].pc = "comparing"
       => req[r].code \notin spent]_vars

\* crud-user.service.ts:810, 'Updating password hash for user: ': a login with
\* the right password of a user whose hash is outdated brings it up to date.
HashIsUpdated ==
  [][\A r \in Requests :
       /\ req[r].pc = "granting" /\ req'[r].pc = "idle"
       /\ req[r].copy.hash = "outdated"
       => user'.hash = "current"]_vars
=============================================================================
