----------------------------- MODULE Passwords -----------------------------
(***************************************************************************)
(* How one user gets a new password: with a link mailed to the address     *)
(* (send_password_reset_email, reset_password) or with the old one         *)
(* (change_password).                                                      *)
(*                                                                         *)
(* A new password is hashed, which takes long, with the salt rounds of the *)
(* role that the user had when read; the patch writes that role with it.   *)
(* Meanwhile others may give the user another role.  A request may have a  *)
(* role mocked, which the guard writes into the copy that it read.         *)
(***************************************************************************)
EXTENDS Integers, FiniteSets, Combinatorics

CONSTANTS
  Requests,   \* slots for the commands under way
  Roles,
  Admins,     \* those with isAdminRole
  Mocks,      \* which roles one may have mocked: those it inherits
  Free,       \* emailCount below which no time-out applies
  Timeout,    \* passwordResetEmailTimeoutHours, in ticks
  MaxTime,    \* bound: the clock stops there
  MaxLinks,   \* bound: no more links are made
  MaxSets     \* bound: no more passwords are set

PasswordsAssumption ==
  /\ IsFiniteSet(Requests) /\ Requests # {}
  /\ Roles # {} /\ Admins \subseteq Roles
  /\ Mocks \in [Roles -> SUBSET Roles]
  /\ {Free, Timeout} \subseteq Nat \ {0}
  /\ {MaxTime, MaxLinks, MaxSets} \subseteq Nat

VARIABLES
  now,      \* the clock
  guests,   \* whether links are asked for by guests or by the user
  user,     \* the user in the database
  req,      \* what each slot is doing
  links,    \* history: links made
  mailed,   \* history: those whose mails went out
  sets,     \* history: passwords set
  given,    \* history: the role that the user was last given
  causes    \* history: why the user may have another one

vars == <<now, guests, user, req, links, mailed, sets, given, causes>>

NoLink == 0   \* no link was made yet

Causes == { "overlap",  \* it was given while a new password was hashed
            "mock" }    \* the password was changed with a role mocked

Rounds(role) == IF role \in Admins THEN "saltRoundsAdmin" ELSE "saltRounds"

\* token (passwordResetToken, by the number of its link), sent
\* (lastPasswordResetSent), count (passwordResetAttempCount), saltRounds
User == [token : Nat, sent : Nat, count : Nat, role : Roles,
         saltRounds : {"saltRoundsAdmin", "saltRounds"}]

NewUser(role) == [token |-> NoLink, sent |-> 0, count |-> 0, role |-> role,
                  saltRounds |-> Rounds(role)]

Pcs == { "idle",      \* the slot is free
         "sending",   \* the user was found by the address
         "mailing",   \* the token is written, the mailer has the link
         "hashing" }  \* the link or the old password is good

\* copy: the user as read   asked: emailCount, of the caller   link: the one that
\* is mailed
Slot == [pc : Pcs, copy : User, asked : Nat, link : Nat]

Idle == [pc |-> "idle", copy |-> NewUser(CHOOSE role \in Roles : TRUE), asked |-> 0,
         link |-> NoLink]

Become(r, next) == req' = [req EXCEPT ![r] = next]

Init ==
  /\ now = 0
  /\ guests \in BOOLEAN
  /\ user \in {NewUser(role) : role \in Roles}
  /\ req = [r \in Requests |-> Idle]
  /\ links = 0
  /\ mailed = {}
  /\ sets = 0
  /\ given = user.role
  /\ causes = {}

-----------------------------------------------------------------------------
(***************************************************************************)
(* send_password_reset_email.                                              *)
(***************************************************************************)

\* The user is found by the address.  How many mails were asked for is read
\* from the caller: from a guest, none.
Ask(r) ==
  /\ req[r] = Idle
  /\ Become(r, [Idle EXCEPT !.pc = "sending", !.copy = user,
                            !.asked = IF guests THEN 0 ELSE user.count])
  /\ UNCHANGED <<now, guests, user, links, mailed, sets, given, causes>>

\* Mutant of MaySend: one link more.
MaySend_OffByOne(q) == q.asked <= Free \/ now >= q.copy.sent + Timeout

MaySend(q) == q.asked < Free \/ now >= q.copy.sent + Timeout

\* Mutant of Sent: all that was read is written back.
Sent_Whole(q) ==
  [q.copy EXCEPT !.token = links + 1, !.sent = now, !.count = q.asked + 1]

\* What sending writes.
Sent(q) ==
  [user EXCEPT !.token = links + 1, !.sent = now, !.count = q.asked + 1]

\* sendTokenEmail, up to its patch.
Send(r) ==
  /\ req[r].pc = "sending"
  /\ MaySend(req[r])
  /\ links < MaxLinks
  /\ links' = links + 1
  /\ user' = Sent(req[r])
  /\ Become(r, [Idle EXCEPT !.pc = "mailing", !.link = links + 1])
  /\ UNCHANGED <<now, guests, mailed, sets, given, causes>>

\* sendEmailFunc: the mail goes out.
Mail(r) ==
  /\ req[r].pc = "mailing"
  /\ mailed' = mailed \cup {req[r].link}
  /\ Become(r, Idle)
  /\ UNCHANGED <<now, guests, user, links, sets, given, causes>>

\* The mailer throws, which is caught.  What the patch wrote stays.
MailFails(r) ==
  /\ req[r].pc = "mailing"
  /\ Become(r, Idle)
  /\ UNCHANGED <<now, guests, user, links, mailed, sets, given, causes>>

Refuse(r) ==
  /\ req[r].pc = "sending"
  /\ ~MaySend(req[r])
  /\ Become(r, Idle)
  /\ UNCHANGED <<now, guests, user, links, mailed, sets, given, causes>>

-----------------------------------------------------------------------------
(***************************************************************************)
(* reset_password and change_password.                                     *)
(***************************************************************************)

\* The user is read and the link is good.  It stays good until the time-out.
Click(r, n) ==
  /\ req[r] = Idle
  /\ user.token = n /\ now < user.sent + Timeout
  /\ Become(r, [Idle EXCEPT !.pc = "hashing", !.copy = user])
  /\ UNCHANGED <<now, guests, user, links, mailed, sets, given, causes>>

\* The roles that the guard may leave in the copy it read: the user's, or one mocked.
Seen(role) == {role} \cup Mocks[role]

\* The user gives the old password; the copy is the guard's.
Change(r, role) ==
  /\ req[r] = Idle
  /\ role \in Seen(user.role)
  /\ Become(r, [Idle EXCEPT !.pc = "hashing", !.copy = [user EXCEPT !.role = role]])
  /\ causes' = IF role = user.role THEN causes ELSE causes \cup {"mock"}
  /\ UNCHANGED <<now, guests, user, links, mailed, sets, given>>

\* The patch has the role of the copy, and a password hashed for it.
Patched(copy) ==
  [user EXCEPT !.count = 0, !.role = copy.role, !.saltRounds = Rounds(copy.role)]

SetPassword(r) ==
  /\ req[r].pc = "hashing"
  /\ sets < MaxSets
  /\ user' = Patched(req[r].copy)
  /\ sets' = sets + 1
  /\ Become(r, Idle)
  /\ UNCHANGED <<now, guests, links, mailed, given, causes>>

-----------------------------------------------------------------------------
Hashing == \E r \in Requests : req[r].pc = "hashing"

\* Somebody gives the user another role.  The password stays as it is.
GiveRole(role) ==
  /\ user.role # role
  /\ user' = [user EXCEPT !.role = role]
  /\ given' = role
  /\ causes' = IF Hashing THEN causes \cup {"overlap"} ELSE {}
  /\ UNCHANGED <<now, guests, req, links, mailed, sets>>

Tick ==
  /\ now < MaxTime
  /\ now' = now + 1
  /\ UNCHANGED <<guests, user, req, links, mailed, sets, given, causes>>

Next ==
  \/ \E r \in Requests :
       \/ Ask(r) \/ Send(r) \/ Mail(r) \/ MailFails(r) \/ Refuse(r)
       \/ \E n \in mailed : Click(r, n)
       \/ \E role \in Roles : Change(r, role)
       \/ SetPassword(r)
  \/ \E role \in Roles : GiveRole(role)
  \/ Tick

Spec == Init /\ [][Next]_vars

-----------------------------------------------------------------------------
\* Type invariant; the token is that of a link, and so is what is mailed.
TypeOK ==
  /\ now \in 0..MaxTime
  /\ guests \in BOOLEAN
  /\ user \in User /\ user.token \in 0..links
  /\ req \in [Requests -> Slot]
  /\ \A r \in Requests : req[r].pc = "mailing" => req[r].link \in 1..links
  /\ links \in Nat
  /\ mailed \subseteq 1..links
  /\ sets \in Nat
  /\ given \in Roles /\ causes \subseteq Causes

\* A user who asks for links gets, before the time-out is over, as many as
\* MailBurst of EmailLinks says, after each new password; a guest who asks gets
\* any number.
MailBurst ==
  ~guests /\ now < Timeout =>
    links <= (choose(Cardinality(Requests) + Free, Free) - 1) * (sets + 1)

\* A new password takes a role from the user only if that role was given while one
\* was being hashed, or one was changed with a role mocked since: $reset_password
\* and $change_password write the role of the copy that they read, whatever else
\* is read, written or mailed meanwhile.
RoleStays == causes = {} => user.role = given
=============================================================================
