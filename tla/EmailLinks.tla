----------------------------- MODULE EmailLinks -----------------------------
(***************************************************************************)
(* Links mailed to a user: send_verification_email and verify_email, with  *)
(* or without a change of address.  One user; the caller of the former is  *)
(* that user, the caller of the latter is whoever has the link.            *)
(*                                                                         *)
(* Sending judges by ctx.user, the copy that the guard read; the patch it  *)
(* writes holds what it computed from that copy.  The mail goes out after  *)
(* the patch, or the mailer fails and the patch stays.  Using a link reads *)
(* the user and patches it.                                                *)
(***************************************************************************)
EXTENDS Integers, FiniteSets, Sequences, Combinatorics

CONSTANTS
  Requests,   \* slots for the commands under way
  Addresses,  \* e-mail addresses; none belongs to another user
  NoAddress,  \* nextEmail when no change is asked for
  Free,       \* emailCount below which no time-out applies
  Timeout,    \* verificationEmailTimeoutHours, in ticks
  MaxTime,    \* bound: the clock stops there
  MaxLinks    \* bound: no more links are made

EmailLinksAssumption ==
  /\ IsFiniteSet(Requests) /\ Requests # {}
  /\ NoAddress \notin Addresses
  /\ Free \in Nat \ {0}
  /\ Timeout \in Nat \ {0}
  /\ {MaxTime, MaxLinks} \subseteq Nat

VARIABLES
  now,       \* the clock
  user,      \* the user in the database
  req,       \* what each slot is doing
  links,     \* history: what the n-th link was made for
  mailed,    \* history: the links whose mails went out
  uses       \* history: how often an address was verified

vars == <<now, user, req, links, mailed, uses>>

NoLink == 0   \* no link was made yet

\* to: the address it is mailed to   change: whether the user wants that address
\* instead of the one they have
Link == [to : Addresses, change : BOOLEAN]

\* email, next (nextEmail), ok (verifiedEmail), token (the link made last, by
\* its number), sent (lastEmailVerificationSent), count
\* (verifiedEmailAttempCount)
User == [email : Addresses \cup {NoAddress}, next : Addresses \cup {NoAddress},
         ok : BOOLEAN, token : Nat, sent : Nat, count : Nat]

NewUser(a) == [email |-> a, next |-> NoAddress, ok |-> FALSE,
               token |-> NoLink, sent |-> 0, count |-> 0]

Pcs == { "idle",     \* the slot is free
         "sending",  \* the caller was read and may ask, a token is being made
         "mailing",  \* the token is written, the mailer has the link
         "using" }   \* the link was found good, the patch is on its way

\* copy: the user as it was read   to: where the mail goes   link: the one that
\* is mailed or used
Slot == [pc : Pcs, copy : User, to : Addresses \cup {NoAddress}, link : Nat]

Idle == [pc |-> "idle", copy |-> NewUser(NoAddress), to |-> NoAddress, link |-> NoLink]

Become(r, next) == req' = [req EXCEPT ![r] = next]

Init ==
  /\ now = 0
  /\ user \in {NewUser(a) : a \in Addresses}
  /\ req = [r \in Requests |-> Idle]
  /\ links = <<>>
  /\ mailed = {}
  /\ uses = 0

-----------------------------------------------------------------------------
(***************************************************************************)
(* send_verification_email.                                                *)
(***************************************************************************)

\* The user asks for a link: to the address they have, unless it is verified,
\* or to another one that they want instead, giving the password.
Ask(r, to) ==
  /\ req[r] = Idle
  /\ to = user.email => ~user.ok
  /\ Become(r, [Idle EXCEPT !.pc = "sending", !.copy = user, !.to = to])
  /\ UNCHANGED <<now, user, links, mailed, uses>>

\* Mutant of MaySend: one link more.
MaySend_OffByOne(u) == u.count <= Free \/ now >= u.sent + Timeout

MaySend(u) == u.count < Free \/ now >= u.sent + Timeout

\* What sending writes: nextEmail only when the address is another one.
Pending(u, copy, to) ==
  [u EXCEPT !.token = Len(links) + 1,
            !.sent = now,
            !.count = copy.count + 1,
            !.next = IF to # copy.email THEN to ELSE @]

\* sendTokenEmail, up to its patch.
Send(r) ==
  LET copy == req[r].copy  to == req[r].to IN
  /\ req[r].pc = "sending"
  /\ MaySend(copy)
  /\ Len(links) < MaxLinks
  /\ user' = Pending(user, copy, to)
  /\ links' = Append(links, [to |-> to, change |-> to # copy.email])
  /\ Become(r, [Idle EXCEPT !.pc = "mailing", !.link = Len(links) + 1])
  /\ UNCHANGED <<now, mailed, uses>>

\* sendEmailFunc: the mail goes out.
Mail(r) ==
  /\ req[r].pc = "mailing"
  /\ mailed' = mailed \cup {req[r].link}
  /\ Become(r, Idle)
  /\ UNCHANGED <<now, user, links, uses>>

\* The mailer throws, and so does the command.  What the patch wrote stays.
MailFails(r) ==
  /\ req[r].pc = "mailing"
  /\ Become(r, Idle)
  /\ UNCHANGED <<now, user, links, mailed, uses>>

\* "Email already sent": nothing is written.
Refuse(r) ==
  /\ req[r].pc = "sending"
  /\ ~MaySend(req[r].copy)
  /\ Become(r, Idle)
  /\ UNCHANGED <<now, user, links, mailed, uses>>

-----------------------------------------------------------------------------
(***************************************************************************)
(* verify_email.                                                           *)
(***************************************************************************)

\* The user is read and the link is found good.  Any other link, and any link
\* when there is nothing to verify, changes nothing.
Click(r, n) ==
  /\ req[r] = Idle
  /\ ~(user.ok /\ user.next = NoAddress)
  /\ user.token = n /\ now < user.sent + Timeout
  /\ Become(r, [Idle EXCEPT !.pc = "using", !.copy = user, !.link = n])
  /\ UNCHANGED <<now, user, links, mailed, uses>>

\* Mutant of Use: nextEmail is taken whether there is one or not.
Use_Anyway(r) ==
  /\ req[r].pc = "using"
  /\ user' = [user EXCEPT !.ok = TRUE, !.count = 0,
                          !.email = req[r].copy.next, !.next = NoAddress]
  /\ uses' = uses + 1
  /\ Become(r, Idle)
  /\ UNCHANGED <<now, links, mailed>>

\* Mutant of Use: nextEmail is what the database has by now.
Use_Latest(r) ==
  LET u == [user EXCEPT !.ok = TRUE, !.count = 0] IN
  /\ req[r].pc = "using"
  /\ user' = IF user.next = NoAddress THEN u
             ELSE [u EXCEPT !.email = user.next, !.next = NoAddress]
  /\ uses' = uses + 1
  /\ Become(r, Idle)
  /\ UNCHANGED <<now, links, mailed>>

\* useToken: the pending address, if there is one, becomes the user's.  The
\* token stays.
Use(r) ==
  LET next == req[r].copy.next
      u    == [user EXCEPT !.ok = TRUE, !.count = 0]
  IN
  /\ req[r].pc = "using"
  /\ user' = IF next = NoAddress THEN u
             ELSE [u EXCEPT !.email = next, !.next = NoAddress]
  /\ uses' = uses + 1
  /\ Become(r, Idle)
  /\ UNCHANGED <<now, links, mailed>>

Tick ==
  /\ now < MaxTime
  /\ now' = now + 1
  /\ UNCHANGED <<user, req, links, mailed, uses>>

Next ==
  \/ \E r \in Requests :
       \/ \E to \in Addresses : Ask(r, to)
       \/ Send(r) \/ Mail(r) \/ MailFails(r) \/ Refuse(r)
       \/ \E n \in mailed : Click(r, n)
       \/ Use(r)
  \/ Tick

Spec == Init /\ [][Next]_vars

-----------------------------------------------------------------------------
\* Type invariant; the token is that of a link, and so is what is mailed.
TypeOK ==
  /\ now \in 0..MaxTime
  /\ user \in User /\ user.email # NoAddress
  /\ user.token \in {NoLink} \cup DOMAIN links
  /\ req \in [Requests -> Slot]
  /\ \A r \in Requests : req[r].pc = "mailing" => req[r].link \in DOMAIN links
  /\ links \in Seq(Link)
  /\ mailed \subseteq DOMAIN links
  /\ uses \in Nat

\* Before a time-out is over, asking one at a time gives Free links.  Requests
\* that were read earlier write a smaller count over a larger one, which gives
\* way to more: all in all as many links, and no more mails, as this, after each
\* verification.
MailBurst ==
  now < Timeout =>
    Len(links) <= (choose(Cardinality(Requests) + Free, Free) - 1) * (uses + 1)

\* A link that was asked for to change the address makes the address it was mailed
\* to the user's, whatever other links are asked for, fail to be mailed or are used
\* while it is: nextEmail is that of the link whose token is in the database, and
\* useToken takes it from the copy in which it found the token.
ChangeGoesWhereMailed ==
  [][\A r \in Requests :
       req[r].pc = "using" /\ req'[r].pc = "idle" /\ links[req[r].link].change
       => user'.email = links[req[r].link].to]_vars

\* docs/user/service.md:102: send_verification_email with {} is to "verify current
\* email": the address a link verifies is the one it was mailed to.  (It need not be
\* one that any link went out to: the change stays pending when its mail fails.)
LinkVerifiesItsAddress ==
  [][\A r \in Requests :
       req[r].pc = "using" /\ req'[r].pc = "idle"
       => user'.email = links[req[r].link].to]_vars
=============================================================================
