------------------------------ MODULE Account ------------------------------
(***************************************************************************)
(* What crud-user.service and crud.authorization.service keep in a user's  *)
(* document to limit what that user does: failed logins and codes, links   *)
(* that were mailed, passwords, uses of commands, trust.  Each is judged   *)
(* by a copy of the user read earlier and written by a patch that comes    *)
(* later; each has fields of its own, and none waits for another, so a     *)
(* behaviour of all is one of each side by side.  Here one is followed.    *)
(***************************************************************************)
EXTENDS Integers

CONSTANTS
  Requests, Free,
  LimitCount, Cap, CodeTicks, LoginTime, MaxCodes, MaxFails, MaxGrants,   \* Login
  Addresses, NoAddress, LinkTimeout, LinkTime, MaxLinks,                  \* EmailLinks
  Roles, Admins, Mocks, ResetTimeout, ResetTime, MaxResets, MaxSets,      \* Passwords
  MaxUses, MaxBonus, MinTime, NoEntry, UseTime, MaxCount,                 \* CmdLimits
  Interval, Patience, TrustTime                                           \* Trust

VARIABLES
  part,                                                          \* the one followed
  loginNow, loginUser, loginReq, recent, codes, spent, fails, grants,    \* Login
  linkNow, linkUser, linkReq, links, linkMailed, linkUses,               \* EmailLinks
  resetNow, resetUser, resetReq, guests, resets, resetMailed, sets,      \* Passwords
  given, causes,
  useNow, useDb, useReq, security, cache, used, round, lost,             \* CmdLimits
  trustNow, trustDb, trustReq                                            \* Trust

SignIn == INSTANCE Login WITH
  now <- loginNow, user <- loginUser, req <- loginReq, MaxTime <- LoginTime

Link == INSTANCE EmailLinks WITH
  now <- linkNow, user <- linkUser, req <- linkReq, mailed <- linkMailed,
  uses <- linkUses, Timeout <- LinkTimeout, MaxTime <- LinkTime

Reset == INSTANCE Passwords WITH
  now <- resetNow, user <- resetUser, req <- resetReq, links <- resets,
  mailed <- resetMailed, Timeout <- ResetTimeout, MaxTime <- ResetTime,
  MaxLinks <- MaxResets

Cmd == INSTANCE CmdLimits WITH
  now <- useNow, db <- useDb, req <- useReq, MaxTime <- UseTime

Bonus == INSTANCE Trust WITH
  now <- trustNow, db <- trustDb, req <- trustReq, MaxTime <- TrustTime

ASSUME AccountAssumption ==
  /\ SignIn!LoginAssumption
  /\ Link!EmailLinksAssumption
  /\ Reset!PasswordsAssumption
  /\ Cmd!CmdLimitsAssumption
  /\ Bonus!TrustAssumption

signInVars == <<loginNow, loginUser, loginReq, recent, codes, spent, fails, grants>>
linkVars == <<linkNow, linkUser, linkReq, links, linkMailed, linkUses>>
resetVars == <<resetNow, resetUser, resetReq, guests, resets, resetMailed, sets, given,
               causes>>
cmdVars == <<useNow, useDb, useReq, security, cache, used, round, lost>>
trustVars == <<trustNow, trustDb, trustReq>>

vars == <<part, signInVars, linkVars, resetVars, cmdVars, trustVars>>

Init ==
  /\ part \in {"login", "links", "passwords", "uses", "trust"}
  /\ SignIn!Init
  /\ Link!Init
  /\ Reset!Init
  /\ Cmd!Init
  /\ Bonus!Init

FollowLogin ==
  /\ part = "login"
  /\ SignIn!Next
  /\ UNCHANGED <<part, linkVars, resetVars, cmdVars, trustVars>>

FollowLinks ==
  /\ part = "links"
  /\ Link!Next
  /\ UNCHANGED <<part, signInVars, resetVars, cmdVars, trustVars>>

FollowPasswords ==
  /\ part = "passwords"
  /\ Reset!Next
  /\ UNCHANGED <<part, signInVars, linkVars, cmdVars, trustVars>>

FollowUses ==
  /\ part = "uses"
  /\ Cmd!Next
  /\ UNCHANGED <<part, signInVars, linkVars, resetVars, trustVars>>

FollowTrust ==
  /\ part = "trust"
  /\ Bonus!Next
  /\ UNCHANGED <<part, signInVars, linkVars, resetVars, cmdVars>>

Next == FollowLogin \/ FollowLinks \/ FollowPasswords \/ FollowUses \/ FollowTrust

Spec == Init /\ [][Next]_vars

-----------------------------------------------------------------------------
\* Type invariant, of the one followed: counters in the document stay within
\* what happened, and tokens are those of links that were made.
TypeOK ==
  CASE part = "login"     -> SignIn!TypeOK
    [] part = "links"     -> Link!TypeOK
    [] part = "passwords" -> Reset!TypeOK
    [] part = "uses"      -> Cmd!TypeOK
    [] part = "trust"     -> Bonus!TypeOK

\* Login: how many wrong passwords racing logins get through before the lock.
GuessBound == SignIn!GuessBound

\* Login: how many codes racing logins have mailed.
MailBound == SignIn!MailBound

\* Login: a code that let somebody in does not come back.
SpentCodeIsDead == SignIn!SpentCodeIsDead

\* EmailLinks and Passwords: how many links racing requests have made.
MailBurst == Link!MailBurst /\ Reset!MailBurst

\* EmailLinks: a link asked for to change the address makes the address it was mailed
\* to the user's.
ChangeGoesWhereMailed == Link!ChangeGoesWhereMailed

\* Passwords: a new password takes a role from the user only if that was given while
\* one was being hashed, or one was changed with a role mocked.
RoleStays == Reset!RoleStays

\* CmdLimits: how far calls that race exceed maxUsesPerUser.
UsesBound == Cmd!UsesBound

\* CmdLimits: how soon after the last use the next POST starts.
UsesSpaced == Cmd!UsesSpaced

\* Trust: how old the trust is that raises a limit.
TrustIsRecent == Bonus!TrustIsRecent
=============================================================================
