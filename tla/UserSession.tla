---------------------------- MODULE UserSession ----------------------------
(***************************************************************************)
(* How the server of Eicrud decides that a JSON web token is still good.   *)
(*                                                                         *)
(* A token carries the user's revocation count `rvkd` as it was when the   *)
(* token was signed.  The guard (core/authentication/auth.guard.ts) reads  *)
(* the user and refuses the token when the two counts differ.  A POST      *)
(* reads the database; every other method reads a cache in the memory of   *)
(* the process.  Commands revoke tokens by writing a count one above the   *)
(* copy of the user they hold, and then correct the cache.                 *)
(*                                                                         *)
(* Every `await` of the code is a point where requests interleave, so a    *)
(* request is a small program with a counter, and holds the copy of the    *)
(* user it read.  One user and one process: entries of different users     *)
(* have different keys and never meet.                                     *)
(***************************************************************************)
EXTENDS Naturals

CONSTANTS
  Requests,     \* slots for the requests served at the same time
  NoEntry,      \* what the cache answers when it has nothing for the user
  MaxRvkd,      \* bound: no revocation starts from a copy with this count
  TTL           \* cacheOptions.TTL, in ticks

ASSUME ConstantsAssumption ==
  /\ NoEntry \notin Nat
  /\ MaxRvkd \in Nat
  /\ TTL \in Nat

VARIABLES
  db,        \* rvkd of the user in the database
  cache,     \* rvkd of the user in the cache, or NoEntry
  age,       \* ticks since the entry was set
  tokens,    \* counts carried by the tokens signed so far
  req,       \* what each request is doing
  top,       \* history: the highest count the database ever held
  causes     \* history: what may have made the entry disagree, since the
             \* last time the entry was gone and no request was running

vars == <<db, cache, age, tokens, req, top, causes>>

(***************************************************************************)
(* A request:                                                              *)
(*   pc     where it is                                                    *)
(*   via    how its user was read: "cached", "db", or "other" when it does *)
(*          not act under a token of the modelled user                     *)
(*   token  the count in the token it presented                            *)
(*   copy   the count in the user object it holds                          *)
(***************************************************************************)
Pcs == { "idle",     \* the slot is free
         "read",     \* cache missed, the database is being asked
         "fill",     \* the database answered, the entry is not set yet
         "check",    \* the guard compares the counts
         "run",      \* admitted: ctx.user is the copy
         "target",   \* a command holds the user it looked up by id or email
         "wrote",    \* the patch is committed, the entry is not deleted yet
         "bumped",   \* the patch and the invalidation are over
         "flush",    \* logout_everywhere set the entry, its write is pending
         "done",     \* logout_everywhere wrote the database
         "flagged" } \* the traffic guard read the user it will put back

Vias == {"cached", "db", "other"}

Request == [pc : Pcs, via : Vias, token : Nat, copy : Nat]

Idle == [pc |-> "idle", via |-> "other", token |-> 0, copy |-> 0]

Causes == {"overlap", "bulk", "failed"}

AllIdle == \A r \in Requests : req[r] = Idle

\* A revocation is between its first and its second half.
Revising(r) == req[r].pc \in {"wrote", "flush"}

\* Two requests overlap while one of them is half way through a revocation.
Overlap == \E r, q \in Requests : r # q /\ Revising(r) /\ req[q] # Idle

Become(r, next) == req' = [req EXCEPT ![r] = next]
Goto(r, pc)     == req' = [req EXCEPT ![r].pc = pc]

SetEntry(v) == cache' = v /\ age' = 0

\* A held copy goes back in the cache: setCached on a user read earlier.
PutBack(r) == SetEntry(req[r].copy)

WriteDb(v) ==
  /\ db' = v
  /\ top' = IF v > top THEN v ELSE top

Init ==
  /\ db = 0
  /\ cache = NoEntry
  /\ age = 0
  /\ tokens = {}
  /\ req = [r \in Requests |-> Idle]
  /\ top = 0
  /\ causes = {}

-----------------------------------------------------------------------------
(***************************************************************************)
(* The guard: extractUser and findOneCached.                               *)
(***************************************************************************)

\* Any method but POST: the cache is asked; a hit is compared at once.
AuthCached(r, t) ==
  /\ req[r] = Idle
  /\ IF cache = NoEntry
     THEN Become(r, [pc |-> "read", via |-> "cached", token |-> t, copy |-> 0])
     ELSE Become(r, [pc |-> "check", via |-> "cached", token |-> t, copy |-> cache])
  /\ UNCHANGED <<db, cache, age, tokens, top>>

\* POST: the user always comes from the database.
AuthDb(r, t) ==
  /\ req[r] = Idle
  /\ Become(r, [pc |-> "check", via |-> "db", token |-> t, copy |-> db])
  /\ UNCHANGED <<db, cache, age, tokens, top>>

\* The database answers the lookup of a cache miss.
ReadDb(r) ==
  /\ req[r].pc = "read"
  /\ Become(r, [req[r] EXCEPT !.pc = "fill", !.copy = db])
  /\ UNCHANGED <<db, cache, age, tokens, top>>

\* The answer reaches the server, which stores it unconditionally.
Fill(r) ==
  /\ req[r].pc = "fill"
  /\ SetEntry(req[r].copy)
  /\ Goto(r, "check")
  /\ UNCHANGED <<db, tokens, top>>

\* Mutant of Admit: the counts are not compared.
Admit_Unchecked(r) ==
  /\ req[r].pc = "check"
  /\ Goto(r, "run")
  /\ UNCHANGED <<db, cache, age, tokens, top>>

Admit(r) ==
  /\ req[r].pc = "check"
  /\ req[r].copy = req[r].token
  /\ Goto(r, "run")
  /\ UNCHANGED <<db, cache, age, tokens, top>>

\* TOKEN_MISMATCH; the guard throws before any error hook runs.
Reject(r) ==
  /\ req[r].pc = "check"
  /\ req[r].copy # req[r].token
  /\ Become(r, Idle)
  /\ UNCHANGED <<db, cache, age, tokens, top>>

-----------------------------------------------------------------------------
(***************************************************************************)
(* Commands of the user service.                                           *)
(***************************************************************************)

\* login, reset_password, verify_email, an administrator's command or patch:
\* the user is looked up in the database by someone who is not that user.
Lookup(r) ==
  /\ req[r] = Idle
  /\ Become(r, [Idle EXCEPT !.pc = "target", !.copy = db])
  /\ UNCHANGED <<db, cache, age, tokens, top>>

\* Mutant of Login: the count is incremented before the token is signed.
Login_SignsNext(r) ==
  /\ req[r].pc = "target"
  /\ tokens' = tokens \cup {req[r].copy + 1}
  /\ Become(r, Idle)
  /\ UNCHANGED <<db, cache, age, top>>

\* login signs a token for the user it looked up.
Login(r) ==
  /\ req[r].pc = "target"
  /\ tokens' = tokens \cup {req[r].copy}
  /\ Become(r, Idle)
  /\ UNCHANGED <<db, cache, age, top>>

\* Revoking needs a copy of the target: one looked up for the command, or the
\* caller's own ctx.user.
MayRevoke(r) ==
  /\ req[r].copy < MaxRvkd
  /\ req[r].pc \in {"target", "run"}

\* Mutant of PatchUser: both the command and the patch override increment.
PatchUser_BumpsTwice(r) ==
  /\ MayRevoke(r)
  /\ WriteDb(req[r].copy + 2)
  /\ Goto(r, "wrote")
  /\ UNCHANGED <<cache, age, tokens>>

\* change_password, reset_password, verify_email, patch of a user by id, which
\* the client sends with the count it read: the copy's count plus one is written.
PatchUser(r) ==
  /\ MayRevoke(r)
  /\ WriteDb(req[r].copy + 1)
  /\ Goto(r, "wrote")
  /\ UNCHANGED <<cache, age, tokens>>

\* Mutant of Invalidate: the entry is not deleted.
Invalidate_Forgotten(r) ==
  /\ req[r].pc = "wrote"
  /\ Goto(r, "bumped")
  /\ UNCHANGED <<db, cache, age, tokens, top>>

\* deleteCached, once the write has returned.
Invalidate(r) ==
  /\ req[r].pc = "wrote"
  /\ SetEntry(NoEntry)
  /\ Goto(r, "bumped")
  /\ UNCHANGED <<db, tokens, top>>

\* The logMeIn option of the commands: a token for the user as patched.
LogMeIn(r) ==
  /\ req[r].pc = "bumped"
  /\ req[r].via # "cached"
  /\ tokens' = tokens \cup {req[r].copy + 1}
  /\ Become(r, Idle)
  /\ UNCHANGED <<db, cache, age, top>>

\* A patch through a query (`many`) or a list of ids (`in`) bumps the count
\* too, but deletes no entry: there is no id, or the id is a {$in: ..} object.
BulkPatch(r) ==
  /\ req[r].pc = "target"
  /\ req[r].copy < MaxRvkd
  /\ WriteDb(req[r].copy + 1)
  /\ Become(r, Idle)
  /\ UNCHANGED <<cache, age, tokens>>

\* logout_everywhere increments the copy and sets the entry before its write
\* leaves the process: both promises start, the patch awaits first.
\* The command is secureOnly: callers acting on themselves use POST.
LogoutEverywhere(r) ==
  /\ MayRevoke(r)
  /\ req[r].via # "cached"
  /\ SetEntry(req[r].copy + 1)
  /\ Become(r, [req[r] EXCEPT !.pc = "flush", !.copy = @ + 1])
  /\ UNCHANGED <<db, tokens, top>>

Flush(r) ==
  /\ req[r].pc = "flush"
  /\ WriteDb(req[r].copy)
  /\ Goto(r, "done")
  /\ UNCHANGED <<cache, age, tokens>>

Finish(r) ==
  /\ req[r].pc \in {"run", "target", "bumped", "done"}
  /\ Become(r, Idle)
  /\ UNCHANGED <<db, cache, age, tokens, top>>

-----------------------------------------------------------------------------
(***************************************************************************)
(* Copies put back in the cache.                                           *)
(***************************************************************************)

\* computeTrust during authorization, or a batch creation that succeeded.
Refresh(r) ==
  /\ req[r].pc = "run"
  /\ PutBack(r)
  /\ UNCHANGED <<db, tokens, req, top>>

\* The traffic guard runs on beside the request q it was called for.
Flag(r) ==
  /\ req[r] = Idle
  /\ \E q \in Requests : req[q].pc = "run"
  /\ Become(r, [Idle EXCEPT !.pc = "flagged", !.copy = db])
  /\ UNCHANGED <<db, cache, age, tokens, top>>

SetFlagged(r) ==
  /\ req[r].pc = "flagged"
  /\ PutBack(r)
  /\ Become(r, Idle)
  /\ UNCHANGED <<db, tokens, top>>

\* An error after admission: errorHooks puts ctx.user back in the cache, with
\* its error counter incremented, when the caller is the user itself.
Fail(r) ==
  /\ req[r].pc \in {"run", "target", "wrote", "bumped", "flush", "done"}
  /\ IF req[r].via = "other"
     THEN UNCHANGED <<cache, age>>
     ELSE PutBack(r)
  /\ Become(r, Idle)
  /\ UNCHANGED <<db, tokens, top>>

\* The error struck after the count was changed in one place only: between
\* the two halves, or after a patch, when ctx.user still has the old count.
HalfWay(r) ==
  \/ Revising(r)
  \/ req[r].pc = "bumped" /\ req[r].via # "other"

-----------------------------------------------------------------------------
(***************************************************************************)
(* The cache's own steps.                                                  *)
(***************************************************************************)
\* Mutant of Tick: an entry outlives its time.
Tick_Unlimited ==
  /\ cache # NoEntry
  /\ age' = age + 1
  /\ UNCHANGED <<db, cache, tokens, req, top>>

Tick ==
  /\ cache # NoEntry
  /\ age < TTL
  /\ age' = age + 1
  /\ UNCHANGED <<db, cache, tokens, req, top>>

\* Mutant of Lapse: set without a time to live.
Lapse_Never == cache # NoEntry /\ FALSE /\ UNCHANGED vars

Lapse ==
  /\ cache # NoEntry
  /\ age = TTL
  /\ SetEntry(NoEntry)
  /\ UNCHANGED <<db, tokens, req, top>>

\* Entries of other users push this one out of the LRU cache.
Evict ==
  /\ cache # NoEntry
  /\ SetEntry(NoEntry)
  /\ UNCHANGED <<db, tokens, req, top>>

-----------------------------------------------------------------------------
Note(c) ==
  causes' = IF AllIdle' /\ cache' = NoEntry
            THEN {}
            ELSE causes \cup c \cup (IF Overlap' THEN {"overlap"} ELSE {})

Guard(r) ==
  \/ \E t \in tokens : AuthCached(r, t) \/ AuthDb(r, t)
  \/ ReadDb(r) \/ Fill(r) \/ Admit(r) \/ Reject(r)

Command(r) ==
  \/ Lookup(r) \/ Login(r)
  \/ PatchUser(r) \/ Invalidate(r) \/ LogMeIn(r)
  \/ LogoutEverywhere(r) \/ Flush(r)
  \/ Finish(r)

Copies(r) == Refresh(r) \/ Flag(r) \/ SetFlagged(r)

Next ==
  \/ \E r \in Requests : (Guard(r) \/ Command(r) \/ Copies(r)) /\ Note({})
  \/ \E r \in Requests : Fail(r) /\ Note(IF HalfWay(r) THEN {"failed"} ELSE {})
  \/ \E r \in Requests : BulkPatch(r) /\ Note({"bulk"})
  \/ (Tick \/ Lapse \/ Evict) /\ Note({})

Spec == Init /\ [][Next]_vars

\* What the event loop and the database always get round to: a request that
\* has started goes on to its end, and the entry grows older.
Progress(r) ==
  /\ \/ ReadDb(r) \/ Fill(r) \/ Admit(r) \/ Reject(r)
     \/ Invalidate(r) \/ Flush(r) \/ Finish(r) \/ SetFlagged(r)
  /\ Note({})

Fairness ==
  /\ \A r \in Requests : WF_vars(Progress(r))
  /\ WF_vars((Tick \/ Lapse) /\ Note({}))

FairSpec == Spec /\ Fairness

-----------------------------------------------------------------------------
(***************************************************************************)
(* Properties.                                                             *)
(***************************************************************************)

\* Type invariant: every variable keeps the shape the code gives it, and an
\* entry is never older than the time to live it was set with.
TypeOK ==
  /\ db \in Nat
  /\ cache \in Nat \cup {NoEntry}
  /\ age \in 0..TTL
  /\ tokens \subseteq Nat
  /\ req \in [Requests -> Request]
  /\ top \in Nat
  /\ causes \subseteq Causes

Coherent == cache \in {NoEntry, db}

\* The cached user disagrees with the database (outside the two halves of a
\* revocation) only after one of three things: another request ran during
\* those two halves, an error struck half way, or a bulk patch changed the
\* count.  In particular find-then-fill, trust and traffic refreshes and the
\* error hook are harmless while revocations run alone.
IncoherenceHasCause ==
  (causes = {} /\ \A r \in Requests : ~Revising(r)) => Coherent

\* As long as none of those three happened, a request admitted by the guard,
\* through the cache or through the database, carries the current count: a
\* revoked token is refused everywhere at once.
AdmittedIsCurrent ==
  causes = {} => \A r \in Requests : req[r].pc = "run" => req[r].token = db

\* No interleaving makes the system sign a token, or admit a request, with a
\* count the database has never reached, although the cache may run ahead of
\* the database while logout_everywhere is half way, or after it failed.
NothingAheadOfTop ==
  /\ \A t \in tokens : t <= top
  /\ cache # NoEntry => cache <= top + 1
  /\ \A r \in Requests : req[r].pc = "run" => req[r].copy <= top

\* A write that takes the count higher than it has ever been revokes every
\* token signed so far, however many revocations raced before it.
FreshMaximumRevokesAll ==
  [][db' > top => \A t \in tokens : t < db']_vars

\* A user who changes the password or logs out everywhere under a token never
\* leaves that very token good, whatever the other requests wrote meanwhile.
RevokesCaller ==
  [][\A r \in Requests :
       /\ req[r].via # "other"
       /\ \/ req[r].pc = "run" /\ req'[r].pc = "wrote"
          \/ req[r].pc = "flush" /\ req'[r].pc = "done"
       => db' # req[r].token]_vars

\* From some point on no command changes the count and no held copy goes back
\* in the cache, through an error or a refresh.
CopiesStop ==
  <>[][\A r \in Requests :
         ~ \/ PatchUser(r) \/ BulkPatch(r) \/ LogoutEverywhere(r)
           \/ Refresh(r) \/ SetFlagged(r) \/ Fail(r)]_vars

\* The entry disagrees with the database for ever only while something keeps
\* putting old copies back: lookups that are under way, cache hits and fills
\* cannot outlive the time to live of an entry.
EventuallyCoherent == CopiesStop => <>[]Coherent

\* docs/user/service.md:222: logout_everywhere "will invalidate all issued
\* tokens for a user": none of them carries the count it writes.
LogoutInvalidatesIssuedTokens ==
  [][\A r \in Requests :
       req[r].pc = "flush" /\ req'[r].pc = "done" => db' \notin tokens]_vars

(***************************************************************************)
(* What the detailed protocol implements.                                  *)
(***************************************************************************)
Ledger == INSTANCE RevocationLedger WITH rvkd <- db, issued <- tokens

\* Refinement: cache, guard and requests only ever do to the count and to the
\* signed tokens what the ledger allows.
LedgerSpec == Ledger!Spec
=============================================================================
