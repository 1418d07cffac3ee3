----------------------------- MODULE CmdLimits -----------------------------
(***************************************************************************)
(* How often and how soon again a user may call a command: maxUsesPerUser  *)
(* and minTimeBetweenCmdCallMs, for one user and one command.              *)
(*                                                                         *)
(* Both are judged by the copy of the user that the guard read: from the   *)
(* database for a POST, through the cache for PATCH and GET.  A use is     *)
(* counted, and dated, when the command has returned, by one update that   *)
(* nobody awaits.  A slot of Requests is busy from the guard's read until  *)
(* that update has reached the database.                                   *)
(***************************************************************************)
EXTENDS Integers, FiniteSets

CONSTANTS
  Requests,   \* slots for the calls under way
  MaxUses,    \* maxUsesPerUser, where a command has it
  MaxBonus,   \* the most uses that trust adds to it
  MinTime,    \* minTimeBetweenCmdCallMs, where a command has it, in ticks
  NoEntry,    \* the cache holds nothing for the user
  MaxTime,    \* bound: the clock stops there
  MaxCount    \* bound: no more commands return

CmdLimitsAssumption ==
  /\ IsFiniteSet(Requests) /\ Requests # {}
  /\ {MaxUses, MinTime} \subseteq Nat \ {0}
  /\ {MaxBonus, MaxTime, MaxCount} \subseteq Nat
  /\ NoEntry \notin [count : Nat, last : Int]

VARIABLES
  security,   \* which of the two the command has
  now,        \* the clock
  db,         \* cmdUserCountMap and cmdUserLastUseMap of the user
  cache,      \* the cached copy of both
  req,        \* what each slot is doing
  used,       \* history: commands that returned
  round,      \* history: when the first of the uses that overlapped returned
  lost        \* history: a crash lost a use before it was counted

vars == <<security, now, db, cache, req, used, round, lost>>

Never == -MinTime   \* the last use when there was none

Copy == [count : Nat, last : Int]

Unused == [count |-> 0, last |-> Never]

Pcs == { "idle",      \* the slot is free
         "read",      \* the guard has the user
         "running",   \* authorized, the command is at work
         "adding" }   \* the command has returned, its update is on its way

\* secure: a POST   copy: the user as read   at: when the command returned
\* since: what the copy should tell of (below)
Slot == [pc : Pcs, secure : BOOLEAN, copy : Copy, at : Int, since : Int]

Idle == [pc |-> "idle", secure |-> TRUE, copy |-> Unused, at |-> Never, since |-> Never]

Become(r, next) == req' = [req EXCEPT ![r] = next]

UnderWay == \E r \in Requests : req[r].pc \in {"running", "adding"}

Init ==
  /\ security \in [maxUses : BOOLEAN, minTime : BOOLEAN]
  /\ now = 0
  /\ db = Unused
  /\ cache = NoEntry
  /\ req = [r \in Requests |-> Idle]
  /\ used = 0
  /\ round = [open |-> FALSE, first |-> Never]
  /\ lost = FALSE

-----------------------------------------------------------------------------
\* The guard reads the user from the database ...
ReadDb(r) ==
  /\ req[r] = Idle
  /\ Become(r, [Idle EXCEPT !.pc = "read", !.copy = db,
                            !.since = IF UnderWay THEN Never ELSE round.first])
  /\ UNCHANGED <<security, now, db, cache, used, round, lost>>

\* ... or, when the method is not POST, through the cache.
ReadCached(r) ==
  LET copy == IF cache = NoEntry THEN db ELSE cache IN
  /\ req[r] = Idle
  /\ Become(r, [Idle EXCEPT !.pc = "read", !.secure = FALSE, !.copy = copy,
                            !.since = IF UnderWay THEN Never ELSE round.first])
  /\ cache' = copy
  /\ UNCHANGED <<security, now, db, used, round, lost>>

\* Mutant of MayUse: one use more.
MayUse_OffByOne(copy, bonus) == security.maxUses => copy.count <= MaxUses + bonus

\* computeMaxUsesPerUser: trust may raise the limit.
MayUse(copy, bonus) == security.maxUses => copy.count < MaxUses + bonus

\* A command with maxUsesPerUser is for POST only, because the count in a
\* cached copy is not to be trusted; the date in it is.
Permitted(q, bonus) ==
  /\ security.maxUses => q.secure
  /\ MayUse(q.copy, bonus)
  /\ security.minTime => q.copy.last + MinTime <= now

Authorize(r) ==
  /\ req[r].pc = "read"
  /\ \E bonus \in 0..MaxBonus : Permitted(req[r], bonus)
  /\ Become(r, [req[r] EXCEPT !.pc = "running"])
  /\ round' = IF UnderWay THEN round ELSE [round EXCEPT !.open = TRUE]
  /\ UNCHANGED <<security, now, db, cache, used, lost>>

\* 403 or 429.  The error hooks put the copy of the user in the cache.
Refuse(r) ==
  /\ req[r].pc = "read"
  /\ \E bonus \in 0..MaxBonus : ~Permitted(req[r], bonus)
  /\ Become(r, Idle)
  /\ cache' = req[r].copy
  /\ UNCHANGED <<security, now, db, used, round, lost>>

\* The command returns and the increment leaves, with the date.
Return(r) ==
  /\ req[r].pc = "running"
  /\ used < MaxCount
  /\ Become(r, [req[r] EXCEPT !.pc = "adding", !.at = now])
  /\ used' = used + 1
  /\ round' = IF round.open THEN [open |-> FALSE, first |-> now] ELSE round
  /\ UNCHANGED <<security, now, db, cache, lost>>

\* The command throws: nothing is counted.
Throw(r) ==
  /\ req[r].pc = "running"
  /\ Become(r, Idle)
  /\ cache' = req[r].copy
  /\ UNCHANGED <<security, now, db, used, round, lost>>

\* Mutant of Counted: a date that only commands with maxUsesPerUser get.
Counted_Undated(q) ==
  [count |-> db.count + 1,
   last |-> IF security.minTime /\ security.maxUses THEN q.at ELSE db.last]

\* addCountToCmdMap: the increment adds to what is there, the date overwrites it.
Counted(q) ==
  [count |-> db.count + 1, last |-> IF security.minTime THEN q.at ELSE db.last]

Count(r) ==
  /\ req[r].pc = "adding"
  /\ db' = Counted(req[r])
  /\ Become(r, Idle)
  /\ UNCHANGED <<security, now, cache, used, round, lost>>

\* Trust, or an error after the command, puts the request's copy in the cache.
PutBack(r) ==
  /\ req[r] # Idle
  /\ cache' = req[r].copy
  /\ UNCHANGED <<security, now, db, req, used, round, lost>>

\* The entry expires, is evicted, or is deleted by a patch of the user.
Lapse ==
  /\ cache' = NoEntry
  /\ UNCHANGED <<security, now, db, req, used, round, lost>>

\* The process stops and starts again.
Crash ==
  /\ req' = [r \in Requests |-> Idle]
  /\ cache' = NoEntry
  /\ lost' = (lost \/ \E r \in Requests : req[r].pc = "adding")
  /\ UNCHANGED <<security, now, db, used, round>>

Tick ==
  /\ now < MaxTime
  /\ now' = now + 1
  /\ UNCHANGED <<security, db, cache, req, used, round, lost>>

Next ==
  \/ \E r \in Requests :
       \/ ReadDb(r) \/ ReadCached(r) \/ Authorize(r) \/ Refuse(r)
       \/ Return(r) \/ Throw(r) \/ Count(r) \/ PutBack(r)
  \/ Lapse \/ Crash \/ Tick

Spec == Init /\ [][Next]_vars

-----------------------------------------------------------------------------
\* Type invariant; the database never counts more uses than there were.
TypeOK ==
  /\ security \in [maxUses : BOOLEAN, minTime : BOOLEAN]
  /\ now \in 0..MaxTime
  /\ db \in Copy /\ db.count <= used
  /\ cache \in Copy \cup {NoEntry}
  /\ req \in [Requests -> Slot]
  /\ used \in Nat
  /\ round \in [open : BOOLEAN, first : Int]
  /\ lost \in BOOLEAN

\* Calls under way at the same time can all pass the check of the count, which
\* is made before the command and incremented after it: a command is used once
\* more than its limit for every other call there can be, and no more, in
\* whatever order the increments arrive, unless a crash loses some.
UsesBound ==
  security.maxUses /\ ~lost => used <= MaxUses + MaxBonus - 1 + Cardinality(Requests)

\* A POST read when no use was under way starts MinTime after the last use, or
\* after the first of the last uses that overlapped: the date that was written
\* last need not be the latest.
UsesSpaced ==
  [][\A r \in Requests :
       /\ security.minTime /\ req[r].secure /\ ~lost
       /\ req[r].pc = "read" /\ req'[r].pc = "running"
       => now >= req[r].since + MinTime]_vars
=============================================================================
