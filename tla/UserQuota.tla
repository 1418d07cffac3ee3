----------------------------- MODULE UserQuota -----------------------------
(***************************************************************************)
(* How many entities of one service a user may create: maxItemsPerUser,    *)
(* checked by the controller against a counter in the user's document, and *)
(* maxItemsInDb, checked by the service against the collection.            *)
(*                                                                         *)
(* The counter is read with the user at the guard, before the entity       *)
(* exists, and incremented after it was stored, after the hooks, by an     *)
(* update nobody awaits.  A slot of Requests is busy from the guard's read *)
(* until that update has reached the database.                             *)
(***************************************************************************)
EXTENDS Integers, FiniteSets

CONSTANTS
  Users,        \* signed-in users: guests are neither limited nor counted
  Nobody,       \* who made the entities that were not created yet
  Requests,     \* slots for the creations and deletions under way
  Items,        \* entities that can ever be created; bounds a run of TLC
  BatchSizes,   \* sizes of the batches the users' roles allow (maxBatchSize)
  MaxSize,      \* the largest of them, 1 without batches
  MaxPerUser,   \* maxItemsPerUser and the most that trust adds to it
  MaxInDb       \* maxItemsInDb

QuotaAssumption ==
  /\ Nobody \notin Users
  /\ IsFiniteSet(Requests) /\ Requests # {}
  /\ MaxSize \in Nat \ {0}
  /\ BatchSizes \subseteq 1..MaxSize
  /\ MaxPerUser \in Nat \ {0}
  /\ MaxInDb \in Nat \ {0}

VARIABLES
  maker,   \* who created each entity
  live,    \* the entities in the database
  count,   \* crudUserCountMap of each user, for this service
  req,     \* what each request is doing
  slips    \* history: what put a user's counter out of step with the
           \* entities, or went round the check

vars == <<maker, live, count, req, slips>>

Pcs == { "idle",         \* the slot is free
         "create",       \* authorized; `left` entities to check against MaxInDb
         "stored",       \* `items` are in the database, after hooks running
         "adding",       \* answered, the increment is on its way
         "found",        \* deleteOne holds the entity it will remove
         "removed",      \* `items` are gone, after hooks running
         "subtracting" } \* answered, the decrement is on its way

Request == [pc : Pcs, user : Users \cup {Nobody}, size : 0..MaxSize,
            left : 0..MaxSize, items : SUBSET Items]

Idle == [pc |-> "idle", user |-> Nobody, size |-> 0, left |-> 0, items |-> {}]

Slips == { "batch",   \* a batch was created
           "taken",   \* another user removed an entity the user had made
           "drift" }  \* the counter went wrong: an entity of another user or
                      \* one that was gone was subtracted, or an entity was
                      \* stored or removed and never counted

Become(r, next) == req' = [req EXCEPT ![r] = next]

Live(u) == {i \in live : maker[i] = u}

Slip(u, s) == slips' = [slips EXCEPT ![u] = @ \cup s]

\* User u aims at the entities of S and removes those that are there.
SlipRemoving(u, S) ==
  slips' = [v \in Users |-> slips[v]
    \cup (IF v = u /\ ~(S \subseteq Live(u)) THEN {"drift"} ELSE {})
    \cup (IF v # u /\ S \cap Live(v) # {} THEN {"taken"} ELSE {})]

Init ==
  /\ maker = [i \in Items |-> Nobody]
  /\ live = {}
  /\ count = [u \in Users |-> 0]
  /\ req = [r \in Requests |-> Idle]
  /\ slips = [u \in Users |-> {}]

-----------------------------------------------------------------------------
(***************************************************************************)
(* Creation.                                                               *)
(***************************************************************************)

\* Mutant of MayCreate: the last permitted creation is counted from zero.
MayCreate_OffByOne(u) == count[u] <= MaxPerUser

\* checkmaxItemsPerUser, on the counter of the user the guard read.
MayCreate(u) == count[u] < MaxPerUser

\* One entity: the request goes on only within the quota.
Create(r, u) ==
  /\ req[r] = Idle
  /\ MayCreate(u)
  /\ Become(r, [Idle EXCEPT !.pc = "create", !.user = u, !.size = 1, !.left = 1])
  /\ UNCHANGED <<maker, live, count, slips>>

\* authorizeBatch starts the same check and does not await it: the batch goes
\* on whatever the counter says.
CreateBatch(r, u, n) ==
  /\ req[r] = Idle
  /\ Become(r, [Idle EXCEPT !.pc = "create", !.user = u, !.size = n, !.left = n])
  /\ Slip(u, {"batch"})
  /\ UNCHANGED <<maker, live, count>>

\* Mutants of CheckDb: not strict, and one check too many.
CheckDb_NotStrict(r) ==
  /\ req[r].pc = "create" /\ req[r].left > 0
  /\ Cardinality(live) <= MaxInDb
  /\ Become(r, [req[r] EXCEPT !.left = @ - 1])
  /\ UNCHANGED <<maker, live, count, slips>>

CheckDb_OneTooMany(r) ==
  /\ req[r].pc = "create" /\ req[r].left >= 0
  /\ Cardinality(live) < MaxInDb
  /\ Become(r, [req[r] EXCEPT !.left = @ - 1])
  /\ UNCHANGED <<maker, live, count, slips>>

\* checkItemDbCount, once for every entity of the batch, none of them stored.
CheckDb(r) ==
  /\ req[r].pc = "create" /\ req[r].left > 0
  /\ Cardinality(live) < MaxInDb
  /\ Become(r, [req[r] EXCEPT !.left = @ - 1])
  /\ UNCHANGED <<maker, live, count, slips>>

\* The flush inserts the entity, or all those of the batch.
Store(r) ==
  /\ req[r].pc = "create" /\ req[r].left = 0
  /\ \E S \in SUBSET {i \in Items : maker[i] = Nobody} :
       /\ IsFiniteSet(S) /\ Cardinality(S) = req[r].size
       /\ maker' = [i \in Items |-> IF i \in S THEN req[r].user ELSE maker[i]]
       /\ live' = live \cup S
       /\ Become(r, [req[r] EXCEPT !.pc = "stored", !.items = S])
  /\ UNCHANGED <<count, slips>>

-----------------------------------------------------------------------------
(***************************************************************************)
(* Deletion.  The rights of the user may reach the entities of others.     *)
(***************************************************************************)

\* deleteOne looks the entity up ...
Find(r, u, i) ==
  /\ req[r] = Idle
  /\ i \in live
  /\ Become(r, [Idle EXCEPT !.pc = "found", !.user = u, !.items = {i}])
  /\ UNCHANGED <<maker, live, count, slips>>

\* ... and removes it; it counts one also when another request was faster.
RemoveOne(r) ==
  /\ req[r].pc = "found"
  /\ live' = live \ req[r].items
  /\ Become(r, [req[r] EXCEPT !.pc = "removed"])
  /\ SlipRemoving(req[r].user, req[r].items)
  /\ UNCHANGED <<maker, count>>

\* delete by query or by ids removes what is there and counts just that.
RemoveMany(r, u) ==
  /\ req[r] = Idle
  /\ \E S \in SUBSET live \ {{}} :
       /\ live' = live \ S
       /\ Become(r, [Idle EXCEPT !.pc = "removed", !.user = u, !.items = S])
       /\ SlipRemoving(u, S)
  /\ UNCHANGED <<maker, count>>

-----------------------------------------------------------------------------
(***************************************************************************)
(* Counting.                                                               *)
(***************************************************************************)

\* afterHooks are over: the answer leaves, and so does the $inc.
Answer(r) ==
  /\ \/ req[r].pc = "stored"  /\ Become(r, [req[r] EXCEPT !.pc = "adding"])
     \/ req[r].pc = "removed" /\ Become(r, [req[r] EXCEPT !.pc = "subtracting"])
  /\ UNCHANGED <<maker, live, count, slips>>

\* Mutant of Count: deletions count one, whatever they removed.
Count_OneDown(r) ==
  LET u == req[r].user
      n == Cardinality(req[r].items) IN
  /\ req[r].pc \in {"adding", "subtracting"}
  /\ count' = [count EXCEPT ![u] = IF req[r].pc = "adding" THEN @ + n ELSE @ - 1]
  /\ Become(r, Idle)
  /\ UNCHANGED <<maker, live, slips>>

\* The $inc is atomic in the database.
Count(r) ==
  LET u == req[r].user
      n == Cardinality(req[r].items) IN
  /\ req[r].pc \in {"adding", "subtracting"}
  /\ count' = [count EXCEPT ![u] = IF req[r].pc = "adding" THEN @ + n ELSE @ - n]
  /\ Become(r, Idle)
  /\ UNCHANGED <<maker, live, slips>>

Uncounted(r) == req[r].pc \in {"stored", "removed", "adding", "subtracting"}

\* An error before the answer: MaxInDb is reached, the database or a hook
\* fails.  What was stored or removed stays so and is never counted.
Abort(r) ==
  /\ req[r].pc \in {"create", "stored", "found", "removed"}
  /\ Become(r, Idle)
  /\ IF Uncounted(r) THEN Slip(req[r].user, {"drift"}) ELSE UNCHANGED slips
  /\ UNCHANGED <<maker, live, count>>

\* The process stops and starts again.
Crash ==
  /\ \E r \in Requests : req[r] # Idle
  /\ req' = [r \in Requests |-> Idle]
  /\ slips' = [u \in Users |->
                 IF \E r \in Requests : Uncounted(r) /\ req[r].user = u
                 THEN slips[u] \cup {"drift"} ELSE slips[u]]
  /\ UNCHANGED <<maker, live, count>>

-----------------------------------------------------------------------------
Next ==
  \/ \E r \in Requests, u \in Users :
       \/ Create(r, u) \/ RemoveMany(r, u)
       \/ \E n \in BatchSizes : CreateBatch(r, u, n)
       \/ \E i \in Items : Find(r, u, i)
  \/ \E r \in Requests :
       CheckDb(r) \/ Store(r) \/ RemoveOne(r) \/ Answer(r) \/ Count(r) \/ Abort(r)
  \/ Crash

Spec == Init /\ [][Next]_vars

-----------------------------------------------------------------------------
(***************************************************************************)
(* Properties.                                                             *)
(***************************************************************************)

\* Type invariant; a batch never checks more entities than it holds.
TypeOK ==
  /\ maker \in [Items -> Users \cup {Nobody}]
  /\ live \subseteq Items
  /\ count \in [Users -> Int]
  /\ req \in [Requests -> Request]
  /\ slips \in [Users -> SUBSET Slips]

\* The check comes before the entity and the counter after it, so creations
\* under way at the same time can all pass; but they overshoot the quota by
\* no more than the others there can be.  One request at a time: no overshoot.
\* Batches, deletions of what others made or removed, and lost counts excepted.
OvershootBound ==
  \A u \in Users :
    slips[u] \subseteq {"taken"} =>
      Cardinality(Live(u)) <= MaxPerUser - 1 + Cardinality(Requests)

\* maxItemsInDb is overshot by what the requests that passed their last check
\* may hold, however checks, flushes and deletions interleave.
DbOvershootBound ==
  Cardinality(live) <= MaxInDb - 1 + MaxSize * Cardinality(Requests)

\* Whatever order increments and decrements arrive in, once nothing is under
\* way the counter is the number of entities the user has in the database.
CountAgrees ==
  (\A r \in Requests : req[r] = Idle) =>
    \A u \in Users : slips[u] \subseteq {"batch"} => count[u] = Cardinality(Live(u))

\* docs/configuration/limits.md:29, maxItemsPerUser: "Limit how many instances
\* of an entity a user can create."
PerUserLimit == \A u \in Users : Cardinality(Live(u)) <= MaxPerUser
=============================================================================
