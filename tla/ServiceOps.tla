----------------------------- MODULE ServiceOps -----------------------------
(***************************************************************************)
(* The operations of one service on its collection, between the hooks that *)
(* run before, after and on errors, and the controller's own hooks around  *)
(* them.  Every hook is the application's: it may throw, and an error hook *)
(* may answer in the place of the operation.                               *)
(*                                                                         *)
(* Each slot of Requests is one request, served once.  A query stands for  *)
(* the entities it selects.  Quotas are in UserQuota.                      *)
(***************************************************************************)
EXTENDS Integers, FiniteSets

CONSTANTS
  Requests,
  Entities,   \* ids of entities, stored or not
  MaxAim      \* bound: all requests together select no more entities than this

ASSUME ServiceAssumption ==
  /\ IsFiniteSet(Requests) /\ IsFiniteSet(Entities)
  /\ MaxAim \in Nat \ {0}

VARIABLES
  live,     \* the entities in the database
  req,      \* what each request is doing
  old,      \* history: the entities that were stored before any request
  took,     \* history: the entities each request has changed
  anew      \* history: those it selects that others stored after it changed them

vars == <<live, req, old, took, anew>>

Patches == { "patch",       \* $patch, $patchIn: one native update
             "patchOne", "patchBatch" }
Deletes == { "delete",      \* $delete, $deleteIn: one native delete
             "deleteOne" }
Ops == {"create"}           \* $create, $createBatch: one flush
         \cup Patches \cup Deletes

Pcs == { "idle", "before",   \* the hook before the operation
         "work",             \* the operation
         "flush",            \* patchOne, deleteOne: the entity was found
         "after",            \* the hook after the operation
         "error",            \* the error hook
         "return",           \* the service returned: the controller's hook
         "thrown",           \* an error in the controller: its error hooks
         "ok", "failed" }    \* answered

\* aim: the entities the request selects; left: updates of a batch under way;
\* broke: the pc an error came in first, "idle" while there was none.
Request == [pc : Pcs, op : Ops, aim : SUBSET Entities, left : SUBSET Entities,
            broke : Pcs]

Answered(r) == req[r].pc \in {"ok", "failed"}

Goto(r, pc) == req' = [req EXCEPT ![r].pc = pc]

Throw(r, pc) ==
  req' = [req EXCEPT ![r].pc = pc,
                     ![r].broke = IF @ = "idle" THEN req[r].pc ELSE @]

\* What request r does to the entities of S: entities that are gone are
\* neither updated nor removed, and that is no error.
Take(r, S) ==
  LET create == req[r].op = "create" IN
  /\ live' = IF create THEN live \cup S
             ELSE IF req[r].op \in Deletes THEN live \ S ELSE live
  /\ took' = [took EXCEPT ![r] = @ \cup (IF create THEN S ELSE S \cap live)]
  /\ anew' = [q \in Requests |->
               IF q = r THEN anew[q] \ S
               ELSE IF create THEN anew[q] \cup (S \cap req[q].aim) ELSE anew[q]]
  /\ UNCHANGED old

TakeNone == UNCHANGED <<live, old, took, anew>>

Init ==
  /\ live \in SUBSET Entities
  /\ old = live
  /\ req = [r \in Requests |-> [pc |-> "idle", op |-> "patch", aim |-> {},
                                left |-> {}, broke |-> "idle"]]
  /\ took = [r \in Requests |-> {}]
  /\ anew = [r \in Requests |-> {}]

-----------------------------------------------------------------------------
(***************************************************************************)
(* A request comes: the controller validates and authorizes it.            *)
(***************************************************************************)

Aims == {p \in Requests \X Entities : p[2] \in req[p[1]].aim}

\* Any entities may be selected, stored or not.  Those that are to be created get
\* new ids or come with their own, where authorize lets them (allowIdOverride); these
\* may be the ids of entities that are or were stored.
Begin(r, op, S) ==
  /\ req[r].pc = "idle"
  /\ S # {} /\ Cardinality(S) + Cardinality(Aims) <= MaxAim
  /\ op \in {"patchOne", "deleteOne"} => Cardinality(S) = 1
  /\ req' = [req EXCEPT ![r].pc = "before", ![r].op = op, ![r].aim = S]
  /\ TakeNone

\* The request is refused before it gets to the service.
Refuse(r) ==
  /\ req[r].pc = "before"
  /\ Throw(r, "thrown")
  /\ TakeNone

\* The hook before the operation returns, and a batch of patches starts.
Before(r) ==
  /\ req[r].pc = "before"
  /\ req' = [req EXCEPT ![r].pc = "work",
               ![r].left = IF req[r].op = "patchBatch" THEN req[r].aim ELSE {}]
  /\ TakeNone

-----------------------------------------------------------------------------
(***************************************************************************)
(* The operations.                                                         *)
(***************************************************************************)

\* The database stores no entity under the id of another.
Storable(r) == req[r].op = "create" => req[r].aim \cap live = {}

\* Mutant of Operate: the hook after a creation runs before the flush.
Operate_Unflushed(r) ==
  /\ req[r].pc = "work" /\ req[r].op \in {"create", "patch", "delete"}
  /\ Storable(r)
  /\ IF req[r].op = "create" THEN TakeNone ELSE Take(r, req[r].aim)
  /\ Goto(r, "after")

Operate(r) ==
  /\ req[r].pc = "work" /\ req[r].op \in {"create", "patch", "delete"}
  /\ Storable(r)
  /\ Take(r, req[r].aim)
  /\ Goto(r, "after")

\* patchOne and deleteOne look for the entity, and throw when there is none.
Find(r) ==
  /\ req[r].pc = "work" /\ req[r].op \in {"patchOne", "deleteOne"}
  /\ IF req[r].aim \subseteq live THEN Goto(r, "flush") ELSE Throw(r, "error")
  /\ TakeNone

\* Mutant of Flush: an entity that is gone is stored again.
Flush_Upserts(r) ==
  /\ req[r].pc = "flush"
  /\ IF req[r].op = "patchOne"
     THEN /\ live' = live \cup req[r].aim
          /\ took' = [took EXCEPT ![r] = req[r].aim]
          /\ UNCHANGED <<old, anew>>
     ELSE Take(r, req[r].aim)
  /\ Goto(r, "after")

\* Mutant of Flush: the entity is changed in memory and never flushed.
Flush_Forgotten(r) ==
  /\ req[r].pc = "flush"
  /\ TakeNone
  /\ Goto(r, "after")

\* The flush goes by the id of what was found: what was removed meanwhile is left
\* alone, what was then stored under the same id is changed.
Flush(r) ==
  /\ req[r].pc = "flush"
  /\ Take(r, req[r].aim)
  /\ Goto(r, "after")

\* The database throws, for one because an id is taken, after all, a part or nothing
\* of what it was told: with MongoDB no transaction is opened.
OperationFails(r) ==
  /\ req[r].pc \in {"work", "flush"} /\ req[r].op # "patchBatch"
  /\ \E S \in SUBSET (req[r].aim \ IF req[r].op = "create" THEN live ELSE {}) : Take(r, S)
  /\ Throw(r, "error")

\* Mutant of Land: the update that landed is sent again.
Land_Twice(r, e) ==
  /\ e \in req[r].left
  /\ Take(r, {e})
  /\ UNCHANGED req

\* patchBatch starts the updates of all its elements and waits for them; when
\* one throws, the others are still under way.
Land(r, e) ==
  /\ e \in req[r].left
  /\ Take(r, {e})
  /\ req' = [req EXCEPT ![r].left = @ \ {e}]

Sink(r, e) ==
  /\ e \in req[r].left
  /\ req' = IF req[r].pc = "work"
            THEN [req EXCEPT ![r].left = @ \ {e}, ![r].pc = "error", ![r].broke = "work"]
            ELSE [req EXCEPT ![r].left = @ \ {e}]
  /\ TakeNone

\* Mutant of Settle: the first update to return is taken for the last.
Settle_First(r) ==
  /\ req[r].pc = "work" /\ req[r].op = "patchBatch"
  /\ req[r].left # req[r].aim
  /\ Goto(r, "after")
  /\ TakeNone

\* All the updates of the batch returned.
Settle(r) ==
  /\ req[r].pc = "work" /\ req[r].op = "patchBatch"
  /\ req[r].left = {}
  /\ Goto(r, "after")
  /\ TakeNone

-----------------------------------------------------------------------------
(***************************************************************************)
(* How a request ends.                                                     *)
(***************************************************************************)

After(r) ==
  /\ req[r].pc = "after"
  /\ Goto(r, "return")
  /\ TakeNone

\* The hook before or after the operation throws; what was done stays done.
HookThrows(r) ==
  /\ req[r].pc \in {"before", "after"}
  /\ Throw(r, "error")
  /\ TakeNone

\* The error hook gives a value, which is returned, or nothing.
ErrorHook(r) ==
  /\ req[r].pc = "error"
  /\ Goto(r, "return") \/ Goto(r, "thrown")
  /\ TakeNone

\* The controller's hook and the answer; or that hook throws.
Return(r) ==
  /\ req[r].pc = "return"
  /\ Goto(r, "ok") \/ Throw(r, "thrown")
  /\ TakeNone

\* errorHooks: a value of the controller's error hooks is a good answer too.
Thrown(r) ==
  /\ req[r].pc = "thrown"
  /\ Goto(r, "ok") \/ Goto(r, "failed")
  /\ TakeNone

\* No request is under way; more may come or not.
Done ==
  /\ \A r \in Requests : (req[r].pc = "idle" \/ Answered(r)) /\ req[r].left = {}
  /\ UNCHANGED vars

Next ==
  \/ \E r \in Requests :
       \/ \E op \in Ops, S \in SUBSET Entities : Begin(r, op, S)
       \/ Refuse(r) \/ Before(r)
       \/ Operate(r) \/ Find(r) \/ Flush(r) \/ OperationFails(r) \/ Settle(r)
       \/ \E e \in Entities : Land(r, e) \/ Sink(r, e)
       \/ After(r) \/ HookThrows(r) \/ ErrorHook(r) \/ Return(r) \/ Thrown(r)
  \/ Done

Spec == Init /\ [][Next]_vars

-----------------------------------------------------------------------------
(***************************************************************************)
(* Properties.                                                             *)
(***************************************************************************)

\* Type invariant: every element of a batch of patches is written once.
TypeOK ==
  /\ live \subseteq Entities /\ old \subseteq Entities
  /\ req \in [Requests -> Request]
  /\ took \in [Requests -> SUBSET Entities]
  /\ anew \in [Requests -> SUBSET Entities]
  /\ \A r \in Requests : took[r] \subseteq req[r].aim /\ req[r].left \subseteq req[r].aim \ took[r]

\* An entity is stored and removed in turn, ids used again included: of two requests
\* that both stored it, another has removed it between; each removal is the work of
\* one request; and patchOne, which writes what it found before, neither stores nor
\* removes.
Counted(e, S) == IF e \in S THEN 1 ELSE 0

Storing(e) == {r \in Requests : req[r].op = "create" /\ e \in took[r]}
Removing(e) == {r \in Requests : req[r].op \in Deletes /\ e \in took[r]}

StoredAndRemovedInTurn ==
  \A e \in Entities :
    Cardinality(Storing(e)) + Counted(e, old) = Cardinality(Removing(e)) + Counted(e, live)

\* An operation that got through, whatever the hooks after it did, was done:
\* what it was to create it stored itself; of what it was to remove, nothing is
\* there but what others stored again since; and of what it was to patch, it
\* changed all that is there but that.
\* One that the controller or the hook before it refused did nothing.
DoneOrNot ==
  \A r \in Requests :
    LET q == req[r] IN
    Answered(r) =>
      /\ q.broke = "before" => took[r] = {}
      /\ q.broke \in {"idle", "after", "return"} =>
           /\ q.op = "create" => q.aim \subseteq took[r]
           /\ q.op \in Patches => q.aim \cap live \subseteq took[r] \cup anew[r]
           /\ q.op \in Deletes => q.aim \cap live \subseteq anew[r]

\* A request changes nothing once it was answered, unless it is a batch of
\* patches of which one has thrown: the others land when they land.
LateWritesFollowErrors ==
  [][\A r \in Requests :
       Answered(r) /\ took'[r] # took[r] =>
         req[r].op = "patchBatch" /\ req[r].broke = "work"]_vars
=============================================================================
