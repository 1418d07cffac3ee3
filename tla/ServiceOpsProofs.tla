-------------------------- MODULE ServiceOpsProofs --------------------------
(***************************************************************************)
(* Proofs about ServiceOps, for any requests and entities.                 *)
(*                                                                         *)
(* IInv is the inductive invariant.  Stage says of one request what its pc *)
(* and the place of its first error tell of what it has done, whatever     *)
(* others store again; Balance says of one entity that it was stored and   *)
(* removed in turn.                                                        *)
(***************************************************************************)
EXTENDS ServiceOps, TLAPS, FiniteSetTheorems

\* The operation of r was done.
Did(r) ==
  /\ req[r].op = "create" => req[r].aim \subseteq took[r]
  /\ req[r].op \in Patches => req[r].aim \cap live \subseteq took[r] \cup anew[r]
  /\ req[r].op \in Deletes => req[r].aim \cap live \subseteq anew[r]

Stage(r) ==
  /\ req[r].pc \in {"idle", "before", "work", "flush", "after"} => req[r].broke = "idle"
  /\ req[r].pc \in {"error", "thrown"} => req[r].broke # "idle"
  /\ req[r].pc \in {"idle", "before"} \/ req[r].broke = "before" => took[r] = {}
  /\ req[r].pc \in {"work", "flush"} /\ req[r].op # "patchBatch" => took[r] = {}
  /\ req[r].left # {} => req[r].op = "patchBatch" /\ (req[r].pc = "work" \/ req[r].broke = "work")
  /\ req[r].pc = "flush" => req[r].op \in {"patchOne", "deleteOne"}
  /\ req[r].pc = "work" /\ req[r].op = "patchBatch" =>
       req[r].aim \cap live \subseteq took[r] \cup req[r].left \cup anew[r]
  /\ req[r].pc \notin {"idle", "before", "work", "flush"}
       /\ req[r].broke \in {"idle", "after", "return"} => Did(r)

Balance(e) ==
  Cardinality(Storing(e)) + Counted(e, old) = Cardinality(Removing(e)) + Counted(e, live)

IInv ==
  /\ TypeOK
  /\ \A r \in Requests : Stage(r)
  /\ \A e \in Entities : Balance(e)

-----------------------------------------------------------------------------
(***************************************************************************)
(* What every action of a request does to the rest.                        *)
(***************************************************************************)

\* What was stored is noted by whom it concerns, and nobody else is disturbed.
Tame(r) ==
  \A q \in Requests \ {r} :
    /\ req'[q] = req[q] /\ took'[q] = took[q]
    /\ anew[q] \subseteq anew'[q]
    /\ (live' \ live) \cap req[q].aim \subseteq anew'[q]

\* The requests of others stay what they are under a tame step.
LEMMA OthersStay ==
  ASSUME TypeOK, NEW r \in Requests, Tame(r),
         NEW q \in Requests \ {r}, Stage(q)
  PROVE  Stage(q)'
<1>1. /\ req'[q] = req[q] /\ took'[q] = took[q] /\ anew[q] \subseteq anew'[q]
      /\ (live' \ live) \cap req[q].aim \subseteq anew'[q]
  BY DEF Tame
<1>2. ASSUME Did(q) PROVE Did(q)'
  BY <1>1, <1>2 DEF Did
<1>3. \A S : req[q].aim \cap live \subseteq S \cup anew[q]
             => req[q].aim \cap live' \subseteq S \cup anew'[q]
  BY <1>1
<1> QED
  BY <1>1, <1>2, <1>3 DEF Stage

\* An action of r that is tame and brings r to its stage keeps the stages of all.
LEMMA StagesStay ==
  ASSUME IInv, NEW r \in Requests, Tame(r), Stage(r)'
  PROVE  \A q \in Requests : Stage(q)'
  BY OthersStay DEF IInv

\* No entity is stored or removed, and who did keeps that operation.
LEMMA BalanceStays ==
  ASSUME IInv, live' = live, old' = old,
         \A q \in Requests :
           \/ req'[q].op = req[q].op /\ took'[q] = took[q]
           \/ req'[q].op = req[q].op /\ req[q].op \in Patches
           \/ took[q] = {} /\ took'[q] = {}
  PROVE  \A e \in Entities : Balance(e)'
<1> SUFFICES ASSUME NEW e \in Entities PROVE Balance(e)'
  OBVIOUS
<1>1. "create" \notin Patches /\ Patches \cap Deletes = {}
  BY DEF Patches, Deletes
<1>2. Storing(e)' = Storing(e) /\ Removing(e)' = Removing(e)
  BY <1>1 DEF Storing, Removing
<1>3. Balance(e)
  BY DEF IInv
<1> QED
  BY <1>2, <1>3 DEF Balance, Counted

\* What a request keeps when it moves on.
Moved(r, pc) ==
  /\ req' \in [Requests -> Request]
  /\ req'[r].pc = pc
  /\ req'[r].op = req[r].op /\ req'[r].aim = req[r].aim /\ req'[r].left = req[r].left
  /\ \A q \in Requests \ {r} : req'[q] = req[q]

\* Goto and Throw change the pc, and where the first error came.
LEMMA GotoEffect ==
  ASSUME TypeOK, NEW r \in Requests, NEW pc \in Pcs, Goto(r, pc)
  PROVE  Moved(r, pc) /\ req'[r].broke = req[r].broke
  BY DEF TypeOK, Goto, Request, Moved

LEMMA ThrowEffect ==
  ASSUME TypeOK, NEW r \in Requests, NEW pc \in Pcs, Throw(r, pc)
  PROVE  /\ Moved(r, pc)
         /\ req[r].broke = "idle" => req'[r].broke = req[r].pc
         /\ req[r].broke # "idle" => req'[r].broke = req[r].broke
<1> DEFINE broke == IF req[r].broke = "idle" THEN req[r].pc ELSE req[r].broke
           next == [req[r] EXCEPT !.pc = pc, !.broke = broke]
<1>1. req[r] \in Request
  BY DEF TypeOK
<1>2. req' = [req EXCEPT ![r] = next]
  BY <1>1 DEF Throw, TypeOK, Request
<1>3. broke \in Pcs
  BY <1>1 DEF Request
<1>4. /\ next \in Request /\ next.pc = pc /\ next.broke = broke
      /\ next.op = req[r].op /\ next.aim = req[r].aim /\ next.left = req[r].left
  BY <1>1, <1>3 DEF Request
<1>5. req' \in [Requests -> Request] /\ req'[r] = next /\ \A q \in Requests \ {r} : req'[q] = req[q]
  BY <1>2, <1>4 DEF TypeOK
<1> QED
  BY <1>4, <1>5 DEF Moved

\* What Take does, by the kind of the operation.
LEMMA TakeEffect ==
  ASSUME TypeOK, NEW r \in Requests, NEW S \in SUBSET req[r].aim, Take(r, S)
  PROVE  /\ live' = IF req[r].op = "create" THEN live \cup S
                    ELSE IF req[r].op \in Deletes THEN live \ S ELSE live
         /\ live' \subseteq Entities /\ old' = old
         /\ took' \in [Requests -> SUBSET Entities]
         /\ took'[r] = took[r] \cup (IF req[r].op = "create" THEN S ELSE S \cap live)
         /\ \A q \in Requests \ {r} : took'[q] = took[q]
         /\ anew' \in [Requests -> SUBSET Entities]
         /\ anew'[r] = anew[r] \ S
         /\ \A q \in Requests \ {r} :
              anew'[q] = IF req[r].op = "create" THEN anew[q] \cup (S \cap req[q].aim) ELSE anew[q]
<1>1. req[r] \in Request /\ S \subseteq Entities
  BY DEF TypeOK, Request
<1>2. took' = [took EXCEPT ![r] = took[r] \cup (IF req[r].op = "create" THEN S ELSE S \cap live)]
  BY DEF Take, TypeOK
<1>3. took[r] \cup (IF req[r].op = "create" THEN S ELSE S \cap live) \in SUBSET Entities
  BY <1>1 DEF TypeOK
<1>4. /\ took' \in [Requests -> SUBSET Entities]
      /\ took'[r] = took[r] \cup (IF req[r].op = "create" THEN S ELSE S \cap live)
      /\ \A q \in Requests \ {r} : took'[q] = took[q]
  BY <1>2, <1>3 DEF TypeOK
<1>5. /\ live' = IF req[r].op = "create" THEN live \cup S
                 ELSE IF req[r].op \in Deletes THEN live \ S ELSE live
      /\ old' = old
      /\ anew' = [q \in Requests |->
                   IF q = r THEN anew[q] \ S
                   ELSE IF req[r].op = "create" THEN anew[q] \cup (S \cap req[q].aim) ELSE anew[q]]
  BY DEF Take
<1>6. live' \subseteq Entities
  BY <1>1, <1>5 DEF TypeOK
<1>7. anew' \in [Requests -> SUBSET Entities]
  BY <1>1, <1>5 DEF TypeOK
<1> QED
  BY <1>4, <1>5, <1>6, <1>7

LEMMA TakeIsTame ==
  ASSUME TypeOK, NEW r \in Requests, NEW S \in SUBSET req[r].aim, Take(r, S),
         \A q \in Requests \ {r} : req'[q] = req[q]
  PROVE  Tame(r)
<1>1. ASSUME NEW q \in Requests \ {r}
      PROVE  /\ anew[q] \subseteq anew'[q]
             /\ (live' \ live) \cap req[q].aim \subseteq anew'[q]
  <2>0. /\ live' = IF req[r].op = "create" THEN live \cup S
                    ELSE IF req[r].op \in Deletes THEN live \ S ELSE live
        /\ anew'[q] = IF req[r].op = "create" THEN anew[q] \cup (S \cap req[q].aim) ELSE anew[q]
    BY TakeEffect, Zenon
  <2>1. CASE req[r].op = "create"
    BY <2>0, <2>1
  <2>2. CASE req[r].op # "create"
    BY <2>0, <2>2
  <2> QED
    BY <2>1, <2>2
<1> QED
  BY <1>1, TakeEffect DEF Tame

\* A creation that stores what is not there, and a removal, are one more each.
LEMMA TakeBalances ==
  ASSUME IInv, NEW r \in Requests, NEW S \in SUBSET req[r].aim, Take(r, S),
         req[r].op \notin Patches => took[r] = {},
         req[r].op = "create" => S \cap live = {},
         \A q \in Requests : req'[q].op = req[q].op
  PROVE  \A e \in Entities : Balance(e)'
<1> SUFFICES ASSUME NEW e \in Entities PROVE Balance(e)'
  OBVIOUS
<1> DEFINE stored == Storing(e)
           removed == Removing(e)
<1>0. /\ live' = IF req[r].op = "create" THEN live \cup S
                  ELSE IF req[r].op \in Deletes THEN live \ S ELSE live
      /\ took'[r] = took[r] \cup (IF req[r].op = "create" THEN S ELSE S \cap live)
  BY TakeEffect, Zenon DEF IInv
<1>1. /\ IsFiniteSet(stored) /\ Cardinality(stored) \in Nat
      /\ IsFiniteSet(removed) /\ Cardinality(removed) \in Nat
  BY ServiceAssumption, FS_Subset, FS_CardinalityType DEF Storing, Removing
<1>2. Cardinality(stored) + Counted(e, old) = Cardinality(removed) + Counted(e, live)
  BY DEF IInv, Balance
<1>3. old' = old /\ Counted(e, old) \in Nat /\ Counted(e, live) \in Nat
  BY TakeEffect DEF Counted, IInv
<1>4. \A q \in Requests \ {r} : took'[q] = took[q]
  BY TakeEffect DEF IInv
<1>5. CASE req[r].op = "create"
  <2>0. "create" \notin Patches
    BY DEF Patches
  <2>1. live' = live \cup S /\ took'[r] = S /\ took[r] = {} /\ S \cap live = {}
    BY <1>0, <1>5, <2>0
  <2>2. removed' = removed
    BY <1>4, <1>5 DEF Removing, Deletes
  <2>3. CASE e \in S
    <3>1. stored' = stored \cup {r} /\ r \notin stored
      BY <1>4, <1>5, <2>1, <2>3 DEF Storing
    <3>2. Counted(e, live) = 0 /\ Counted(e, live)' = 1
      BY <2>1, <2>3 DEF Counted
    <3>3. Cardinality(stored') = Cardinality(stored) + 1
      BY <1>1, <3>1, FS_AddElement
    <3> HIDE DEF stored, removed
    <3> QED
      BY <1>1, <1>2, <1>3, <2>2, <3>2, <3>3 DEF Balance, Counted, stored, removed
  <2>4. CASE e \notin S
    <3>1. stored' = stored
      BY <1>4, <1>5, <2>1, <2>4 DEF Storing
    <3>2. Counted(e, live)' = Counted(e, live)
      BY <2>1, <2>4 DEF Counted
    <3> QED
      BY <1>2, <1>3, <2>2, <3>1, <3>2 DEF Balance, Counted
  <2> QED
    BY <2>3, <2>4
<1>6. CASE req[r].op \in Deletes
  <2>1. live' = live \ S /\ took'[r] = S \cap live /\ took[r] = {}
    BY <1>6, TakeEffect DEF IInv, Patches, Deletes
  <2>2. stored' = stored
    BY <1>4, <1>6 DEF Storing, Deletes
  <2>3. CASE e \in S \cap live
    <3>1. removed' = removed \cup {r} /\ r \notin removed
      BY <1>4, <1>6, <2>1, <2>3 DEF Removing
    <3>2. Counted(e, live) = 1 /\ Counted(e, live)' = 0
      BY <2>1, <2>3 DEF Counted
    <3>3. Cardinality(removed') = Cardinality(removed) + 1
      BY <1>1, <3>1, FS_AddElement
    <3> HIDE DEF stored, removed
    <3> QED
      BY <1>1, <1>2, <1>3, <2>2, <3>2, <3>3 DEF Balance, Counted, stored, removed
  <2>4. CASE e \notin S \cap live
    <3>1. removed' = removed
      BY <1>4, <1>6, <2>1, <2>4 DEF Removing
    <3>2. Counted(e, live)' = Counted(e, live)
      BY <2>1, <2>4 DEF Counted
    <3> QED
      BY <1>2, <1>3, <2>2, <3>1, <3>2 DEF Balance, Counted
  <2> QED
    BY <2>3, <2>4
<1>7. CASE req[r].op \in Patches
  <2>1. live' = live
    BY <1>7, TakeEffect DEF IInv, Patches, Deletes
  <2> QED
    BY <1>3, <1>4, <1>7, <2>1, BalanceStays
<1>8. req[r] \in Request
  BY DEF IInv, TypeOK
<1> QED
  BY <1>5, <1>6, <1>7, <1>8 DEF Request, Ops

-----------------------------------------------------------------------------
(***************************************************************************)
(* The steps that change no entity.                                        *)
(***************************************************************************)

LEMMA BeginStep ==
  ASSUME IInv, NEW r \in Requests, NEW op \in Ops, NEW S \in SUBSET Entities, Begin(r, op, S)
  PROVE  IInv'
<1>1. /\ req[r] \in Request /\ req[r].pc = "idle"
      /\ took[r] = {} /\ req[r].left = {} /\ req[r].broke = "idle"
  BY DEF IInv, TypeOK, Begin, Stage
<1>2. /\ req' \in [Requests -> Request]
      /\ req'[r] = [req[r] EXCEPT !.pc = "before", !.op = op, !.aim = S]
      /\ \A q \in Requests \ {r} : req'[q] = req[q]
  BY <1>1 DEF IInv, TypeOK, Begin, Request, Pcs
<1>3. live' = live /\ old' = old /\ took' = took /\ anew' = anew
  BY DEF Begin, TakeNone
<1>4. Tame(r)
  BY <1>2, <1>3 DEF Tame
<1>5. TypeOK'
  BY <1>1, <1>2, <1>3 DEF IInv, TypeOK, Request
<1>6. Stage(r)'
  BY <1>1, <1>2, <1>3 DEF Stage, Begin, Request
<1>7. \A e \in Entities : Balance(e)'
  BY <1>1, <1>2, <1>3, BalanceStays
<1> QED
  BY <1>4, <1>5, <1>6, <1>7, StagesStay DEF IInv

\* Hooks, answers, and the refusal: r only moves on.
LEMMA MoveStep ==
  ASSUME IInv, NEW r \in Requests,
         \/ Refuse(r) \/ Find(r) \/ Settle(r) \/ After(r) \/ HookThrows(r)
         \/ ErrorHook(r) \/ Return(r) \/ Thrown(r)
  PROVE  IInv'
<1>1. req[r] \in Request /\ TypeOK /\ Stage(r)
  BY DEF IInv, TypeOK
<1>2. live' = live /\ old' = old /\ took' = took /\ anew' = anew
  BY DEF Refuse, Find, Settle, After, HookThrows, ErrorHook, Return, Thrown, TakeNone
<1>3. \/ \E pc \in Pcs : Goto(r, pc)
      \/ \E pc \in Pcs : Throw(r, pc)
  BY DEF Refuse, Find, Settle, After, HookThrows, ErrorHook, Return, Thrown, Pcs
<1>4. /\ req' \in [Requests -> Request]
      /\ \A q \in Requests \ {r} : req'[q] = req[q]
      /\ req'[r].op = req[r].op /\ req'[r].aim = req[r].aim /\ req'[r].left = req[r].left
  BY <1>1, <1>3, GotoEffect, ThrowEffect DEF Moved
<1>5. Tame(r)
  BY <1>2, <1>4 DEF Tame
<1>6. TypeOK'
  BY <1>1, <1>2, <1>4 DEF TypeOK
<1>7. Stage(r)'
  <2>0. ASSUME Did(r) PROVE Did(r)'
    BY <1>2, <1>4, <2>0 DEF Did
  <2>1. CASE Refuse(r)
    <3>1. req[r].pc = "before" /\ req[r].broke = "idle" /\ Throw(r, "thrown")
      BY <1>1, <2>1 DEF Refuse, Stage
    <3>2. req'[r].pc = "thrown" /\ req'[r].broke = "before"
      BY <1>1, <3>1, ThrowEffect DEF Moved, Pcs
    <3> QED
      BY <1>1, <1>2, <1>4, <3>1, <3>2 DEF Stage
  <2>2. CASE Find(r)
    <3>1. /\ req[r].pc = "work" /\ req[r].op \in {"patchOne", "deleteOne"}
          /\ req[r].broke = "idle" /\ req[r].left = {}
      BY <1>1, <2>2 DEF Find, Stage
    <3>2. CASE Goto(r, "flush")
      <4>1. req'[r].pc = "flush" /\ req'[r].broke = "idle"
        BY <1>1, <3>1, <3>2, GotoEffect DEF Moved, Pcs
      <4> QED
        BY <1>1, <1>2, <1>4, <3>1, <4>1 DEF Stage
    <3>3. CASE Throw(r, "error")
      <4>1. req'[r].pc = "error" /\ req'[r].broke = "work"
        BY <1>1, <3>1, <3>3, ThrowEffect DEF Moved, Pcs
      <4> QED
        BY <1>1, <1>2, <1>4, <3>1, <4>1 DEF Stage
    <3> QED
      BY <2>2, <3>2, <3>3 DEF Find
  <2>3. CASE Settle(r)
    <3>1. /\ req[r].pc = "work" /\ req[r].op = "patchBatch" /\ req[r].left = {}
          /\ req[r].broke = "idle" /\ Goto(r, "after")
      BY <1>1, <2>3 DEF Settle, Stage
    <3>2. Did(r)
      BY <1>1, <3>1 DEF Stage, Did, Deletes
    <3>3. req'[r].pc = "after" /\ req'[r].broke = "idle"
      BY <1>1, <3>1, GotoEffect DEF Moved, Pcs
    <3> QED
      BY <1>1, <1>2, <1>4, <2>0, <3>1, <3>2, <3>3 DEF Stage
  <2>4. CASE After(r)
    <3>1. req[r].pc = "after" /\ req[r].broke = "idle" /\ Goto(r, "return") /\ Did(r)
      BY <1>1, <2>4 DEF After, Stage
    <3>2. req'[r].pc = "return" /\ req'[r].broke = "idle"
      BY <1>1, <3>1, GotoEffect DEF Moved, Pcs
    <3> QED
      BY <1>1, <1>2, <1>4, <2>0, <3>1, <3>2 DEF Stage
  <2>5. CASE HookThrows(r)
    <3>1. req[r].pc \in {"before", "after"} /\ req[r].broke = "idle" /\ Throw(r, "error")
      BY <1>1, <2>5 DEF HookThrows, Stage
    <3>2. req'[r].pc = "error" /\ req'[r].broke = req[r].pc
      BY <1>1, <3>1, ThrowEffect DEF Moved, Pcs
    <3>3. req[r].pc = "after" => Did(r)'
      BY <1>1, <2>0, <3>1 DEF Stage
    <3> QED
      BY <1>1, <1>2, <1>4, <3>1, <3>2, <3>3 DEF Stage
  <2>6. CASE ErrorHook(r) \/ Thrown(r)
    <3>1. /\ req[r].pc \in {"error", "thrown"}
          /\ \E pc \in {"return", "thrown", "ok", "failed"} : Goto(r, pc)
      BY <2>6 DEF ErrorHook, Thrown
    <3>2. req'[r].pc \in {"return", "thrown", "ok", "failed"} /\ req'[r].broke = req[r].broke
      BY <1>1, <3>1, GotoEffect DEF Moved, Pcs
    <3> QED
      BY <1>1, <1>2, <1>4, <2>0, <3>1, <3>2 DEF Stage
  <2>7. CASE Return(r) /\ Goto(r, "ok")
    <3>1. req[r].pc = "return" /\ req'[r].pc = "ok" /\ req'[r].broke = req[r].broke
      BY <1>1, <2>7, GotoEffect DEF Return, Moved, Pcs
    <3> QED
      BY <1>1, <1>2, <1>4, <2>0, <3>1 DEF Stage
  <2>8. CASE Return(r) /\ Throw(r, "thrown")
    <3>1. /\ req[r].pc = "return" /\ req'[r].pc = "thrown"
          /\ \/ req'[r].broke = req[r].broke /\ req[r].broke # "idle"
             \/ req'[r].broke = "return" /\ req[r].broke = "idle"
      BY <1>1, <2>8, ThrowEffect DEF Return, Moved, Pcs
    <3> QED
      BY <1>1, <1>2, <1>4, <2>0, <3>1 DEF Stage
  <2> QED
    BY <2>1, <2>2, <2>3, <2>4, <2>5, <2>6, <2>7, <2>8 DEF Return
<1>8. \A e \in Entities : Balance(e)'
  BY <1>2, <1>4, BalanceStays
<1> QED
  BY <1>5, <1>6, <1>7, <1>8, StagesStay DEF IInv

-----------------------------------------------------------------------------
(***************************************************************************)
(* The steps of the operations.                                            *)
(***************************************************************************)

\* The hook before the operation returns; a batch of patches has all to land.
LEMMA BeforeStep ==
  ASSUME IInv, NEW r \in Requests, Before(r)
  PROVE  IInv'
<1>1. /\ req[r] \in Request /\ TypeOK /\ Stage(r)
      /\ req[r].pc = "before" /\ req[r].broke = "idle" /\ req[r].left = {} /\ took[r] = {}
  BY DEF IInv, TypeOK, Before, Stage
<1>2. live' = live /\ old' = old /\ took' = took /\ anew' = anew
  BY DEF Before, TakeNone
<1> DEFINE left == IF req[r].op = "patchBatch" THEN req[r].aim ELSE {}
           next == [req[r] EXCEPT !.pc = "work", !.left = left]
<1>3. /\ next \in Request /\ next.pc = "work" /\ next.left = left
      /\ next.op = req[r].op /\ next.aim = req[r].aim /\ next.broke = "idle"
  BY <1>1 DEF Request, Pcs
<1>4. req' = [req EXCEPT ![r] = next]
  BY <1>1 DEF Before, TypeOK, Request
<1>5. req' \in [Requests -> Request] /\ req'[r] = next /\ \A q \in Requests \ {r} : req'[q] = req[q]
  BY <1>1, <1>3, <1>4 DEF TypeOK
<1> HIDE DEF next
<1>6. Tame(r)
  BY <1>2, <1>5 DEF Tame
<1>7. TypeOK'
  BY <1>1, <1>2, <1>3, <1>5 DEF TypeOK
<1>8. Stage(r)'
  BY <1>1, <1>2, <1>3, <1>5 DEF Stage
<1>9. \A e \in Entities : Balance(e)'
  BY <1>2, <1>3, <1>5, BalanceStays
<1> QED
  BY <1>6, <1>7, <1>8, <1>9, StagesStay DEF IInv

\* create, patch and delete, patchOne and deleteOne, done or broken off.
LEMMA TakeStep ==
  ASSUME IInv, NEW r \in Requests, Operate(r) \/ Flush(r) \/ OperationFails(r)
  PROVE  IInv'
<1>1. /\ req[r] \in Request /\ TypeOK /\ Stage(r)
      /\ req[r].pc \in {"work", "flush"} /\ req[r].broke = "idle" /\ req[r].left = {}
      /\ took[r] = {} /\ req[r].op # "patchBatch"
  BY DEF IInv, TypeOK, Operate, Flush, OperationFails, Stage
<1>2. PICK S \in SUBSET req[r].aim :
        /\ Take(r, S)
        /\ req[r].op = "create" => S \cap live = {}
        /\ \/ S = req[r].aim /\ Goto(r, "after")
           \/ Throw(r, "error")
  <2>1. CASE Operate(r)
    BY <2>1 DEF Operate, Storable
  <2>2. CASE Flush(r)
    BY <1>1, <2>2 DEF Flush, Stage
  <2>3. CASE OperationFails(r)
    BY <2>3 DEF OperationFails
  <2> QED
    BY <2>1, <2>2, <2>3
<1>3. /\ live' = IF req[r].op = "create" THEN live \cup S
                 ELSE IF req[r].op \in Deletes THEN live \ S ELSE live
      /\ live' \subseteq Entities /\ old' = old
      /\ took' \in [Requests -> SUBSET Entities]
      /\ took'[r] = IF req[r].op = "create" THEN S ELSE S \cap live
      /\ \A q \in Requests \ {r} : took'[q] = took[q]
      /\ anew' \in [Requests -> SUBSET Entities]
  <2>1. /\ live' = IF req[r].op = "create" THEN live \cup S
                   ELSE IF req[r].op \in Deletes THEN live \ S ELSE live
        /\ live' \subseteq Entities /\ old' = old
        /\ took' \in [Requests -> SUBSET Entities]
        /\ took'[r] = took[r] \cup (IF req[r].op = "create" THEN S ELSE S \cap live)
        /\ \A q \in Requests \ {r} : took'[q] = took[q]
        /\ anew' \in [Requests -> SUBSET Entities]
    BY <1>1, <1>2, TakeEffect, Zenon
  <2> QED
    BY <1>1, <2>1
<1>4. /\ req' \in [Requests -> Request]
      /\ \A q \in Requests \ {r} : req'[q] = req[q]
      /\ req'[r].op = req[r].op /\ req'[r].aim = req[r].aim /\ req'[r].left = {}
      /\ \/ S = req[r].aim /\ req'[r].pc = "after" /\ req'[r].broke = "idle"
         \/ req'[r].pc = "error" /\ req'[r].broke \in {"work", "flush"}
  <2>1. CASE S = req[r].aim /\ Goto(r, "after")
    BY <1>1, <2>1, GotoEffect DEF Moved, Pcs
  <2>2. CASE Throw(r, "error")
    BY <1>1, <2>2, ThrowEffect DEF Moved, Pcs
  <2> QED
    BY <1>2, <2>1, <2>2
<1>5. Tame(r)
  BY <1>1, <1>2, <1>4, TakeIsTame
<1>6. TypeOK'
  BY <1>1, <1>3, <1>4 DEF TypeOK
<1>7. Stage(r)'
  <2>1. S = req[r].aim => Did(r)'
    <3>1. CASE req[r].op = "create"
      BY <1>3, <1>4, <3>1 DEF Did, Patches, Deletes
    <3>2. CASE req[r].op \in Patches
      BY <1>3, <1>4, <3>2 DEF Did, Patches, Deletes
    <3>3. CASE req[r].op \in Deletes
      BY <1>3, <1>4, <3>3 DEF Did, Patches, Deletes
    <3> QED
      BY <1>1, <3>1, <3>2, <3>3 DEF Request, Ops
  <2> QED
    BY <1>1, <1>4, <2>1 DEF Stage
<1>8. \A e \in Entities : Balance(e)'
  <2>1. \A q \in Requests : req'[q].op = req[q].op
    BY <1>4
  <2> QED
    BY <1>1, <1>2, <2>1, TakeBalances
<1> QED
  BY <1>5, <1>6, <1>7, <1>8, StagesStay DEF IInv

\* One update of a batch of patches returns or throws.
LEMMA LandStep ==
  ASSUME IInv, NEW r \in Requests, NEW e \in Entities, Land(r, e) \/ Sink(r, e)
  PROVE  IInv'
<1>1. /\ req[r] \in Request /\ TypeOK /\ Stage(r)
      /\ e \in req[r].left /\ e \in req[r].aim /\ e \notin took[r]
      /\ req[r].op = "patchBatch" /\ (req[r].pc = "work" \/ req[r].broke = "work")
      /\ req[r].op \in Patches
  BY DEF IInv, TypeOK, Land, Sink, Stage, Patches
<1>2. /\ live' = live /\ old' = old
      /\ took' \in [Requests -> SUBSET Entities] /\ anew' \in [Requests -> SUBSET Entities]
      /\ Land(r, e) => took'[r] = took[r] \cup ({e} \cap live) /\ anew'[r] = anew[r] \ {e}
      /\ Sink(r, e) => took'[r] = took[r] /\ anew'[r] = anew[r]
      /\ \A q \in Requests \ {r} : took'[q] = took[q] /\ anew'[q] = anew[q]
  <2>1. CASE Land(r, e)
    <3>1. Take(r, {e}) /\ {e} \in SUBSET req[r].aim
      BY <1>1, <2>1 DEF Land
    <3>2. req[r].op # "create" /\ req[r].op \notin Deletes
      BY <1>1 DEF Deletes
    <3>3. Sink(r, e) => took' = took /\ anew' = anew
      BY DEF Sink, TakeNone
    <3>4. /\ live' = live /\ old' = old
          /\ took' \in [Requests -> SUBSET Entities] /\ anew' \in [Requests -> SUBSET Entities]
          /\ took'[r] = took[r] \cup ({e} \cap live) /\ anew'[r] = anew[r] \ {e}
          /\ \A q \in Requests \ {r} : took'[q] = took[q] /\ anew'[q] = anew[q]
      BY <1>1, <3>1, <3>2, TakeEffect
    <3> QED
      BY <3>3, <3>4
  <2>2. CASE Sink(r, e) /\ ~Land(r, e)
    BY <1>1, <2>2 DEF Sink, TakeNone, TypeOK
  <2> QED
    BY <2>1, <2>2
<1> DEFINE rest == req[r].left \ {e}
<1>3. /\ req' \in [Requests -> Request]
      /\ \A q \in Requests \ {r} : req'[q] = req[q]
      /\ req'[r].op = req[r].op /\ req'[r].aim = req[r].aim /\ req'[r].left = rest
      /\ \/ Land(r, e) /\ req'[r].pc = req[r].pc /\ req'[r].broke = req[r].broke
         \/ req[r].pc = "work" /\ req'[r].pc = "error" /\ req'[r].broke = "work"
         \/ req[r].pc # "work" /\ req'[r].pc = req[r].pc /\ req'[r].broke = req[r].broke
  BY <1>1 DEF Land, Sink, TypeOK, Request, Pcs
<1>4. Tame(r)
  BY <1>2, <1>3 DEF Tame
<1>5. TypeOK'
  BY <1>1, <1>2, <1>3 DEF TypeOK
<1>6. Stage(r)'
  BY <1>1, <1>2, <1>3 DEF Stage
<1>7. \A f \in Entities : Balance(f)'
  BY <1>1, <1>2, <1>3, BalanceStays
<1> QED
  BY <1>4, <1>5, <1>6, <1>7, StagesStay DEF IInv

-----------------------------------------------------------------------------
(***************************************************************************)
(* The theorems.                                                           *)
(***************************************************************************)

LEMMA InitIsRight == Init => IInv
<1> SUFFICES ASSUME Init PROVE IInv
  OBVIOUS
<1>1. TypeOK /\ \A r \in Requests : Stage(r)
  BY DEF Init, TypeOK, Request, Pcs, Ops, Patches, Stage
<1>2. ASSUME NEW e \in Entities PROVE Balance(e)
  <2>1. Storing(e) = {} /\ Removing(e) = {} /\ old = live
    BY DEF Init, Storing, Removing
  <2> QED
    BY <2>1, FS_EmptySet DEF Balance
<1> QED
  BY <1>1, <1>2 DEF IInv

LEMMA Inductive == Spec => []IInv
<1>1. Init => IInv
  BY InitIsRight
<1>2. ASSUME IInv, [Next]_vars PROVE IInv'
  <2>1. CASE UNCHANGED vars
    <3>1. TypeOK' /\ \A r \in Requests : Stage(r)'
      BY <1>2, <2>1 DEF vars, IInv, TypeOK, Stage, Did
    <3>2. \A e \in Entities : Balance(e)'
      BY <1>2, <2>1, BalanceStays DEF vars
    <3> QED
      BY <3>1, <3>2 DEF IInv
  <2>2. ASSUME NEW r \in Requests, NEW op \in Ops, NEW S \in SUBSET Entities, Begin(r, op, S)
        PROVE  IInv'
    BY <1>2, <2>2, BeginStep
  <2>3. ASSUME NEW r \in Requests,
               \/ Refuse(r) \/ Find(r) \/ Settle(r) \/ After(r) \/ HookThrows(r)
               \/ ErrorHook(r) \/ Return(r) \/ Thrown(r)
        PROVE  IInv'
    BY <1>2, <2>3, MoveStep
  <2>4. ASSUME NEW r \in Requests, Before(r) PROVE IInv'
    BY <1>2, <2>4, BeforeStep
  <2>5. ASSUME NEW r \in Requests, Operate(r) \/ Flush(r) \/ OperationFails(r) PROVE IInv'
    BY <1>2, <2>5, TakeStep
  <2>6. ASSUME NEW r \in Requests, NEW e \in Entities, Land(r, e) \/ Sink(r, e) PROVE IInv'
    BY <1>2, <2>6, LandStep
  <2> QED
    BY <1>2, <2>1, <2>2, <2>3, <2>4, <2>5, <2>6 DEF Next, Done
<1> QED
  BY <1>1, <1>2, PTL DEF Spec

\* The types, and that no element of a batch of patches is written twice.
THEOREM TypeCorrect == Spec => []TypeOK
<1>1. IInv => TypeOK
  BY DEF IInv
<1> QED
  BY <1>1, Inductive, PTL

\* An operation that got through was done, whatever the hooks after it and
\* other requests did, those included that stored what it removed or patched
\* again under the same ids; a refused one did nothing.
THEOREM OperationsAreDoneOrNot == Spec => []DoneOrNot
<1>1. IInv => DoneOrNot
  <2> SUFFICES ASSUME IInv, NEW r \in Requests, Answered(r)
               PROVE  /\ req[r].broke = "before" => took[r] = {}
                      /\ req[r].broke \in {"idle", "after", "return"} => Did(r)
    BY DEF DoneOrNot, Did
  <2> QED
    BY DEF IInv, Stage, Answered
<1> QED
  BY <1>1, Inductive, PTL

\* Whatever requests with ids of their own do to an entity, it was stored and
\* removed in turn: $create never overwrites one that is stored, patchOne does not
\* bring back what was removed after it was looked up, and no removal counts twice.
THEOREM EntitiesComeAndGo == Spec => []StoredAndRemovedInTurn
<1>1. IInv => StoredAndRemovedInTurn
  BY DEF IInv, Balance, StoredAndRemovedInTurn
<1> QED
  BY <1>1, Inductive, PTL

\* Who has been answered writes only what a broken batch has left.
LEMMA Writes ==
  ASSUME IInv, [Next]_vars
  PROVE  \A r \in Requests : Answered(r) /\ took'[r] # took[r] =>
           req[r].op = "patchBatch" /\ req[r].broke = "work"
<1>1. CASE TakeNone
  BY <1>1 DEF TakeNone
<1>2. ASSUME NEW r \in Requests, Operate(r) \/ Flush(r) \/ OperationFails(r)
      PROVE  ~Answered(r) /\ \A q \in Requests \ {r} : took'[q] = took[q]
  <2>1. PICK S \in SUBSET req[r].aim : Take(r, S)
    BY <1>2 DEF Operate, Flush, OperationFails
  <2>2. \A q \in Requests \ {r} : took'[q] = took[q]
    BY <2>1, TakeEffect DEF IInv
  <2> QED
    BY <1>2, <2>2 DEF Answered, Operate, Flush, OperationFails
<1>3. ASSUME NEW r \in Requests, NEW e \in Entities, Land(r, e)
      PROVE  /\ Answered(r) => req[r].op = "patchBatch" /\ req[r].broke = "work"
             /\ \A q \in Requests \ {r} : took'[q] = took[q]
  <2>1. req[r].op = "patchBatch" /\ (req[r].pc = "work" \/ req[r].broke = "work")
    BY <1>3 DEF Land, IInv, Stage
  <2> QED
    BY <1>3, <2>1 DEF Land, Take, Deletes, Answered, IInv, TypeOK
<1>4. \/ TakeNone
      \/ \E r \in Requests : Operate(r) \/ Flush(r) \/ OperationFails(r)
      \/ \E r \in Requests, e \in Entities : Land(r, e)
  BY DEF Next, Done, vars, TakeNone, Begin, Refuse, Before, Find, Settle, Sink, After,
         HookThrows, ErrorHook, Return, Thrown
<1> QED
  BY <1>1, <1>2, <1>3, <1>4

\* After its answer a request writes only what a batch that broke has left.
THEOREM AnswersAreFinal == Spec => LateWritesFollowErrors
<1>1. IInv /\ [Next]_vars =>
        [\A r \in Requests : Answered(r) /\ took'[r] # took[r] =>
           req[r].op = "patchBatch" /\ req[r].broke = "work"]_vars
  BY Writes
<1> QED
  BY <1>1, Inductive, PTL DEF Spec, LateWritesFollowErrors
=============================================================================
