------------------------- MODULE UserSessionProofs -------------------------
(***************************************************************************)
(* Proofs about UserSession, for any set of requests and any bounds.       *)
(*                                                                         *)
(* IInv is the inductive invariant.  Bounded says how far each copy of the *)
(* count may be above the highest committed one, by where its request is.  *)
(* Undisturbed says that, while nothing has happened that `causes` names,  *)
(* every copy is the current one (or the one a lonely revocation is        *)
(* installing), which is what makes every write to the cache harmless.     *)
(***************************************************************************)
EXTENDS UserSession, TLAPS

\* Copies that came from the database, directly or through the guard's check.
Settled == {"fill", "run", "target", "flagged", "done"}

BoundedRequest(r) ==
  /\ req[r].token <= top
  /\ req[r].pc \in Settled => req[r].copy <= top
  /\ req[r].pc \in {"check", "flush"} => req[r].copy <= top + 1
  /\ req[r].pc \in {"wrote", "bumped"} => req[r].copy + 1 <= top
  /\ req[r].pc = "flush" => req[r].copy # 0
  /\ req[r].pc = "target" => req[r].via = "other"
  /\ req[r].pc = "run" => req[r].copy = req[r].token
  /\ (req[r].via # "other" /\ req[r].pc \in {"wrote", "bumped"})
        => req[r].copy = req[r].token
  /\ (req[r].via # "other" /\ req[r].pc = "flush")
        => req[r].copy = req[r].token + 1

Bounded ==
  /\ db <= top
  /\ \A t \in tokens : t <= top
  /\ cache # NoEntry => cache <= top + 1
  /\ \A r \in Requests : BoundedRequest(r)

CurrentRequest(r) ==
  /\ req[r].pc \in Settled \cup {"check"} => req[r].copy = db
  /\ req[r].pc = "wrote" => req[r].copy + 1 = db
  /\ req[r].pc = "flush" => req[r].copy = db + 1 /\ cache \in {NoEntry, req[r].copy}

Undisturbed ==
  /\ \A r, q \in Requests : r # q /\ Revising(r) => req[q] = Idle
  /\ \A r \in Requests : CurrentRequest(r)
  /\ (\A r \in Requests : ~Revising(r)) => cache \in {NoEntry, db}

IInv ==
  /\ TypeOK
  /\ Bounded
  /\ causes = {} => Undisturbed

-----------------------------------------------------------------------------
(***************************************************************************)
(* Lemmas about one request changing.                                      *)
(***************************************************************************)

\* Become changes one request and leaves the others as they were.
LEMMA BecomeEffect ==
  ASSUME req \in [Requests -> Request], NEW r \in Requests,
         NEW next \in Request, Become(r, next)
  PROVE  /\ req' \in [Requests -> Request]
         /\ req'[r] = next
         /\ \A q \in Requests \ {r} : req'[q] = req[q]
  BY DEF Become

\* Goto moves one request's counter, keeps its other fields and the others.
LEMMA GotoEffect ==
  ASSUME req \in [Requests -> Request], NEW r \in Requests,
         NEW pc \in Pcs, Goto(r, pc)
  PROVE  /\ req' \in [Requests -> Request]
         /\ req'[r].pc = pc
         /\ req'[r].via = req[r].via
         /\ req'[r].token = req[r].token
         /\ req'[r].copy = req[r].copy
         /\ \A q \in Requests \ {r} : req'[q] = req[q]
  BY DEF Goto, Request

\* logout_everywhere moves on with a copy one higher, ReadDb with the answer.
LEMMA WithCopyEffect ==
  ASSUME req \in [Requests -> Request], NEW r \in Requests,
         NEW pc \in Pcs, NEW c \in Nat,
         Become(r, [req[r] EXCEPT !.pc = pc, !.copy = c])
  PROVE  /\ req' \in [Requests -> Request]
         /\ req'[r].pc = pc
         /\ req'[r].via = req[r].via
         /\ req'[r].token = req[r].token
         /\ req'[r].copy = c
         /\ \A q \in Requests \ {r} : req'[q] = req[q]
<1> DEFINE new == [req[r] EXCEPT !.pc = pc, !.copy = c]
<1>1. /\ new \in Request
      /\ new.pc = pc /\ new.copy = c
      /\ new.via = req[r].via /\ new.token = req[r].token
  BY DEF Request
<1>2. Become(r, new)
  OBVIOUS
<1> HIDE DEF new
<1> QED
  BY <1>1, <1>2, BecomeEffect

\* The record of a free slot.
LEMMA IdleFields ==
  /\ Idle \in Request
  /\ Idle.pc = "idle" /\ Idle.via = "other" /\ Idle.token = 0 /\ Idle.copy = 0
  BY DEF Idle, Request, Pcs, Vias

-----------------------------------------------------------------------------
(***************************************************************************)
(* Type correctness.                                                       *)
(***************************************************************************)

LEMMA NoteType ==
  ASSUME TypeOK, NEW c \in SUBSET Causes, Note(c)
  PROVE  causes' \subseteq Causes
  BY DEF TypeOK, Note, Causes

LEMMA TypeStep ==
  ASSUME TypeOK, [Next]_vars
  PROVE  TypeOK'
<1> USE ConstantsAssumption DEF TypeOK, SetEntry, PutBack, WriteDb
<1>1. ASSUME NEW r \in Requests, Guard(r), Note({})
      PROVE  TypeOK'
  <2>0. causes' \subseteq Causes
    BY <1>1, NoteType
  <2>1. ASSUME NEW t \in tokens, AuthCached(r, t)
        PROVE  TypeOK'
    BY <2>0, <2>1 DEF AuthCached, Become, Request, Pcs, Vias
  <2>2. ASSUME NEW t \in tokens, AuthDb(r, t)
        PROVE  TypeOK'
    BY <2>0, <2>2 DEF AuthDb, Become, Request, Pcs, Vias
  <2>3. CASE ReadDb(r)
    BY <2>0, <2>3 DEF ReadDb, Become, Request, Pcs
  <2>4. CASE Fill(r)
    <3>1. Goto(r, "check") /\ "check" \in Pcs
      BY <2>4 DEF Fill, Pcs
    <3>2. req' \in [Requests -> Request]
      BY <3>1, GotoEffect
    <3>3. req[r].copy \in Nat
      BY DEF Request
    <3> QED
      BY <2>0, <2>4, <3>2, <3>3 DEF Fill
  <2>5. CASE Admit(r)
    BY <2>0, <2>5, GotoEffect DEF Admit, Pcs
  <2>6. CASE Reject(r)
    BY <2>0, <2>6, BecomeEffect, IdleFields DEF Reject
  <2> QED
    BY <1>1, <2>1, <2>2, <2>3, <2>4, <2>5, <2>6 DEF Guard
<1>2. ASSUME NEW r \in Requests, Command(r), Note({})
      PROVE  TypeOK'
  <2>0. causes' \subseteq Causes
    BY <1>2, NoteType
  <2>1. req[r].copy \in Nat /\ req[r].copy + 1 \in Nat
    BY DEF Request
  <2>2. CASE Lookup(r)
    BY <2>0, <2>2 DEF Lookup, Become, Idle, Request, Pcs, Vias
  <2>3. CASE Login(r)
    BY <2>0, <2>1, <2>3, BecomeEffect, IdleFields DEF Login
  <2>4. CASE PatchUser(r)
    BY <2>0, <2>1, <2>4, GotoEffect DEF PatchUser, Pcs
  <2>5. CASE Invalidate(r)
    BY <2>0, <2>5, GotoEffect DEF Invalidate, Pcs
  <2>6. CASE LogMeIn(r)
    BY <2>0, <2>1, <2>6, BecomeEffect, IdleFields DEF LogMeIn
  <2>7. CASE LogoutEverywhere(r)
    <3>1. req' \in [Requests -> Request]
      BY <2>1, <2>7, WithCopyEffect DEF LogoutEverywhere, Pcs
    <3> QED
      BY <2>0, <2>1, <2>7, <3>1 DEF LogoutEverywhere
  <2>8. CASE Flush(r)
    BY <2>0, <2>1, <2>8, GotoEffect DEF Flush, Pcs
  <2>9. CASE Finish(r)
    BY <2>0, <2>9, BecomeEffect, IdleFields DEF Finish
  <2> QED
    BY <1>2, <2>2, <2>3, <2>4, <2>5, <2>6, <2>7, <2>8, <2>9 DEF Command
<1>3. ASSUME NEW r \in Requests, Copies(r), Note({})
      PROVE  TypeOK'
  <2>0. causes' \subseteq Causes
    BY <1>3, NoteType
  <2>1. req[r].copy \in Nat
    BY DEF Request
  <2>2. CASE Refresh(r)
    BY <2>0, <2>1, <2>2 DEF Refresh
  <2>3. CASE Flag(r)
    BY <2>0, <2>3 DEF Flag, Become, Idle, Request, Pcs, Vias
  <2>4. CASE SetFlagged(r)
    BY <2>0, <2>1, <2>4, BecomeEffect, IdleFields DEF SetFlagged
  <2> QED
    BY <1>3, <2>2, <2>3, <2>4 DEF Copies
<1>4. ASSUME NEW r \in Requests, Fail(r),
             Note(IF HalfWay(r) THEN {"failed"} ELSE {})
      PROVE  TypeOK'
  <2>1. causes' \subseteq Causes
    BY <1>4, NoteType DEF Causes
  <2>2. req[r].copy \in Nat
    BY DEF Request
  <2> QED
    BY <1>4, <2>1, <2>2, BecomeEffect, IdleFields DEF Fail
<1>5. ASSUME NEW r \in Requests, BulkPatch(r), Note({"bulk"})
      PROVE  TypeOK'
  <2>1. causes' \subseteq Causes
    BY <1>5, NoteType DEF Causes
  <2>2. req[r].copy + 1 \in Nat
    BY DEF Request
  <2> QED
    BY <1>5, <2>1, <2>2, BecomeEffect, IdleFields DEF BulkPatch
<1>6. ASSUME Tick \/ Lapse \/ Evict, Note({})
      PROVE  TypeOK'
  <2>1. causes' \subseteq Causes
    BY <1>6, NoteType
  <2>2. CASE Tick
    <3>1. age' \in 0..TTL
      BY <2>2 DEF Tick
    <3> QED
      BY <2>1, <2>2, <3>1 DEF Tick
  <2>3. CASE Lapse \/ Evict
    <3>1. /\ cache' = NoEntry /\ age' = 0
          /\ UNCHANGED <<db, tokens, req, top>>
      BY <2>3 DEF Lapse, Evict
    <3>2. 0 \in 0..TTL
      OBVIOUS
    <3> QED
      BY <2>1, <3>1, <3>2
  <2> QED
    BY <2>1, <2>2, <2>3, <1>6
<1>7. CASE UNCHANGED vars
  BY <1>7 DEF vars
<1> QED
  BY <1>1, <1>2, <1>3, <1>4, <1>5, <1>6, <1>7 DEF Next

LEMMA InitType == Init => TypeOK
  BY ConstantsAssumption, IdleFields DEF Init, TypeOK

\* Every variable keeps its type in every behaviour of the specification.
THEOREM TypeCorrect == Spec => []TypeOK
  BY InitType, TypeStep, PTL DEF Spec

-----------------------------------------------------------------------------
(***************************************************************************)
(* How far the counts may be above the highest committed one.              *)
(***************************************************************************)

\* A step of r moves the history variable up at most, so the bounds of the
\* other requests stay.
LEMMA OthersBounded ==
  ASSUME TypeOK, TypeOK', Bounded, NEW r \in Requests, top <= top',
         \A q \in Requests \ {r} : req'[q] = req[q]
  PROVE  \A q \in Requests \ {r} : BoundedRequest(q)'
<1> SUFFICES ASSUME NEW q \in Requests \ {r}
             PROVE  BoundedRequest(q)'
  OBVIOUS
<1>1. req[q].token \in Nat /\ req[q].copy \in Nat
  BY DEF TypeOK, Request
<1> QED
  BY <1>1 DEF TypeOK, Bounded, BoundedRequest

LEMMA BoundedGuard ==
  ASSUME TypeOK, TypeOK', Bounded, NEW r \in Requests, Guard(r)
  PROVE  Bounded'
<1> USE ConstantsAssumption
<1>0. /\ req \in [Requests -> Request]
      /\ req[r].copy \in Nat /\ req[r].token \in Nat
      /\ db \in Nat /\ top \in Nat /\ cache \in Nat \cup {NoEntry}
      /\ db <= top /\ BoundedRequest(r)
      /\ cache # NoEntry => cache <= top + 1
      /\ \A t \in tokens : t \in Nat /\ t <= top
  BY DEF TypeOK, Bounded, Request
<1>1. db' = db /\ tokens' = tokens /\ top' = top
  BY DEF Guard, AuthCached, AuthDb, ReadDb, Fill, Admit, Reject
<1>2. ASSUME NEW t \in tokens, AuthCached(r, t)
      PROVE  Bounded'
  <2> DEFINE miss == [pc |-> "read", via |-> "cached", token |-> t, copy |-> 0]
             hit  == [pc |-> "check", via |-> "cached", token |-> t, copy |-> cache]
  <2>1. CASE cache = NoEntry
    <3>1. miss \in Request /\ Become(r, miss) /\ cache' = cache
      BY <1>0, <1>2, <2>1 DEF AuthCached, Request, Pcs, Vias
    <3>2. /\ req'[r] = miss
          /\ \A q \in Requests \ {r} : req'[q] = req[q]
      BY <1>0, <3>1, BecomeEffect
    <3>3. BoundedRequest(r)'
      BY <1>0, <1>1, <3>2 DEF BoundedRequest, Settled
    <3> QED
      BY <1>0, <1>1, <3>1, <3>2, <3>3, OthersBounded DEF Bounded
  <2>2. CASE cache # NoEntry
    <3>1. hit \in Request /\ Become(r, hit) /\ cache' = cache
      BY <1>0, <1>2, <2>2 DEF AuthCached, Request, Pcs, Vias
    <3>2. /\ req'[r] = hit
          /\ \A q \in Requests \ {r} : req'[q] = req[q]
      BY <1>0, <3>1, BecomeEffect
    <3>3. BoundedRequest(r)'
      BY <1>0, <1>1, <2>2, <3>2 DEF BoundedRequest, Settled
    <3> QED
      BY <1>0, <1>1, <3>1, <3>2, <3>3, OthersBounded DEF Bounded
  <2> QED
    BY <2>1, <2>2
<1>3. ASSUME NEW t \in tokens, AuthDb(r, t)
      PROVE  Bounded'
  <2> DEFINE new == [pc |-> "check", via |-> "db", token |-> t, copy |-> db]
  <2>1. new \in Request /\ Become(r, new) /\ cache' = cache
    BY <1>0, <1>3 DEF AuthDb, Request, Pcs, Vias
  <2>2. /\ req'[r] = new
        /\ \A q \in Requests \ {r} : req'[q] = req[q]
    BY <1>0, <2>1, BecomeEffect
  <2>3. BoundedRequest(r)'
    BY <1>0, <1>1, <2>2 DEF BoundedRequest, Settled
  <2> QED
    BY <1>0, <1>1, <2>1, <2>2, <2>3, OthersBounded DEF Bounded
<1>4. CASE ReadDb(r)
  <2>1. /\ req'[r].pc = "fill" /\ req'[r].copy = db
        /\ req'[r].token = req[r].token
        /\ \A q \in Requests \ {r} : req'[q] = req[q]
    BY <1>0, <1>4, WithCopyEffect DEF ReadDb, Pcs
  <2>2. BoundedRequest(r)' /\ cache' = cache
    BY <1>0, <1>1, <1>4, <2>1 DEF ReadDb, BoundedRequest, Settled
  <2> QED
    BY <1>0, <1>1, <2>1, <2>2, OthersBounded DEF Bounded
<1>5. CASE Fill(r)
  <2>1. /\ req'[r].pc = "check" /\ req'[r].copy = req[r].copy
        /\ req'[r].token = req[r].token
        /\ \A q \in Requests \ {r} : req'[q] = req[q]
    BY <1>0, <1>5, GotoEffect DEF Fill, Pcs
  <2>2. req[r].copy <= top /\ cache' = req[r].copy
    BY <1>0, <1>5 DEF Fill, SetEntry, BoundedRequest, Settled
  <2>3. BoundedRequest(r)'
    BY <1>0, <1>1, <2>1, <2>2 DEF BoundedRequest, Settled
  <2> QED
    BY <1>0, <1>1, <2>1, <2>2, <2>3, OthersBounded DEF Bounded
<1>6. CASE Admit(r)
  <2>1. /\ req'[r].pc = "run" /\ req'[r].copy = req[r].copy
        /\ req'[r].token = req[r].token
        /\ \A q \in Requests \ {r} : req'[q] = req[q]
    BY <1>0, <1>6, GotoEffect DEF Admit, Pcs
  <2>2. BoundedRequest(r)' /\ cache' = cache
    BY <1>0, <1>1, <1>6, <2>1 DEF Admit, BoundedRequest, Settled
  <2> QED
    BY <1>0, <1>1, <2>1, <2>2, OthersBounded DEF Bounded
<1>7. CASE Reject(r)
  <2>1. /\ req'[r] = Idle
        /\ \A q \in Requests \ {r} : req'[q] = req[q]
    BY <1>0, <1>7, BecomeEffect, IdleFields DEF Reject
  <2>2. BoundedRequest(r)' /\ cache' = cache
    BY <1>0, <1>1, <1>7, <2>1, IdleFields DEF Reject, BoundedRequest, Settled
  <2> QED
    BY <1>0, <1>1, <2>1, <2>2, OthersBounded DEF Bounded
<1> QED
  BY <1>2, <1>3, <1>4, <1>5, <1>6, <1>7 DEF Guard

\* The facts about one request and the counts that the steps below start from.
LEMMA BoundedFacts ==
  ASSUME TypeOK, Bounded, NEW r \in Requests
  PROVE  /\ req \in [Requests -> Request]
         /\ req[r].copy \in Nat /\ req[r].token \in Nat
         /\ db \in Nat /\ top \in Nat /\ cache \in Nat \cup {NoEntry}
         /\ db <= top /\ BoundedRequest(r)
         /\ cache # NoEntry => cache <= top + 1
         /\ \A t \in tokens : t \in Nat /\ t <= top
  BY DEF TypeOK, Bounded, Request

\* A slot that becomes free keeps Bounded when the counts do.
LEMMA BoundedIdle ==
  ASSUME TypeOK, TypeOK', Bounded, NEW r \in Requests, Become(r, Idle),
         db' <= top', top <= top', \A t \in tokens' : t <= top',
         cache' # NoEntry => cache' <= top' + 1
  PROVE  Bounded'
<1>1. top \in Nat /\ top' \in Nat /\ req \in [Requests -> Request]
  BY DEF TypeOK
<1>2. /\ req'[r] = Idle
      /\ \A q \in Requests \ {r} : req'[q] = req[q]
  BY <1>1, BecomeEffect, IdleFields
<1>3. BoundedRequest(r)'
  BY <1>1, <1>2, IdleFields DEF BoundedRequest, Settled
<1> QED
  BY <1>2, <1>3, OthersBounded DEF Bounded

LEMMA BoundedCommand ==
  ASSUME TypeOK, TypeOK', Bounded, NEW r \in Requests,
         Command(r) \/ BulkPatch(r)
  PROVE  Bounded'
<1> USE ConstantsAssumption, BoundedFacts
<1>1. CASE Lookup(r)
  <2> DEFINE new == [Idle EXCEPT !.pc = "target", !.copy = db]
  <2>1. /\ new \in Request /\ new.pc = "target" /\ new.copy = db
        /\ new.token = 0 /\ new.via = "other" /\ Become(r, new)
    BY <1>1 DEF Lookup, Idle, Request, Pcs, Vias
  <2> HIDE DEF new
  <2>2. /\ req'[r] = new
        /\ \A q \in Requests \ {r} : req'[q] = req[q]
    BY <2>1, BecomeEffect
  <2>3. /\ db' = db /\ tokens' = tokens /\ top' = top /\ cache' = cache
    BY <1>1 DEF Lookup
  <2>4. BoundedRequest(r)'
    BY <2>1, <2>2, <2>3 DEF BoundedRequest, Settled
  <2> QED
    BY <2>2, <2>3, <2>4, OthersBounded DEF Bounded
<1>2. CASE Login(r)
  <2>1. req[r].copy <= top
    BY <1>2 DEF Login, BoundedRequest, Settled
  <2> QED
    BY <1>2, <2>1, BoundedIdle DEF Login
<1>3. CASE PatchUser(r)
  <2>1. /\ req'[r].pc = "wrote" /\ req'[r].copy = req[r].copy
        /\ req'[r].token = req[r].token /\ req'[r].via = req[r].via
        /\ \A q \in Requests \ {r} : req'[q] = req[q]
    BY <1>3, GotoEffect DEF PatchUser, Pcs
  <2>2. /\ req[r].pc \in {"run", "target"} /\ req[r].copy <= top
        /\ db' = req[r].copy + 1 /\ cache' = cache /\ tokens' = tokens
        /\ top' \in Nat /\ top <= top' /\ db' <= top'
    BY <1>3 DEF PatchUser, MayRevoke, WriteDb, BoundedRequest, Settled, TypeOK
  <2>3. req[r].via # "other" => req[r].copy = req[r].token
    BY <1>3 DEF PatchUser, MayRevoke, BoundedRequest
  <2>4. BoundedRequest(r)'
    BY <2>1, <2>2, <2>3 DEF BoundedRequest, Settled
  <2> QED
    BY <2>1, <2>2, <2>4, OthersBounded DEF Bounded
<1>4. CASE Invalidate(r)
  <2>1. /\ req'[r].pc = "bumped" /\ req'[r].copy = req[r].copy
        /\ req'[r].token = req[r].token /\ req'[r].via = req[r].via
        /\ \A q \in Requests \ {r} : req'[q] = req[q]
    BY <1>4, GotoEffect DEF Invalidate, Pcs
  <2>2. /\ db' = db /\ tokens' = tokens /\ top' = top /\ cache' = NoEntry
        /\ BoundedRequest(r)'
    BY <1>4, <2>1 DEF Invalidate, SetEntry, BoundedRequest, Settled
  <2> QED
    BY <2>1, <2>2, OthersBounded DEF Bounded
<1>5. CASE LogMeIn(r)
  <2>1. req[r].copy + 1 <= top
    BY <1>5 DEF LogMeIn, BoundedRequest
  <2> QED
    BY <1>5, <2>1, BoundedIdle DEF LogMeIn
<1>6. CASE LogoutEverywhere(r)
  <2>1. /\ req'[r].pc = "flush" /\ req'[r].copy = req[r].copy + 1
        /\ req'[r].token = req[r].token /\ req'[r].via = req[r].via
        /\ \A q \in Requests \ {r} : req'[q] = req[q]
    <3>1. req[r].copy + 1 \in Nat /\ req \in [Requests -> Request]
      OBVIOUS
    <3> QED
      BY <1>6, <3>1, WithCopyEffect DEF LogoutEverywhere, Pcs
  <2>2. /\ req[r].pc \in {"run", "target"} /\ req[r].copy <= top
        /\ db' = db /\ tokens' = tokens /\ top' = top
        /\ cache' = req[r].copy + 1
    BY <1>6 DEF LogoutEverywhere, MayRevoke, SetEntry, BoundedRequest, Settled
  <2>3. req[r].via # "other" => req[r].copy = req[r].token
    BY <1>6 DEF LogoutEverywhere, MayRevoke, BoundedRequest
  <2>4. BoundedRequest(r)'
    BY <2>1, <2>2, <2>3 DEF BoundedRequest, Settled
  <2> QED
    BY <2>1, <2>2, <2>4, OthersBounded DEF Bounded
<1>7. CASE Flush(r)
  <2>1. /\ req'[r].pc = "done" /\ req'[r].copy = req[r].copy
        /\ req'[r].token = req[r].token
        /\ \A q \in Requests \ {r} : req'[q] = req[q]
    BY <1>7, GotoEffect DEF Flush, Pcs
  <2>2. /\ db' = req[r].copy /\ tokens' = tokens /\ cache' = cache
        /\ top' \in Nat /\ top <= top' /\ db' <= top'
    BY <1>7 DEF Flush, WriteDb, TypeOK
  <2>3. BoundedRequest(r)'
    BY <2>1, <2>2 DEF BoundedRequest, Settled
  <2> QED
    BY <2>1, <2>2, <2>3, OthersBounded DEF Bounded
<1>8. CASE Finish(r)
  BY <1>8, BoundedIdle DEF Finish
<1>9. CASE BulkPatch(r)
  <2>1. /\ top' \in Nat /\ top <= top' /\ db' <= top'
        /\ tokens' = tokens /\ cache' = cache
    BY <1>9 DEF BulkPatch, WriteDb, TypeOK
  <2> QED
    BY <1>9, <2>1, BoundedIdle DEF BulkPatch
<1> QED
  BY <1>1, <1>2, <1>3, <1>4, <1>5, <1>6, <1>7, <1>8, <1>9 DEF Command

LEMMA BoundedCopies ==
  ASSUME TypeOK, TypeOK', Bounded, NEW r \in Requests, Copies(r) \/ Fail(r)
  PROVE  Bounded'
<1> USE ConstantsAssumption, BoundedFacts
<1>1. CASE Refresh(r)
  <2>1. /\ UNCHANGED <<db, tokens, req, top>> /\ cache' = req[r].copy
        /\ req[r].copy <= top
    BY <1>1 DEF Refresh, PutBack, SetEntry, BoundedRequest, Settled
  <2> QED
    BY <2>1 DEF Bounded, BoundedRequest
<1>2. CASE Flag(r)
  <2> DEFINE new == [Idle EXCEPT !.pc = "flagged", !.copy = db]
  <2>1. /\ new \in Request /\ new.pc = "flagged" /\ new.copy = db
        /\ new.token = 0 /\ Become(r, new)
    BY <1>2 DEF Flag, Idle, Request, Pcs, Vias
  <2> HIDE DEF new
  <2>2. /\ req'[r] = new
        /\ \A q \in Requests \ {r} : req'[q] = req[q]
    BY <2>1, BecomeEffect
  <2>3. /\ db' = db /\ tokens' = tokens /\ top' = top /\ cache' = cache
    BY <1>2 DEF Flag
  <2>4. BoundedRequest(r)'
    BY <2>1, <2>2, <2>3 DEF BoundedRequest, Settled
  <2> QED
    BY <2>2, <2>3, <2>4, OthersBounded DEF Bounded
<1>3. CASE SetFlagged(r)
  <2>1. cache' = req[r].copy /\ req[r].copy <= top
    BY <1>3 DEF SetFlagged, PutBack, SetEntry, BoundedRequest, Settled
  <2> QED
    BY <1>3, <2>1, BoundedIdle DEF SetFlagged
<1>4. CASE Fail(r)
  <2>1. cache' = cache \/ cache' = req[r].copy
    BY <1>4 DEF Fail, PutBack, SetEntry
  <2>2. req[r].copy <= top + 1
    BY <1>4 DEF Fail, BoundedRequest, Settled
  <2> QED
    BY <1>4, <2>1, <2>2, BoundedIdle DEF Fail
<1> QED
  BY <1>1, <1>2, <1>3, <1>4 DEF Copies

LEMMA BoundedStep ==
  ASSUME TypeOK, TypeOK', Bounded, [Next]_vars
  PROVE  Bounded'
<1>1. CASE Tick \/ Lapse \/ Evict
  <2>1. /\ UNCHANGED <<db, tokens, req, top>>
        /\ cache' = cache \/ cache' = NoEntry
    BY <1>1 DEF Tick, Lapse, Evict, SetEntry
  <2> QED
    BY <2>1 DEF Bounded, BoundedRequest
<1>2. CASE UNCHANGED vars
  BY <1>2 DEF vars, Bounded, BoundedRequest
<1> QED
  BY <1>1, <1>2, BoundedGuard, BoundedCommand, BoundedCopies DEF Next

LEMMA InitBounded == Init => Bounded
  BY IdleFields DEF Init, Bounded, BoundedRequest, Settled

-----------------------------------------------------------------------------
(***************************************************************************)
(* What Bounded gives.                                                     *)
(***************************************************************************)

LEMMA BoundedInvariant == Spec => [](TypeOK /\ Bounded)
<1>1. Init => TypeOK /\ Bounded
  BY InitType, InitBounded
<1>2. TypeOK /\ Bounded /\ [Next]_vars => (TypeOK /\ Bounded)'
  BY TypeStep, BoundedStep
<1> QED
  BY <1>1, <1>2, PTL DEF Spec

\* No token and no admitted request carries a count above the highest one the
\* database ever held; the cache is at most one above it.
THEOREM NothingIsAhead == Spec => []NothingAheadOfTop
<1>1. TypeOK /\ Bounded => NothingAheadOfTop
  BY DEF Bounded, BoundedRequest, Settled, NothingAheadOfTop
<1> QED
  BY <1>1, BoundedInvariant, PTL

\* A write that takes the count to a new maximum revokes every signed token.
THEOREM FreshMaximumRevokes == Spec => FreshMaximumRevokesAll
<1>1. TypeOK /\ Bounded /\ [Next]_vars
        => [db' > top => \A t \in tokens : t < db']_vars
  <2> SUFFICES ASSUME TypeOK, TypeOK', Bounded, db' > top, NEW t \in tokens
               PROVE  t < db'
    BY TypeStep
  <2> QED
    BY DEF TypeOK, Bounded
<1> QED
  BY <1>1, BoundedInvariant, PTL DEF Spec, FreshMaximumRevokesAll

\* A user who revokes under a token revokes that token too.
THEOREM CallerIsRevoked == Spec => RevokesCaller
<1> DEFINE A == \A r \in Requests :
                  /\ req[r].via # "other"
                  /\ \/ req[r].pc = "run" /\ req'[r].pc = "wrote"
                     \/ req[r].pc = "flush" /\ req'[r].pc = "done"
                  => db' # req[r].token
<1>1. TypeOK /\ Bounded /\ [Next]_vars => [A]_vars
  <2> SUFFICES ASSUME TypeOK, Bounded, [Next]_vars, NEW r \in Requests,
                      req[r].via # "other",
                      \/ req[r].pc = "run" /\ req'[r].pc = "wrote"
                      \/ req[r].pc = "flush" /\ req'[r].pc = "done"
               PROVE  db' = req[r].token + 1 /\ req[r].token \in Nat
    OBVIOUS
  <2>0. /\ req[r].token \in Nat /\ req[r].copy \in Nat
        /\ BoundedRequest(r) /\ req \in [Requests -> Request]
    BY BoundedFacts
  <2>1. req'[r].pc # req[r].pc /\ req'[r] # Idle /\ req[r].pc \in {"run", "flush"}
        /\ req'[r].pc \in {"wrote", "done"}
    BY IdleFields
  <2>2. \E q \in Requests : PatchUser(q) \/ Flush(q)
    <3>1. ASSUME NEW q \in Requests, Guard(q)
          PROVE  FALSE
      <4>1. CASE \E t \in tokens : AuthCached(q, t) \/ AuthDb(q, t)
        BY <2>0, <2>1, <4>1 DEF AuthCached, AuthDb, Become
      <4>2. CASE ReadDb(q) \/ Fill(q) \/ Admit(q) \/ Reject(q)
        BY <2>0, <2>1, <4>2, IdleFields DEF ReadDb, Fill, Admit, Reject, Become, Goto
      <4> QED
        BY <3>1, <4>1, <4>2 DEF Guard
    <3>2. ASSUME NEW q \in Requests,
                 Lookup(q) \/ Login(q) \/ Invalidate(q) \/ LogMeIn(q)
                 \/ LogoutEverywhere(q) \/ Finish(q)
          PROVE  FALSE
      <4>1. CASE Lookup(q)
        <5> DEFINE new == [Idle EXCEPT !.pc = "target", !.copy = db]
        <5>1. req' = [req EXCEPT ![q] = new] /\ req[q] = Idle
          BY <4>1 DEF Lookup, Become
        <5> HIDE DEF new
        <5> QED
          BY <2>0, <2>1, <5>1, IdleFields
      <4>2. CASE LogoutEverywhere(q)
        <5>1. req[q].copy + 1 \in Nat
          BY BoundedFacts
        <5>2. req'[q].pc = "flush" /\ \A p \in Requests \ {q} : req'[p] = req[p]
          BY <2>0, <4>2, <5>1, WithCopyEffect DEF LogoutEverywhere, Pcs
        <5> QED
          BY <2>1, <5>2
      <4>3. CASE Login(q) \/ Invalidate(q) \/ LogMeIn(q) \/ Finish(q)
        BY <2>0, <2>1, <4>3, IdleFields
           DEF Login, Invalidate, LogMeIn, Finish, Become, Goto
      <4> QED
        BY <3>2, <4>1, <4>2, <4>3
    <3>3. ASSUME NEW q \in Requests, Copies(q) \/ Fail(q) \/ BulkPatch(q)
          PROVE  FALSE
      BY <2>0, <2>1, <3>3, IdleFields
         DEF Copies, Refresh, Flag, SetFlagged, Fail, BulkPatch, Become
    <3>4. ASSUME Tick \/ Lapse \/ Evict \/ UNCHANGED vars
          PROVE  FALSE
      BY <2>1, <3>4 DEF Tick, Lapse, Evict, vars
    <3> QED
      BY <3>1, <3>2, <3>3, <3>4 DEF Next, Command
  <2>3. PICK q \in Requests : PatchUser(q) \/ Flush(q)
    BY <2>2
  <2>4. q = r
    BY <2>0, <2>1, <2>3 DEF PatchUser, Flush, Goto
  <2> QED
    BY <2>0, <2>1, <2>3, <2>4
       DEF PatchUser, Flush, MayRevoke, WriteDb, BoundedRequest
<1> QED
  BY <1>1, BoundedInvariant, PTL DEF Spec, RevokesCaller

-----------------------------------------------------------------------------
(***************************************************************************)
(* Refinement: the protocol implements RevocationLedger.                   *)
(***************************************************************************)

LEMMA LedgerStep ==
  ASSUME TypeOK, Bounded, [Next]_vars
  PROVE  [Ledger!Next]_<<db, top, tokens>>
<1> USE BoundedFacts
<1>1. ASSUME NEW r \in Requests, PatchUser(r) \/ BulkPatch(r)
      PROVE  Ledger!Revoke
  <2>1. req[r].copy <= top
    BY <1>1 DEF PatchUser, MayRevoke, BulkPatch, BoundedRequest, Settled
  <2> QED
    BY <1>1, <2>1 DEF PatchUser, BulkPatch, WriteDb, Ledger!Revoke
<1>2. ASSUME NEW r \in Requests, Flush(r)
      PROVE  Ledger!Revoke
  <2>1. req[r].copy <= top + 1 /\ req[r].copy # 0
    BY <1>2 DEF Flush, BoundedRequest
  <2> QED
    BY <1>2, <2>1 DEF Flush, WriteDb, Ledger!Revoke
<1>3. ASSUME NEW r \in Requests, Login(r)
      PROVE  Ledger!Sign
  <2>1. req[r].copy \in 0..top
    BY <1>3 DEF Login, BoundedRequest, Settled
  <2> QED
    BY <1>3, <2>1 DEF Login, Ledger!Sign
<1>4. ASSUME NEW r \in Requests, LogMeIn(r)
      PROVE  Ledger!Sign
  <2>1. req[r].copy + 1 \in 0..top
    BY <1>4 DEF LogMeIn, BoundedRequest
  <2> QED
    BY <1>4, <2>1 DEF LogMeIn, Ledger!Sign
<1>5. ASSUME NEW r \in Requests,
             \/ Guard(r) \/ Copies(r) \/ Fail(r)
             \/ Lookup(r) \/ Invalidate(r) \/ LogoutEverywhere(r) \/ Finish(r)
      PROVE  UNCHANGED <<db, top, tokens>>
  BY <1>5 DEF Guard, AuthCached, AuthDb, ReadDb, Fill, Admit, Reject, Copies,
              Refresh, Flag, SetFlagged, Fail, Lookup, Invalidate,
              LogoutEverywhere, Finish
<1>6. ASSUME Tick \/ Lapse \/ Evict \/ UNCHANGED vars
      PROVE  UNCHANGED <<db, top, tokens>>
  BY <1>6 DEF Tick, Lapse, Evict, vars
<1> QED
  BY <1>1, <1>2, <1>3, <1>4, <1>5, <1>6 DEF Next, Command, Ledger!Next

\* The detailed protocol implements the ledger of counts and tokens.
THEOREM ImplementsLedger == Spec => LedgerSpec
<1>1. Init => Ledger!Init
  BY DEF Init, Ledger!Init
<1> QED
  BY <1>1, LedgerStep, BoundedInvariant, PTL DEF Spec, LedgerSpec, Ledger!Spec

-----------------------------------------------------------------------------
(***************************************************************************)
(* Coherence while nothing has disturbed it.                               *)
(***************************************************************************)

\* No cause afterwards: either everything is at rest with no entry, or there
\* was none before, the step added none, and no requests overlap a revocation.
LEMMA NoCause ==
  ASSUME NEW c, Note(c), causes' = {}
  PROVE  \/ AllIdle' /\ cache' = NoEntry
         \/ causes = {} /\ c = {} /\ ~Overlap'
  BY DEF Note

LEMMA AtRest ==
  ASSUME TypeOK', AllIdle', cache' = NoEntry
  PROVE  Undisturbed'
  BY IdleFields DEF AllIdle, Undisturbed, CurrentRequest, Revising, Settled

\* No other request is half way through a revocation when r takes a step.
LEMMA NobodyElseRevises ==
  ASSUME Undisturbed, ~Overlap', NEW r \in Requests,
         req[r] # Idle \/ req'[r] # Idle,
         \A q \in Requests \ {r} : req'[q] = req[q]
  PROVE  \A q \in Requests \ {r} : ~Revising(q)
<1> SUFFICES ASSUME NEW q \in Requests \ {r}, Revising(q)
             PROVE  FALSE
  OBVIOUS
<1>1. req[r] = Idle
  BY DEF Undisturbed
<1>2. Revising(q)'
  BY DEF Revising
<1> QED
  BY <1>1, <1>2 DEF Overlap

\* What a step of r has to show: its own copy is current, and the entry agrees
\* unless r is half way; a step that writes the database runs alone.
LEMMA StepKeepsUndisturbed ==
  ASSUME TypeOK, TypeOK', Undisturbed, ~Overlap', NEW r \in Requests,
         req[r] # Idle \/ req'[r] # Idle,
         \A q \in Requests \ {r} : req'[q] = req[q],
         db' = db \/ Revising(r) \/ Revising(r)',
         CurrentRequest(r)',
         Revising(r)' \/ cache' \in {NoEntry, db'}
  PROVE  Undisturbed'
<1>1. \A q \in Requests \ {r} : ~Revising(q)
  BY NobodyElseRevises
<1>2. ASSUME NEW q \in Requests \ {r}
      PROVE  CurrentRequest(q)'
  <2>1. CASE db' = db
    BY <1>1, <2>1 DEF Undisturbed, CurrentRequest, Revising
  <2>2. CASE Revising(r) \/ Revising(r)'
    <3>1. req'[q] = Idle
      BY <2>2 DEF Undisturbed, Overlap
    <3> QED
      BY <3>1, IdleFields DEF CurrentRequest, Settled
  <2> QED
    BY <2>1, <2>2
<1>3. \A p, q \in Requests : p # q /\ Revising(p)' => req'[q] = Idle
  BY DEF Overlap, Revising
<1>4. (\A p \in Requests : ~Revising(p)') => cache' \in {NoEntry, db'}
  OBVIOUS
<1> QED
  BY <1>2, <1>3, <1>4 DEF Undisturbed, CurrentRequest, Revising

\* Before a step of r that is not half way itself, the entry agrees.
LEMMA EntryAgrees ==
  ASSUME Undisturbed, ~Overlap', NEW r \in Requests,
         req[r] # Idle \/ req'[r] # Idle, ~Revising(r),
         \A q \in Requests \ {r} : req'[q] = req[q]
  PROVE  cache \in {NoEntry, db}
  BY NobodyElseRevises DEF Undisturbed

LEMMA UndisturbedGuard ==
  ASSUME TypeOK, TypeOK', Bounded, Undisturbed, ~Overlap',
         NEW r \in Requests, Guard(r)
  PROVE  Undisturbed'
<1> USE BoundedFacts
<1>0. CurrentRequest(r) /\ db' = db
  BY DEF Undisturbed, Guard, AuthCached, AuthDb, ReadDb, Fill, Admit, Reject
<1>1. ASSUME NEW t \in tokens, AuthCached(r, t)
      PROVE  Undisturbed'
  <2> DEFINE miss == [pc |-> "read", via |-> "cached", token |-> t, copy |-> 0]
             hit  == [pc |-> "check", via |-> "cached", token |-> t, copy |-> cache]
  <2>1. \/ cache = NoEntry /\ Become(r, miss) /\ miss \in Request
        \/ cache # NoEntry /\ Become(r, hit) /\ hit \in Request
    BY <1>1 DEF AuthCached, Request, Pcs, Vias
  <2>2. /\ \/ req'[r] = miss
           \/ cache # NoEntry /\ req'[r] = hit
        /\ \A q \in Requests \ {r} : req'[q] = req[q]
    BY <2>1, BecomeEffect
  <2>3. req'[r] # Idle /\ ~Revising(r) /\ ~Revising(r)' /\ cache' = cache
    BY <1>1, <2>2, IdleFields DEF AuthCached, Revising
  <2>4. cache \in {NoEntry, db}
    BY <2>2, <2>3, EntryAgrees
  <2>5. CurrentRequest(r)'
    BY <1>0, <2>2, <2>4 DEF CurrentRequest, Settled
  <2> QED
    BY <1>0, <2>2, <2>3, <2>4, <2>5, StepKeepsUndisturbed
<1>2. ASSUME NEW t \in tokens, AuthDb(r, t)
      PROVE  Undisturbed'
  <2> DEFINE new == [pc |-> "check", via |-> "db", token |-> t, copy |-> db]
  <2>1. new \in Request /\ Become(r, new) /\ cache' = cache
    BY <1>2 DEF AuthDb, Request, Pcs, Vias
  <2>2. /\ req'[r] = new
        /\ \A q \in Requests \ {r} : req'[q] = req[q]
    BY <2>1, BecomeEffect
  <2>3. req'[r] # Idle /\ ~Revising(r)
    BY <1>2, <2>2, IdleFields DEF AuthDb, Revising
  <2>4. cache \in {NoEntry, db}
    BY <2>2, <2>3, EntryAgrees
  <2>5. CurrentRequest(r)'
    BY <1>0, <2>2 DEF CurrentRequest, Settled
  <2> QED
    BY <1>0, <2>1, <2>2, <2>3, <2>4, <2>5, StepKeepsUndisturbed
<1>3. CASE ReadDb(r)
  <2>1. /\ req'[r].pc = "fill" /\ req'[r].copy = db /\ cache' = cache
        /\ \A q \in Requests \ {r} : req'[q] = req[q]
    BY <1>3, WithCopyEffect DEF ReadDb, Pcs
  <2>2. req[r] # Idle /\ ~Revising(r)
    BY <1>3, IdleFields DEF ReadDb, Revising
  <2>3. cache \in {NoEntry, db} /\ CurrentRequest(r)'
    BY <1>0, <2>1, <2>2, EntryAgrees DEF CurrentRequest, Settled
  <2> QED
    BY <1>0, <2>1, <2>2, <2>3, StepKeepsUndisturbed
<1>4. CASE Fill(r)
  <2>1. /\ req'[r].pc = "check" /\ req'[r].copy = req[r].copy
        /\ cache' = req[r].copy
        /\ \A q \in Requests \ {r} : req'[q] = req[q]
    BY <1>4, GotoEffect DEF Fill, SetEntry, Pcs
  <2>2. req[r] # Idle /\ req[r].copy = db
    BY <1>0, <1>4, IdleFields DEF Fill, CurrentRequest, Settled
  <2>3. CurrentRequest(r)'
    BY <1>0, <2>1, <2>2 DEF CurrentRequest, Settled
  <2> QED
    BY <1>0, <2>1, <2>2, <2>3, StepKeepsUndisturbed
<1>5. CASE Admit(r)
  <2>1. /\ req'[r].pc = "run" /\ req'[r].copy = req[r].copy /\ cache' = cache
        /\ \A q \in Requests \ {r} : req'[q] = req[q]
    BY <1>5, GotoEffect DEF Admit, Pcs
  <2>2. req[r] # Idle /\ ~Revising(r) /\ req[r].copy = db
    BY <1>0, <1>5, IdleFields DEF Admit, Revising, CurrentRequest
  <2>3. cache \in {NoEntry, db} /\ CurrentRequest(r)'
    BY <1>0, <2>1, <2>2, EntryAgrees DEF CurrentRequest, Settled
  <2> QED
    BY <1>0, <2>1, <2>2, <2>3, StepKeepsUndisturbed
<1>6. CASE Reject(r)
  <2>1. /\ req'[r] = Idle /\ cache' = cache
        /\ \A q \in Requests \ {r} : req'[q] = req[q]
    BY <1>6, BecomeEffect, IdleFields DEF Reject
  <2>2. req[r] # Idle /\ ~Revising(r)
    BY <1>6, IdleFields DEF Reject, Revising
  <2>3. cache \in {NoEntry, db} /\ CurrentRequest(r)'
    BY <2>1, <2>2, EntryAgrees, IdleFields DEF CurrentRequest, Settled
  <2> QED
    BY <1>0, <2>1, <2>2, <2>3, StepKeepsUndisturbed
<1> QED
  BY <1>1, <1>2, <1>3, <1>4, <1>5, <1>6 DEF Guard

\* A request that ends without touching the database, and leaves the entry or
\* replaces it by a current copy.
LEMMA UndisturbedEnd ==
  ASSUME TypeOK, TypeOK', Bounded, Undisturbed, ~Overlap',
         NEW r \in Requests, req[r] # Idle, ~Revising(r), Become(r, Idle),
         db' = db, cache' \in {cache, NoEntry, db}
  PROVE  Undisturbed'
<1>1. /\ req'[r] = Idle
      /\ \A q \in Requests \ {r} : req'[q] = req[q]
  BY BoundedFacts, BecomeEffect, IdleFields
<1>2. cache \in {NoEntry, db}
  BY <1>1, EntryAgrees
<1>3. CurrentRequest(r)'
  BY <1>1, IdleFields DEF CurrentRequest, Settled
<1> QED
  BY <1>1, <1>2, <1>3, StepKeepsUndisturbed

\* A free slot that takes the current copy of the user from the database.
LEMMA UndisturbedTake ==
  ASSUME TypeOK, TypeOK', Bounded, Undisturbed, ~Overlap',
         NEW r \in Requests, NEW pc \in {"target", "flagged"}, req[r] = Idle,
         Become(r, [Idle EXCEPT !.pc = pc, !.copy = db]),
         db' = db, cache' = cache
  PROVE  Undisturbed'
<1> DEFINE new == [Idle EXCEPT !.pc = pc, !.copy = db]
<1>1. new \in Request /\ new.pc = pc /\ new.copy = db /\ Become(r, new)
  BY BoundedFacts DEF Idle, Request, Pcs, Vias
<1> HIDE DEF new
<1>2. /\ req'[r] = new
      /\ \A q \in Requests \ {r} : req'[q] = req[q]
  BY <1>1, BoundedFacts, BecomeEffect
<1>3. req'[r] # Idle /\ ~Revising(r)
  BY <1>1, <1>2, IdleFields DEF Revising
<1>4. cache \in {NoEntry, db} /\ CurrentRequest(r)'
  BY <1>1, <1>2, <1>3, EntryAgrees DEF CurrentRequest, Settled
<1> QED
  BY <1>2, <1>3, <1>4, StepKeepsUndisturbed

LEMMA UndisturbedCommand ==
  ASSUME TypeOK, TypeOK', Bounded, Undisturbed, ~Overlap',
         NEW r \in Requests, Command(r)
  PROVE  Undisturbed'
<1> USE BoundedFacts
<1>0. CurrentRequest(r)
  BY DEF Undisturbed
<1>1. CASE Lookup(r)
  BY <1>1, UndisturbedTake DEF Lookup
<1>2. CASE Login(r) \/ LogMeIn(r) \/ Finish(r)
  BY <1>2, UndisturbedEnd, IdleFields DEF Login, LogMeIn, Finish, Revising
<1>3. CASE PatchUser(r)
  <2>1. /\ req'[r].pc = "wrote" /\ req'[r].copy = req[r].copy
        /\ \A q \in Requests \ {r} : req'[q] = req[q]
    BY <1>3, GotoEffect DEF PatchUser, Pcs
  <2>2. req[r] # Idle /\ Revising(r)' /\ db' = req[r].copy + 1
    BY <1>3, <2>1, IdleFields DEF PatchUser, MayRevoke, WriteDb, Revising
  <2>3. CurrentRequest(r)'
    BY <2>1, <2>2 DEF CurrentRequest, Settled
  <2> QED
    BY <2>1, <2>2, <2>3, StepKeepsUndisturbed
<1>4. CASE Invalidate(r)
  <2>1. /\ req'[r].pc = "bumped" /\ cache' = NoEntry /\ db' = db
        /\ \A q \in Requests \ {r} : req'[q] = req[q]
    BY <1>4, GotoEffect DEF Invalidate, SetEntry, Pcs
  <2>2. req[r] # Idle
    BY <1>4, IdleFields DEF Invalidate
  <2>3. CurrentRequest(r)'
    BY <2>1 DEF CurrentRequest, Settled
  <2> QED
    BY <2>1, <2>2, <2>3, StepKeepsUndisturbed
<1>5. CASE LogoutEverywhere(r)
  <2>1. /\ req'[r].pc = "flush" /\ req'[r].copy = req[r].copy + 1
        /\ cache' = req[r].copy + 1 /\ db' = db
        /\ \A q \in Requests \ {r} : req'[q] = req[q]
    <3>1. req[r].copy + 1 \in Nat /\ req \in [Requests -> Request]
      OBVIOUS
    <3> QED
      BY <1>5, <3>1, WithCopyEffect DEF LogoutEverywhere, SetEntry, Pcs
  <2>2. req[r] # Idle /\ Revising(r)' /\ req[r].copy = db
    BY <1>0, <1>5, <2>1, IdleFields
       DEF LogoutEverywhere, MayRevoke, Revising, CurrentRequest, Settled
  <2>3. CurrentRequest(r)'
    BY <2>1, <2>2 DEF CurrentRequest, Settled
  <2> QED
    BY <2>1, <2>2, <2>3, StepKeepsUndisturbed
<1>6. CASE Flush(r)
  <2>1. /\ req'[r].pc = "done" /\ req'[r].copy = req[r].copy
        /\ cache' = cache /\ db' = req[r].copy
        /\ \A q \in Requests \ {r} : req'[q] = req[q]
    BY <1>6, GotoEffect DEF Flush, WriteDb, Pcs
  <2>2. req[r] # Idle /\ Revising(r) /\ cache \in {NoEntry, req[r].copy}
    BY <1>0, <1>6, IdleFields DEF Flush, Revising, CurrentRequest
  <2>3. CurrentRequest(r)'
    BY <2>1 DEF CurrentRequest, Settled
  <2> QED
    BY <2>1, <2>2, <2>3, StepKeepsUndisturbed
<1> QED
  BY <1>1, <1>2, <1>3, <1>4, <1>5, <1>6 DEF Command

LEMMA UndisturbedCopies ==
  ASSUME TypeOK, TypeOK', Bounded, Undisturbed, ~Overlap',
         NEW r \in Requests, Copies(r) \/ (Fail(r) /\ ~HalfWay(r))
  PROVE  Undisturbed'
<1>0. CurrentRequest(r)
  BY DEF Undisturbed
<1>1. CASE Refresh(r)
  <2>1. /\ cache' = req[r].copy /\ db' = db /\ req' = req
        /\ req[r] # Idle /\ req[r].copy = db
    BY <1>0, <1>1, IdleFields
       DEF Refresh, PutBack, SetEntry, CurrentRequest, Settled
  <2>2. CurrentRequest(r)'
    BY <1>1, <2>1 DEF Refresh, CurrentRequest, Settled
  <2> QED
    BY <2>1, <2>2, StepKeepsUndisturbed
<1>2. CASE Flag(r)
  BY <1>2, UndisturbedTake DEF Flag
<1>3. CASE SetFlagged(r)
  <2>1. req[r] # Idle /\ ~Revising(r) /\ cache' = db
    BY <1>0, <1>3, IdleFields
       DEF SetFlagged, PutBack, SetEntry, Revising, CurrentRequest, Settled
  <2> QED
    BY <1>3, <2>1, UndisturbedEnd DEF SetFlagged
<1>4. CASE Fail(r) /\ ~HalfWay(r)
  <2>1. req[r] # Idle /\ ~Revising(r)
    BY <1>4, IdleFields DEF Fail, HalfWay
  <2>2. cache' \in {cache, db}
    BY <1>0, <1>4
       DEF Fail, HalfWay, Revising, PutBack, SetEntry, CurrentRequest, Settled
  <2> QED
    BY <1>4, <2>1, <2>2, UndisturbedEnd DEF Fail
<1> QED
  BY <1>1, <1>2, <1>3, <1>4 DEF Copies

LEMMA UndisturbedStep ==
  ASSUME IInv, TypeOK', [Next]_vars
  PROVE  (causes = {} => Undisturbed)'
<1> SUFFICES ASSUME causes' = {}
             PROVE  Undisturbed'
  OBVIOUS
<1>1. CASE UNCHANGED vars
  BY <1>1 DEF vars, IInv, Undisturbed, CurrentRequest, Revising
<1>2. CASE AllIdle' /\ cache' = NoEntry
  BY <1>2, AtRest
<1>3. CASE Next /\ causes = {} /\ ~Overlap'
  <2>0. TypeOK /\ Bounded /\ Undisturbed
    BY <1>3 DEF IInv
  <2>1. ASSUME NEW r \in Requests, Guard(r) \/ Command(r) \/ Copies(r)
        PROVE  Undisturbed'
    BY <1>3, <2>0, <2>1, UndisturbedGuard, UndisturbedCommand, UndisturbedCopies
  <2>2. CASE Tick \/ Lapse \/ Evict
    <3>1. req' = req /\ db' = db /\ cache' \in {cache, NoEntry}
      BY <2>2 DEF Tick, Lapse, Evict, SetEntry
    <3> QED
      BY <2>0, <3>1 DEF Undisturbed, CurrentRequest, Revising
  <2>3. ASSUME NEW r \in Requests, Fail(r),
               Note(IF HalfWay(r) THEN {"failed"} ELSE {})
        PROVE  Undisturbed'
    <3>1. (AllIdle' /\ cache' = NoEntry) \/ ~HalfWay(r)
      BY <2>3, NoCause
    <3> QED
      BY <1>2, <1>3, <2>0, <2>3, <3>1, UndisturbedCopies, AtRest
  <2>4. ASSUME NEW r \in Requests, Note({"bulk"})
        PROVE  Undisturbed'
    BY <2>4, NoCause, AtRest
  <2> QED
    BY <1>3, <2>1, <2>2, <2>3, <2>4 DEF Next
<1> QED
  BY <1>1, <1>2, <1>3, NoCause DEF Next

LEMMA Inductive == Spec => []IInv
<1>1. Init => IInv
  BY InitType, InitBounded, IdleFields
     DEF Init, IInv, Undisturbed, CurrentRequest, Revising, Settled
<1>2. IInv /\ [Next]_vars => IInv'
  BY TypeStep, BoundedStep, UndisturbedStep DEF IInv
<1> QED
  BY <1>1, <1>2, PTL DEF Spec

\* The cached user disagrees with the database only after an overlap, an error
\* half way or a bulk patch.
THEOREM CoherenceUnlessDisturbed == Spec => []IncoherenceHasCause
<1>1. IInv => IncoherenceHasCause
  BY DEF IInv, Undisturbed, IncoherenceHasCause, Coherent
<1> QED
  BY <1>1, Inductive, PTL

\* Without such a cause, every admitted request carries the current count.
THEOREM AdmissionIsCurrent == Spec => []AdmittedIsCurrent
<1>1. IInv => AdmittedIsCurrent
  BY DEF IInv, Undisturbed, CurrentRequest, Bounded, BoundedRequest, Settled,
         AdmittedIsCurrent
<1> QED
  BY <1>1, Inductive, PTL
=============================================================================
