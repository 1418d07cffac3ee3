---------------------------- MODULE ClientProofs ----------------------------
(***************************************************************************)
(* What is proved of the client, for any number of tokens, elements and    *)
(* entities, any limits of the server and any size of a chunk.  Each part  *)
(* has an inductive invariant of its own; the storage is shared, and what  *)
(* is stored is nothing or the token that was signed last.                 *)
(*                                                                         *)
(* A batch is in one of two rounds: nothing was done twice yet, or it      *)
(* started again, after which the caller was seen as a user and as a guest *)
(* and the chunks are small enough for both.  A find leaves behind no more *)
(* than was removed, since a removal moves one entity at most to a page    *)
(* that was read; nothing comes twice, since the pages are sorted as the   *)
(* collection is.                                                          *)
(***************************************************************************)
EXTENDS Client, Integers, Sequences, FiniteSets, TLAPS,
        FiniteSetTheorems, SequenceTheorems

-----------------------------------------------------------------------------
(***************************************************************************)
(* ClientSession: the inductive invariant.                                 *)
(***************************************************************************)
SessionInv ==
  /\ SessionTypeOK
  /\ stored \in {Guest, signed}
  /\ account.pc # "idle" => stored \in {account.sent, Guest}

-----------------------------------------------------------------------------
(***************************************************************************)
(* ClientBatch: the inductive invariant.                                   *)
(***************************************************************************)
\* The elements that were answered since the client started, or started again.
SoFar == Batch!Upto(batch.i)

\* The result is of just those elements.
ResultFits ==
  /\ batch.res = [e \in 1..SoFar |-> e]
  /\ \A e \in 1..SoFar : done[e] >= 1
  /\ batch.pc = "ok" => SoFar = batch.n
  /\ batch.pc = "sending" => batch.i * batch.size < batch.n
  /\ batch.pc = "idle" => batch.i = 0

\* Nothing was done twice, and a chunk was taken from a user or from a guest
\* with the size as it is.
FirstRound ==
  /\ \A e \in 1..batch.n : done[e] <= 1 /\ (batch.pc # "failed" /\ e > SoFar => done[e] = 0)
  /\ batch.pc = "sending" /\ batch.i > 0 =>
       \/ batch.size <= UserMax /\ "user" \in roles
       \/ batch.size <= guestMax /\ "guest" \in roles

\* The client started again after some chunks: no one refuses the size now.
SecondRound ==
  /\ batch.size <= UserMax /\ batch.size <= guestMax
  /\ roles = {"user", "guest"}
  /\ \A e \in 1..batch.n : done[e] <= 2 /\ (batch.pc # "failed" /\ e > SoFar => done[e] <= 1)

BatchInv ==
  /\ Batch!TypeOK /\ batch.sent \in 0..signed
  /\ batch.n >= 1 /\ batch.size >= 1
  /\ ResultFits
  /\ FirstRound \/ SecondRound

-----------------------------------------------------------------------------
(***************************************************************************)
(* ClientFind: the inductive invariant.                                    *)
(***************************************************************************)
Sorted(s) == \A i, j \in 1..Len(s) : i < j => s[i] < s[j]

At(x) == {n \in 1..Len(items) : items[n] = x}

\* Entities that the pages so far have left behind.
Missed == {x \in there : x \notin Find!Found /\ \E n \in At(x) : n <= find.offset}

\* Before the first page is there, nothing has happened.
NotBegun ==
  /\ items = [n \in 1..Stored |-> n]
  /\ made = Stored /\ removed = 0 /\ there = {} /\ data = <<>> /\ even
  /\ find.offset = 0 /\ find.total = 0

\* Without an offset, the pages come in the database's order.
PagesFit ==
  /\ Sorted(data)
  /\ find.pc = "paging" =>
       \A n \in 1..Len(data), k \in 1..Len(items) : k > find.offset => items[k] > data[n]

\* When all was asked for, the entities that are there since the first page lie
\* where the loop gets to, and those that it left behind are as many as were
\* removed.
MissedFits ==
  /\ find.pc = "paging" =>
       /\ \A x \in there : \A n \in At(x) : n <= find.total
       /\ Cardinality(Missed) <= removed
  /\ find.pc = "done" => Cardinality(there \ Find!Found) <= removed

FindInv ==
  /\ Find!TypeOK /\ find.sent \in 0..signed
  /\ find.pc \in {"idle", "first"} => NotBegun
  /\ find.pc = "paging" => find.page >= 1
  /\ Sorted(items)
  /\ \A x \in there : At(x) # {}
  /\ find.skip = 0 => PagesFit
  /\ find.skip = 0 /\ find.limit = 0 /\ even => MissedFits

-----------------------------------------------------------------------------
(***************************************************************************)
(* Constants, and the storage.                                             *)
(***************************************************************************)
LEMMA ClientConstants ==
  /\ MaxTokens \in Nat /\ MaxTokens >= 1
  /\ \A n \in Sizes : n \in Nat /\ n >= 1
  /\ \A n \in Chunks : n \in Nat /\ n >= 1
  /\ UserMax \in Nat /\ \A n \in GuestMaxes : n \in Nat
  /\ Limits \subseteq Nat /\ Offsets \subseteq Nat
  /\ ServerLimit \in Nat /\ ServerLimit >= 1 /\ GuestLimit \in Nat /\ GuestLimit >= 1
  /\ Stored \in Nat /\ MaxMade \in Nat /\ MaxRemoved \in Nat
  BY ClientAssumption DEF ClientAssumption, Batch!ClientBatchAssumption, Find!ClientFindAssumption

\* ClientBatch and ClientFind count as we do.
LEMMA SameCounting ==
  /\ \A S : Batch!Cardinality(S) = Cardinality(S)
  /\ \A S : Find!Cardinality(S) = Cardinality(S)
  BY DEF Batch!Cardinality, Find!Cardinality, Cardinality

\* A call may forget the token, and does nothing else to the session.
LEMMA SessionKept ==
  ASSUME SessionInv, UNCHANGED <<good, signed, account>>, stored' \in {stored, Guest}
  PROVE  SessionInv'
  BY ClientConstants DEF SessionInv, SessionTypeOK, Tokens, Guest

LEMMA SessionStepKept ==
  ASSUME SessionInv, SessionNext
  PROVE  SessionInv' /\ signed <= signed'
<1> USE ClientConstants DEF SessionInv, SessionTypeOK, Tokens, Guest
<1>1. ASSUME NEW command \in {"login", "check"}, Ask(command)
      PROVE  SessionInv' /\ signed <= signed'
  BY <1>1 DEF Ask
<1>2. CASE Receive
  <2>1. signed' = signed + 1 /\ stored' = signed' /\ account' = NoCommand /\ signed < MaxTokens
    BY <1>2 DEF Receive
  <2>2. good' \subseteq 1..signed'
    BY <1>2, <2>1 DEF Receive
  <2> QED
    BY <2>1, <2>2 DEF NoCommand
<1>3. CASE Denied
  BY <1>3 DEF Denied, NoCommand
<1>4. CASE Nothing
  BY <1>4 DEF Nothing, NoCommand
<1>5. CASE Logout
  BY <1>5 DEF Logout
<1>6. ASSUME NEW t \in Tokens, End(t)
      PROVE  SessionInv' /\ signed <= signed'
  BY <1>6 DEF End
<1> QED
  BY <1>1, <1>2, <1>3, <1>4, <1>5, <1>6 DEF SessionNext

-----------------------------------------------------------------------------
(***************************************************************************)
(* ClientBatch: where chunks end.                                          *)
(***************************************************************************)
EndOf(i, size, n) == IF i * size < n THEN i * size ELSE n

LEMMA EndOfIs ==
  ASSUME NEW i \in Nat, NEW size \in Nat, size >= 1, NEW n \in Nat
  PROVE  /\ EndOf(i, size, n) \in 0..n
         /\ EndOf(i + 1, size, n) \in 0..n
         /\ EndOf(i, size, n) <= EndOf(i + 1, size, n)
         /\ EndOf(i + 1, size, n) <= EndOf(i, size, n) + size
         /\ i * size < n => EndOf(i, size, n) < EndOf(i + 1, size, n)
         /\ (i + 1) * size < n => EndOf(i + 1, size, n) = EndOf(i, size, n) + size
         /\ ~ i * size < n => EndOf(i, size, n) = n
         /\ i = 0 => EndOf(i, size, n) = 0
<1> DEFINE a == i * size
           b == (i + 1) * size
<1>1. a \in Nat /\ b = a + size /\ (i = 0 => a = 0)
  OBVIOUS
<1>2. /\ EndOf(i, size, n) = IF a < n THEN a ELSE n
      /\ EndOf(i + 1, size, n) = IF b < n THEN b ELSE n
  BY DEF EndOf
<1> HIDE DEF a, b
<1>3. /\ EndOf(i, size, n) \in 0..n
      /\ EndOf(i + 1, size, n) \in 0..n
      /\ EndOf(i, size, n) <= EndOf(i + 1, size, n)
      /\ EndOf(i + 1, size, n) <= EndOf(i, size, n) + size
      /\ a < n => EndOf(i, size, n) < EndOf(i + 1, size, n)
      /\ b < n => EndOf(i + 1, size, n) = EndOf(i, size, n) + size
      /\ ~ a < n => EndOf(i, size, n) = n
      /\ i = 0 => EndOf(i, size, n) = 0
  BY <1>1, <1>2
<1> QED
  BY <1>3 DEF a, b

\* The chunk under way.
LEMMA ChunkIs ==
  ASSUME batch.i \in Nat, batch.size \in Nat, batch.size >= 1, batch.n \in Nat
  PROVE  /\ SoFar = EndOf(batch.i, batch.size, batch.n)
         /\ Batch!Chunk(batch.i) = (SoFar + 1)..EndOf(batch.i + 1, batch.size, batch.n)
         /\ Batch!Answers(batch.i) =
              [k \in 1..(EndOf(batch.i + 1, batch.size, batch.n) - SoFar) |-> SoFar + k]
         /\ Batch!TooLarge <=>
              EndOf(batch.i + 1, batch.size, batch.n) - SoFar > Batch!ServerMax
<1> DEFINE u == EndOf(batch.i, batch.size, batch.n)
           v == EndOf(batch.i + 1, batch.size, batch.n)
<1>1. Batch!Upto(batch.i) = u /\ Batch!Upto(batch.i + 1) = v
  BY DEF Batch!Upto, Batch!Least, EndOf
<1>2. u \in Nat /\ v \in Nat /\ u <= v
  <2>1. u \in 0..batch.n /\ v \in 0..batch.n /\ u <= v
    BY Zenon, EndOfIs
  <2> HIDE DEF u, v
  <2> QED
    BY <2>1
<1> HIDE DEF u, v
<1>3. SoFar = u
  BY <1>1 DEF SoFar
<1>4. Batch!Chunk(batch.i) = (u + 1)..v
  BY <1>1 DEF Batch!Chunk
<1>5. Batch!Answers(batch.i) = [k \in 1..(v - u) |-> u + k]
  BY <1>1 DEF Batch!Answers
<1>6. Cardinality((u + 1)..v) = v - u
  <2>1. u + 1 \in Int /\ v \in Int
    BY <1>2
  <2>2. Cardinality((u + 1)..v) = IF u + 1 > v THEN 0 ELSE v - (u + 1) + 1
    BY <2>1, FS_Interval
  <2> QED
    BY <1>2, <2>2
<1>7. Batch!TooLarge <=> v - u > Batch!ServerMax
  BY <1>4, <1>6, SameCounting DEF Batch!TooLarge
<1> QED
  BY <1>3, <1>4, <1>5, <1>7 DEF u, v

\* What the invariant says of the call.
LEMMA BatchIs ==
  ASSUME BatchInv
  PROVE  /\ batch \in Batch!Call
         /\ batch.pc \in Batch!Pcs
         /\ batch.n \in Nat /\ batch.n >= 1 /\ batch.size \in Nat /\ batch.size >= 1
         /\ batch.i \in Nat /\ batch.sent \in Nat /\ batch.res \in Seq(Nat)
         /\ done \in [1..batch.n -> Nat]
         /\ guestMax \in GuestMaxes /\ guestMax \in Nat /\ UserMax \in Nat
         /\ roles \subseteq {"user", "guest"}
         /\ batch.pc = "sending" => Batch!Chunk(batch.i) # {}
         /\ batch.sent \in 0..signed
  BY ClientConstants DEF BatchInv, Batch!TypeOK, Batch!Call

-----------------------------------------------------------------------------
(***************************************************************************)
(* ClientBatch: every action keeps the invariant.                          *)
(***************************************************************************)
\* The session goes on: what is said of the call stays.
LEMMA BatchStays ==
  ASSUME BatchInv, UNCHANGED batchVars, signed \in Nat, signed' \in Nat, signed <= signed'
  PROVE  BatchInv'
<1>1. UNCHANGED <<guestMax, batch, done, roles>>
  BY DEF batchVars
<1>2. SoFar' = SoFar
  BY <1>1 DEF SoFar, Batch!Upto, Batch!Least
<1>3. ResultFits'
  BY <1>1, <1>2 DEF BatchInv, ResultFits
<1>4. (FirstRound \/ SecondRound)'
  BY <1>1, <1>2 DEF BatchInv, FirstRound, SecondRound
<1>5. Batch!TypeOK'
  BY <1>1 DEF BatchInv, Batch!TypeOK, Batch!Chunk, Batch!Upto, Batch!Least
<1>6. batch'.sent \in 0..signed' /\ batch'.n >= 1 /\ batch'.size >= 1
  BY <1>1 DEF BatchInv
<1> QED
  BY <1>3, <1>4, <1>5, <1>6 DEF BatchInv

\* The call goes on, or fails, with the same result so far.
LEMMA BatchTurn ==
  ASSUME BatchInv, NEW pc \in {"sending", "failed"}, NEW sent \in 0..signed,
         batch' = [batch EXCEPT !.pc = pc, !.sent = sent],
         signed \in Nat, UNCHANGED <<guestMax, done, signed>>, roles' \subseteq {"user", "guest"},
         roles \subseteq roles',
         batch.pc \in {"idle", "sending"}
  PROVE  BatchInv'
<1>1. /\ batch' \in Batch!Call /\ batch'.pc = pc /\ batch'.sent = sent
      /\ batch'.n = batch.n /\ batch'.size = batch.size /\ batch'.i = batch.i
      /\ batch'.res = batch.res
  <2>1. pc \in Batch!Pcs /\ sent \in Nat
    BY DEF Batch!Pcs
  <2>2. batch \in Batch!Call
    BY BatchIs
  <2> QED
    BY <2>1, <2>2 DEF Batch!Call
<1>2. SoFar' = SoFar
  BY <1>1 DEF SoFar, Batch!Upto, Batch!Least
<1>3. batch.i * batch.size < batch.n
  <2>1. CASE batch.pc = "sending"
    BY <2>1 DEF BatchInv, ResultFits
  <2>2. CASE batch.pc = "idle"
    <3>1. batch.i = 0 /\ batch.size \in Nat /\ batch.n >= 1 /\ batch.n \in Nat
      BY <2>2, BatchIs DEF BatchInv, ResultFits
    <3>2. 0 * batch.size = 0
      BY <3>1
    <3> QED
      BY <3>1, <3>2
  <2> QED
    BY <2>1, <2>2
<1>4. ResultFits'
  BY <1>1, <1>2, <1>3 DEF BatchInv, ResultFits
<1>5. (FirstRound \/ SecondRound)'
  <2>1. CASE FirstRound
    <3>1. \A e \in 1..batch'.n :
            done'[e] <= 1 /\ (batch'.pc # "failed" /\ e > SoFar' => done'[e] = 0)
      BY <1>1, <1>2, <2>1 DEF FirstRound
    <3>2. batch'.pc = "sending" /\ batch'.i > 0 =>
            \/ batch'.size <= UserMax /\ "user" \in roles'
            \/ batch'.size <= guestMax' /\ "guest" \in roles'
      BY <1>1, <2>1 DEF BatchInv, ResultFits, FirstRound
    <3> QED
      BY <3>1, <3>2 DEF FirstRound
  <2>2. CASE SecondRound
    <3>1. \A e \in 1..batch'.n :
            done'[e] <= 2 /\ (batch'.pc # "failed" /\ e > SoFar' => done'[e] <= 1)
      BY <1>1, <1>2, <2>2 DEF SecondRound
    <3>2. batch'.size <= UserMax /\ batch'.size <= guestMax' /\ roles' = {"user", "guest"}
      BY <1>1, <2>2 DEF SecondRound
    <3> QED
      BY <3>1, <3>2 DEF SecondRound
  <2> QED
    BY <2>1, <2>2 DEF BatchInv
<1>6. Batch!TypeOK'
  <2>1. Batch!Chunk(batch.i)' # {}
    <3>1. Batch!Chunk(batch.i) = (SoFar + 1)..EndOf(batch.i + 1, batch.size, batch.n)
      BY BatchIs, ChunkIs
    <3>2. SoFar < EndOf(batch.i + 1, batch.size, batch.n) /\ SoFar \in Nat
      <4>1. /\ EndOf(batch.i, batch.size, batch.n) \in 0..batch.n
            /\ EndOf(batch.i, batch.size, batch.n) < EndOf(batch.i + 1, batch.size, batch.n)
        BY <1>3, BatchIs, EndOfIs
      <4> QED
        BY <4>1, BatchIs, ChunkIs
    <3>3. EndOf(batch.i + 1, batch.size, batch.n) \in Nat
      BY BatchIs, EndOfIs
    <3>4. Batch!Chunk(batch.i)' = Batch!Chunk(batch.i)
      BY <1>1 DEF Batch!Chunk, Batch!Upto, Batch!Least
    <3> DEFINE a == SoFar
               b == EndOf(batch.i + 1, batch.size, batch.n)
    <3>5. Batch!Chunk(batch.i) = (a + 1)..b /\ a < b /\ a \in Nat /\ b \in Nat
      BY <3>1, <3>2, <3>3
    <3> HIDE DEF a, b
    <3>6. a + 1 \in Batch!Chunk(batch.i)
      BY <3>5
    <3> QED
      BY <3>4, <3>6
  <2>2. done' \in [1..batch'.n -> Nat] /\ guestMax' \in GuestMaxes
    BY <1>1, BatchIs
  <2> QED
    BY <1>1, <2>1, <2>2 DEF Batch!TypeOK, Batch!Call, Batch!Pcs
<1> QED
  BY <1>1, <1>4, <1>5, <1>6 DEF BatchInv

LEMMA BatchTokens ==
  ASSUME BatchInv, SessionInv
  PROVE  /\ stored \in 0..signed /\ batch.sent \in 0..signed /\ 0 \in 0..signed /\ signed \in Nat
         /\ Batch!Guest = 0
  BY ClientConstants DEF BatchInv, SessionInv, SessionTypeOK, Tokens, Guest, Batch!Guest

LEMMA BatchStart ==
  ASSUME BatchInv, SessionInv, Batch!Start, UNCHANGED signed
  PROVE  BatchInv'
<1>1. /\ batch.pc = "idle"
      /\ batch' = [batch EXCEPT !.pc = "sending", !.sent = stored]
      /\ UNCHANGED <<guestMax, done, roles>>
  BY DEF Batch!Start
<1>2. /\ roles' \subseteq {"user", "guest"} /\ roles \subseteq roles'
      /\ UNCHANGED <<guestMax, done, signed>>
      /\ batch.pc \in {"idle", "sending"}
  BY <1>1, BatchIs
<1>3. stored \in 0..signed /\ signed \in Nat
  BY BatchTokens
<1> QED
  BY Zenon, <1>1, <1>2, <1>3, BatchTurn

LEMMA BatchUnauthorized ==
  ASSUME BatchInv, SessionInv, Batch!Unauthorized, UNCHANGED signed
  PROVE  BatchInv'
<1>1. /\ batch.pc = "sending"
      /\ batch' = [batch EXCEPT !.sent = 0]
      /\ UNCHANGED <<guestMax, done, roles>>
  BY DEF Batch!Unauthorized, Batch!Guest
<1>2. batch' = [batch EXCEPT !.pc = "sending", !.sent = 0]
  BY <1>1, BatchIs DEF Batch!Call
<1>3. /\ roles' \subseteq {"user", "guest"} /\ roles \subseteq roles'
      /\ UNCHANGED <<guestMax, done, signed>>
      /\ batch.pc \in {"idle", "sending"}
  BY <1>1, BatchIs
<1>4. 0 \in 0..signed /\ signed \in Nat
  BY BatchTokens
<1> QED
  BY Zenon, <1>2, <1>3, <1>4, BatchTurn

LEMMA BatchRefused ==
  ASSUME BatchInv, SessionInv, UNCHANGED signed,
         Batch!Refused \/ (Batch!Fail /\ UNCHANGED done)
  PROVE  BatchInv'
<1>1. /\ batch.pc = "sending"
      /\ batch' = [batch EXCEPT !.pc = "failed"]
      /\ UNCHANGED <<guestMax, done>>
      /\ roles \subseteq roles' /\ roles' \subseteq {"user", "guest"}
  BY BatchIs DEF Batch!Refused, Batch!Heard, Batch!Fail
<1>2. batch' = [batch EXCEPT !.pc = "failed", !.sent = batch.sent]
  BY <1>1, BatchIs DEF Batch!Call
<1>3. UNCHANGED <<guestMax, done, signed>> /\ batch.pc \in {"idle", "sending"}
  BY <1>1
<1>4. batch.sent \in 0..signed /\ signed \in Nat
  BY BatchTokens
<1> QED
  BY Zenon, <1>1, <1>2, <1>3, <1>4, BatchTurn

\* The chunk was done.
LEMMA DidIs ==
  ASSUME BatchInv, batch.pc = "sending", NEW d, d = Batch!Did(Batch!Chunk(batch.i))
  PROVE  LET v == EndOf(batch.i + 1, batch.size, batch.n) IN
         /\ d \in [1..batch.n -> Nat]
         /\ \A e \in 1..batch.n :
              d[e] = IF e > SoFar /\ e <= v THEN done[e] + 1 ELSE done[e]
         /\ SoFar \in 0..batch.n /\ v \in 0..batch.n /\ SoFar < v
<1> DEFINE v == EndOf(batch.i + 1, batch.size, batch.n)
           u == EndOf(batch.i, batch.size, batch.n)
<1>1. batch.i * batch.size < batch.n
  BY DEF BatchInv, ResultFits
<1>2. u \in 0..batch.n /\ v \in 0..batch.n /\ u < v
  BY <1>1, BatchIs, EndOfIs
<1>3. SoFar = u /\ Batch!Chunk(batch.i) = (SoFar + 1)..v
  BY BatchIs, ChunkIs
<1> HIDE DEF u, v
<1>4. done \in [1..batch.n -> Nat] /\ batch.n \in Nat
  BY BatchIs
<1> DEFINE s == SoFar
<1>5. s = SoFar /\ s \in Nat /\ v \in Nat
  BY <1>2, <1>3, <1>4
<1> HIDE DEF s
<1>6. d = [x \in 1..batch.n |-> IF x \in (s + 1)..v THEN done[x] + 1 ELSE done[x]]
  BY <1>3, <1>4, <1>5 DEF Batch!Did
<1>7. \A e \in 1..batch.n : d[e] = IF e > s /\ e <= v THEN done[e] + 1 ELSE done[e]
  BY <1>4, <1>5, <1>6
<1>8. d \in [1..batch.n -> Nat]
  BY <1>4, <1>6
<1> QED
  BY <1>2, <1>3, <1>5, <1>7, <1>8 DEF v

LEMMA BatchFail ==
  ASSUME BatchInv, SessionInv, Batch!Fail, UNCHANGED signed
  PROVE  BatchInv'
<1>1. /\ batch.pc = "sending"
      /\ batch' = [batch EXCEPT !.pc = "failed"]
      /\ UNCHANGED <<guestMax, roles>>
      /\ done' = done \/ done' = Batch!Did(Batch!Chunk(batch.i))
  BY DEF Batch!Fail
<1>2. CASE done' = done
  BY <1>2, BatchRefused
<1>3. CASE done' = Batch!Did(Batch!Chunk(batch.i))
  <2> DEFINE v == EndOf(batch.i + 1, batch.size, batch.n)
  <2>1. /\ done' \in [1..batch.n -> Nat]
        /\ \A e \in 1..batch.n :
             done'[e] = IF e > SoFar /\ e <= v THEN done[e] + 1 ELSE done[e]
        /\ SoFar \in 0..batch.n /\ v \in 0..batch.n /\ SoFar < v
    BY <1>1, <1>3, DidIs
  <2> HIDE DEF v
  <2>2. /\ batch' \in Batch!Call /\ batch'.pc = "failed" /\ batch'.sent = batch.sent
        /\ batch'.n = batch.n /\ batch'.size = batch.size /\ batch'.i = batch.i
        /\ batch'.res = batch.res
    <3>1. "failed" \in Batch!Pcs /\ batch \in Batch!Call
      BY BatchIs DEF Batch!Pcs
    <3> QED
      BY <1>1, <3>1 DEF Batch!Call
  <2>3. SoFar' = SoFar
    BY <2>2 DEF SoFar, Batch!Upto, Batch!Least
  <2>4. done \in [1..batch.n -> Nat] /\ batch.n \in Nat
    BY BatchIs
  <2>5. ResultFits'
    <3>1. \A e \in 1..SoFar : done'[e] >= 1
      <4>1. \A e \in 1..SoFar : e \in 1..batch.n /\ ~ e > SoFar
        BY <2>1, <2>4
      <4> QED
        BY <2>1, <4>1 DEF BatchInv, ResultFits
    <3> QED
      BY <2>2, <2>3, <3>1 DEF BatchInv, ResultFits
  <2>6. (FirstRound \/ SecondRound)'
    <3>1. CASE FirstRound
      <4>1. \A e \in 1..batch.n : done'[e] <= 1
        BY <1>1, <2>1, <2>4, <3>1 DEF FirstRound
      <4> QED
        BY <2>2, <4>1 DEF FirstRound
    <3>2. CASE SecondRound
      <4>1. \A e \in 1..batch.n : done'[e] <= 2
        BY <1>1, <2>1, <2>4, <3>2 DEF SecondRound
      <4> QED
        BY <1>1, <2>2, <3>2, <4>1 DEF SecondRound
    <3> QED
      BY <3>1, <3>2 DEF BatchInv
  <2>7. Batch!TypeOK'
    BY <1>1, <2>1, <2>2, BatchIs DEF Batch!TypeOK, Batch!Call, Batch!Pcs
  <2> QED
    BY <2>2, <2>5, <2>6, <2>7 DEF BatchInv
<1> QED
  BY <1>1, <1>2, <1>3

\* The array is sent again, in chunks that the server said it would take.
LEMMA BatchRestart ==
  ASSUME BatchInv, SessionInv, Batch!Restart, UNCHANGED signed
  PROVE  BatchInv'
<1> DEFINE max == Batch!ServerMax
           who == IF batch.sent = 0 THEN "guest" ELSE "user"
<1>1. /\ batch.pc = "sending"
      /\ Batch!TooLarge /\ max > 0 /\ max < batch.size
      /\ batch' = [batch EXCEPT !.size = max, !.i = 0, !.sent = stored, !.res = <<>>]
      /\ UNCHANGED <<guestMax, done>>
      /\ roles' = roles \cup {who}
  BY BatchTokens DEF Batch!Restart, Batch!Heard, Batch!Smaller
<1>2. /\ max = IF batch.sent = 0 THEN guestMax ELSE UserMax
      /\ max \in Nat
  BY BatchIs, BatchTokens DEF Batch!ServerMax
<1> HIDE DEF max
<1>3. /\ batch' \in Batch!Call /\ batch'.pc = "sending" /\ batch'.sent = stored
      /\ batch'.n = batch.n /\ batch'.size = max /\ batch'.i = 0 /\ batch'.res = <<>>
  <2> DEFINE none == <<>>
             sent == stored
             i == 0
  <2>1. batch \in Batch!Call /\ sent \in Nat /\ i \in Nat /\ none \in Seq(Nat)
    BY BatchIs, BatchTokens
  <2>2. batch' = [batch EXCEPT !.size = max, !.i = i, !.sent = sent, !.res = none]
    BY <1>1
  <2> HIDE DEF none, sent, i
  <2>3. /\ batch' \in Batch!Call /\ batch'.pc = batch.pc /\ batch'.sent = sent
        /\ batch'.n = batch.n /\ batch'.size = max /\ batch'.i = i /\ batch'.res = none
    BY <1>2, <2>1, <2>2 DEF Batch!Call
  <2> QED
    BY <1>1, <2>3 DEF none, sent, i
<1>4. 0 * max = 0 /\ 0 * max < batch.n
  BY <1>2, BatchIs
<1>5. SoFar' = 0
  BY <1>3, <1>4 DEF SoFar, Batch!Upto, Batch!Least
<1>6. SoFar \in 0..batch.n /\ (batch.i = 0 => SoFar = 0)
  <2>1. SoFar = EndOf(batch.i, batch.size, batch.n)
    BY BatchIs, ChunkIs
  <2>2. /\ EndOf(batch.i, batch.size, batch.n) \in 0..batch.n
        /\ batch.i = 0 => EndOf(batch.i, batch.size, batch.n) = 0
    <3>1. /\ batch.i \in Nat /\ batch.size \in Nat /\ batch.size >= 1
          /\ batch.n \in Nat
      BY BatchIs
    <3> QED
      BY Zenon, <3>1, EndOfIs
  <2> QED
    BY <2>1, <2>2
<1>7. done \in [1..batch.n -> Nat] /\ batch.n \in Nat
  BY BatchIs
<1>8. ResultFits'
  BY <1>3, <1>4, <1>5 DEF ResultFits
<1>9. (FirstRound \/ SecondRound)'
  <2>1. ~ SecondRound
    BY <1>1, <1>2, BatchIs DEF SecondRound
  <2>2. /\ \A e \in 1..batch.n : done[e] <= 1 /\ (e > SoFar => done[e] = 0)
        /\ batch.i > 0 => \/ batch.size <= UserMax /\ "user" \in roles
                          \/ batch.size <= guestMax /\ "guest" \in roles
    BY <1>1, <2>1 DEF BatchInv, FirstRound
  <2>3. CASE batch.i = 0
    <3>1. \A e \in 1..batch.n : done[e] = 0
      BY <1>6, <1>7, <2>2, <2>3
    <3> QED
      BY <1>1, <1>3, <3>1 DEF FirstRound
  <2>4. CASE batch.i # 0
    <3>1. batch.i > 0
      BY <2>4, BatchIs
    <3>2. CASE batch.sent = 0
      <4>1. batch.size <= UserMax /\ "user" \in roles /\ max = guestMax
        BY <1>1, <1>2, <2>2, <3>1, <3>2, BatchIs
      <4>2. max <= UserMax /\ max <= guestMax
        BY <1>1, <1>2, <4>1, BatchIs
      <4>3. roles' = {"user", "guest"}
        BY <1>1, <3>2, <4>1, BatchIs
      <4>4. \A e \in 1..batch.n : done[e] <= 2 /\ done[e] <= 1
        BY <1>7, <2>2
      <4> QED
        BY <1>1, <1>3, <4>2, <4>3, <4>4 DEF SecondRound
    <3>3. CASE batch.sent # 0
      <4>1. batch.size <= guestMax /\ "guest" \in roles /\ max = UserMax
        BY <1>1, <1>2, <2>2, <3>1, <3>3, BatchIs
      <4>2. max <= UserMax /\ max <= guestMax
        BY <1>1, <1>2, <4>1, BatchIs
      <4>3. roles' = {"user", "guest"}
        BY <1>1, <3>3, <4>1, BatchIs
      <4>4. \A e \in 1..batch.n : done[e] <= 2 /\ done[e] <= 1
        BY <1>7, <2>2
      <4> QED
        BY <1>1, <1>3, <4>2, <4>3, <4>4 DEF SecondRound
    <3> QED
      BY <3>2, <3>3
  <2> QED
    BY <2>3, <2>4
<1>10. Batch!TypeOK'
  <2>1. Batch!Chunk(batch.i)' # {}
    <3>1. /\ EndOf(0, max, batch.n) = 0
          /\ EndOf(0 + 1, max, batch.n) \in 0..batch.n
          /\ EndOf(0, max, batch.n) < EndOf(0 + 1, max, batch.n)
      <4>1. /\ 0 \in Nat /\ max \in Nat /\ max >= 1 /\ batch.n \in Nat
            /\ 0 * max < batch.n /\ batch.n >= 1
        BY <1>1, <1>2, <1>4, BatchIs
      <4> QED
        BY <4>1 DEF EndOf
    <3>2. Batch!Chunk(batch.i)' = (0 + 1)..EndOf(0 + 1, max, batch.n)
      BY <1>3, <1>4, <1>7, BatchIs DEF Batch!Chunk, Batch!Upto, Batch!Least, EndOf
    <3> DEFINE w == EndOf(0 + 1, max, batch.n)
    <3>3. w \in Nat /\ 0 < w
      BY <1>7, <3>1
    <3> HIDE DEF w
    <3>4. 1 \in (0 + 1)..w
      BY <3>3
    <3> QED
      BY <3>2, <3>4 DEF w
  <2>2. roles' \subseteq {"user", "guest"}
    BY <1>1, BatchIs
  <2> QED
    BY <1>1, <1>3, <2>1, <2>2, BatchIs DEF Batch!TypeOK, Batch!Call, Batch!Pcs
<1>11. batch'.sent \in 0..signed'
  BY <1>3, BatchTokens
<1>12. batch'.n >= 1 /\ batch'.size >= 1
  BY <1>1, <1>2, <1>3, BatchIs
<1> QED
  BY <1>8, <1>9, <1>10, <1>11, <1>12 DEF BatchInv

\* One answer after the other.
LEMMA AnswersJoin ==
  ASSUME NEW u \in Nat, NEW v \in Nat, u <= v
  PROVE  [e \in 1..u |-> e] \o [k \in 1..(v - u) |-> u + k] = [e \in 1..v |-> e]
<1> DEFINE s == [e \in 1..u |-> e]
           t == [k \in 1..(v - u) |-> u + k]
           w == [e \in 1..v |-> e]
<1>1. s \in Seq(Nat) /\ Len(s) = u /\ \A e \in 1..u : s[e] = e
  OBVIOUS
<1>2. t \in Seq(Nat) /\ Len(t) = v - u /\ \A k \in 1..(v - u) : t[k] = u + k
  OBVIOUS
<1>3. w \in Seq(Nat) /\ Len(w) = v /\ \A e \in 1..v : w[e] = e
  OBVIOUS
<1> HIDE DEF s, t, w
<1>4. /\ s \o t \in Seq(Nat) /\ Len(s \o t) = u + (v - u)
      /\ \A e \in 1..(u + (v - u)) : (s \o t)[e] = IF e <= u THEN s[e] ELSE t[e - u]
  <2>1. s \in Seq(Nat) /\ t \in Seq(Nat)
    BY <1>1, <1>2
  <2>2. /\ s \o t \in Seq(Nat) /\ Len(s \o t) = Len(s) + Len(t)
        /\ \A e \in 1..Len(s) + Len(t) :
             (s \o t)[e] = IF e <= Len(s) THEN s[e] ELSE t[e - Len(s)]
    BY <2>1, ConcatProperties
  <2>3. Len(s) = u /\ Len(t) = v - u
    BY <1>1, <1>2
  <2> QED
    BY <2>2, <2>3
<1>5. u + (v - u) = v
  OBVIOUS
<1> DEFINE st == s \o t
<1>6. /\ st \in Seq(Nat) /\ Len(st) = v
      /\ \A e \in 1..v : st[e] = IF e <= u THEN s[e] ELSE t[e - u]
  BY <1>4, <1>5
<1> HIDE DEF st
<1>7. ASSUME NEW e \in 1..v PROVE st[e] = e
  <2>1. CASE e <= u
    BY <1>1, <1>6, <2>1
  <2>2. CASE e > u
    <3>1. e - u \in 1..(v - u) /\ u + (e - u) = e
      BY <2>2
    <3>2. t[e - u] = u + (e - u)
      BY <1>2, <3>1
    <3>3. st[e] = t[e - u]
      BY <1>6, <2>2
    <3> QED
      BY <3>1, <3>2, <3>3
  <2> QED
    BY <2>1, <2>2
<1>8. st = w
  BY <1>3, <1>6, <1>7
<1> QED
  BY <1>8 DEF s, t, w, st

LEMMA BatchAccept ==
  ASSUME BatchInv, SessionInv, Batch!Accept, UNCHANGED signed
  PROVE  BatchInv'
<1> DEFINE who == IF batch.sent = 0 THEN "guest" ELSE "user"
           max == Batch!ServerMax
           j == batch.i + 1
           u == SoFar
           v == EndOf(j, batch.size, batch.n)
           pc == IF j * batch.size >= batch.n THEN "ok" ELSE "sending"
           res == [e \in 1..v |-> e]
<1>1. /\ batch.pc = "sending"
      /\ ~Batch!TooLarge
      /\ roles' = roles \cup {who}
      /\ done' = Batch!Did(Batch!Chunk(batch.i))
      /\ batch' = [batch EXCEPT !.i = j, !.sent = stored, !.pc = pc,
                                !.res = batch.res \o Batch!Answers(batch.i)]
      /\ guestMax' = guestMax
  BY BatchTokens, BatchIs DEF Batch!Accept, Batch!Heard, Batch!Answered, Batch!Call
<1>2. /\ done' \in [1..batch.n -> Nat]
      /\ \A e \in 1..batch.n : done'[e] = IF e > u /\ e <= v THEN done[e] + 1 ELSE done[e]
      /\ u \in 0..batch.n /\ v \in 0..batch.n /\ u < v
  BY <1>1, DidIs
<1>3. /\ max = IF batch.sent = 0 THEN guestMax ELSE UserMax
      /\ max \in Nat
  BY BatchIs, BatchTokens DEF Batch!ServerMax
<1>4. v - u <= max
  <2>1. ~ (v - u > max)
    BY <1>1, BatchIs, ChunkIs
  <2>2. u \in Nat /\ v \in Nat /\ max \in Nat
    BY <1>2, <1>3, BatchIs
  <2> HIDE DEF u, v, max
  <2> QED
    BY <2>1, <2>2
<1>5. batch.res \o Batch!Answers(batch.i) = res
  <2>1. batch.res = [e \in 1..u |-> e]
    BY DEF BatchInv, ResultFits
  <2>2. Batch!Answers(batch.i) = [k \in 1..(v - u) |-> u + k]
    BY BatchIs, ChunkIs
  <2>3. u \in Nat /\ v \in Nat /\ u <= v
    BY <1>2, BatchIs
  <2> HIDE DEF u, v
  <2> QED
    BY <2>1, <2>2, <2>3, AnswersJoin
<1>6. j \in Nat /\ batch.n \in Nat /\ batch.size \in Nat /\ j > 0
  BY BatchIs
<1>7. /\ pc = "ok" => v = batch.n
      /\ pc = "sending" => j * batch.size < batch.n /\ v = u + batch.size
  <2>1. /\ ~ j * batch.size < batch.n => EndOf(j, batch.size, batch.n) = batch.n
        /\ j * batch.size < batch.n =>
             EndOf(j, batch.size, batch.n) = EndOf(batch.i, batch.size, batch.n) + batch.size
    <3>1. j * batch.size < batch.n =>
            EndOf(j, batch.size, batch.n) = EndOf(batch.i, batch.size, batch.n) + batch.size
      <4>1. /\ batch.i \in Nat /\ batch.size \in Nat /\ batch.size >= 1
            /\ batch.n \in Nat
        BY BatchIs
      <4> QED
        BY Zenon, <4>1, EndOfIs
    <3>2. ~ j * batch.size < batch.n => EndOf(j, batch.size, batch.n) = batch.n
      BY DEF EndOf
    <3> QED
      BY <3>1, <3>2
  <2>2. u = EndOf(batch.i, batch.size, batch.n)
    BY BatchIs, ChunkIs
  <2>3. j * batch.size \in Nat
    BY <1>6
  <2> DEFINE p == j * batch.size
  <2>4. /\ ~ p < batch.n => v = batch.n
        /\ p < batch.n => v = u + batch.size
        /\ p \in Nat /\ batch.n \in Nat
        /\ pc = IF p >= batch.n THEN "ok" ELSE "sending"
    BY <1>6, <2>1, <2>2, <2>3
  <2> HIDE DEF p, u, v, pc, j
  <2>5. /\ pc = "ok" => v = batch.n
        /\ pc = "sending" => p < batch.n /\ v = u + batch.size
    BY <2>4
  <2> QED
    BY <2>5 DEF p
<1>8. pc \in {"ok", "sending"}
  OBVIOUS
<1>9. res \in Seq(Nat)
  <2>1. v \in Nat
    BY <1>2, <1>6
  <2> HIDE DEF v
  <2> QED
    BY <2>1
<1>10. SoFar' = v /\ /\ batch' \in Batch!Call /\ batch'.pc = pc /\ batch'.sent = stored
                     /\ batch'.n = batch.n /\ batch'.size = batch.size
                     /\ batch'.i = j /\ batch'.res = res
  <2> DEFINE sent == stored
  <2>1. batch \in Batch!Call /\ sent \in Nat /\ pc \in Batch!Pcs
    BY <1>8, BatchIs, BatchTokens DEF Batch!Pcs
  <2>2. batch' = [batch EXCEPT !.i = j, !.sent = sent, !.pc = pc, !.res = res]
    BY <1>1, <1>5
  <2> HIDE DEF sent, pc, res, j
  <2>3. /\ batch' \in Batch!Call /\ batch'.pc = pc /\ batch'.sent = sent
        /\ batch'.n = batch.n /\ batch'.size = batch.size
        /\ batch'.i = j /\ batch'.res = res
    BY <1>6, <1>9, <2>1, <2>2 DEF Batch!Call
  <2>4. SoFar' = v
    BY <2>3 DEF SoFar, Batch!Upto, Batch!Least, EndOf
  <2> QED
    BY <2>3, <2>4 DEF sent
<1> HIDE DEF j, u, v, pc, res, max
<1>11. done \in [1..batch.n -> Nat]
  BY BatchIs
<1>12. u \in Nat /\ v \in Nat /\ u < v /\ v <= batch.n /\ u = SoFar
  BY <1>2, <1>6 DEF u
<1>13. ResultFits'
  <2>1. \A e \in 1..v : done'[e] >= 1
    <3> SUFFICES ASSUME NEW e \in 1..v PROVE done'[e] >= 1
      OBVIOUS
    <3>1. e \in 1..batch.n /\ done[e] \in Nat
      BY <1>6, <1>11, <1>12
    <3>2. e <= u => done[e] >= 1
      BY <1>12 DEF BatchInv, ResultFits
    <3> QED
      BY <1>2, <1>12, <3>1, <3>2
  <2>2. SoFar' = v /\ batch'.res = [e \in 1..v |-> e]
    BY <1>10 DEF res
  <2>3. batch'.pc # "idle"
    BY <1>8, <1>10
  <2>4. batch'.pc = "ok" => SoFar' = batch'.n
    BY <1>7, <1>10
  <2>5. batch'.pc = "sending" => batch'.i * batch'.size < batch'.n
    BY <1>7, <1>10
  <2> QED
    BY <2>1, <2>2, <2>3, <2>4, <2>5 DEF ResultFits
<1>14. (FirstRound \/ SecondRound)'
  <2>1. CASE FirstRound
    <3>1. \A e \in 1..batch.n : done'[e] <= 1 /\ (e > v => done'[e] = 0)
      BY <1>1, <1>2, <1>6, <1>11, <1>12, <2>1 DEF FirstRound
    <3>2. pc = "sending" => \/ batch.size <= UserMax /\ "user" \in roles'
                            \/ batch.size <= guestMax /\ "guest" \in roles'
      <4> SUFFICES ASSUME pc = "sending"
                   PROVE  \/ batch.size <= UserMax /\ "user" \in roles'
                          \/ batch.size <= guestMax /\ "guest" \in roles'
        OBVIOUS
      <4>1. v = u + batch.size
        BY <1>7
      <4>2. batch.size <= max
        BY <1>3, <1>4, <1>6, <1>12, <4>1
      <4> QED
        BY <1>1, <1>3, <4>2
    <3> QED
      BY <1>1, <1>10, <3>1, <3>2 DEF FirstRound
  <2>2. CASE SecondRound
    <3>1. \A e \in 1..batch.n : done'[e] <= 2 /\ (e > v => done'[e] <= 1)
      BY <1>1, <1>2, <1>6, <1>11, <1>12, <2>2 DEF SecondRound
    <3>2. roles' = {"user", "guest"}
      BY <1>1, <2>2 DEF SecondRound
    <3> QED
      BY <1>1, <1>10, <2>2, <3>1, <3>2 DEF SecondRound
  <2> QED
    BY <2>1, <2>2 DEF BatchInv
<1>15. Batch!TypeOK'
  <2>1. batch'.pc = "sending" => Batch!Chunk(batch.i)' # {}
    <3> SUFFICES ASSUME pc = "sending" PROVE Batch!Chunk(batch.i)' # {}
      BY <1>10
    <3> DEFINE w == EndOf(j + 1, batch.size, batch.n)
    <3>1. EndOf(j, batch.size, batch.n) < w /\ w \in 0..batch.n
      BY <1>6, <1>7, BatchIs, EndOfIs
    <3>2. Batch!Chunk(batch.i)' = (v + 1)..w
      BY <1>10 DEF Batch!Chunk, Batch!Upto, Batch!Least, EndOf, v
    <3> HIDE DEF w
    <3>3. v + 1 \in (v + 1)..w
      BY <1>6, <1>12, <3>1 DEF v
    <3> QED
      BY <3>2, <3>3
  <2>2. roles' \subseteq {"user", "guest"}
    BY <1>1, BatchIs
  <2> QED
    BY <1>1, <1>2, <1>10, <2>1, <2>2, BatchIs DEF Batch!TypeOK, Batch!Call, Batch!Pcs
<1>16. batch'.sent \in 0..signed'
  BY <1>10, BatchTokens
<1> QED
  BY <1>10, <1>13, <1>14, <1>15, <1>16, BatchIs DEF BatchInv

LEMMA BatchInit == Batch!Init /\ SessionInit => BatchInv
<1> SUFFICES ASSUME Batch!Init, SessionInit PROVE BatchInv
  OBVIOUS
<1> DEFINE none == <<>>
<1>1. /\ batch \in [pc : {"idle"}, n : Sizes, size : Chunks, i : {0}, sent : {0}, res : {none}]
      /\ guestMax \in GuestMaxes /\ roles = {}
      /\ done = [e \in 1..batch.n |-> 0]
      /\ signed = 1
  BY DEF Batch!Init, Batch!Guest, SessionInit
<1>2. none \in Seq(Nat)
  OBVIOUS
<1> HIDE DEF none
<1>3. /\ batch.pc = "idle" /\ batch.n \in Sizes /\ batch.size \in Chunks
      /\ batch.i = 0 /\ batch.sent = 0 /\ batch.res = none
  BY <1>1
<1>4. /\ batch.n \in Nat /\ batch.n >= 1 /\ batch.size \in Nat /\ batch.size >= 1
  BY <1>3, ClientConstants
<1>5. batch \in Batch!Call
  BY <1>1, <1>2, <1>3, <1>4 DEF Batch!Call, Batch!Pcs
<1>6. SoFar = 0
  <2>1. 0 * batch.size = 0
    BY <1>4
  <2> QED
    BY <1>3, <1>4, <2>1 DEF SoFar, Batch!Upto, Batch!Least
<1>7. ResultFits
  <2>1. batch.res = [e \in 1..0 |-> e]
    BY <1>3 DEF none
  <2> QED
    BY <1>3, <1>6, <2>1 DEF ResultFits
<1>8. FirstRound
  BY <1>1, <1>3, <1>4 DEF FirstRound
<1>9. Batch!TypeOK
  BY <1>1, <1>3, <1>4, <1>5 DEF Batch!TypeOK
<1> QED
  BY <1>1, <1>3, <1>4, <1>7, <1>8, <1>9 DEF BatchInv

LEMMA BatchStepKept ==
  ASSUME BatchInv, SessionInv, BatchStep
  PROVE  BatchInv' /\ stored' \in {stored, Guest} /\ UNCHANGED <<good, signed, account>>
<1>1. Batch!Next /\ UNCHANGED <<signed, account>>
  BY DEF BatchStep
<1>2. BatchInv'
  BY <1>1, BatchStart, BatchAccept, BatchUnauthorized, BatchRestart, BatchRefused, BatchFail
  DEF Batch!Next
<1>3. stored' \in {stored, Guest} /\ good' = good
  BY <1>1 DEF Batch!Next, Batch!Start, Batch!Accept, Batch!Unauthorized, Batch!Restart,
              Batch!Refused, Batch!Fail, Batch!Guest, Guest
<1> QED
  BY <1>1, <1>2, <1>3

\* What the application gets.
LEMMA ResultsAreWhole == BatchInv => ResultIsWhole
<1> SUFFICES ASSUME BatchInv, batch.pc = "ok"
             PROVE  /\ batch.res = [e \in 1..batch.n |-> e]
                    /\ \A e \in DOMAIN done : done[e] > 0
  BY DEF ResultIsWhole, Batch!ResultIsWhole
<1>1. SoFar = batch.n /\ batch.res = [e \in 1..SoFar |-> e] /\ \A e \in 1..SoFar : done[e] >= 1
  BY DEF BatchInv, ResultFits
<1>2. done \in [1..batch.n -> Nat] /\ batch.n \in Nat
  BY BatchIs
<1> QED
  BY <1>1, <1>2

\* What starting again does.
LEMMA AtMostTwice == BatchInv => TwiceOnlyAfterChange
<1> SUFFICES ASSUME BatchInv, NEW e \in DOMAIN done, done[e] > 1
             PROVE  roles = {"user", "guest"} /\ done[e] = 2
  BY DEF TwiceOnlyAfterChange, Batch!TwiceOnlyAfterChange
<1>1. e \in 1..batch.n /\ done[e] \in Nat
  BY BatchIs
<1> QED
  BY <1>1 DEF BatchInv, FirstRound, SecondRound

-----------------------------------------------------------------------------
(***************************************************************************)
(* ClientFind: pages, and sorted sequences.                                *)
(***************************************************************************)
\* What a page holds.
LEMMA PageIs ==
  ASSUME NEW S, items \in Seq(S), NEW limit \in Nat, NEW offset \in Nat
  PROVE  LET p == Find!Page(limit, offset) IN
         /\ p \in Seq(S) /\ Len(p) \in Nat
         /\ \A k \in 1..Len(p) : /\ offset + k \in 1..Len(items) /\ k <= limit
                                 /\ p[k] = items[offset + k]
         /\ \A n \in 1..Len(items) :
              n > offset /\ n <= offset + limit => \E k \in 1..Len(p) : p[k] = items[n]
<1> DEFINE len == Len(items)
           last == IF offset + limit < len THEN offset + limit ELSE len
           p == Find!Page(limit, offset)
<1>1. p = SubSeq(items, offset + 1, last)
  BY DEF Find!Page, Find!Least
<1>2. len \in Nat /\ last \in Nat /\ last <= len /\ last <= offset + limit
  OBVIOUS
<1>3. last = offset + limit \/ last = len
  OBVIOUS
<1>4. \A i \in (offset + 1)..last : i \in 1..len /\ items[i] \in S
  BY <1>2
<1> HIDE DEF last, p
<1>5. offset + 1 \in Int /\ last \in Int
  BY <1>2
<1>6. /\ p \in Seq(S)
      /\ Len(p) = IF offset + 1 <= last THEN last - (offset + 1) + 1 ELSE 0
      /\ \A i \in 1..(last - (offset + 1) + 1) : p[i] = items[(offset + 1) + i - 1]
  BY <1>1, <1>4, <1>5, SubSeqProperties
<1> DEFINE m == Len(p)
<1>7. m \in Nat /\ (m = 0 \/ m = last - offset) /\ m >= last - offset
  BY <1>2, <1>6
<1>8. \A k \in 1..m : p[k] = items[offset + k]
  <2>1. \A k \in 1..m : k \in 1..(last - (offset + 1) + 1) /\ (offset + 1) + k - 1 = offset + k
    BY <1>2, <1>7
  <2> QED
    BY <1>6, <2>1
<1> HIDE DEF m, len
<1>9. \A k \in 1..m : offset + k \in 1..len /\ k <= limit
  BY <1>2, <1>7
<1>10. ASSUME NEW n \in 1..len, n > offset, n <= offset + limit
       PROVE  \E k \in 1..m : p[k] = items[n]
  <2>1. n <= last
    BY <1>2, <1>3, <1>10
  <2>2. n - offset \in 1..m /\ offset + (n - offset) = n
    BY <1>2, <1>7, <1>10, <2>1
  <2>3. p[n - offset] = items[n]
    BY <1>8, <2>2
  <2> QED
    BY <2>2, <2>3
<1> QED
  BY <1>6, <1>7, <1>8, <1>9, <1>10 DEF m, len, p

\* An element of a sequence.
Has(s, x) == \E k \in 1..Len(s) : s[k] = x

\* Data that goes on where it stopped.
LEMMA SortedJoin ==
  ASSUME NEW S, S \subseteq Nat
  PROVE  \A s, t \in Seq(S) :
           /\ Sorted(s) /\ Sorted(t)
           /\ \A i \in 1..Len(s), j \in 1..Len(t) : s[i] < t[j]
           => /\ s \o t \in Seq(S) /\ Sorted(s \o t)
              /\ \A x : Has(s \o t, x) <=> Has(s, x) \/ Has(t, x)
<1> SUFFICES ASSUME NEW s \in Seq(S), NEW t \in Seq(S), Sorted(s), Sorted(t),
                    \A i \in 1..Len(s), j \in 1..Len(t) : s[i] < t[j]
             PROVE  /\ s \o t \in Seq(S) /\ Sorted(s \o t)
                    /\ \A x : Has(s \o t, x) <=> Has(s, x) \/ Has(t, x)
  OBVIOUS
<1> DEFINE st == s \o t
           m == Len(s)
           n == Len(t)
<1>1. /\ st \in Seq(S) /\ Len(st) = m + n
      /\ \A k \in 1..m + n : st[k] = IF k <= m THEN s[k] ELSE t[k - m]
  BY ConcatProperties
<1>2. m \in Nat /\ n \in Nat
  OBVIOUS
<1>3. /\ \A i \in 1..m : s[i] \in Nat
      /\ \A j \in 1..n : t[j] \in Nat
  <2>1. (\A i \in 1..m : s[i] \in S) /\ (\A j \in 1..n : t[j] \in S)
    OBVIOUS
  <2> HIDE DEF m, n
  <2> QED
    BY <2>1
<1>4. /\ \A i, j \in 1..m : i < j => s[i] < s[j]
      /\ \A i, j \in 1..n : i < j => t[i] < t[j]
      /\ \A i \in 1..m, j \in 1..n : s[i] < t[j]
  BY DEF Sorted
<1> HIDE DEF st, m, n
<1>5. \A k \in 1..m + n : /\ k <= m => k \in 1..m /\ st[k] = s[k]
                          /\ ~ k <= m => k - m \in 1..n /\ st[k] = t[k - m]
  BY <1>1, <1>2
<1>6. ASSUME NEW i \in 1..m + n, NEW j \in 1..m + n, i < j
      PROVE  st[i] < st[j]
  <2>1. CASE j <= m
    BY <1>2, <1>4, <1>5, <1>6, <2>1
  <2>2. CASE i <= m /\ ~ j <= m
    BY <1>2, <1>4, <1>5, <1>6, <2>2
  <2>3. CASE ~ i <= m
    <3>1. ~ j <= m /\ i - m < j - m
      BY <1>2, <1>6, <2>3
    <3> QED
      BY <1>2, <1>4, <1>5, <1>6, <2>3, <3>1
  <2> QED
    BY <1>2, <1>6, <2>1, <2>2, <2>3
<1>7. Sorted(st)
  BY <1>1, <1>6 DEF Sorted
<1>8. \A i \in 1..m : \E k \in 1..m + n : st[k] = s[i]
  <2>1. \A i \in 1..m : i \in 1..m + n /\ i <= m
    BY <1>2
  <2> QED
    BY <1>5, <2>1
<1>9. \A j \in 1..n : \E k \in 1..m + n : st[k] = t[j]
  <2> SUFFICES ASSUME NEW j \in 1..n PROVE \E k \in 1..m + n : st[k] = t[j]
    OBVIOUS
  <2>1. m + j \in 1..m + n /\ ~ m + j <= m /\ (m + j) - m = j
    BY <1>2
  <2>2. st[m + j] = t[j]
    BY <1>5, <2>1
  <2> QED
    BY <2>1, <2>2
<1>10. \A k \in 1..m + n : \/ \E i \in 1..m : st[k] = s[i]
                           \/ \E j \in 1..n : st[k] = t[j]
  BY <1>5
<1>11. Len(s) = m /\ Len(t) = n /\ Len(st) = m + n
  BY <1>1 DEF m, n
<1>12. \A x : Has(st, x) <=> Has(s, x) \/ Has(t, x)
  <2>1. ASSUME NEW x, Has(st, x) PROVE Has(s, x) \/ Has(t, x)
    <3>1. PICK k \in 1..m + n : st[k] = x
      BY <1>11, <2>1 DEF Has
    <3> QED
      BY <1>10, <1>11, <3>1 DEF Has
  <2>2. ASSUME NEW x, Has(s, x) PROVE Has(st, x)
    <3>1. PICK i \in 1..m : s[i] = x
      BY <1>11, <2>2 DEF Has
    <3> QED
      BY <1>8, <1>11, <3>1 DEF Has
  <2>3. ASSUME NEW x, Has(t, x) PROVE Has(st, x)
    <3>1. PICK j \in 1..n : t[j] = x
      BY <1>11, <2>3 DEF Has
    <3> QED
      BY <1>9, <1>11, <3>1 DEF Has
  <2> QED
    BY <2>1, <2>2, <2>3
<1> QED
  BY <1>1, <1>7, <1>12 DEF st

\* A sequence without its n-th element.
LEMMA WithoutNth ==
  ASSUME NEW S, NEW s \in Seq(S), NEW n \in 1..Len(s), NEW t,
         t = SubSeq(s, 1, n - 1) \o SubSeq(s, n + 1, Len(s))
  PROVE  /\ t \in Seq(S) /\ Len(t) = Len(s) - 1
         /\ \A i \in 1..Len(t) : t[i] = IF i < n THEN s[i] ELSE s[i + 1]
<1> DEFINE a == SubSeq(s, 1, n - 1)
           b == SubSeq(s, n + 1, Len(s))
           len == Len(s)
<1>1. len \in Nat /\ n \in 1..len /\ \A i \in 1..len : s[i] \in S
  OBVIOUS
<1>2. /\ a \in Seq(S) /\ Len(a) = IF 1 <= n - 1 THEN (n - 1) - 1 + 1 ELSE 0
      /\ \A i \in 1..((n - 1) - 1 + 1) : a[i] = s[1 + i - 1]
  <2>1. 1 \in Int /\ n - 1 \in Int /\ \A i \in 1..(n - 1) : s[i] \in S
    BY <1>1
  <2> QED
    BY <2>1, SubSeqProperties
<1>3. /\ b \in Seq(S) /\ Len(b) = IF n + 1 <= len THEN len - (n + 1) + 1 ELSE 0
      /\ \A i \in 1..(len - (n + 1) + 1) : b[i] = s[(n + 1) + i - 1]
  <2>1. n + 1 \in Int /\ len \in Int /\ \A i \in (n + 1)..len : s[i] \in S
    BY <1>1
  <2> QED
    BY <2>1, SubSeqProperties
<1> HIDE DEF a, b, len
<1>4. Len(a) = n - 1 /\ \A i \in 1..(n - 1) : a[i] = s[i]
  <2>1. \A i \in 1..(n - 1) : i \in 1..((n - 1) - 1 + 1) /\ 1 + i - 1 = i
    BY <1>1
  <2> QED
    BY <1>1, <1>2, <2>1
<1>5. Len(b) = len - n /\ \A i \in 1..(len - n) : b[i] = s[n + i]
  <2>1. \A i \in 1..(len - n) : i \in 1..(len - (n + 1) + 1) /\ (n + 1) + i - 1 = n + i
    BY <1>1
  <2> QED
    BY <1>1, <1>3, <2>1
<1>6. /\ a \o b \in Seq(S) /\ Len(a \o b) = Len(a) + Len(b)
      /\ \A i \in 1..Len(a) + Len(b) : (a \o b)[i] = IF i <= Len(a) THEN a[i] ELSE b[i - Len(a)]
  BY <1>2, <1>3, ConcatProperties
<1>7. t = a \o b
  BY DEF a, b, len
<1>8. /\ t \in Seq(S) /\ Len(t) = len - 1
      /\ \A i \in 1..(len - 1) : t[i] = IF i <= n - 1 THEN a[i] ELSE b[i - (n - 1)]
  <2>1. Len(a) + Len(b) = len - 1
    BY <1>1, <1>4, <1>5
  <2> QED
    BY <1>4, <1>6, <1>7, <2>1
<1>9. ASSUME NEW i \in 1..(len - 1)
      PROVE  t[i] = IF i < n THEN s[i] ELSE s[i + 1]
  <2>1. CASE i < n
    <3>1. i \in 1..(n - 1) /\ i <= n - 1
      BY <1>1, <2>1
    <3> QED
      BY <1>4, <1>8, <2>1, <3>1
  <2>2. CASE ~ i < n
    <3>1. i - (n - 1) \in 1..(len - n) /\ n + (i - (n - 1)) = i + 1 /\ ~ i <= n - 1
      BY <1>1, <2>2
    <3>2. t[i] = b[i - (n - 1)] /\ b[i - (n - 1)] = s[n + (i - (n - 1))]
      BY <1>5, <1>8, <3>1
    <3> QED
      BY <2>2, <3>1, <3>2
  <2> QED
    BY <2>1, <2>2
<1> QED
  BY <1>8, <1>9 DEF len

-----------------------------------------------------------------------------
(***************************************************************************)
(* ClientFind: every action keeps the invariant.                           *)
(***************************************************************************)
\* What the invariant says of the variables.
LEMMA FindIs ==
  ASSUME FindInv
  PROVE  /\ find \in Find!Call
         /\ find.pc \in Find!Pcs /\ find.limit \in Limits /\ find.limit \in Nat
         /\ find.skip \in Offsets /\ find.skip \in Nat /\ find.sent \in Nat
         /\ find.page \in Nat /\ find.offset \in Nat /\ find.total \in Nat
         /\ items \in Seq(1..made) /\ data \in Seq(1..made)
         /\ made \in Nat /\ Stored <= made /\ made <= Stored + MaxMade
         /\ removed \in Nat /\ removed <= MaxRemoved
         /\ there \subseteq 1..Stored /\ even \in BOOLEAN
         /\ find.sent \in 0..signed /\ Stored \in Nat
<1>1. /\ find \in Find!Call
      /\ items \in Seq(1..made) /\ data \in Seq(1..made)
      /\ made \in Stored..(Stored + MaxMade) /\ removed \in 0..MaxRemoved
      /\ there \subseteq 1..Stored /\ even \in BOOLEAN /\ find.sent \in 0..signed
  BY DEF FindInv, Find!TypeOK
<1>2. /\ find.pc \in Find!Pcs /\ find.limit \in Limits /\ find.skip \in Offsets
      /\ find.sent \in Nat
      /\ find.page \in Nat /\ find.offset \in Nat /\ find.total \in Nat
  BY <1>1 DEF Find!Call
<1>3. find.limit \in Nat /\ find.skip \in Nat
  BY <1>2, ClientConstants
<1>4. /\ made \in Nat /\ Stored <= made /\ made <= Stored + MaxMade
      /\ removed \in Nat /\ removed <= MaxRemoved /\ Stored \in Nat
  BY <1>1, ClientConstants
<1> QED
  BY <1>1, <1>2, <1>3, <1>4

LEMMA FindTokens ==
  ASSUME SessionInv
  PROVE  stored \in 0..signed /\ 0 \in 0..signed /\ signed \in Nat /\ Find!Guest = 0
  BY ClientConstants DEF SessionInv, SessionTypeOK, Tokens, Guest, Find!Guest

\* The session goes on: what is said of the call stays.
LEMMA FindStays ==
  ASSUME FindInv, UNCHANGED findVars, signed \in Nat, signed' \in Nat, signed <= signed'
  PROVE  FindInv'
<1>1. UNCHANGED <<items, find, data, made, removed, there, even>>
  BY DEF findVars
<1>2. Find!TypeOK'
  BY <1>1 DEF FindInv, Find!TypeOK
<1>3. find'.sent \in 0..signed'
  BY <1>1, FindIs
<1>4. At(0)' = At(0) /\ (\A x : At(x)' = At(x)) /\ Missed' = Missed /\ Find!Found' = Find!Found
  BY <1>1 DEF At, Missed, Find!Found
<1>5. NotBegun' = NotBegun /\ PagesFit' = PagesFit /\ MissedFits' = MissedFits
      /\ Sorted(items)' = Sorted(items)
  BY <1>1, <1>4 DEF NotBegun, PagesFit, MissedFits, Sorted
<1> QED
  BY <1>1, <1>2, <1>3, <1>4, <1>5 DEF FindInv

\* The request is sent, or sent again.
LEMMA FindTurn ==
  ASSUME FindInv, SessionInv, NEW pc, NEW sent \in 0..signed,
         find' = [find EXCEPT !.pc = pc, !.sent = sent],
         \/ find.pc = "idle" /\ pc = "first"
         \/ find.pc \in {"first", "paging"} /\ pc = find.pc,
         UNCHANGED <<signed, items, data, made, removed, there, even>>
  PROVE  FindInv'
<1>1. /\ find' \in Find!Call /\ find'.pc = pc /\ find'.sent = sent
      /\ find'.limit = find.limit /\ find'.skip = find.skip /\ find'.page = find.page
      /\ find'.offset = find.offset /\ find'.total = find.total
  <2>1. pc \in Find!Pcs
    BY DEF Find!Pcs
  <2>2. sent \in Nat /\ find \in Find!Call
    BY FindIs, FindTokens
  <2> QED
    BY <2>1, <2>2 DEF Find!Call
<1>2. Find!TypeOK'
  BY <1>1 DEF FindInv, Find!TypeOK, Find!Call
<1>3. (\A x : At(x)' = At(x)) /\ Missed' = Missed /\ Find!Found' = Find!Found
  BY <1>1 DEF At, Missed, Find!Found
<1>4. NotBegun' = NotBegun /\ Sorted(items)' = Sorted(items)
  BY <1>1 DEF NotBegun, Sorted
<1>5. PagesFit => PagesFit'
  BY <1>1 DEF PagesFit, Sorted
<1>6. MissedFits => MissedFits'
  BY <1>1, <1>3 DEF MissedFits
<1>7. /\ find'.pc \in {"idle", "first"} => NotBegun'
      /\ find'.pc = "paging" => find'.page >= 1
      /\ Sorted(items)'
      /\ \A x \in there' : At(x)' # {}
      /\ find'.skip = 0 => PagesFit'
      /\ find'.skip = 0 /\ find'.limit = 0 /\ even' => MissedFits'
  BY <1>1, <1>3, <1>4, <1>5, <1>6 DEF FindInv
<1> QED
  BY <1>1, <1>2, <1>7 DEF FindInv

LEMMA FindStart ==
  ASSUME FindInv, SessionInv, Find!Start, UNCHANGED signed
  PROVE  FindInv'
<1>1. /\ find.pc = "idle"
      /\ find' = [find EXCEPT !.pc = "first", !.sent = stored]
      /\ UNCHANGED <<signed, items, data, made, removed, there, even>>
  BY DEF Find!Start
<1>2. stored \in 0..signed
  BY FindTokens
<1> DEFINE pc == "first"
<1>3. pc = "first"
  OBVIOUS
<1> HIDE DEF pc
<1>4. find' = [find EXCEPT !.pc = pc, !.sent = stored]
  BY <1>1, <1>3
<1>5. find.pc = "idle" /\ pc = "first"
  BY <1>1, <1>3
<1> QED
  BY Zenon, <1>1, <1>2, <1>4, <1>5, FindTurn

LEMMA FindUnauthorized ==
  ASSUME FindInv, SessionInv, Find!Unauthorized, UNCHANGED signed
  PROVE  FindInv'
<1>1. /\ find.pc \in {"first", "paging"}
      /\ find' = [find EXCEPT !.sent = 0]
      /\ UNCHANGED <<signed, items, data, made, removed, there, even>>
  BY FindTokens DEF Find!Unauthorized
<1>2. 0 \in 0..signed
  BY FindTokens
<1>3. find' = [find EXCEPT !.pc = find.pc, !.sent = 0]
  BY <1>1, FindIs DEF Find!Call
<1> QED
  BY Zenon, <1>1, <1>2, <1>3, FindTurn

LEMMA FindFail ==
  ASSUME FindInv, SessionInv, Find!Fail, UNCHANGED signed
  PROVE  FindInv'
<1>1. /\ find' = [find EXCEPT !.pc = "failed"]
      /\ data' = <<>>
      /\ UNCHANGED <<items, made, removed, there, even>>
  BY DEF Find!Fail
<1>2. /\ find' \in Find!Call /\ find'.pc = "failed" /\ find'.sent = find.sent
  <2>1. "failed" \in Find!Pcs /\ find \in Find!Call
    BY FindIs DEF Find!Pcs
  <2> QED
    BY <1>1, <2>1 DEF Find!Call
<1>3. Find!TypeOK'
  BY <1>1, <1>2 DEF FindInv, Find!TypeOK, Find!Call
<1>4. (\A x : At(x)' = At(x)) /\ (Sorted(items)' <=> Sorted(items))
  BY <1>1 DEF At, Sorted
<1>5. PagesFit' /\ MissedFits'
  BY <1>1, <1>2 DEF PagesFit, MissedFits, Sorted
<1>6. find'.sent \in 0..signed'
  BY <1>2, FindIs
<1> QED
  BY <1>1, <1>2, <1>3, <1>4, <1>5, <1>6 DEF FindInv

\* The first page.
LEMMA FindFetch ==
  ASSUME FindInv, SessionInv, Find!Fetch, UNCHANGED signed
  PROVE  FindInv'
<1> DEFINE page == Find!Served(find.limit)
           total == Find!Total
           pc == IF Find!NeedsMore(page) THEN "paging" ELSE "done"
<1>1. /\ find.pc = "first"
      /\ data' = Find!Page(page, find.skip)
      /\ find' = [find EXCEPT !.page = page, !.offset = page, !.total = total,
                              !.sent = stored, !.pc = pc]
      /\ there' = {items[n] : n \in DOMAIN items}
      /\ UNCHANGED <<items, made, removed, even>>
  BY DEF Find!Fetch
<1>2. /\ items = [n \in 1..Stored |-> n] /\ made = Stored /\ removed = 0
  BY <1>1 DEF FindInv, NotBegun
<1>3. Stored \in Nat
  BY ClientConstants
<1>4. items \in Seq(1..made) /\ Len(items) = Stored /\ \A n \in 1..Stored : items[n] = n
  BY <1>2, <1>3
<1>5. there' = 1..Stored
  BY <1>1, <1>2, <1>3
<1>6. page \in Nat /\ page >= 1
  BY FindIs, ClientConstants DEF Find!Served
<1>7. total = IF find.limit = 0 THEN Stored ELSE find.limit
  BY <1>4 DEF Find!Total
<1>8. Find!NeedsMore(page) <=> (find.limit = 0 \/ page < find.limit) /\ Stored > page
  BY <1>4 DEF Find!NeedsMore
<1>9. total \in Nat /\ pc \in {"paging", "done"} /\ (pc = "paging" <=> Find!NeedsMore(page))
  BY <1>3, <1>7, FindIs
<1> HIDE DEF page, total, pc
<1>10. /\ find' \in Find!Call /\ find'.pc = pc /\ find'.sent = stored
       /\ find'.limit = find.limit /\ find'.skip = find.skip /\ find'.page = page
       /\ find'.offset = page /\ find'.total = total
  <2> DEFINE sent == stored
  <2>1. pc \in Find!Pcs /\ sent \in Nat /\ find \in Find!Call
    BY <1>9, FindIs, FindTokens DEF Find!Pcs
  <2>2. find' = [find EXCEPT !.page = page, !.offset = page, !.total = total,
                             !.sent = sent, !.pc = pc]
    BY <1>1
  <2> HIDE DEF sent
  <2>3. /\ find' \in Find!Call /\ find'.pc = pc /\ find'.sent = sent
        /\ find'.limit = find.limit /\ find'.skip = find.skip /\ find'.page = page
        /\ find'.offset = page /\ find'.total = total
    BY <1>6, <1>9, <2>1, <2>2 DEF Find!Call
  <2> QED
    BY <2>3 DEF sent
<1> DEFINE p == Find!Page(page, find.skip)
           l == Len(p)
<1>11. /\ p \in Seq(1..made) /\ l \in Nat
       /\ \A k \in 1..l : find.skip + k \in 1..Stored /\ k <= page /\ p[k] = find.skip + k
       /\ \A n \in 1..Stored :
            n > find.skip /\ n <= find.skip + page => \E k \in 1..l : p[k] = n
  <2>1. /\ p \in Seq(1..made) /\ l \in Nat
        /\ \A k \in 1..l : /\ find.skip + k \in 1..Len(items) /\ k <= page
                           /\ p[k] = items[find.skip + k]
        /\ \A n \in 1..Len(items) :
             n > find.skip /\ n <= find.skip + page => \E k \in 1..l : p[k] = items[n]
    <3>1. items \in Seq(1..made) /\ page \in Nat /\ find.skip \in Nat
      BY <1>4, <1>6, FindIs
    <3> QED
      BY Zenon, <3>1, PageIs
  <2> HIDE DEF p, l
  <2> QED
    BY <1>4, <2>1
<1>12. data' = p /\ Len(data') = l
  BY <1>1
<1> HIDE DEF p, l
<1>13. Find!TypeOK'
  <2>1. pc = "paging" => page < total
    BY <1>3, <1>6, <1>7, <1>8, <1>9, FindIs
  <2>2. items' \in Seq(1..made') /\ data' \in Seq(1..made')
    BY <1>1, <1>4, <1>11, <1>12
  <2>3. /\ made' \in Stored..(Stored + MaxMade) /\ removed' \in 0..MaxRemoved
        /\ there' \subseteq 1..Stored /\ even' \in BOOLEAN
    BY <1>1, <1>5 DEF FindInv, Find!TypeOK
  <2>4. find'.pc = "paging" => find'.offset < find'.total
    BY <1>10, <2>1
  <2> QED
    BY <1>10, <2>2, <2>3, <2>4 DEF Find!TypeOK, Find!Call
<1>14. Sorted(items)'
  BY <1>1 DEF FindInv, Sorted
<1>15. \A x \in there' : At(x)' = {x}
  BY <1>1, <1>4, <1>5 DEF At
<1>16. ASSUME find.skip = 0 PROVE PagesFit'
  <2>1. \A k \in 1..l : p[k] = k /\ k \in 1..Stored /\ k <= page
    BY <1>3, <1>11, <1>16
  <2>2. Sorted(data)'
    BY <1>11, <1>12, <2>1 DEF Sorted
  <2>3. \A n \in 1..l, k \in 1..Stored : k > page => k > p[n]
    BY <1>3, <1>6, <1>11, <2>1
  <2>4. \A n \in 1..Len(data'), k \in 1..Len(items') : k > find'.offset => items'[k] > data'[n]
    BY <1>1, <1>4, <1>10, <1>12, <2>3
  <2> QED
    BY <2>2, <2>4 DEF PagesFit
<1>17. ASSUME find.skip = 0, find.limit = 0 PROVE MissedFits'
  <2>1. \A n \in 1..Stored : n <= page => n \in Find!Found'
    <3> SUFFICES ASSUME NEW n \in 1..Stored, n <= page PROVE n \in Find!Found'
      OBVIOUS
    <3>1. n > find.skip /\ n <= find.skip + page
      BY <1>6, <1>17
    <3>2. PICK k \in 1..l : p[k] = n
      BY <1>11, <3>1
    <3>3. DOMAIN data' = 1..l
      BY <1>11, <1>12
    <3> QED
      BY <1>12, <3>2, <3>3 DEF Find!Found
  <2>2. Cardinality({}) = 0
    BY FS_EmptySet
  <2>3. Missed' = {}
    <3>1. ASSUME NEW x \in there', x \notin Find!Found', \E n \in At(x)' : n <= page PROVE FALSE
      <4>1. x \in 1..Stored /\ x <= page
        BY <1>5, <1>15, <3>1
      <4> QED
        BY <2>1, <3>1, <4>1
    <3> QED
      BY <1>10, <3>1 DEF Missed
  <2>4. \A x \in there' : \A n \in At(x)' : n <= total
    BY <1>3, <1>5, <1>7, <1>15, <1>17
  <2>5. pc = "done" => there' \ Find!Found' = {}
    <3> SUFFICES ASSUME pc = "done", NEW x \in 1..Stored PROVE x \in Find!Found'
      BY <1>5
    <3>1. Stored <= page
      BY <1>3, <1>6, <1>8, <1>9, <1>17
    <3> QED
      BY <1>3, <1>6, <2>1, <3>1
  <2>6. removed' = 0
    BY <1>1, <1>2
  <2> QED
    BY <1>10, <2>2, <2>3, <2>4, <2>5, <2>6 DEF MissedFits
<1>18. find'.sent \in 0..signed'
  BY <1>10, FindTokens
<1>19. find'.pc \notin {"idle", "first"}
  BY <1>9, <1>10
<1> QED
  BY <1>6, <1>10, <1>13, <1>14, <1>15, <1>16, <1>17, <1>18, <1>19 DEF FindInv

\* The pages' entities are some of those that there were.
LEMMA FoundIs ==
  ASSUME FindInv
  PROVE  /\ \A x : x \in Find!Found <=> Has(data, x)
         /\ Missed \subseteq there /\ IsFiniteSet(there) /\ IsFiniteSet(Missed)
         /\ Cardinality(Missed) \in Nat
<1>1. DOMAIN data = 1..Len(data)
  BY FindIs
<1>2. \A x : x \in Find!Found <=> Has(data, x)
  BY <1>1 DEF Find!Found, Has
<1>3. Missed \subseteq there
  BY DEF Missed
<1>4. IsFiniteSet(there)
  <2>1. there \subseteq 1..Stored /\ Stored \in Nat
    BY FindIs
  <2>2. IsFiniteSet(1..Stored)
    BY <2>1, FS_Interval
  <2> QED
    BY <2>1, <2>2, FS_Subset
<1> HIDE DEF Missed
<1> QED
  BY <1>2, <1>3, <1>4, FS_Subset, FS_CardinalityType

\* The next page.
LEMMA FindMore ==
  ASSUME FindInv, SessionInv, Find!FetchMore, UNCHANGED signed
  PROVE  FindInv'
<1> DEFINE limit == Find!Served(find.page)
           next == find.offset + find.page
           p == Find!Page(limit, find.offset)
           l == Len(p)
           pc == IF next < find.total THEN "paging" ELSE "done"
<1>1. /\ find.pc = "paging"
      /\ data' = data \o p
      /\ even' = (even /\ limit = find.page)
      /\ find' = [find EXCEPT !.offset = next, !.sent = stored, !.pc = pc]
      /\ UNCHANGED <<items, made, removed, there>>
  BY DEF Find!FetchMore, Find!NextOffset
<1>2. find.page \in Nat /\ find.page >= 1 /\ find.offset \in Nat /\ find.total \in Nat
  BY <1>1, FindIs DEF FindInv
<1>3. limit \in Nat /\ limit <= find.page
  BY <1>2, ClientConstants DEF Find!Served
<1>4. next \in Nat /\ pc \in {"paging", "done"} /\ (pc = "paging" <=> next < find.total)
  BY <1>2
<1> HIDE DEF limit, pc
<1>5. /\ find' \in Find!Call /\ find'.pc = pc /\ find'.sent = stored
      /\ find'.limit = find.limit /\ find'.skip = find.skip /\ find'.page = find.page
      /\ find'.offset = next /\ find'.total = find.total
  <2> DEFINE sent == stored
             offset == next
  <2>1. pc \in Find!Pcs /\ sent \in Nat /\ find \in Find!Call /\ offset \in Nat
    BY <1>4, FindIs, FindTokens DEF Find!Pcs
  <2>2. find' = [find EXCEPT !.offset = offset, !.sent = sent, !.pc = pc]
    BY <1>1
  <2> HIDE DEF sent, offset, next
  <2>3. /\ find' \in Find!Call /\ find'.pc = pc /\ find'.sent = sent
        /\ find'.limit = find.limit /\ find'.skip = find.skip /\ find'.page = find.page
        /\ find'.offset = offset /\ find'.total = find.total
    BY <2>1, <2>2 DEF Find!Call
  <2> QED
    BY <2>3 DEF sent, offset
<1>6. /\ p \in Seq(1..made) /\ l \in Nat
      /\ \A k \in 1..l : /\ find.offset + k \in 1..Len(items) /\ k <= limit
                         /\ p[k] = items[find.offset + k]
      /\ \A n \in 1..Len(items) : n > find.offset /\ n <= find.offset + limit
           => \E k \in 1..l : p[k] = items[n]
  <2>1. items \in Seq(1..made) /\ limit \in Nat /\ find.offset \in Nat
    BY <1>2, <1>3, FindIs
  <2> QED
    BY Zenon, <2>1, PageIs
<1>7. data \in Seq(1..made) /\ items \in Seq(1..made) /\ made \in Nat
  BY FindIs
<1> HIDE DEF p, l
<1>8. data' \in Seq(1..made)
  BY <1>1, <1>6, <1>7, ConcatProperties
<1>9. Find!TypeOK'
  BY <1>1, <1>4, <1>5, <1>7, <1>8 DEF FindInv, Find!TypeOK, Find!Call
<1>10. (Sorted(items)' <=> Sorted(items)) /\ \A x : At(x)' = At(x)
  BY <1>1 DEF Sorted, At
<1>11. Sorted(items)
  BY DEF FindInv
<1>12. Len(items) \in Nat /\ \A i \in 1..Len(items) : items[i] \in Nat
  <2>1. \A i \in 1..Len(items) : items[i] \in 1..made
    BY <1>7
  <2> QED
    BY <1>7, <2>1
<1>13. ASSUME find.skip = 0
       PROVE  /\ PagesFit'
              /\ \A x : Has(data', x) <=> Has(data, x) \/ Has(p, x)
  <2>1. /\ Sorted(data)
        /\ \A n \in 1..Len(data), k \in 1..Len(items) : k > find.offset => items[k] > data[n]
    BY <1>1, <1>13 DEF FindInv, PagesFit
  <2>2. \A k \in 1..l : find.offset + k > find.offset
    <3> SUFFICES ASSUME NEW k \in 1..l PROVE find.offset + k > find.offset
      OBVIOUS
    <3>1. k \in Nat /\ k >= 1
      BY <1>6
    <3> QED
      BY <1>2, <3>1
  <2>3. Sorted(p)
    <3> SUFFICES ASSUME NEW i \in 1..l, NEW j \in 1..l, i < j PROVE p[i] < p[j]
      BY DEF Sorted, l
    <3>1. find.offset + i < find.offset + j
      BY <1>2, <1>6
    <3> QED
      BY <1>6, <1>11, <3>1 DEF Sorted
  <2>4. \A i \in 1..Len(data), j \in 1..l : data[i] < p[j]
    <3> SUFFICES ASSUME NEW i \in 1..Len(data), NEW j \in 1..l PROVE data[i] < p[j]
      OBVIOUS
    <3>1. p[j] = items[find.offset + j] /\ find.offset + j \in 1..Len(items)
      BY <1>6
    <3>2. items[find.offset + j] > data[i]
      BY <2>1, <2>2, <3>1
    <3>3. data[i] \in Nat /\ p[j] \in Nat
      <4>1. data[i] \in 1..made
        BY <1>7
      <4> QED
        BY <1>12, <3>1, <4>1
    <3> QED
      BY <3>1, <3>2, <3>3
  <2>5. 1..made \subseteq Nat
    OBVIOUS
  <2>6. Sorted(data') /\ \A x : Has(data', x) <=> Has(data, x) \/ Has(p, x)
    <3> DEFINE S == 1..made
    <3>1. data \in Seq(S) /\ p \in Seq(S) /\ S \subseteq Nat
      BY <1>6, <1>7, <2>5
    <3>2. \A i \in 1..Len(data), j \in 1..Len(p) : data[i] < p[j]
      BY <2>4 DEF l
    <3>3. Sorted(data) /\ Sorted(p)
      BY <2>1, <2>3
    <3> HIDE DEF S
    <3>4. Sorted(data \o p) /\ \A x : Has(data \o p, x) <=> Has(data, x) \/ Has(p, x)
      <4>1. \A s, t \in Seq(S) :
              /\ Sorted(s) /\ Sorted(t)
              /\ \A i \in 1..Len(s), j \in 1..Len(t) : s[i] < t[j]
              => Sorted(s \o t) /\ \A x : Has(s \o t, x) <=> Has(s, x) \/ Has(t, x)
        BY <3>1, SortedJoin
      <4> QED
        BY Zenon, <3>1, <3>2, <3>3, <4>1
    <3> QED
      BY <1>1, <3>4
  <2>7. \A n \in 1..Len(data'), k \in 1..Len(items) : k > next => items[k] > data'[n]
    <3> SUFFICES ASSUME NEW n \in 1..Len(data'), NEW k \in 1..Len(items), k > next
                 PROVE  items[k] > data'[n]
      OBVIOUS
    <3>1. CASE Has(data, data'[n])
      <4>1. PICK i \in 1..Len(data) : data'[n] = data[i]
        BY <3>1 DEF Has
      <4>2. k > find.offset
        BY <1>2, <1>12
      <4> QED
        BY <2>1, <4>1, <4>2
    <3>2. CASE Has(p, data'[n])
      <4>1. PICK j \in 1..l : data'[n] = p[j]
        BY <3>2 DEF Has, l
      <4>2. p[j] = items[find.offset + j] /\ find.offset + j \in 1..Len(items) /\ j <= limit
        BY <1>6
      <4>3. find.offset + j < k
        BY <1>2, <1>3, <1>6, <4>2
      <4>4. items[find.offset + j] < items[k]
        BY <1>11, <4>2, <4>3 DEF Sorted
      <4> QED
        BY <1>12, <4>1, <4>2, <4>4
    <3>3. Has(data', data'[n])
      BY DEF Has
    <3> QED
      BY <2>6, <3>1, <3>2, <3>3
  <2>8. Sorted(data)'
    BY <2>6 DEF Sorted
  <2>9. \A n \in 1..Len(data'), k \in 1..Len(items') : k > find'.offset => items'[k] > data'[n]
    BY <1>1, <1>5, <2>7
  <2> QED
    BY <2>6, <2>8, <2>9 DEF PagesFit
<1>14. ASSUME find.skip = 0, find.limit = 0, even' PROVE MissedFits'
  <2>1. even /\ limit = find.page
    BY <1>1, <1>14 DEF FindInv, Find!TypeOK
  <2>2. /\ \A x \in there : \A n \in At(x) : n <= find.total
        /\ Cardinality(Missed) <= removed
    BY <1>1, <1>14, <2>1 DEF FindInv, MissedFits
  <2>3. \A x : x \in Find!Found' <=> Has(data, x) \/ Has(p, x)
    <3>1. DOMAIN data' = 1..Len(data')
      BY <1>8
    <3>2. \A x : x \in Find!Found' <=> Has(data', x)
      BY <3>1 DEF Find!Found, Has
    <3> QED
      BY <1>13, <1>14, <3>2
  <2>4. ASSUME NEW x \in there, x \notin Find!Found', NEW n \in At(x), n <= next
        PROVE  x \in Missed
    <3>1. n \in 1..Len(items) /\ items[n] = x
      BY DEF At
    <3>2. x \notin Find!Found
      BY <2>3, <2>4, FoundIs
    <3>3. ~ n > find.offset
      <4>1. ASSUME n > find.offset PROVE FALSE
        <5>1. n <= find.offset + limit
          BY <2>1, <2>4
        <5>2. PICK k \in 1..l : p[k] = x
          BY <1>6, <3>1, <4>1, <5>1
        <5>3. Has(p, x)
          BY <5>2 DEF Has, l
        <5> QED
          BY <2>3, <2>4, <5>3
      <4> QED
        BY <4>1
    <3>4. n <= find.offset
      BY <1>2, <1>12, <3>1, <3>3
    <3> QED
      BY <3>2, <3>4 DEF Missed
  <2>5. Missed' \subseteq Missed
    BY <1>1, <1>5, <1>10, <2>4 DEF Missed
  <2>6. pc = "done" => there \ Find!Found' \subseteq Missed
    <3> SUFFICES ASSUME pc = "done", NEW x \in there, x \notin Find!Found' PROVE x \in Missed
      OBVIOUS
    <3>1. PICK n \in At(x) : TRUE
      BY DEF FindInv
    <3>2. n \in Nat /\ n <= find.total /\ ~ next < find.total
      BY <1>4, <1>12, <2>2, <3>1 DEF At
    <3>3. n <= next
      BY <1>2, <1>4, <3>2
    <3> QED
      BY <2>4, <3>1, <3>3
  <2>7. \A S : S \subseteq Missed => Cardinality(S) <= removed
    <3> SUFFICES ASSUME NEW S, S \subseteq Missed PROVE Cardinality(S) <= removed
      OBVIOUS
    <3>1. Cardinality(S) <= Cardinality(Missed) /\ Cardinality(S) \in Nat
      BY FoundIs, FS_Subset, FS_CardinalityType
    <3> QED
      BY <2>2, <3>1, FoundIs, FindIs
  <2> QED
    BY <1>1, <1>5, <1>10, <2>2, <2>5, <2>6, <2>7 DEF MissedFits
<1>15. find'.sent \in 0..signed'
  BY <1>5, FindTokens
<1> QED
  BY <1>1, <1>2, <1>4, <1>5, <1>9, <1>10, <1>13, <1>14, <1>15 DEF FindInv

\* An entity is created: it is the last one.
LEMMA FindCreate ==
  ASSUME FindInv, SessionInv, Find!Create, UNCHANGED signed
  PROVE  FindInv'
<1> DEFINE len == Len(items)
<1>1. /\ find.pc = "paging" /\ made < Stored + MaxMade
      /\ made' = made + 1
      /\ items' = Append(items, made + 1)
      /\ UNCHANGED <<find, data, removed, there, even>>
  BY DEF Find!Create
<1>2. /\ items \in Seq(1..made) /\ data \in Seq(1..made)
      /\ made \in Nat /\ Stored <= made /\ Stored \in Nat /\ MaxMade \in Nat
      /\ len \in Nat /\ \A k \in 1..len : items[k] \in 1..made
  <2>1. /\ items \in Seq(1..made) /\ data \in Seq(1..made)
        /\ made \in Nat /\ Stored <= made /\ Stored \in Nat /\ MaxMade \in Nat
    BY FindIs, ClientConstants
  <2> QED
    BY <2>1
<1>3. 1..made \subseteq 1..made'
  BY <1>1, <1>2
<1>4. made + 1 \in 1..made'
  BY <1>1, <1>2
<1>5. data' \in Seq(1..made')
  BY <1>1, <1>2, <1>3
<1>6. /\ items' \in Seq(1..made') /\ Len(items') = len + 1
      /\ items'[len + 1] = made + 1 /\ \A k \in 1..len : items'[k] = items[k]
  <2> DEFINE T == 1..made'
             x == made + 1
  <2>1. items \in Seq(T) /\ x \in T
    <3>1. items \in Seq(1..made')
      BY <1>1, <1>2
    <3> QED
      BY <1>4, <3>1
  <2> HIDE DEF T, x
  <2>2. Append(items, x) \in Seq(T) /\ Len(Append(items, x)) = Len(items) + 1
        /\ Append(items, x)[Len(items) + 1] = x
        /\ \A k \in 1..Len(items) : Append(items, x)[k] = items[k]
    BY <2>1, AppendProperties
  <2> QED
    BY <1>1, <2>2 DEF T, x
<1> HIDE DEF len
<1>7. \A k \in 1..len + 1 : k \in 1..len \/ k = len + 1
  BY <1>2
<1>8. Find!TypeOK'
  <2>1. made' \in Stored..(Stored + MaxMade)
    BY <1>1, <1>2
  <2> QED
    BY <1>1, <1>5, <1>6, <2>1 DEF FindInv, Find!TypeOK, Find!Call
<1>9. Sorted(items)'
  <2>1. \A i, j \in 1..len : i < j => items[i] < items[j]
    BY DEF FindInv, Sorted, len
  <2>2. ASSUME NEW i \in 1..len + 1, NEW j \in 1..len + 1, i < j PROVE items'[i] < items'[j]
    <3>1. i \in 1..len
      BY <1>2, <2>2
    <3>2. CASE j \in 1..len
      BY <1>6, <2>1, <2>2, <3>1, <3>2
    <3>3. CASE j = len + 1
      <4>1. items'[i] = items[i] /\ items'[j] = made + 1 /\ items[i] \in 1..made
        BY <1>2, <1>6, <3>1, <3>3
      <4> QED
        BY <1>2, <4>1
    <3> QED
      BY <1>7, <3>2, <3>3
  <2> QED
    BY <1>6, <2>2 DEF Sorted
<1>10. \A x \in there : At(x)' = At(x)
  <2>1. \A k \in 1..len : k \in 1..len + 1
    BY <1>2
  <2>2. there \subseteq 1..Stored
    BY FindIs
  <2> SUFFICES ASSUME NEW x \in there PROVE At(x)' = At(x)
    OBVIOUS
  <2>3. x # made + 1
    BY <1>2, <2>2
  <2>4. \A k \in 1..len + 1 : items'[k] = x <=> k \in 1..len /\ items[k] = x
    BY <1>6, <1>7, <2>1, <2>3
  <2> QED
    BY <1>6, <2>1, <2>4 DEF At, len
<1>11. Missed' = Missed
  BY <1>1, <1>10 DEF Missed, Find!Found
<1>12. Find!Found' = Find!Found
  BY <1>1 DEF Find!Found
<1>13. PagesFit => PagesFit'
  <2>1. \A n \in 1..Len(data) : data[n] \in 1..made
    BY <1>2
  <2> SUFFICES ASSUME PagesFit PROVE PagesFit'
    OBVIOUS
  <2>2. Sorted(data)'
    BY <1>1 DEF PagesFit, Sorted
  <2>3. ASSUME NEW n \in 1..Len(data), NEW k \in 1..len + 1, k > find.offset
        PROVE  items'[k] > data[n]
    <3>1. CASE k \in 1..len
      BY <1>1, <1>6, <2>3, <3>1 DEF PagesFit, len
    <3>2. CASE k = len + 1
      BY <1>2, <1>6, <2>1, <3>2
    <3> QED
      BY <1>7, <3>1, <3>2
  <2> QED
    BY <1>1, <1>6, <2>2, <2>3 DEF PagesFit
<1>14. MissedFits => MissedFits'
  BY <1>1, <1>10, <1>11, <1>12 DEF MissedFits
<1>15. \A x \in there' : At(x)' # {}
  BY <1>1, <1>10 DEF FindInv
<1>16. find'.sent \in 0..signed'
  BY <1>1, FindIs
<1> QED
  BY <1>1, <1>8, <1>9, <1>13, <1>14, <1>15, <1>16 DEF FindInv

\* An entity is removed: those behind it move one place to the front.
LEMMA FindRemove ==
  ASSUME FindInv, SessionInv, NEW m \in DOMAIN items, Find!Remove(m), UNCHANGED signed
  PROVE  FindInv'
<1> DEFINE len == Len(items)
<1>1. /\ find.pc = "paging" /\ removed < MaxRemoved
      /\ items' = SubSeq(items, 1, m - 1) \o SubSeq(items, m + 1, Len(items))
      /\ there' = there \ {items[m]}
      /\ removed' = removed + 1
      /\ UNCHANGED <<find, data, made, even>>
  BY DEF Find!Remove
<1>2. /\ items \in Seq(1..made) /\ made \in Nat /\ removed \in Nat /\ MaxRemoved \in Nat
      /\ len \in Nat /\ \A k \in 1..len : items[k] \in 1..made
      /\ m \in 1..len /\ find.offset \in Nat
  <2>1. /\ items \in Seq(1..made) /\ made \in Nat /\ removed \in Nat /\ MaxRemoved \in Nat
        /\ find.offset \in Nat
    BY FindIs, ClientConstants
  <2>2. DOMAIN items = 1..len /\ len \in Nat
    BY <2>1
  <2>3. \A k \in 1..len : items[k] \in 1..made
    BY <2>1
  <2> QED
    BY Zenon, <2>1, <2>2, <2>3
<1>3. /\ items' \in Seq(1..made) /\ Len(items') = len - 1
      /\ \A k \in 1..len - 1 : items'[k] = IF k < m THEN items[k] ELSE items[k + 1]
  <2> DEFINE S == 1..made
             t == items'
  <2>1. items \in Seq(S) /\ m \in 1..Len(items)
    BY <1>2
  <2> HIDE DEF S
  <2>2. t \in Seq(S) /\ Len(t) = Len(items) - 1
        /\ \A k \in 1..Len(t) : t[k] = IF k < m THEN items[k] ELSE items[k + 1]
    <3>1. t = SubSeq(items, 1, m - 1) \o SubSeq(items, m + 1, Len(items))
      BY <1>1
    <3> HIDE DEF t
    <3>2. \A s \in Seq(S) : \A n \in 1..Len(s) : \A r :
            r = SubSeq(s, 1, n - 1) \o SubSeq(s, n + 1, Len(s)) =>
              /\ r \in Seq(S) /\ Len(r) = Len(s) - 1
              /\ \A i \in 1..Len(r) : r[i] = IF i < n THEN s[i] ELSE s[i + 1]
      BY WithoutNth
    <3> QED
      BY Zenon, <2>1, <3>1, <3>2
  <2> QED
    BY <2>2 DEF S
<1> HIDE DEF len
\* The place where the entity at k was, and the one where it is now.
<1> DEFINE From(k) == IF k < m THEN k ELSE k + 1
           To(k) == IF k < m THEN k ELSE k - 1
<1>4. \A k \in 1..len - 1 : From(k) \in 1..len /\ From(k) # m /\ From(k) >= k
                            /\ items'[k] = items[From(k)]
  <2> SUFFICES ASSUME NEW k \in 1..len - 1
               PROVE  /\ From(k) \in 1..len /\ From(k) # m /\ From(k) >= k
                      /\ items'[k] = items[From(k)]
    OBVIOUS
  <2>1. CASE k < m
    BY <1>2, <1>3, <2>1
  <2>2. CASE ~ k < m
    <3>1. From(k) = k + 1 /\ items'[k] = items[k + 1]
      BY <1>3, <2>2
    <3> QED
      BY <1>2, <2>2, <3>1
  <2> QED
    BY <2>1, <2>2
<1>5. \A k \in 1..len : k # m => To(k) \in 1..len - 1 /\ To(k) <= k /\ From(To(k)) = k
  <2> SUFFICES ASSUME NEW k \in 1..len, k # m
               PROVE  To(k) \in 1..len - 1 /\ To(k) <= k /\ From(To(k)) = k
    OBVIOUS
  <2>1. CASE k < m
    BY <1>2, <2>1
  <2>2. CASE ~ k < m
    <3>1. To(k) = k - 1 /\ ~ k - 1 < m
      BY <1>2, <2>2
    <3>2. From(k - 1) = k
      BY <1>2, <3>1
    <3> QED
      BY <1>2, <2>2, <3>1, <3>2
  <2> QED
    BY <2>1, <2>2
<1>6. \A i, j \in 1..len - 1 : i < j => From(i) < From(j)
  <2> SUFFICES ASSUME NEW i \in 1..len - 1, NEW j \in 1..len - 1, i < j
               PROVE  From(i) < From(j)
    OBVIOUS
  <2>1. /\ (i < m /\ From(i) = i) \/ (~ i < m /\ From(i) = i + 1)
        /\ (j < m /\ From(j) = j) \/ (~ j < m /\ From(j) = j + 1)
    OBVIOUS
  <2>2. i \in Int /\ j \in Int /\ m \in Int
    BY <1>2
  <2> HIDE DEF From
  <2> QED
    BY <2>1, <2>2
<1>7. \A k \in 1..len - 1 : /\ From(k) \in Nat /\ k \in Nat
                            /\ (From(k) <= find.offset => k <= find.offset)
                            /\ (k > find.offset => From(k) > find.offset)
                            /\ \/ From(k) = find.offset + 1
                               \/ From(k) <= find.offset \/ k > find.offset
  <2> SUFFICES ASSUME NEW k \in 1..len - 1
               PROVE  /\ From(k) \in Nat /\ k \in Nat
                      /\ (From(k) <= find.offset => k <= find.offset)
                      /\ (k > find.offset => From(k) > find.offset)
                      /\ \/ From(k) = find.offset + 1
                         \/ From(k) <= find.offset \/ k > find.offset
    OBVIOUS
  <2> DEFINE o == find.offset
  <2>1. o \in Nat /\ (From(k) = k \/ From(k) = k + 1) /\ k \in Nat
    BY <1>2
  <2> HIDE DEF o, From
  <2>2. /\ From(k) \in Nat
        /\ (From(k) <= o => k <= o)
        /\ (k > o => From(k) > o)
        /\ (From(k) = o + 1 \/ From(k) <= o \/ k > o)
    BY <2>1
  <2> QED
    BY <2>1, <2>2 DEF o
<1> HIDE DEF From, To
<1>8. \A i, j \in 1..len : i < j => items[i] < items[j]
  BY DEF FindInv, Sorted, len
<1>9. Sorted(items)'
  BY <1>3, <1>4, <1>6, <1>8 DEF Sorted
<1>10. Find!TypeOK'
  <2>1. removed' \in 0..MaxRemoved
    BY <1>1, <1>2
  <2> QED
    BY <1>1, <1>3, <2>1 DEF FindInv, Find!TypeOK, Find!Call
<1>11. \A x, n : n \in At(x) <=> n \in 1..len /\ items[n] = x
  BY DEF At, len
<1>12. \A x, n : n \in At(x)' <=> n \in 1..len - 1 /\ items'[n] = x
  BY <1>3 DEF At
<1>13. \A x \in there' : At(x)' # {}
  <2> SUFFICES ASSUME NEW x \in there' PROVE At(x)' # {}
    OBVIOUS
  <2>1. x \in there /\ x # items[m]
    BY <1>1
  <2>2. PICK n \in At(x) : TRUE
    BY <2>1 DEF FindInv
  <2>3. n \in 1..len /\ items[n] = x /\ n # m
    BY <1>11, <2>1, <2>2
  <2>4. To(n) \in 1..len - 1 /\ items'[To(n)] = x
    BY <1>4, <1>5, <2>3
  <2> QED
    BY <1>12, <2>4
<1>14. PagesFit => PagesFit'
  <2> SUFFICES ASSUME PagesFit PROVE PagesFit'
    OBVIOUS
  <2>1. Sorted(data)'
    BY <1>1 DEF PagesFit, Sorted
  <2>2. \A n \in 1..Len(data), k \in 1..len : k > find.offset => items[k] > data[n]
    BY <1>1 DEF PagesFit, len
  <2>3. ASSUME NEW n \in 1..Len(data), NEW k \in 1..len - 1, k > find.offset
        PROVE  items'[k] > data[n]
    BY <1>4, <1>7, <2>2, <2>3
  <2>4. \A n \in 1..Len(data'), k \in 1..Len(items') :
          k > find'.offset => items'[k] > data'[n]
    BY <1>1, <1>3, <2>3
  <2> QED
    BY <2>1, <2>4 DEF PagesFit
<1>15. Find!Found' = Find!Found
  BY <1>1 DEF Find!Found
<1>16. MissedFits => MissedFits'
  <2> SUFFICES ASSUME MissedFits PROVE MissedFits'
    OBVIOUS
  <2>1. /\ \A x \in there : \A n \in At(x) : n <= find.total
        /\ Cardinality(Missed) <= removed
    BY <1>1 DEF MissedFits
  <2>2. \A x \in there' : \A n \in At(x)' : n <= find.total
    <3> SUFFICES ASSUME NEW x \in there', NEW n \in At(x)' PROVE n <= find.total
      OBVIOUS
    <3>1. x \in there
      BY <1>1
    <3>2. n \in 1..len - 1 /\ items[From(n)] = x /\ From(n) \in 1..len /\ n <= From(n)
      BY <1>4, <1>12
    <3>3. From(n) <= find.total
      BY <1>11, <2>1, <3>1, <3>2
    <3>4. find.total \in Nat /\ From(n) \in Nat /\ n \in Nat
      BY <1>7, <3>2, FindIs
    <3> QED
      BY <3>2, <3>3, <3>4
  \* One entity more may have moved to a page that was read.
  <2> DEFINE y == items[find.offset + 1]
  <2>3. Missed' \subseteq Missed \cup {y}
    <3> SUFFICES ASSUME NEW x \in Missed', x # y PROVE x \in Missed
      OBVIOUS
    <3>1. x \in there /\ x \notin Find!Found /\ \E n \in At(x)' : n <= find.offset
      BY <1>1, <1>15 DEF Missed
    <3>2. PICK n \in At(x)' : n <= find.offset
      BY <3>1
    <3>3. n \in 1..len - 1 /\ items[From(n)] = x /\ From(n) \in 1..len
      BY <1>4, <1>12
    <3>4. From(n) # find.offset + 1
      BY <3>3
    <3>5. From(n) <= find.offset
      BY <1>2, <1>7, <3>2, <3>3, <3>4
    <3>6. From(n) \in At(x)
      BY <1>11, <3>3
    <3> QED
      BY <3>1, <3>5, <3>6 DEF Missed
  <2> HIDE DEF y
  <2>4. IsFiniteSet(Missed) /\ Cardinality(Missed) \in Nat
    BY FoundIs
  <2>5. /\ IsFiniteSet(Missed \cup {y})
        /\ Cardinality(Missed \cup {y}) =
             IF y \in Missed THEN Cardinality(Missed) ELSE Cardinality(Missed) + 1
    BY <2>4, FS_AddElement
  <2>6. Cardinality(Missed') <= Cardinality(Missed \cup {y}) /\ Cardinality(Missed') \in Nat
    <3> DEFINE old == Missed \cup {y}
               new == Missed'
    <3>1. IsFiniteSet(old) /\ new \subseteq old
      BY <2>3, <2>5
    <3> HIDE DEF old, new
    <3>2. Cardinality(new) <= Cardinality(old) /\ IsFiniteSet(new)
      BY <3>1, FS_Subset
    <3>3. Cardinality(new) \in Nat
      BY <3>2, FS_CardinalityType
    <3> QED
      BY <3>2, <3>3 DEF old, new
  <2>7. Cardinality(Missed') <= removed'
    <3> DEFINE a == Cardinality(Missed')
               b == Cardinality(Missed)
               c == Cardinality(Missed \cup {y})
    <3>1. a \in Nat /\ b \in Nat /\ (c = b \/ c = b + 1) /\ a <= c /\ b <= removed
      BY <2>1, <2>4, <2>5, <2>6
    <3>2. removed' = removed + 1 /\ removed \in Nat
      BY <1>1, <1>2
    <3> HIDE DEF a, b, c
    <3>3. a <= removed'
      BY <3>1, <3>2
    <3> QED
      BY <3>3 DEF a
  <2> QED
    BY <1>1, <2>2, <2>7 DEF MissedFits
<1>17. find'.sent \in 0..signed'
  BY <1>1, FindIs
<1> QED
  BY <1>1, <1>9, <1>10, <1>13, <1>14, <1>16, <1>17 DEF FindInv

LEMMA FindStarts == Find!Init /\ SessionInit => FindInv
<1> SUFFICES ASSUME Find!Init, SessionInit PROVE FindInv
  OBVIOUS
<1>1. /\ items = [n \in 1..Stored |-> n]
      /\ find \in [pc : {"idle"}, limit : Limits, skip : Offsets, sent : {0},
                   page : {0}, offset : {0}, total : {0}]
      /\ data = <<>> /\ made = Stored /\ removed = 0 /\ there = {} /\ even = TRUE
      /\ signed = 1
  BY DEF Find!Init, Find!Guest, SessionInit
<1>2. Stored \in Nat /\ MaxMade \in Nat /\ MaxRemoved \in Nat
  BY ClientConstants
<1>3. /\ find.pc = "idle" /\ find.sent = 0 /\ find \in Find!Call
  BY <1>1 DEF Find!Call, Find!Pcs
<1>4. NotBegun
  BY <1>1 DEF NotBegun
<1>5. items \in Seq(1..made) /\ Len(items) = Stored /\ \A n \in 1..Stored : items[n] = n
  BY <1>1, <1>2
<1>6. data \in Seq(1..made) /\ Len(data) = 0
  BY <1>1
<1>7. Find!TypeOK
  BY <1>1, <1>2, <1>3, <1>5, <1>6 DEF Find!TypeOK, Find!Call
<1>8. Sorted(items)
  BY <1>5 DEF Sorted
<1>9. PagesFit /\ MissedFits
  BY <1>3, <1>6 DEF PagesFit, MissedFits, Sorted
<1> QED
  BY <1>1, <1>3, <1>4, <1>7, <1>8, <1>9 DEF FindInv

LEMMA FindStepKept ==
  ASSUME FindInv, SessionInv, FindStep
  PROVE  FindInv' /\ stored' \in {stored, Guest} /\ UNCHANGED <<good, signed, account>>
<1>1. Find!Next /\ UNCHANGED <<signed, account>>
  BY DEF FindStep
<1>2. FindInv'
  BY <1>1, FindStart, FindFetch, FindMore, FindUnauthorized, FindFail, FindCreate, FindRemove
  DEF Find!Next
<1>3. stored' \in {stored, Guest} /\ good' = good
  BY <1>1 DEF Find!Next, Find!Start, Find!Fetch, Find!FetchMore, Find!Unauthorized,
              Find!Fail, Find!Create, Find!Remove, Find!Guest, Guest
<1> QED
  BY <1>1, <1>2, <1>3

\* A sorted sequence holds nothing twice.
LEMMA SortedOnce ==
  ASSUME NEW S, S \subseteq Nat, NEW s \in Seq(S), Sorted(s)
  PROVE  Cardinality({s[n] : n \in DOMAIN s}) = Len(s)
<1> DEFINE m == Len(s)
           T == {s[n] : n \in DOMAIN s}
<1>1. m \in Nat /\ s \in [1..m -> S] /\ DOMAIN s = 1..m
  BY LenProperties
<1>2. \A n \in 1..m : s[n] \in T /\ s[n] \in Nat
  BY <1>1
<1>3. s \in Surjection(1..m, T)
  <2>1. s \in [1..m -> T]
    BY <1>1, <1>2
  <2>2. \A t \in T : \E n \in 1..m : s[n] = t
    BY <1>1
  <2> QED
    BY <2>1, <2>2 DEF Surjection
<1>4. s \in Injection(1..m, T)
  <2>1. s \in [1..m -> T]
    BY <1>1, <1>2
  <2>2. ASSUME NEW i \in 1..m, NEW j \in 1..m, s[i] = s[j] PROVE i = j
    <3>1. i < j => s[i] < s[j]
      BY DEF Sorted
    <3>2. j < i => s[j] < s[i]
      BY DEF Sorted
    <3>3. s[i] \in Nat /\ s[j] \in Nat /\ i \in Int /\ j \in Int
      BY <1>1, <1>2
    <3> QED
      BY <2>2, <3>1, <3>2, <3>3
  <2> QED
    BY <1>1, <2>1, <2>2 DEF Injection, IsInjective
<1> HIDE DEF m, T
<1>5. IsFiniteSet(1..m) /\ Cardinality(1..m) = m
  <2>1. m \in Int /\ 1 \in Int /\ (IF 1 > m THEN 0 ELSE m - 1 + 1) = m
    BY <1>1
  <2> QED
    BY <2>1, FS_Interval
<1>6. Cardinality(T) = m
  BY <1>3, <1>4, <1>5, FS_Surjection
<1> QED
  BY <1>6 DEF m, T

\* What the pages miss.
LEMMA MissedAreFew == FindInv => MissedAtMostRemoved
<1> SUFFICES ASSUME FindInv, find.skip = 0
             PROVE  /\ Cardinality(Find!Found) = Len(data)
                    /\ find.pc = "done" /\ find.limit = 0 /\ even =>
                         Cardinality(there \ Find!Found) <= removed
  BY SameCounting DEF MissedAtMostRemoved, Find!MissedAtMostRemoved
<1>1. Cardinality(Find!Found) = Len(data)
  <2> DEFINE S == 1..made
  <2>1. data \in Seq(S) /\ S \subseteq Nat /\ Sorted(data)
    BY FindIs DEF FindInv, PagesFit
  <2> HIDE DEF S
  <2>2. Cardinality({data[n] : n \in DOMAIN data}) = Len(data)
    BY <2>1, SortedOnce
  <2> QED
    BY <2>2 DEF Find!Found
<1>2. find.pc = "done" /\ find.limit = 0 /\ even => Cardinality(there \ Find!Found) <= removed
  BY DEF FindInv, MissedFits
<1> QED
  BY <1>1, <1>2

-----------------------------------------------------------------------------
(***************************************************************************)
(* All of the client: the session and both calls.                          *)
(***************************************************************************)
Inv == SessionInv /\ BatchInv /\ FindInv

LEMMA InvStarts == Init => Inv
<1> SUFFICES ASSUME Init PROVE Inv
  OBVIOUS
<1>1. SessionInit /\ Batch!Init /\ Find!Init
  BY DEF Init
<1>2. SessionInv
  BY <1>1, ClientConstants DEF SessionInit, SessionInv, SessionTypeOK, Tokens, Guest, NoCommand
<1> QED
  BY <1>1, <1>2, BatchInit, FindStarts DEF Inv

LEMMA InvKept == Inv /\ [Next]_vars => Inv'
<1> SUFFICES ASSUME Inv, [Next]_vars PROVE Inv'
  OBVIOUS
<1>1. SessionInv /\ BatchInv /\ FindInv /\ signed \in Nat
  BY ClientConstants DEF Inv, SessionInv, SessionTypeOK, Tokens
<1>2. CASE BatchStep
  <2>1. BatchInv' /\ SessionInv' /\ signed' = signed /\ UNCHANGED findVars
    BY <1>1, <1>2, BatchStepKept, SessionKept DEF BatchStep
  <2>2. signed' \in Nat /\ signed <= signed'
    BY <1>1, <2>1
  <2> QED
    BY <1>1, <2>1, <2>2, FindStays DEF Inv
<1>3. CASE FindStep
  <2>1. FindInv' /\ SessionInv' /\ signed' = signed /\ UNCHANGED batchVars
    BY <1>1, <1>3, FindStepKept, SessionKept DEF FindStep
  <2>2. signed' \in Nat /\ signed <= signed'
    BY <1>1, <2>1
  <2> QED
    BY <1>1, <2>1, <2>2, BatchStays DEF Inv
<1>4. CASE SessionStep
  <2>1. SessionInv' /\ signed <= signed' /\ UNCHANGED batchVars /\ UNCHANGED findVars
    BY <1>1, <1>4, SessionStepKept DEF SessionStep
  <2>2. signed' \in Nat
    BY <2>1, ClientConstants DEF SessionInv, SessionTypeOK, Tokens
  <2> QED
    BY <1>1, <2>1, <2>2, BatchStays, FindStays DEF Inv
<1>5. CASE UNCHANGED vars
  <2>1. UNCHANGED <<stored, good, signed, account>> /\ UNCHANGED batchVars /\ UNCHANGED findVars
    BY <1>5 DEF vars
  <2>2. SessionInv' /\ signed' \in Nat /\ signed <= signed'
    BY <1>1, <2>1, SessionKept
  <2> QED
    BY <1>1, <2>1, <2>2, BatchStays, FindStays DEF Inv
<1> QED
  BY <1>2, <1>3, <1>4, <1>5 DEF Next, Idle

LEMMA InvHolds == Spec => []Inv
  BY InvStarts, InvKept, PTL DEF Spec

-----------------------------------------------------------------------------
(***************************************************************************)
(* What is left of the calls.                                              *)
(***************************************************************************)
\* A call has as many chunks as elements at most.
LEMMA FewerThan ==
  ASSUME NEW i \in Nat, NEW size \in Nat, size >= 1, NEW n \in Nat, i * size < n
  PROVE  i < n
<1>1. size - 1 \in Nat
  OBVIOUS
<1>2. i * (size - 1) >= 0
  BY <1>1
<1>3. i * size = i * (size - 1) + i
  OBVIOUS
<1> QED
  BY <1>2, <1>3

\* Chunks that are smaller by one weigh more than starting again.
LEMMA SmallerChunks ==
  ASSUME NEW n \in Nat, NEW size \in Nat, NEW small \in Nat, small < size
  PROVE  /\ small * (2 * n + 2) \in Nat /\ size * (2 * n + 2) \in Nat
         /\ small * (2 * n + 2) + 2 * n + 2 <= size * (2 * n + 2)
<1> DEFINE m == 2 * n + 2
<1>1. m \in Nat /\ size - small - 1 \in Nat
  OBVIOUS
<1> HIDE DEF m
<1>2. small * m \in Nat /\ size * m \in Nat /\ (size - small - 1) * m >= 0
  BY <1>1
<1>3. size * m = (size - small - 1) * m + small * m + m
  BY <1>1
<1>4. small * m + m <= size * m
  BY <1>1, <1>2, <1>3
<1> QED
  BY <1>2, <1>4 DEF m

\* A chunk is done, or the token is dropped, or the chunks get smaller.
LEMMA BatchGetsOn ==
  ASSUME Inv, Inv', [Next]_vars, batch.pc = "sending", batch'.pc = "sending", batch' # batch
  PROVE  Batch!Left' \in 0..(Batch!Left - 1)
<1>1. /\ batch \in Batch!Call /\ batch.n \in Nat /\ batch.size \in Nat /\ batch.i \in Nat
      /\ batch.sent \in Nat /\ batch.i < batch.n /\ batch.size >= 1
  <2>1. batch.i * batch.size < batch.n
    BY DEF Inv, BatchInv, ResultFits
  <2> QED
    BY <2>1, BatchIs, FewerThan DEF Inv
<1>2. /\ batch'.size \in Nat /\ batch'.i \in Nat /\ batch'.sent \in Nat
      /\ batch'.n \in Nat /\ batch'.i < batch'.n
  <2>1. batch'.i * batch'.size < batch'.n
    BY DEF Inv, BatchInv, ResultFits
  <2>2. /\ batch'.n \in Nat /\ batch'.size \in Nat /\ batch'.size >= 1
        /\ batch'.i \in Nat /\ batch'.sent \in Nat
    BY DEF Inv, BatchInv, Batch!TypeOK, Batch!Call
  <2> QED
    BY <2>1, <2>2, FewerThan
<1>3. BatchStep /\ Batch!Next
  BY DEF Next, vars, batchVars, FindStep, SessionStep, Idle, BatchStep
<1>4. \/ batch'.n = batch.n /\ batch'.size = batch.size /\ batch'.i = batch.i + 1
      \/ /\ batch'.n = batch.n /\ batch'.size = batch.size /\ batch'.i = batch.i
         /\ batch.sent # 0 /\ batch'.sent = 0
      \/ batch'.n = batch.n /\ batch'.size < batch.size /\ batch'.i = 0
  <2>1. CASE Batch!Accept
    BY <1>1, <2>1 DEF Batch!Accept, Batch!Call
  <2>2. CASE Batch!Unauthorized
    BY <1>1, <2>2 DEF Batch!Unauthorized, Batch!Rejected, Batch!Guest, Batch!Call
  <2>3. CASE Batch!Restart
    <3>1. batch' = [batch EXCEPT !.size = Batch!ServerMax, !.i = 0, !.sent = stored, !.res = <<>>]
      BY <2>3 DEF Batch!Restart
    <3>2. Batch!ServerMax < batch.size
      BY <2>3 DEF Batch!Restart, Batch!Smaller
    <3> QED
      BY <1>1, <3>1, <3>2 DEF Batch!Call
  <2>4. ~Batch!Start /\ ~Batch!Refused /\ ~Batch!Fail
    BY <1>1 DEF Batch!Start, Batch!Refused, Batch!Fail, Batch!Call
  <2> QED
    BY <1>3, <2>1, <2>2, <2>3, <2>4 DEF Batch!Next
<1> DEFINE a == batch.size * (2 * batch.n + 2)
           b == batch'.size * (2 * batch'.n + 2)
           x == IF batch.sent = 0 THEN 0 ELSE 1
           y == IF batch'.sent = 0 THEN 0 ELSE 1
<1>5. /\ Batch!Left = a + 2 * (batch.n - batch.i) + x
      /\ Batch!Left' = b + 2 * (batch'.n - batch'.i) + y
  BY DEF Batch!Left, Batch!Guest
<1>6. x \in {0, 1} /\ y \in {0, 1} /\ (batch.sent # 0 => x = 1) /\ (batch'.sent = 0 => y = 0)
  OBVIOUS
<1>7. a \in Nat /\ b \in Nat
  BY <1>1, <1>2
<1>8. batch'.n = batch.n /\ batch'.size = batch.size => b = a
  OBVIOUS
<1>9. batch'.n = batch.n /\ batch'.size < batch.size => b + 2 * batch.n + 2 <= a
  BY <1>1, <1>2, SmallerChunks
<1> HIDE DEF a, b, x, y
<1> QED
  BY <1>1, <1>2, <1>4, <1>5, <1>6, <1>7, <1>8, <1>9

\* The token is dropped, or the offset moves on by a page that is not empty.
LEMMA FindGetsOn ==
  ASSUME Inv, Inv', [Next]_vars, find.pc \in {"first", "paging"}, find'.pc = find.pc,
         find' # find
  PROVE  Find!Left' \in 0..(Find!Left - 1)
<1>1. /\ find \in Find!Call /\ find.total \in Nat /\ find.offset \in Nat /\ find.page \in Nat
      /\ find.sent \in Nat /\ find.offset <= find.total
      /\ find.pc = "paging" => find.page >= 1
  BY DEF Inv, FindInv, Find!TypeOK, Find!Call, NotBegun
<1>2. /\ find'.total \in Nat /\ find'.offset \in Nat /\ find'.sent \in Nat
      /\ find'.pc = "paging" => find'.offset < find'.total
  BY DEF Inv, FindInv, Find!TypeOK, Find!Call
<1>3. FindStep /\ Find!Next
  BY DEF Next, vars, findVars, BatchStep, SessionStep, Idle, FindStep
<1>4. \/ /\ find'.total = find.total /\ find'.offset = find.offset
         /\ find.sent # 0 /\ find'.sent = 0
      \/ /\ find.pc = "paging" /\ find'.total = find.total
         /\ find'.offset = find.offset + find.page
  <2>1. CASE Find!Unauthorized
    BY <1>1, <2>1 DEF Find!Unauthorized, Find!Rejected, Find!Guest, Find!Call
  <2>2. CASE Find!FetchMore
    BY <1>1, <2>2 DEF Find!FetchMore, Find!NextOffset, Find!Call
  <2>3. ~Find!Start /\ ~Find!Fetch /\ ~Find!Fail
    BY <1>1 DEF Find!Start, Find!Fetch, Find!Fail, Find!Call
  <2>4. ~Find!Create /\ ~ \E n \in DOMAIN items : Find!Remove(n)
    BY DEF Find!Create, Find!Remove
  <2> QED
    BY <1>3, <2>1, <2>2, <2>3, <2>4 DEF Find!Next
<1> DEFINE x == IF find.sent = 0 THEN 0 ELSE 1
           y == IF find'.sent = 0 THEN 0 ELSE 1
<1>5. /\ Find!Left = 2 * (find.total - find.offset) + x
      /\ Find!Left' = 2 * (find'.total - find'.offset) + y
  BY DEF Find!Left, Find!Guest
<1>6. x \in {0, 1} /\ y \in {0, 1} /\ (find.sent # 0 => x = 1) /\ (find'.sent = 0 => y = 0)
  OBVIOUS
<1> HIDE DEF x, y
<1> QED
  BY <1>1, <1>2, <1>4, <1>5, <1>6

-----------------------------------------------------------------------------
(***************************************************************************)
(* Theorems.                                                               *)
(***************************************************************************)
\* Types; besides, every token that a request carries was signed, CrudClient
\* never sends an empty chunk, and _doLimitQuery never asks beyond the last page.
THEOREM TypeCorrect == Spec => []TypeOK
<1>1. Inv => TypeOK
  BY DEF Inv, SessionInv, BatchInv, FindInv, TypeOK
<1> QED
  BY <1>1, InvHolds, PTL

\* _doBatch splits the array, sends the chunks one by one, and starts again with
\* smaller chunks when one is refused: what it resolves with has the answer for
\* each element, once, in the array's order, whatever else happened to the
\* session and to the limit in between.
THEOREM ResultsHaveAll == Spec => []ResultIsWhole
<1>1. Inv => ResultIsWhole
  BY ResultsAreWhole DEF Inv
<1> QED
  BY <1>1, InvHolds, PTL

\* What was done before _doBatch starts again is done again: only if the user
\* became a guest on the way, and never a third time.
THEOREM TwiceIsTheMost == Spec => []TwiceOnlyAfterChange
<1>1. Inv => TwiceOnlyAfterChange
  BY AtMostTwice DEF Inv
<1> QED
  BY <1>1, InvHolds, PTL

\* _doLimitQuery counts its offset in pages while entities come and go: it
\* returns nothing twice, and misses no more entities than were removed.
THEOREM FewAreMissed == Spec => []MissedAtMostRemoved
<1>1. Inv => MissedAtMostRemoved
  BY MissedAreFew DEF Inv
<1> QED
  BY <1>1, InvHolds, PTL

\* _tryOrLogout forgets whatever token is stored when a 401 arrives: a token the
\* server would accept is lost only by a log-out, by a failed login, or by the
\* late 401 of a request that carries an older token.
THEOREM GoodTokensAreKept == Spec => GoodTokenIsKept
<1> DEFINE Lost ==
      \/ Logout /\ UNCHANGED <<batchVars, findVars>>
      \/ account.pc = "login" /\ account' = NoCommand
      \/ \E t \in Carried : Rejected(t) /\ t < stored
<1>1. ASSUME Inv, [Next]_vars, stored \in good, stored' = Guest
      PROVE  Lost
  <2>1. /\ stored = signed /\ stored # Guest /\ signed \in Nat
        /\ account.sent \in 0..signed /\ batch.sent \in 0..signed /\ find.sent \in 0..signed
        /\ account.pc # "idle" => stored \in {account.sent, Guest}
    <3>1. stored \in {Guest, signed} /\ stored \in 1..signed /\ signed \in Nat
      BY <1>1, ClientConstants DEF Inv, SessionInv, SessionTypeOK, Tokens
    <3>2. stored = signed /\ stored # Guest
      BY <3>1 DEF Guest
    <3> QED
      BY <1>1, <3>1, <3>2 DEF Inv, SessionInv, SessionTypeOK, BatchInv, FindInv
  <2>2. stored' # stored
    BY <1>1, <2>1
  <2>3. ASSUME NEW t \in 0..signed, t \notin good PROVE t < stored
    <3>1. t # signed
      BY <1>1, <2>1, <2>3
    <3> QED
      BY <2>1, <3>1
  <2>4. CASE BatchStep
    <3>1. batch.pc = "sending" /\ batch.sent # 0 /\ batch.sent \notin good
      BY <2>2, <2>4 DEF BatchStep, Batch!Next, Batch!Start, Batch!Accept, Batch!Unauthorized,
         Batch!Restart, Batch!Refused, Batch!Fail, Batch!Rejected, Batch!Guest
    <3>2. batch.sent \in Carried /\ Rejected(batch.sent) /\ batch.sent < stored
      BY <2>1, <2>3, <3>1 DEF Carried, Rejected, Guest
    <3> QED
      BY <3>2
  <2>5. CASE FindStep
    <3>1. find.pc \in {"first", "paging"} /\ find.sent # 0 /\ find.sent \notin good
      BY <2>2, <2>5 DEF FindStep, Find!Next, Find!Start, Find!Fetch, Find!FetchMore,
         Find!Unauthorized, Find!Fail, Find!Create, Find!Remove, Find!Rejected, Find!Guest
    <3>2. find.sent \in Carried /\ Rejected(find.sent) /\ find.sent < stored
      BY <2>1, <2>3, <3>1 DEF Carried, Rejected, Guest
    <3> QED
      BY <3>2
  <2>6. CASE SessionStep
    <3>1. SessionNext /\ UNCHANGED <<batchVars, findVars>>
      BY <2>6 DEF SessionStep
    <3>2. CASE Denied
      <4>1. CASE account.pc = "login"
        BY <3>2, <4>1 DEF Denied
      <4>2. CASE account.pc = "check" /\ account.sent = Guest
        BY <2>1, <4>2
      <4>3. CASE Rejected(account.sent)
        BY <2>1, <2>3, <4>3 DEF Carried, Rejected
      <4> QED
        BY <3>2, <4>1, <4>2, <4>3 DEF Denied
    <3>3. CASE Logout
      BY <3>1, <3>3
    <3>4. ~ Receive
      BY <1>1, <2>1 DEF Receive, Guest
    <3> QED
      BY <2>2, <3>1, <3>2, <3>3, <3>4 DEF SessionNext, Ask, Nothing, End
  <2>7. ~ UNCHANGED vars
    BY <2>2 DEF vars
  <2> QED
    BY <1>1, <2>4, <2>5, <2>6, <2>7 DEF Next, Idle
<1>2. Inv /\ [Next]_vars => [(stored \in good /\ stored' = Guest) => Lost]_vars
  BY <1>1
<1> HIDE DEF Lost
<1>3. Spec => [][(stored \in good /\ stored' = Guest) => Lost]_vars
  BY <1>2, InvHolds, PTL DEF Spec
<1> QED
  BY <1>3 DEF GoodTokenIsKept, Lost

\* _tryOrLogout sends again what a 401 refused, _doBatch starts again with the size
\* that authorizeBatch named, _doLimitQuery asks for the next page: each time fewer
\* requests are left, so neither sessions that end nor limits that change keep a
\* call going, for any limits of the server, zero included.
THEOREM CallsAreFinite == Spec => CallsGetOn
<1> DEFINE GetOn ==
      /\ batch.pc = "sending" /\ batch'.pc = "sending" /\ batch' # batch
           => Batch!Left' \in 0..(Batch!Left - 1)
      /\ find.pc \in {"first", "paging"} /\ find'.pc = find.pc /\ find' # find
           => Find!Left' \in 0..(Find!Left - 1)
<1>1. Inv /\ [Next]_vars => [GetOn]_vars
  BY InvKept, BatchGetsOn, FindGetsOn
<1> HIDE DEF GetOn
<1>2. Spec => [][GetOn]_vars
  BY <1>1, InvHolds, PTL DEF Spec
<1> QED
  BY <1>2 DEF CallsGetOn, GetOn
=============================================================================
