------------------------- MODULE TrafficGuardProofs -------------------------
(***************************************************************************)
(* What is proved of the guard's two protections, for any number of IPs,   *)
(* requests and thresholds.  Each comes with an inductive invariant that   *)
(* weighs what was counted against what is on its way to be counted.       *)
(***************************************************************************)
EXTENDS TrafficGuard, Integers, Sequences, FiniteSets, TLAPS, FiniteSetTheorems

-----------------------------------------------------------------------------
(***************************************************************************)
(* IpTraffic: the inductive invariant.                                     *)
(***************************************************************************)
IpSlots == Cardinality(IpRequests)

\* The slots that count a request of the IP, and those that will increment.
CountingFor(ip) == {r \in IpRequests : ipReq[r].ip = ip}

IncrementingFor(ip) == {r \in IpRequests : ipReq[r].ip = ip /\ ipReq[r].pc = "inc"}

\* A request that got through is counted or being counted, until its IP is
\* timed out; no more increments come than slots that saw the threshold.
IpFits(ip) ==
  /\ hits[ip] + Cardinality(IncrementingFor(ip)) <= IpThreshold + IpSlots
  /\ ip \notin timedOut => served[ip] <= hits[ip] + Cardinality(CountingFor(ip))
  /\ served[ip] <= IpThreshold + 2 * IpSlots

IpInv ==
  /\ Ip!TypeOK
  /\ \A r \in IpRequests : ipReq[r].pc # "idle" => ipReq[r].ip \in Ips
  /\ \A ip \in Ips : IpFits(ip)

-----------------------------------------------------------------------------
(***************************************************************************)
(* UserTraffic: the inductive invariant.                                   *)
(***************************************************************************)
Slots == Cardinality(Requests)

InPc(pcs) == {r \in Requests : userReq[r].pc \in pcs}

\* The slots that found the counter below the threshold, those that found it
\* reached, and those that decided on an incident.
Adding == InPc({"inc"})

Noticed == InPc({"load", "flag"})

Writing == InPc({"write"})

\* The incidents on their way to the database, one element for each.
OnTheWay == UNION {{r} \X (1..userReq[r].inc) : r \in Writing}

\* The most incidents that one request can be.
Most == User!Incidents(UserThreshold + Slots - 1)

\* The most incidents of n requests, and of n bursts.
OfRequests(n) == Most * n

OfBursts(n) == OfRequests(Slots) * n

\* No copy of the user has more incidents than were decided.
CopiesFit ==
  /\ cache # NoEntry => cache.high <= total
  /\ \A r \in Requests : userReq[r].copy.high <= total /\ userReq[r].fresh.high <= total

\* What was decided is in the database or on its way there.
HighFits ==
  /\ IsFiniteSet(OnTheWay)
  /\ db.high + Cardinality(OnTheWay) = total

\* Above the threshold, the burst has not been noted yet; what was noted of the
\* bursts before is no more than they can be, with what is being noted.
BurstsFit ==
  /\ traffic + Cardinality(Adding) <= UserThreshold + Slots - 1
  /\ \A r \in Noticed : userReq[r].inc <= Most
  /\ total + OfRequests(Cardinality(Noticed)) <= OfBursts(bursts)
  /\ traffic >= UserThreshold => bursts > 0 /\ total <= OfBursts(bursts - 1)

UserInv ==
  /\ User!TypeOK
  /\ CopiesFit
  /\ HighFits
  /\ BurstsFit

-----------------------------------------------------------------------------
(***************************************************************************)
(* IpTraffic: constants, sets of slots, and the order of the tracked IPs.  *)
(***************************************************************************)
\* What the proofs need of the constants.
LEMMA IpConstants ==
  /\ Nowhere \notin Ips
  /\ IsFiniteSet(IpRequests)
  /\ IpSlots \in Nat
  /\ IpThreshold \in Nat
  /\ Capacity \in Nat /\ Capacity >= 1
<1>1. IsFiniteSet(IpRequests)
  BY TrafficAssumption
  DEF TrafficAssumption, Ip!IpTrafficAssumption, Ip!IsFiniteSet, IsFiniteSet
<1> QED
  BY <1>1, TrafficAssumption, FS_CardinalityType
  DEF TrafficAssumption, Ip!IpTrafficAssumption, IpSlots

\* IpTraffic and UserTraffic count as we do.
LEMMA SameCounting ==
  /\ \A S : Ip!Cardinality(S) = Cardinality(S)
  /\ \A S : User!Cardinality(S) = Cardinality(S)
  BY DEF Ip!Cardinality, User!Cardinality, Cardinality

\* A slot that moves in or out of a set of slots changes their number by one.
LEMMA SlotMoves ==
  ASSUME NEW All, IsFiniteSet(All), NEW A, NEW B, A \subseteq All, B \subseteq All,
         NEW r \in All, \A q \in All : q # r => (q \in A <=> q \in B)
  PROVE  /\ IsFiniteSet(A) /\ IsFiniteSet(B)
         /\ Cardinality(A) \in 0..Cardinality(All) /\ Cardinality(B) \in 0..Cardinality(All)
         /\ (r \in A <=> r \in B) => Cardinality(B) = Cardinality(A)
         /\ r \notin A /\ r \in B => Cardinality(B) = Cardinality(A) + 1
         /\ r \in A /\ r \notin B => Cardinality(B) = Cardinality(A) - 1
<1>1. /\ IsFiniteSet(A) /\ Cardinality(A) \in Nat /\ Cardinality(A) <= Cardinality(All)
      /\ IsFiniteSet(B) /\ Cardinality(B) \in Nat /\ Cardinality(B) <= Cardinality(All)
      /\ Cardinality(All) \in Nat
  BY FS_Subset, FS_CardinalityType
<1>2. (r \in A <=> r \in B) => A = B
  OBVIOUS
<1>3. ASSUME r \notin A, r \in B PROVE Cardinality(B) = Cardinality(A) + 1
  <2>1. B = A \cup {r}
    BY <1>3
  <2> QED
    BY <1>1, <1>3, <2>1, FS_AddElement
<1>4. ASSUME r \in A, r \notin B PROVE Cardinality(B) = Cardinality(A) - 1
  <2>1. A = B \cup {r}
    BY <1>4
  <2> QED
    BY <1>1, <1>4, <2>1, FS_AddElement
<1> QED
  BY <1>1, <1>2, <1>3, <1>4

\* A list of IPs, each once.
Listed(s) ==
  /\ s \in Seq(Ips)
  /\ \A i, j \in 1..Len(s) : s[i] = s[j] => i = j

\* Taking an IP out.
LEMMA WithoutListed ==
  ASSUME NEW s, Listed(s), NEW ip \in Ips
  PROVE  LET w == Ip!Without(s, ip) IN
         /\ Listed(w) /\ Len(w) <= Len(s)
         /\ \A i \in 1..Len(w) : w[i] # ip
         /\ (\E i \in 1..Len(s) : s[i] = ip) => Len(w) = Len(s) - 1
<1>1. CASE ~ \E i \in 1..Len(s) : s[i] = ip
  BY <1>1 DEF Ip!Without, Listed
<1>2. CASE \E i \in 1..Len(s) : s[i] = ip
  <2> DEFINE k == CHOOSE i \in 1..Len(s) : s[i] = ip
             n == Len(s) - 1
             w == [i \in 1..n |-> IF i < k THEN s[i] ELSE s[i + 1]]
  <2>1. k \in 1..Len(s) /\ s[k] = ip
    BY <1>2
  <2>2. Ip!Without(s, ip) = w
    BY <1>2 DEF Ip!Without
  <2> HIDE DEF k
  <2>3. Len(s) \in Nat /\ n \in Nat /\ \A i \in 1..Len(s) : s[i] \in Ips
    BY <2>1 DEF Listed
  <2>4. \A i \in 1..n : w[i] \in Ips /\ w[i] # ip
    BY <2>1, <2>3 DEF Listed
  <2>5. w \in Seq(Ips) /\ Len(w) = n
    BY <2>3, <2>4
  <2>6. \A i, j \in 1..n : w[i] = w[j] => i = j
    BY <2>1, <2>3 DEF Listed
  <2> HIDE DEF w, n
  <2>7. n = Len(s) - 1
    BY DEF n
  <2> QED
    BY <2>2, <2>3, <2>4, <2>5, <2>6, <2>7 DEF Listed
<1> QED
  BY <1>1, <1>2

\* Putting an IP at the end.
LEMMA AppendListed ==
  ASSUME NEW s, Listed(s), NEW ip \in Ips, \A i \in 1..Len(s) : s[i] # ip
  PROVE  Listed(Append(s, ip)) /\ Len(Append(s, ip)) = Len(s) + 1
  BY DEF Listed

\* Dropping the first.
LEMMA TailListed ==
  ASSUME NEW s, Listed(s), s # <<>>
  PROVE  Listed(Tail(s)) /\ Len(Tail(s)) = Len(s) - 1
  BY DEF Listed

\* Reading an entry, and writing one.
LEMMA TouchListed ==
  ASSUME Listed(order), Len(order) <= Capacity, NEW ip \in Ips
  PROVE  /\ Listed(Ip!Touch(ip)) /\ Len(Ip!Touch(ip)) <= Capacity
         /\ Listed(Ip!Insert(ip)) /\ Len(Ip!Insert(ip)) <= Capacity
<1> DEFINE w == Ip!Without(order, ip)
           s == Append(w, ip)
<1>1. /\ Listed(w) /\ Len(w) <= Len(order) /\ \A i \in 1..Len(w) : w[i] # ip
      /\ (\E i \in 1..Len(order) : order[i] = ip) => Len(w) = Len(order) - 1
  BY WithoutListed
<1>2. Len(w) \in Nat /\ Len(order) \in Nat
  BY <1>1 DEF Listed
<1> HIDE DEF w
<1>3. Listed(s) /\ Len(s) = Len(w) + 1
  BY <1>1, AppendListed
<1> HIDE DEF s
<1>4. Listed(Ip!Touch(ip)) /\ Len(Ip!Touch(ip)) <= Capacity
  <2>1. CASE ip \in Ip!Tracked
    <3>1. Len(s) = Len(order)
      BY <1>1, <1>2, <1>3, <2>1 DEF Ip!Tracked
    <3> QED
      BY <1>3, <2>1, <3>1 DEF Ip!Touch, s, w
  <2>2. CASE ip \notin Ip!Tracked
    BY <2>2 DEF Ip!Touch
  <2> QED
    BY <2>1, <2>2
<1>5. Listed(Ip!Insert(ip)) /\ Len(Ip!Insert(ip)) <= Capacity
  <2>1. Ip!Insert(ip) = IF Len(s) > Capacity THEN Tail(s) ELSE s
    BY DEF Ip!Insert, s, w
  <2>2. CASE Len(s) > Capacity
    <3>1. s # <<>>
      BY <1>2, <1>3
    <3>2. Listed(Tail(s)) /\ Len(Tail(s)) = Len(s) - 1
      BY <1>3, <3>1, TailListed
    <3> QED
      BY <1>1, <1>2, <1>3, <2>1, <2>2, <3>2, IpConstants
  <2>3. CASE ~(Len(s) > Capacity)
    BY <1>2, <1>3, <2>1, <2>3, IpConstants
  <2> QED
    BY <2>2, <2>3
<1> QED
  BY <1>4, <1>5

-----------------------------------------------------------------------------
(***************************************************************************)
(* IpTraffic: every action preserves the invariant.                        *)
(***************************************************************************)
\* What a turn of slot r does to the numbers of slots.
LEMMA IpTurn ==
  ASSUME Ip!TypeOK, NEW r \in IpRequests, NEW next, Ip!Become(r, next), NEW ip
  PROVE  LET C == Cardinality(CountingFor(ip))
             I == Cardinality(IncrementingFor(ip))
             was == ipReq[r].ip = ip
             is == next.ip = ip
             wasInc == ipReq[r].ip = ip /\ ipReq[r].pc = "inc"
             isInc == next.ip = ip /\ next.pc = "inc"
         IN
         /\ C \in 0..IpSlots /\ C' \in 0..IpSlots /\ I \in 0..IpSlots /\ I' \in 0..IpSlots
         /\ (was <=> is) => C' = C
         /\ ~was /\ is => C' = C + 1
         /\ was /\ ~is => C' = C - 1
         /\ (wasInc <=> isInc) => I' = I
         /\ ~wasInc /\ isInc => I' = I + 1
         /\ wasInc /\ ~isInc => I' = I - 1
<1>1. ipReq'[r] = next /\ \A q \in IpRequests : q # r => ipReq'[q] = ipReq[q]
  BY DEF Ip!TypeOK, Ip!Become
<1> DEFINE A == CountingFor(ip)
           B == CountingFor(ip)'
           D == IncrementingFor(ip)
           E == IncrementingFor(ip)'
<1>2. /\ A \subseteq IpRequests /\ B \subseteq IpRequests
      /\ r \in A <=> ipReq[r].ip = ip
      /\ r \in B <=> next.ip = ip
      /\ \A q \in IpRequests : q # r => (q \in A <=> q \in B)
  BY <1>1 DEF CountingFor
<1>3. /\ D \subseteq IpRequests /\ E \subseteq IpRequests
      /\ r \in D <=> (ipReq[r].ip = ip /\ ipReq[r].pc = "inc")
      /\ r \in E <=> (next.ip = ip /\ next.pc = "inc")
      /\ \A q \in IpRequests : q # r => (q \in D <=> q \in E)
  BY <1>1 DEF IncrementingFor
<1> HIDE DEF A, B, D, E
<1>4. /\ Cardinality(A) \in 0..IpSlots /\ Cardinality(B) \in 0..IpSlots
      /\ (r \in A <=> r \in B) => Cardinality(B) = Cardinality(A)
      /\ r \notin A /\ r \in B => Cardinality(B) = Cardinality(A) + 1
      /\ r \in A /\ r \notin B => Cardinality(B) = Cardinality(A) - 1
  BY <1>2, IpConstants, SlotMoves DEF IpSlots
<1>5. /\ Cardinality(D) \in 0..IpSlots /\ Cardinality(E) \in 0..IpSlots
      /\ (r \in D <=> r \in E) => Cardinality(E) = Cardinality(D)
      /\ r \notin D /\ r \in E => Cardinality(E) = Cardinality(D) + 1
      /\ r \in D /\ r \notin E => Cardinality(E) = Cardinality(D) - 1
  BY <1>3, IpConstants, SlotMoves DEF IpSlots
<1>6. /\ A = CountingFor(ip) /\ B = CountingFor(ip)'
      /\ D = IncrementingFor(ip) /\ E = IncrementingFor(ip)'
  BY DEF A, B, D, E
<1> HIDE DEF IpSlots
<1> QED
  BY <1>2, <1>3, <1>4, <1>5, <1>6

\* The number of an IP's slots, as it is.
LEMMA IpSlotsBounds ==
  ASSUME NEW ip
  PROVE  /\ Cardinality(CountingFor(ip)) \in 0..IpSlots
         /\ Cardinality(IncrementingFor(ip)) \in 0..IpSlots
<1>1. CountingFor(ip) \subseteq IpRequests /\ IncrementingFor(ip) \subseteq IpRequests
  BY DEF CountingFor, IncrementingFor
<1> HIDE DEF CountingFor, IncrementingFor
<1> QED
  BY <1>1, IpConstants, FS_Subset, FS_CardinalityType DEF IpSlots

LEMMA IpEnter ==
  ASSUME IpInv, NEW r \in IpRequests, NEW ip \in Ips, Ip!Enter(r, ip)
  PROVE  IpInv'
<1> DEFINE pc == "peek"
           next == [pc |-> pc, ip |-> ip]
<1>1. /\ Ip!TypeOK /\ \A x \in Ips : IpFits(x)
      /\ \A q \in IpRequests : ipReq[q].pc # "idle" => ipReq[q].ip \in Ips
  BY DEF IpInv
<1>2. /\ ipReq[r].ip = Nowhere /\ ipReq[r].pc = "idle"
      /\ Ip!Become(r, next) /\ UNCHANGED <<order, hits, timedOut>>
      /\ served' = [served EXCEPT ![ip] = IF ip \in timedOut THEN @ ELSE @ + 1]
  BY DEF Ip!Enter, Ip!Idle
<1>3. next \in [pc : Ip!Pcs, ip : Ips \cup {Nowhere}] /\ next.ip = ip /\ next.pc = "peek"
  BY DEF Ip!Pcs
<1> HIDE DEF next
<1>4. served \in [Ips -> Nat] /\ hits \in [Ips -> Nat]
  BY <1>1 DEF Ip!TypeOK
<1>5. Ip!TypeOK'
  <2>1. served' \in [Ips -> Nat]
    BY <1>2, <1>4
  <2>2. ipReq' \in [IpRequests -> [pc : Ip!Pcs, ip : Ips \cup {Nowhere}]]
    BY <1>1, <1>2, <1>3 DEF Ip!TypeOK, Ip!Become
  <2> QED
    BY <1>1, <1>2, <2>1, <2>2 DEF Ip!TypeOK
<1>6. \A q \in IpRequests : ipReq'[q].pc # "idle" => ipReq'[q].ip \in Ips
  BY <1>1, <1>2, <1>3 DEF Ip!TypeOK, Ip!Become
<1>7. ASSUME NEW x \in Ips PROVE IpFits(x)'
  <2> DEFINE C == Cardinality(CountingFor(x))
             I == Cardinality(IncrementingFor(x))
  <2>1. /\ C \in 0..IpSlots /\ C' \in 0..IpSlots /\ I \in 0..IpSlots
        /\ x = ip => C' = C + 1
        /\ x # ip => C' = C
        /\ I' = I
    BY <1>1, <1>2, <1>3, IpConstants, IpTurn
  <2>2. /\ hits[x] + I <= IpThreshold + IpSlots
        /\ x \notin timedOut => served[x] <= hits[x] + C
        /\ served[x] <= IpThreshold + 2 * IpSlots
    BY <1>1 DEF IpFits
  <2>3. /\ served[x] \in Nat /\ hits[x] \in Nat
        /\ hits'[x] = hits[x] /\ timedOut' = timedOut
        /\ x # ip \/ x \in timedOut => served'[x] = served[x]
        /\ x = ip /\ x \notin timedOut => served'[x] = served[x] + 1
    BY <1>2, <1>4
  <2>4. IpThreshold' = IpThreshold /\ IpSlots' = IpSlots
    BY DEF IpSlots
  <2> HIDE DEF C, I, IpSlots
  <2>5. /\ hits'[x] + I' <= IpThreshold + IpSlots
        /\ x \notin timedOut' => served'[x] <= hits'[x] + C'
        /\ served'[x] <= IpThreshold + 2 * IpSlots
    BY <2>1, <2>2, <2>3, IpConstants
  <2> QED
    BY <2>4, <2>5 DEF IpFits, C, I
<1> QED
  BY <1>5, <1>6, <1>7 DEF IpInv

LEMMA IpPeek ==
  ASSUME IpInv, NEW r \in IpRequests, Ip!Peek(r)
  PROVE  IpInv'
<1> DEFINE ip == ipReq[r].ip
           pc == IF hits[ip] > IpThreshold THEN "block" ELSE "inc"
           next == [ipReq[r] EXCEPT !.pc = pc]
<1>1. /\ Ip!TypeOK /\ \A x \in Ips : IpFits(x)
      /\ \A q \in IpRequests : ipReq[q].pc # "idle" => ipReq[q].ip \in Ips
  BY DEF IpInv
<1>2. /\ ipReq[r].pc = "peek" /\ ip \in Ips /\ order' = Ip!Touch(ip)
      /\ Ip!Become(r, next) /\ UNCHANGED <<hits, timedOut, served>>
  BY <1>1 DEF Ip!Peek
<1>3. ipReq[r] \in [pc : Ip!Pcs, ip : Ips \cup {Nowhere}] /\ pc \in Ip!Pcs
  BY <1>1 DEF Ip!TypeOK, Ip!Pcs
<1>4. /\ hits[ip] > IpThreshold => pc = "block"
      /\ ~(hits[ip] > IpThreshold) => pc = "inc"
  OBVIOUS
<1> HIDE DEF pc
<1>5. next \in [pc : Ip!Pcs, ip : Ips \cup {Nowhere}] /\ next.ip = ip /\ next.pc = pc
  BY <1>3
<1> HIDE DEF next
<1>6. served \in [Ips -> Nat] /\ hits \in [Ips -> Nat]
  BY <1>1 DEF Ip!TypeOK
<1>7. Ip!TypeOK'
  <2>1. Listed(Ip!Touch(ip)) /\ Len(Ip!Touch(ip)) <= Capacity
    BY <1>1, <1>2, TouchListed DEF Ip!TypeOK, Listed
  <2>2. ipReq' \in [IpRequests -> [pc : Ip!Pcs, ip : Ips \cup {Nowhere}]]
    BY <1>1, <1>2, <1>5 DEF Ip!TypeOK, Ip!Become
  <2> QED
    BY <1>1, <1>2, <2>1, <2>2 DEF Ip!TypeOK, Listed
<1>8. \A q \in IpRequests : ipReq'[q].pc # "idle" => ipReq'[q].ip \in Ips
  BY <1>1, <1>2, <1>5 DEF Ip!TypeOK, Ip!Become
<1>9. ASSUME NEW x \in Ips PROVE IpFits(x)'
  <2> DEFINE C == Cardinality(CountingFor(x))
             I == Cardinality(IncrementingFor(x))
  <2>1. /\ C \in 0..IpSlots /\ I \in 0..IpSlots /\ I' \in 0..IpSlots
        /\ C' = C
        /\ x # ip \/ pc # "inc" => I' = I
    BY <1>1, <1>2, <1>5, IpTurn
  <2>2. /\ hits[x] + I <= IpThreshold + IpSlots
        /\ x \notin timedOut => served[x] <= hits[x] + C
        /\ served[x] <= IpThreshold + 2 * IpSlots
    BY <1>1 DEF IpFits
  <2>3. /\ served[x] \in Nat /\ hits[x] \in Nat
        /\ hits'[x] = hits[x] /\ timedOut' = timedOut /\ served'[x] = served[x]
    BY <1>2, <1>6
  <2>4. IpThreshold' = IpThreshold /\ IpSlots' = IpSlots
    BY DEF IpSlots
  <2> HIDE DEF C, I, IpSlots
  <2>5. /\ hits'[x] + I' <= IpThreshold + IpSlots
        /\ x \notin timedOut' => served'[x] <= hits'[x] + C'
        /\ served'[x] <= IpThreshold + 2 * IpSlots
    BY <1>4, <2>1, <2>2, <2>3, IpConstants
  <2> QED
    BY <2>4, <2>5 DEF IpFits, C, I
<1> QED
  BY <1>7, <1>8, <1>9 DEF IpInv

LEMMA IpInc ==
  ASSUME IpInv, NEW r \in IpRequests, Ip!Inc(r)
  PROVE  IpInv'
<1> DEFINE ip == ipReq[r].ip
           kept == Ip!Insert(ip)
           out == {x \in Ip!Tracked : ~ \E i \in 1..Len(kept) : kept[i] = x}
<1>1. /\ Ip!TypeOK /\ \A x \in Ips : IpFits(x)
      /\ \A q \in IpRequests : ipReq[q].pc # "idle" => ipReq[q].ip \in Ips
  BY DEF IpInv
<1>2. /\ ipReq[r].pc = "inc" /\ ip \in Ips /\ order' = kept
      /\ hits' = [x \in Ips |-> IF x = ip THEN hits[x] + 1
                                ELSE IF x \in out THEN 0 ELSE hits[x]]
      /\ served' = [x \in Ips |-> IF x \in out THEN 0 ELSE served[x]]
      /\ Ip!Become(r, Ip!Idle) /\ timedOut' = timedOut
  BY <1>1 DEF Ip!Inc
<1>3. /\ Ip!Idle \in [pc : Ip!Pcs, ip : Ips \cup {Nowhere}]
      /\ Ip!Idle.pc = "idle" /\ Ip!Idle.ip = Nowhere
  BY DEF Ip!Idle, Ip!Pcs
<1>4. served \in [Ips -> Nat] /\ hits \in [Ips -> Nat]
  BY <1>1 DEF Ip!TypeOK
<1>5. Listed(kept) /\ Len(kept) <= Capacity
  BY <1>1, <1>2, TouchListed DEF Ip!TypeOK, Listed
<1> HIDE DEF kept, out
<1>6. served' \in [Ips -> Nat] /\ hits' \in [Ips -> Nat]
  BY <1>2, <1>4
<1>7. Ip!TypeOK'
  <2>1. ipReq' \in [IpRequests -> [pc : Ip!Pcs, ip : Ips \cup {Nowhere}]]
    BY <1>1, <1>2, <1>3 DEF Ip!TypeOK, Ip!Become
  <2> QED
    BY <1>1, <1>2, <1>5, <1>6, <2>1 DEF Ip!TypeOK, Listed
<1>8. \A q \in IpRequests : ipReq'[q].pc # "idle" => ipReq'[q].ip \in Ips
  BY <1>1, <1>2, <1>3 DEF Ip!TypeOK, Ip!Become
<1>9. ASSUME NEW x \in Ips PROVE IpFits(x)'
  <2> DEFINE C == Cardinality(CountingFor(x))
             I == Cardinality(IncrementingFor(x))
  <2>1. /\ C \in 0..IpSlots /\ I \in 0..IpSlots /\ I' \in 0..IpSlots /\ C' \in 0..IpSlots
        /\ x = ip => C' = C - 1 /\ I' = I - 1
        /\ x # ip => C' = C /\ I' = I
    BY <1>1, <1>2, <1>3, IpConstants, IpTurn
  <2>2. /\ hits[x] + I <= IpThreshold + IpSlots
        /\ x \notin timedOut => served[x] <= hits[x] + C
        /\ served[x] <= IpThreshold + 2 * IpSlots
    BY <1>1 DEF IpFits
  <2>3. /\ served[x] \in Nat /\ hits[x] \in Nat /\ timedOut' = timedOut
        /\ x = ip => hits'[x] = hits[x] + 1
        /\ x # ip /\ x \notin out => hits'[x] = hits[x]
        /\ x # ip /\ x \in out => hits'[x] = 0
        /\ x \in out => served'[x] = 0
        /\ x \notin out => served'[x] = served[x]
    BY <1>2, <1>4
  <2>4. IpThreshold' = IpThreshold /\ IpSlots' = IpSlots
    BY DEF IpSlots
  <2> HIDE DEF C, I, IpSlots
  <2>5. /\ hits'[x] + I' <= IpThreshold + IpSlots
        /\ x \notin timedOut' => served'[x] <= hits'[x] + C'
        /\ served'[x] <= IpThreshold + 2 * IpSlots
    BY <2>1, <2>2, <2>3, IpConstants
  <2> QED
    BY <2>4, <2>5 DEF IpFits, C, I
<1> QED
  BY <1>7, <1>8, <1>9 DEF IpInv

\* The request that blocks its IP is not counted; what the IP got through by
\* then is no more than counters and slots.
LEMMA IpBlock ==
  ASSUME IpInv, NEW r \in IpRequests, Ip!Block(r)
  PROVE  IpInv'
<1> DEFINE ip == ipReq[r].ip
<1>1. /\ Ip!TypeOK /\ \A x \in Ips : IpFits(x)
      /\ \A q \in IpRequests : ipReq[q].pc # "idle" => ipReq[q].ip \in Ips
  BY DEF IpInv
<1>2. /\ ipReq[r].pc = "block" /\ ip \in Ips /\ timedOut' = timedOut \cup {ip}
      /\ Ip!Become(r, Ip!Idle) /\ UNCHANGED <<order, hits, served>>
  BY <1>1 DEF Ip!Block
<1>3. /\ Ip!Idle \in [pc : Ip!Pcs, ip : Ips \cup {Nowhere}]
      /\ Ip!Idle.pc = "idle" /\ Ip!Idle.ip = Nowhere
  BY DEF Ip!Idle, Ip!Pcs
<1>4. Ip!TypeOK'
  <2>1. ipReq' \in [IpRequests -> [pc : Ip!Pcs, ip : Ips \cup {Nowhere}]]
    BY <1>1, <1>2, <1>3 DEF Ip!TypeOK, Ip!Become
  <2> QED
    BY <1>1, <1>2, <2>1 DEF Ip!TypeOK
<1>5. \A q \in IpRequests : ipReq'[q].pc # "idle" => ipReq'[q].ip \in Ips
  BY <1>1, <1>2, <1>3 DEF Ip!TypeOK, Ip!Become
<1>6. ASSUME NEW x \in Ips PROVE IpFits(x)'
  <2> DEFINE C == Cardinality(CountingFor(x))
             I == Cardinality(IncrementingFor(x))
  <2>1. /\ C \in 0..IpSlots /\ C' \in 0..IpSlots /\ I' = I
        /\ x # ip => C' = C
    BY <1>1, <1>2, <1>3, IpConstants, IpTurn
  <2>2. /\ hits[x] + I <= IpThreshold + IpSlots
        /\ x \notin timedOut => served[x] <= hits[x] + C
        /\ served[x] <= IpThreshold + 2 * IpSlots
    BY <1>1 DEF IpFits
  <2>3. x \notin timedOut' => x # ip /\ x \notin timedOut
    BY <1>2
  <2> QED
    BY <1>2, <2>1, <2>2, <2>3 DEF IpFits, IpSlots
<1> QED
  BY <1>4, <1>5, <1>6 DEF IpInv

LEMMA IpExpire ==
  ASSUME IpInv, NEW ip \in Ips, Ip!Expire(ip)
  PROVE  IpInv'
<1>1. /\ Ip!TypeOK /\ \A x \in Ips : IpFits(x)
      /\ \A q \in IpRequests : ipReq[q].pc # "idle" => ipReq[q].ip \in Ips
  BY DEF IpInv
<1>2. /\ timedOut' = timedOut \ {ip} /\ served' = [served EXCEPT ![ip] = 0]
      /\ UNCHANGED <<order, hits, ipReq>>
  BY DEF Ip!Expire
<1>3. served \in [Ips -> Nat] /\ hits \in [Ips -> Nat]
  BY <1>1 DEF Ip!TypeOK
<1>4. Ip!TypeOK'
  BY <1>1, <1>2, <1>3 DEF Ip!TypeOK
<1>5. ASSUME NEW x \in Ips PROVE IpFits(x)'
  <2> DEFINE C == Cardinality(CountingFor(x))
             I == Cardinality(IncrementingFor(x))
  <2>1. C \in 0..IpSlots /\ C' = C /\ I' = I
    BY <1>2, IpSlotsBounds DEF CountingFor, IncrementingFor
  <2>2. /\ hits[x] + I <= IpThreshold + IpSlots
        /\ x \notin timedOut => served[x] <= hits[x] + C
        /\ served[x] <= IpThreshold + 2 * IpSlots
    BY <1>1 DEF IpFits
  <2>3. /\ hits[x] \in Nat /\ hits'[x] = hits[x]
        /\ x = ip => served'[x] = 0
        /\ x # ip => served'[x] = served[x] /\ (x \in timedOut' <=> x \in timedOut)
    BY <1>2, <1>3
  <2>4. IpThreshold' = IpThreshold /\ IpSlots' = IpSlots
    BY DEF IpSlots
  <2> HIDE DEF C, I, IpSlots
  <2>5. /\ hits'[x] + I' <= IpThreshold + IpSlots
        /\ x \notin timedOut' => served'[x] <= hits'[x] + C'
        /\ served'[x] <= IpThreshold + 2 * IpSlots
    BY <2>1, <2>2, <2>3, IpConstants
  <2> QED
    BY <2>4, <2>5 DEF IpFits, C, I
<1> QED
  BY <1>1, <1>2, <1>4, <1>5 DEF IpInv

LEMMA IpClear ==
  ASSUME IpInv, Ip!Clear
  PROVE  IpInv'
<1>1. /\ Ip!TypeOK /\ \A x \in Ips : IpFits(x)
      /\ \A q \in IpRequests : ipReq[q].pc # "idle" => ipReq[q].ip \in Ips
  BY DEF IpInv
<1>2. /\ order' = <<>> /\ UNCHANGED <<timedOut, ipReq>>
      /\ hits' = [ip \in Ips |-> 0] /\ served' = [ip \in Ips |-> 0]
  BY DEF Ip!Clear, Ip!Forget
<1>3. Ip!TypeOK'
  BY <1>1, <1>2, IpConstants DEF Ip!TypeOK
<1>4. ASSUME NEW x \in Ips PROVE IpFits(x)'
  <2> DEFINE C == Cardinality(CountingFor(x))
             I == Cardinality(IncrementingFor(x))
  <2>1. C \in 0..IpSlots /\ I \in 0..IpSlots /\ C' = C /\ I' = I
    BY <1>2, IpSlotsBounds DEF CountingFor, IncrementingFor
  <2>2. hits'[x] = 0 /\ served'[x] = 0
    BY <1>2
  <2>3. IpThreshold' = IpThreshold /\ IpSlots' = IpSlots
    BY DEF IpSlots
  <2> HIDE DEF C, I, IpSlots
  <2>4. /\ hits'[x] + I' <= IpThreshold + IpSlots
        /\ x \notin timedOut' => served'[x] <= hits'[x] + C'
        /\ served'[x] <= IpThreshold + 2 * IpSlots
    BY <2>1, <2>2, IpConstants
  <2> QED
    BY <2>3, <2>4 DEF IpFits, C, I
<1> QED
  BY <1>1, <1>2, <1>3, <1>4 DEF IpInv

LEMMA IpInit == Ip!Init => IpInv
<1> SUFFICES ASSUME Ip!Init PROVE IpInv
  OBVIOUS
<1>1. /\ order = <<>> /\ timedOut = {} /\ ipReq = [r \in IpRequests |-> Ip!Idle]
      /\ hits = [ip \in Ips |-> 0] /\ served = [ip \in Ips |-> 0]
  BY DEF Ip!Init
<1>2. /\ Ip!Idle \in [pc : Ip!Pcs, ip : Ips \cup {Nowhere}]
      /\ Ip!Idle.pc = "idle" /\ Ip!Idle.ip = Nowhere
  BY DEF Ip!Idle, Ip!Pcs
<1>3. Ip!TypeOK
  BY <1>1, <1>2, IpConstants DEF Ip!TypeOK
<1>4. ASSUME NEW x \in Ips PROVE IpFits(x)
  <2> DEFINE C == Cardinality(CountingFor(x))
             I == Cardinality(IncrementingFor(x))
  <2>1. C \in 0..IpSlots /\ I \in 0..IpSlots
    BY IpSlotsBounds
  <2>2. hits[x] = 0 /\ served[x] = 0
    BY <1>1
  <2> HIDE DEF C, I, IpSlots
  <2>3. /\ hits[x] + I <= IpThreshold + IpSlots
        /\ served[x] <= hits[x] + C
        /\ served[x] <= IpThreshold + 2 * IpSlots
    BY <2>1, <2>2, IpConstants
  <2> QED
    BY <2>3 DEF IpFits, C, I
<1> QED
  BY <1>1, <1>2, <1>3, <1>4 DEF IpInv

LEMMA IpStep ==
  ASSUME IpInv, Ip!Next
  PROVE  IpInv'
  BY IpEnter, IpPeek, IpInc, IpBlock, IpExpire, IpClear DEF Ip!Next

\* Steps of the other protection.
LEMMA IpStutters ==
  ASSUME IpInv, UNCHANGED ipVars
  PROVE  IpInv'
<1>1. UNCHANGED <<order, hits, timedOut, ipReq, served>>
  BY DEF ipVars
<1>2. Ip!TypeOK'
  BY <1>1 DEF IpInv, Ip!TypeOK
<1>3. ASSUME NEW x \in Ips PROVE IpFits(x)'
  <2>1. /\ Cardinality(CountingFor(x))' = Cardinality(CountingFor(x))
        /\ Cardinality(IncrementingFor(x))' = Cardinality(IncrementingFor(x))
    BY <1>1 DEF CountingFor, IncrementingFor
  <2>2. IpThreshold' = IpThreshold /\ IpSlots' = IpSlots
    BY DEF IpSlots
  <2>3. IpFits(x)
    BY DEF IpInv
  <2> QED
    BY <1>1, <2>1, <2>2, <2>3 DEF IpFits
<1> QED
  BY <1>1, <1>2, <1>3 DEF IpInv

-----------------------------------------------------------------------------
(***************************************************************************)
(* UserTraffic: constants, how many incidents there can be, and what a     *)
(* turn of one slot does.                                                  *)
(***************************************************************************)
\* What the proofs need of the constants.
LEMMA UserConstants ==
  /\ IsFiniteSet(Requests)
  /\ Slots \in Nat
  /\ UserThreshold \in Nat /\ UserThreshold >= 1
  /\ TotalThreshold \in Nat /\ Duration \in Nat /\ MaxTime \in Nat /\ MaxTotal \in Nat
  /\ Sentences \subseteq Nat
<1>1. IsFiniteSet(Requests)
  BY TrafficAssumption
  DEF TrafficAssumption, User!UserTrafficAssumption, User!IsFiniteSet, IsFiniteSet
<1> QED
  BY <1>1, TrafficAssumption, FS_CardinalityType
  DEF TrafficAssumption, User!UserTrafficAssumption, Slots

\* Rounding down keeps the order.
LEMMA DivGrows ==
  ASSUME NEW a \in Nat, NEW b \in Nat, a <= b, NEW d \in Nat, d >= 1
  PROVE  a \div d \in Nat /\ a \div d <= b \div d
<1> DEFINE p == a \div d
           q == b \div d
<1>1. p \in Nat /\ q \in Nat
  OBVIOUS
<1>2. a = d * p + (a % d) /\ a % d \in 0..(d - 1)
  OBVIOUS
<1>3. b = d * q + (b % d) /\ b % d \in 0..(d - 1)
  OBVIOUS
<1> DEFINE x == a % d
           y == b % d
<1>4. a = d * p + x /\ b = d * q + y /\ x \in 0..(d - 1) /\ y \in 0..(d - 1)
  BY <1>2, <1>3
<1> HIDE DEF p, q, x, y
<1>5. ASSUME p > q PROVE FALSE
  <2>1. PICK k \in Nat : p = q + 1 + k
    BY <1>1, <1>5
  <2>2. d * p = d * q + d + d * k /\ d * k \in Nat /\ d * q \in Nat
    BY <1>1, <2>1
  <2> QED
    BY <1>4, <2>2
<1>6. p <= q
  BY <1>1, <1>5
<1> QED
  BY <1>1, <1>6 DEF p, q

\* More requests are not fewer incidents.
LEMMA IncidentsGrow ==
  ASSUME NEW a \in Nat, NEW b \in Nat, a <= b
  PROVE  User!Incidents(a) \in Nat /\ User!Incidents(a) <= User!Incidents(b)
<1> DEFINE m == 2 * a + UserThreshold
           n == 2 * b + UserThreshold
           d == 2 * UserThreshold
<1>1. m \in Nat /\ n \in Nat /\ m <= n /\ d \in Nat /\ d >= 1
  BY UserConstants
<1>2. User!Incidents(a) = m \div d /\ User!Incidents(b) = n \div d
  BY DEF User!Incidents
<1> HIDE DEF m, n, d
<1> QED
  BY <1>1, <1>2, DivGrows

\* What the slots and the bursts may come to.
LEMMA MostIs ==
  /\ Most \in Nat
  /\ \A n \in Nat : n <= UserThreshold + Slots - 1 => User!Incidents(n) <= Most
<1>1. UserThreshold + Slots - 1 \in Nat
  BY UserConstants
<1> HIDE DEF Slots
<1> QED
  BY <1>1, IncidentsGrow DEF Most

LEMMA OfRequestsGrows ==
  ASSUME NEW m \in Nat, NEW n \in Nat
  PROVE  /\ OfRequests(n) \in Nat
         /\ OfRequests(n + 1) = OfRequests(n) + Most
         /\ m <= n => OfRequests(m) <= OfRequests(n)
<1>1. Most \in Nat
  BY MostIs
<1> HIDE DEF Most
<1>2. OfRequests(n) \in Nat /\ OfRequests(n + 1) = OfRequests(n) + Most
  BY <1>1 DEF OfRequests
<1>3. ASSUME m <= n PROVE OfRequests(m) <= OfRequests(n)
  <2>1. PICK k \in Nat : n = m + k
    BY <1>3
  <2>2. Most * k \in Nat /\ Most * (m + k) = Most * m + Most * k /\ Most * m \in Nat
    BY <1>1
  <2> QED
    BY <2>1, <2>2 DEF OfRequests
<1> QED
  BY <1>2, <1>3

LEMMA OfBurstsGrows ==
  ASSUME NEW n \in Nat
  PROVE  /\ OfBursts(n) \in Nat
         /\ OfBursts(n + 1) = OfBursts(n) + OfRequests(Slots)
<1>1. OfRequests(Slots) \in Nat
  BY UserConstants, OfRequestsGrows
<1> HIDE DEF OfRequests, Slots
<1> QED
  BY <1>1 DEF OfBursts

\* Constants do not change.
LEMMA SameBounds ==
  /\ Slots' = Slots /\ Most' = Most
  /\ \A n : (OfRequests(n))' = OfRequests(n)
  /\ \A n : (OfBursts(n))' = OfBursts(n)
  BY DEF Slots, Most, OfRequests, OfBursts, User!Incidents

\* A turn of slot r changes nothing in another.
LEMMA UserTurn ==
  ASSUME User!TypeOK, NEW r \in Requests, NEW next, User!Become(r, next)
  PROVE  userReq'[r] = next /\ \A q \in Requests : q # r => userReq'[q] = userReq[q]
  BY DEF User!TypeOK, User!Become

\* The numbers of slots.
LEMMA SomeSlots ==
  ASSUME NEW pcs
  PROVE  InPc(pcs) \subseteq Requests /\ IsFiniteSet(InPc(pcs))
         /\ Cardinality(InPc(pcs)) \in 0..Slots
<1>1. InPc(pcs) \subseteq Requests
  BY DEF InPc
<1> HIDE DEF InPc
<1> QED
  BY <1>1, UserConstants, FS_Subset, FS_CardinalityType DEF Slots

\* The slots that are somewhere, when slot r moves.
LEMMA InPcMoves ==
  ASSUME NEW r \in Requests, \A q \in Requests : q # r => userReq'[q] = userReq[q], NEW pcs
  PROVE  LET A == Cardinality(InPc(pcs))
             was == userReq[r].pc \in pcs
             is == userReq'[r].pc \in pcs
         IN
         /\ A \in 0..Slots /\ A' \in 0..Slots
         /\ (was <=> is) => A' = A
         /\ ~was /\ is => A' = A + 1
         /\ was /\ ~is => A' = A - 1
<1> DEFINE A == InPc(pcs)
           B == InPc(pcs)'
<1>1. /\ A \subseteq Requests /\ B \subseteq Requests
      /\ r \in A <=> userReq[r].pc \in pcs
      /\ r \in B <=> userReq'[r].pc \in pcs
      /\ \A q \in Requests : q # r => (q \in A <=> q \in B)
  BY DEF InPc
<1> HIDE DEF A, B
<1>2. /\ A \subseteq Requests /\ B \subseteq Requests
      /\ \A q \in Requests : q # r => (q \in A <=> q \in B)
  BY <1>1
<1>3. /\ Cardinality(A) \in 0..Cardinality(Requests)
      /\ Cardinality(B) \in 0..Cardinality(Requests)
      /\ (r \in A <=> r \in B) => Cardinality(B) = Cardinality(A)
      /\ (r \notin A /\ r \in B) => Cardinality(B) = Cardinality(A) + 1
      /\ (r \in A /\ r \notin B) => Cardinality(B) = Cardinality(A) - 1
  BY <1>2, UserConstants, SlotMoves
<1>4. A = InPc(pcs) /\ B = InPc(pcs)'
  BY DEF A, B
<1>5. Slots = Cardinality(Requests)
  BY DEF Slots
<1> HIDE DEF Slots
<1> QED
  BY <1>1, <1>3, <1>4, <1>5

\* The incidents of one slot.
LEMMA OneIncident ==
  ASSUME NEW r, NEW n \in Nat
  PROVE  IsFiniteSet({r} \X (1..n)) /\ Cardinality({r} \X (1..n)) = n
<1>1. IsFiniteSet({r}) /\ Cardinality({r}) = 1
  BY FS_Singleton
<1>2. IsFiniteSet(1..n) /\ Cardinality(1..n) = n
  BY FS_Interval
<1> DEFINE S == {r}
           T == 1..n
<1> HIDE DEF S, T
<1>3. IsFiniteSet(S \X T) /\ Cardinality(S \X T) = Cardinality(S) * Cardinality(T)
  BY <1>1, <1>2, FS_Product DEF S, T
<1>4. Cardinality(S) = 1 /\ Cardinality(T) = n
  BY <1>1, <1>2 DEF S, T
<1>5. Cardinality(S) * Cardinality(T) = n
  BY <1>4
<1> QED
  BY <1>3, <1>5 DEF S, T

\* What is on its way, element by element.
LEMMA OnTheWayIs ==
  \A x : x \in OnTheWay <=>
    \E q \in Writing : x \in {q} \X (1..userReq[q].inc)
  BY Zenon DEF OnTheWay

LEMMA OnTheWayBecomes ==
  \A x : x \in OnTheWay' <=>
    \E q \in Writing' : x \in {q} \X (1..userReq'[q].inc)
  BY Zenon DEF OnTheWay

\* Where nothing is decided, written or counted, and the counter is left or
\* cleared, what is said of incidents and bursts stays.
LEMMA TrafficKept ==
  ASSUME UserInv, UNCHANGED <<total, bursts>>, db'.high = db.high, traffic' \in {traffic, 0},
         \A q \in Requests :
           \/ userReq'[q] = userReq[q]
           \/ /\ userReq[q].pc = "inc" <=> userReq'[q].pc = "inc"
              /\ userReq[q].pc = "write" <=> userReq'[q].pc = "write"
              /\ userReq[q].pc \in {"load", "flag"} <=> userReq'[q].pc \in {"load", "flag"}
              /\ userReq[q].pc \in {"write", "load", "flag"}
                   => userReq'[q].inc = userReq[q].inc
  PROVE  HighFits' /\ BurstsFit'
<1>1. Adding' = Adding /\ Noticed' = Noticed /\ Writing' = Writing
  BY DEF Adding, Noticed, Writing, InPc
<1>2. OnTheWay' = OnTheWay
  <2>1. \A q \in Writing : userReq'[q].inc = userReq[q].inc
    BY DEF Writing, InPc
  <2>2. \A x : x \in OnTheWay' <=> x \in OnTheWay
    BY <1>1, <2>1, OnTheWayIs, OnTheWayBecomes
  <2> QED
    BY <2>2
<1>3. HighFits'
  BY <1>2 DEF UserInv, HighFits
<1>4. \A r \in Noticed' : userReq'[r].inc <= Most
  <2>1. \A q \in Noticed : userReq'[q].inc = userReq[q].inc
    BY DEF Noticed, InPc
  <2> HIDE DEF Most, Noticed
  <2> QED
    BY <1>1, <2>1 DEF UserInv, BurstsFit
<1>5. /\ traffic + Cardinality(Adding) <= UserThreshold + Slots - 1
      /\ total + OfRequests(Cardinality(Noticed)) <= OfBursts(bursts)
      /\ traffic >= UserThreshold => bursts > 0 /\ total <= OfBursts(bursts - 1)
      /\ traffic \in Nat
  BY DEF UserInv, BurstsFit, User!TypeOK
<1>6. Cardinality(Adding) \in 0..Slots
  BY SomeSlots DEF Adding
<1> DEFINE C == Cardinality(Adding)
           N == Cardinality(Noticed)
<1>7. C' = C /\ N' = N
  BY <1>1
<1>8. /\ OfRequests(N)' = OfRequests(N') /\ OfBursts(bursts)' = OfBursts(bursts')
      /\ OfBursts(bursts - 1)' = OfBursts(bursts' - 1)
  BY DEF OfRequests, OfBursts, Most, User!Incidents, Slots
<1> HIDE DEF C, N, Most, Slots, OfRequests, OfBursts
<1>9. traffic' + C' <= UserThreshold + Slots - 1
  BY <1>5, <1>6, <1>7, UserConstants DEF C
<1>10. /\ total' + OfRequests(N') <= OfBursts(bursts')
       /\ traffic' >= UserThreshold => bursts' > 0 /\ total' <= OfBursts(bursts' - 1)
  BY <1>5, <1>7, UserConstants DEF N
<1> QED
  BY <1>3, <1>4, <1>8, <1>9, <1>10, SameBounds DEF BurstsFit, C, N

-----------------------------------------------------------------------------
(***************************************************************************)
(* UserTraffic: every action keeps the invariant.                          *)
(***************************************************************************)
LEMMA NewUserIs == User!NewUser \in User!User /\ User!NewUser.high = 0
  BY DEF User!NewUser, User!User

\* A time-out leaves the incidents alone.
LEMMA AddTimeoutIs ==
  ASSUME NEW u \in User!User, NEW d \in Nat, now \in Nat
  PROVE  User!AddTimeout(u, d) \in User!User /\ User!AddTimeout(u, d).high = u.high
<1> DEFINE n == IF u.times = 0 THEN 1 ELSE u.times
           until == now + d * n
           v == [u EXCEPT !.until = until, !.times = n + 1]
<1>1. n \in Nat
  BY DEF User!User
<1> HIDE DEF n
<1>2. d * n \in Nat
  BY <1>1
<1>3. until \in Nat /\ n + 1 \in Nat
  BY <1>1, <1>2
<1>4. User!AddTimeout(u, d) = v
  BY DEF User!AddTimeout, n
<1> HIDE DEF until
<1> QED
  BY <1>3, <1>4 DEF User!User

\* Counting is over.
LEMMA CountedIs ==
  ASSUME NEW s \in User!Slot
  PROVE  /\ User!Counted(s) \in User!Slot
         /\ User!Counted(s).pc = "idle"
         /\ User!Counted(s).copy \in {s.copy, User!NewUser}
         /\ User!Counted(s).fresh = User!NewUser
<1>1. User!Idle \in User!Slot
  BY NewUserIs DEF User!Idle, User!Slot, User!Pcs
<1>2. CASE s.on
  <2>1. User!Counted(s) = [User!Idle EXCEPT !.on = TRUE, !.copy = s.copy]
    BY <1>2 DEF User!Counted
  <2>2. s.copy \in User!User
    BY DEF User!Slot
  <2> QED
    BY <1>1, <2>1, <2>2 DEF User!Slot, User!Idle
<1>3. CASE ~s.on
  BY <1>1, <1>3 DEF User!Counted, User!Idle
<1> QED
  BY <1>2, <1>3

\* What the invariant says of one slot.
LEMMA UserSlot ==
  ASSUME UserInv, NEW r \in Requests
  PROVE  /\ userReq[r] \in User!Slot
         /\ userReq[r].copy \in User!User /\ userReq[r].copy.high <= total
         /\ userReq[r].fresh \in User!User /\ userReq[r].fresh.high <= total
         /\ userReq[r].inc \in Nat
         /\ now \in Nat /\ traffic \in Nat /\ total \in Nat /\ bursts \in Nat
         /\ db \in User!User /\ db.high \in Nat
         /\ cache # NoEntry => cache \in User!User /\ cache.high <= total
<1>1. userReq[r] \in User!Slot
  BY DEF UserInv, User!TypeOK
<1>2. userReq[r].copy \in User!User /\ userReq[r].fresh \in User!User /\ userReq[r].inc \in Nat
  BY <1>1 DEF User!Slot
<1>3. userReq[r].copy.high <= total /\ userReq[r].fresh.high <= total
  BY DEF UserInv, CopiesFit
<1>4. now \in Nat /\ traffic \in Nat
  BY UserConstants DEF UserInv, User!TypeOK
<1>5. /\ total \in Nat /\ bursts \in Nat
      /\ db \in User!User
      /\ cache # NoEntry => cache \in User!User /\ cache.high <= total
  BY DEF UserInv, User!TypeOK, CopiesFit
<1>6. db.high \in Nat
  BY <1>5 DEF User!User
<1> QED
  BY <1>1, <1>2, <1>3, <1>4, <1>5, <1>6

\* The database has no more incidents than were decided.
LEMMA DbFits == ASSUME UserInv PROVE db.high <= total
<1>1. IsFiniteSet(OnTheWay) /\ db.high + Cardinality(OnTheWay) = total
  BY DEF UserInv, HighFits
<1>2. Cardinality(OnTheWay) \in Nat
  BY <1>1, FS_CardinalityType
<1>3. db.high \in Nat
  BY DEF UserInv, User!TypeOK, User!User
<1> HIDE DEF OnTheWay
<1> QED
  BY <1>1, <1>2, <1>3

\* A turn of slot r: types.
LEMMA TurnTypes ==
  ASSUME UserInv, NEW r \in Requests, NEW next \in User!Slot, User!Become(r, next),
         now' = now, traffic' \in 0..(UserThreshold + Slots - 1), db' \in User!User,
         cache' = NoEntry \/ cache' \in User!User, total' \in Nat, bursts' \in Nat
  PROVE  User!TypeOK'
<1>1. userReq' \in [Requests -> User!Slot]
  BY DEF UserInv, User!TypeOK, User!Become
<1>2. now' \in 0..MaxTime
  BY DEF UserInv, User!TypeOK
<1>3. traffic' \in 0..(UserThreshold + User!Cardinality(Requests) - 1)
  BY SameCounting DEF Slots
<1> QED
  BY <1>1, <1>2, <1>3 DEF User!TypeOK, User!Slot, User!User, User!Pcs

\* A turn of slot r: copies.
LEMMA TurnCopies ==
  ASSUME UserInv, NEW r \in Requests, NEW next \in User!Slot, User!Become(r, next),
         total' \in Nat, total <= total',
         cache' # NoEntry => cache'.high <= total',
         next.copy.high <= total', next.fresh.high <= total'
  PROVE  CopiesFit'
<1>1. userReq'[r] = next /\ \A q \in Requests : q # r => userReq'[q] = userReq[q]
  BY UserTurn DEF UserInv
<1>2. ASSUME NEW q \in Requests
      PROVE  userReq'[q].copy.high <= total' /\ userReq'[q].fresh.high <= total'
  <2>1. CASE q = r
    BY <1>1, <2>1
  <2>2. CASE q # r
    <3>1. userReq'[q] = userReq[q]
      BY <1>1, <2>2
    <3>2. /\ userReq[q].copy.high \in Nat /\ userReq[q].copy.high <= total
          /\ userReq[q].fresh.high \in Nat /\ userReq[q].fresh.high <= total
          /\ total \in Nat
      BY UserSlot DEF User!User
    <3> QED
      BY <3>1, <3>2
  <2> QED
    BY <2>1, <2>2
<1> QED
  BY <1>2 DEF CopiesFit

\* A turn of slot r that counts, decides and writes nothing.
LEMMA QuietTurn ==
  ASSUME UserInv, NEW r \in Requests, NEW next \in User!Slot, User!Become(r, next),
         UNCHANGED <<now, traffic, total, bursts>>,
         db' \in User!User, db'.high = db.high,
         cache' = NoEntry \/ (cache' \in User!User /\ cache'.high <= total),
         next.copy.high <= total, next.fresh.high <= total,
         userReq[r].pc = "inc" <=> next.pc = "inc",
         userReq[r].pc = "write" <=> next.pc = "write",
         userReq[r].pc \in {"load", "flag"} <=> next.pc \in {"load", "flag"},
         userReq[r].pc \in {"write", "load", "flag"} => next.inc = userReq[r].inc
  PROVE  UserInv'
<1>1. traffic' \in 0..(UserThreshold + Slots - 1)
  BY SameCounting DEF UserInv, User!TypeOK, Slots
<1>2. total \in Nat /\ bursts \in Nat
  BY UserSlot
<1>3. User!TypeOK'
  BY <1>1, <1>2, TurnTypes
<1>4. cache' # NoEntry => cache'.high <= total'
  OBVIOUS
<1>5. CopiesFit'
  BY <1>2, <1>4, TurnCopies
<1>6. userReq'[r] = next /\ \A q \in Requests : q # r => userReq'[q] = userReq[q]
  BY UserTurn DEF UserInv
<1>7. \A q \in Requests :
        \/ userReq'[q] = userReq[q]
        \/ /\ userReq[q].pc = "inc" <=> userReq'[q].pc = "inc"
           /\ userReq[q].pc = "write" <=> userReq'[q].pc = "write"
           /\ userReq[q].pc \in {"load", "flag"} <=> userReq'[q].pc \in {"load", "flag"}
           /\ userReq[q].pc \in {"write", "load", "flag"}
                => userReq'[q].inc = userReq[q].inc
  BY <1>6
<1>8. HighFits' /\ BurstsFit'
  BY <1>7, TrafficKept
<1> QED
  BY <1>3, <1>5, <1>8 DEF UserInv

\* A slot that does nothing.
LEMMA IdleIs ==
  /\ User!Idle \in User!Slot
  /\ User!Idle.pc = "idle"
  /\ User!Idle.copy = User!NewUser /\ User!Idle.fresh = User!NewUser
  BY NewUserIs DEF User!Idle, User!Slot, User!Pcs

LEMMA UserEnter ==
  ASSUME UserInv, NEW r \in Requests, NEW cached \in BOOLEAN, User!Enter(r, cached)
  PROVE  UserInv'
<1> DEFINE u == IF cached /\ cache # NoEntry THEN cache ELSE db
           next == [User!Idle EXCEPT !.pc = "peek", !.on = TRUE, !.copy = u]
<1>1. /\ userReq[r] = User!Idle
      /\ User!Become(r, next)
      /\ cache' = IF cached THEN u ELSE cache
      /\ UNCHANGED <<now, traffic, db, total, bursts>>
  BY DEF User!Enter
<1>2. u \in User!User /\ u.high <= total
  BY UserSlot, DbFits
<1> HIDE DEF u
<1>3. User!NewUser.high <= total
  BY UserSlot, NewUserIs
<1>4. /\ next \in User!Slot /\ next.pc = "peek"
      /\ next.copy = u /\ next.fresh = User!NewUser
  BY <1>2, IdleIs DEF User!Slot, User!Pcs
<1> HIDE DEF next
<1>5. next.copy.high <= total /\ next.fresh.high <= total
  BY <1>2, <1>3, <1>4
<1>6. userReq[r].pc = "idle"
  BY <1>1 DEF User!Idle
<1>7. cache' = NoEntry \/ (cache' \in User!User /\ cache'.high <= total)
  BY <1>1, <1>2, UserSlot
<1> QED
  BY <1>1, <1>4, <1>5, <1>6, <1>7, UserSlot, QuietTurn

LEMMA UserEnterBasic ==
  ASSUME UserInv, NEW r \in Requests, User!EnterBasic(r)
  PROVE  UserInv'
<1> DEFINE next == [User!Idle EXCEPT !.pc = "peek", !.on = TRUE, !.copy = db,
                                     !.fresh = db, !.basic = TRUE]
<1>1. /\ userReq[r] = User!Idle
      /\ User!Become(r, next)
      /\ UNCHANGED <<now, traffic, db, cache, total, bursts>>
  BY DEF User!EnterBasic
<1>2. db \in User!User /\ db.high <= total
  BY UserSlot, DbFits
<1>3. /\ next \in User!Slot /\ next.pc = "peek"
      /\ next.copy = db /\ next.fresh = db
  BY <1>2, IdleIs DEF User!Slot, User!Pcs
<1> HIDE DEF next
<1>4. userReq[r].pc = "idle"
  BY <1>1 DEF User!Idle
<1> QED
  BY <1>1, <1>2, <1>3, <1>4, UserSlot, QuietTurn

LEMMA UserLeave ==
  ASSUME UserInv, NEW r \in Requests, User!Leave(r)
  PROVE  UserInv'
<1> DEFINE next == IF userReq[r].pc = "idle" THEN User!Idle ELSE [userReq[r] EXCEPT !.on = FALSE]
<1>1. /\ cache' \in {cache, userReq[r].copy}
      /\ User!Become(r, next)
      /\ UNCHANGED <<now, traffic, db, total, bursts>>
  BY DEF User!Leave
<1>2. User!NewUser.high <= total
  BY UserSlot, NewUserIs
<1>3. /\ next \in User!Slot /\ next.pc = userReq[r].pc
      /\ next.copy.high <= total /\ next.fresh.high <= total
      /\ userReq[r].pc # "idle" => next.inc = userReq[r].inc
  <2>1. CASE userReq[r].pc = "idle"
    BY <1>2, <2>1, IdleIs
  <2>2. CASE userReq[r].pc # "idle"
    <3>1. next = [userReq[r] EXCEPT !.on = FALSE]
      BY <2>2
    <3> HIDE DEF next
    <3>2. /\ next \in User!Slot /\ next.pc = userReq[r].pc /\ next.inc = userReq[r].inc
          /\ next.copy = userReq[r].copy /\ next.fresh = userReq[r].fresh
      BY <3>1, UserSlot DEF User!Slot
    <3> QED
      BY <3>2, UserSlot
  <2> QED
    BY <2>1, <2>2
<1> HIDE DEF next
<1>4. cache' = NoEntry \/ (cache' \in User!User /\ cache'.high <= total)
  BY <1>1, UserSlot
<1> QED
  BY <1>1, <1>2, <1>3, <1>4, UserSlot, QuietTurn

LEMMA UserLoad ==
  ASSUME UserInv, NEW r \in Requests, User!Load(r)
  PROVE  UserInv'
<1> DEFINE next == [userReq[r] EXCEPT !.pc = "flag", !.fresh = db]
<1>1. /\ userReq[r].pc = "load"
      /\ User!Become(r, next)
      /\ UNCHANGED <<now, traffic, db, cache, total, bursts>>
  BY DEF User!Load
<1>2. /\ next \in User!Slot /\ next.pc = "flag" /\ next.inc = userReq[r].inc
      /\ next.copy.high <= total /\ next.fresh.high <= total
  BY UserSlot, DbFits DEF User!Slot, User!Pcs
<1> HIDE DEF next
<1> QED
  BY <1>1, <1>2, UserSlot, QuietTurn

LEMMA UserJudge ==
  ASSUME UserInv, NEW r \in Requests, NEW d \in Sentences, User!Judge(r, d)
  PROVE  UserInv'
<1> DEFINE u == User!AddTimeout(db, d)
           next == [User!Idle EXCEPT !.pc = "sentence", !.fresh = u]
<1>1. /\ userReq[r] = User!Idle
      /\ User!Become(r, next)
      /\ UNCHANGED <<now, traffic, db, cache, total, bursts>>
  BY DEF User!Judge
<1>2. d \in Nat
  BY UserConstants
<1>3. u \in User!User /\ u.high <= total
  BY <1>2, UserSlot, DbFits, AddTimeoutIs
<1> HIDE DEF u
<1>4. /\ next \in User!Slot /\ next.pc = "sentence"
      /\ next.copy = User!NewUser /\ next.fresh = u
  BY <1>3, IdleIs DEF User!Slot, User!Pcs
<1>5. User!NewUser.high <= total
  BY UserSlot, NewUserIs
<1> HIDE DEF next
<1>6. next.copy.high <= total /\ next.fresh.high <= total
  BY <1>3, <1>4, <1>5
<1>7. userReq[r].pc = "idle"
  BY <1>1 DEF User!Idle
<1> QED
  BY <1>1, <1>4, <1>6, <1>7, UserSlot, QuietTurn

LEMMA UserSentence ==
  ASSUME UserInv, NEW r \in Requests, User!Sentence(r)
  PROVE  UserInv'
<1> DEFINE u == userReq[r].fresh
<1>1. /\ userReq[r].pc = "sentence"
      /\ db' = [db EXCEPT !.times = u.times, !.until = u.until]
      /\ User!Become(r, User!Idle)
      /\ UNCHANGED <<now, traffic, cache, total, bursts>>
  BY DEF User!Sentence
<1>2. /\ User!Idle \in User!Slot /\ User!Idle.pc = "idle"
      /\ User!Idle.copy.high <= total /\ User!Idle.fresh.high <= total
  BY NewUserIs, UserSlot DEF User!Idle, User!Slot, User!Pcs
<1>3. u.times \in Nat /\ u.until \in Nat
  BY UserSlot DEF User!User
<1> HIDE DEF u
<1>4. db' \in User!User /\ db'.high = db.high
  BY <1>1, <1>3, UserSlot DEF User!User
<1>5. cache' = NoEntry \/ (cache' \in User!User /\ cache'.high <= total)
  BY <1>1, UserSlot
<1> QED
  BY <1>1, <1>2, <1>4, <1>5, QuietTurn

\* Two parts that share nothing.
LEMMA Joined ==
  ASSUME NEW A, NEW B, NEW C, A = B \cup C, B \cap C = {},
         IsFiniteSet(C), IsFiniteSet(A) \/ IsFiniteSet(B)
  PROVE  /\ IsFiniteSet(A) /\ IsFiniteSet(B)
         /\ Cardinality(A) = Cardinality(B) + Cardinality(C)
<1>1. IsFiniteSet(B)
  <2>1. B \subseteq A
    OBVIOUS
  <2> QED
    BY <2>1, FS_Subset
<1>2. /\ IsFiniteSet(B \cup C)
      /\ Cardinality(B \cup C) = Cardinality(B) + Cardinality(C) - Cardinality(B \cap C)
  BY <1>1, FS_Union
<1>3. Cardinality(B \cap C) = 0
  BY FS_EmptySet
<1>4. Cardinality(B) \in Nat /\ Cardinality(C) \in Nat
  BY <1>1, FS_CardinalityType
<1> QED
  BY <1>1, <1>2, <1>3, <1>4

\* A turn outside of writing leaves what is on its way.
LEMMA OnTheWayStays ==
  ASSUME NEW r \in Requests, \A q \in Requests : q # r => userReq'[q] = userReq[q],
         userReq[r].pc # "write", userReq'[r].pc # "write"
  PROVE  OnTheWay' = OnTheWay
<1>1. Writing' = Writing /\ r \notin Writing
  BY DEF Writing, InPc
<1>2. \A q \in Writing : userReq'[q].inc = userReq[q].inc
  BY <1>1 DEF Writing, InPc
<1>3. \A x : x \in OnTheWay' <=> x \in OnTheWay
  BY <1>1, <1>2, OnTheWayIs, OnTheWayBecomes
<1> QED
  BY <1>3

\* Incidents are decided.
LEMMA OnTheWayGrows ==
  ASSUME NEW r \in Requests, \A q \in Requests : q # r => userReq'[q] = userReq[q],
         userReq[r].pc # "write", userReq'[r].pc = "write",
         NEW n \in Nat, userReq'[r].inc = n, IsFiniteSet(OnTheWay)
  PROVE  IsFiniteSet(OnTheWay') /\ Cardinality(OnTheWay') = Cardinality(OnTheWay) + n
<1> DEFINE C == {r} \X (1..n)
<1>1. Writing' = Writing \cup {r} /\ r \notin Writing
  BY DEF Writing, InPc
<1>2. \A q \in Writing : userReq'[q].inc = userReq[q].inc
  BY <1>1 DEF Writing, InPc
<1>3. \A x : x \in OnTheWay' <=> x \in OnTheWay \/ x \in C
  BY <1>1, <1>2, OnTheWayIs, OnTheWayBecomes
<1>4. \A x \in C : x \notin OnTheWay
  BY <1>1, OnTheWayIs
<1>5. IsFiniteSet(C) /\ Cardinality(C) = n
  BY OneIncident
<1> HIDE DEF C
<1> DEFINE A == OnTheWay'
           B == OnTheWay
<1>6. A = B \cup C /\ B \cap C = {} /\ (IsFiniteSet(A) \/ IsFiniteSet(B))
  BY <1>3, <1>4
<1> HIDE DEF A, B
<1>7. IsFiniteSet(A) /\ Cardinality(A) = Cardinality(B) + Cardinality(C)
  BY <1>5, <1>6, Joined
<1> QED
  BY <1>5, <1>7 DEF A, B

\* Incidents are written.
LEMMA OnTheWayShrinks ==
  ASSUME NEW r \in Requests, \A q \in Requests : q # r => userReq'[q] = userReq[q],
         userReq[r].pc = "write", userReq'[r].pc # "write",
         NEW n \in Nat, userReq[r].inc = n, IsFiniteSet(OnTheWay)
  PROVE  IsFiniteSet(OnTheWay') /\ Cardinality(OnTheWay) = Cardinality(OnTheWay') + n
<1> DEFINE C == {r} \X (1..n)
<1>1. Writing = Writing' \cup {r} /\ r \notin Writing'
  BY DEF Writing, InPc
<1>2. \A q \in Writing' : userReq'[q].inc = userReq[q].inc
  BY <1>1 DEF Writing, InPc
<1>3. \A x : x \in OnTheWay <=> x \in OnTheWay' \/ x \in C
  BY <1>1, <1>2, OnTheWayIs, OnTheWayBecomes
<1>4. \A x \in C : x \notin OnTheWay'
  BY <1>1, OnTheWayBecomes
<1>5. IsFiniteSet(C) /\ Cardinality(C) = n
  BY OneIncident
<1> HIDE DEF C
<1> DEFINE A == OnTheWay
           B == OnTheWay'
<1>6. A = B \cup C /\ B \cap C = {} /\ IsFiniteSet(A)
  BY <1>3, <1>4
<1> HIDE DEF A, B
<1>7. IsFiniteSet(B) /\ Cardinality(A) = Cardinality(B) + Cardinality(C)
  BY <1>5, <1>6, Joined
<1> QED
  BY <1>5, <1>7 DEF A, B

\* What a turn of slot r leaves of the burst's facts, in numbers.
LEMMA BurstNumbers ==
  ASSUME UserInv
  PROVE  /\ traffic + Cardinality(Adding) <= UserThreshold + Slots - 1
         /\ total + OfRequests(Cardinality(Noticed)) <= OfBursts(bursts)
         /\ traffic >= UserThreshold => bursts > 0 /\ total <= OfBursts(bursts - 1)
         /\ traffic \in Nat /\ total \in Nat /\ bursts \in Nat
         /\ Cardinality(Adding) \in 0..Slots /\ Cardinality(Noticed) \in 0..Slots
         /\ UserThreshold \in Nat /\ UserThreshold >= 1 /\ Slots \in Nat
  BY UserConstants, UserSlot, SomeSlots DEF UserInv, User!TypeOK, BurstsFit, Adding, Noticed

\* Three numbers and the bound of each increment make up BurstsFit.
LEMMA BurstsFitNext ==
  ASSUME traffic' + Cardinality(Adding') <= UserThreshold + Slots - 1,
         \A q \in Noticed' : userReq'[q].inc <= Most,
         total' + OfRequests(Cardinality(Noticed')) <= OfBursts(bursts'),
         traffic' >= UserThreshold => bursts' > 0 /\ total' <= OfBursts(bursts' - 1)
  PROVE  BurstsFit'
<1>1. /\ (OfRequests(Cardinality(Noticed)))' = OfRequests(Cardinality(Noticed'))
      /\ (OfBursts(bursts))' = OfBursts(bursts')
      /\ (OfBursts(bursts - 1))' = OfBursts(bursts' - 1)
  BY DEF OfRequests, OfBursts, Most, User!Incidents, Slots
<1> HIDE DEF Most, Slots, OfRequests, OfBursts
<1> QED
  BY <1>1, SameBounds DEF BurstsFit

LEMMA UserPeek ==
  ASSUME UserInv, NEW r \in Requests, User!Peek(r)
  PROVE  UserInv'
<1> DEFINE n == IF User!Below THEN userReq[r].inc ELSE User!Incidents(traffic)
           pc == IF User!Below THEN "inc" ELSE IF userReq[r].basic THEN "flag" ELSE "load"
           next == [userReq[r] EXCEPT !.inc = n, !.pc = pc]
<1>1. /\ userReq[r].pc = "peek"
      /\ User!Become(r, next)
      /\ UNCHANGED <<now, traffic, db, cache, total, bursts>>
  BY UserSlot DEF User!Peek, User!Slot
<1>2. traffic \in Nat /\ traffic <= UserThreshold + Slots - 1
  BY BurstNumbers
<1>3. User!Incidents(traffic) \in Nat /\ User!Incidents(traffic) <= Most
  BY <1>2, UserConstants, IncidentsGrow, MostIs
<1>4. n \in Nat /\ pc \in User!Pcs
  BY <1>3, UserSlot DEF User!Pcs
<1>5. (User!Below => pc = "inc") /\ (~User!Below => pc \in {"load", "flag"} /\ n <= Most)
  BY <1>3
<1> HIDE DEF n, pc
<1>6. /\ next \in User!Slot /\ next.pc = pc /\ next.inc = n
      /\ next.copy = userReq[r].copy /\ next.fresh = userReq[r].fresh
  BY <1>4, UserSlot DEF User!Slot
<1> HIDE DEF next
<1>7. userReq'[r] = next /\ \A q \in Requests : q # r => userReq'[q] = userReq[q]
  BY <1>1, UserTurn DEF UserInv
<1>8. User!TypeOK'
  <2>1. traffic' \in 0..(UserThreshold + Slots - 1)
    BY <1>1, <1>2
  <2> HIDE DEF Slots
  <2> QED
    BY <1>1, <1>6, <2>1, UserSlot, TurnTypes
<1>9. CopiesFit'
  BY <1>1, <1>6, UserSlot, TurnCopies
<1>10. pc # "write" /\ pc # "peek"
  BY <1>5
<1>11. HighFits'
  <2>1. OnTheWay' = OnTheWay
    BY <1>1, <1>6, <1>7, <1>10, OnTheWayStays
  <2> QED
    BY <1>1, <2>1 DEF UserInv, HighFits
<1>12. \A q \in Noticed' : userReq'[q].inc <= Most
  <2>1. ASSUME NEW q \in Noticed', q # r PROVE userReq'[q].inc <= Most
    <3>1. q \in Noticed /\ userReq'[q] = userReq[q]
      BY <1>7, <2>1 DEF Noticed, InPc
    <3> HIDE DEF Most
    <3> QED
      BY <3>1 DEF UserInv, BurstsFit
  <2>2. r \in Noticed' => pc \in {"load", "flag"}
    BY <1>6, <1>7 DEF Noticed, InPc
  <2>3. r \in Noticed' => userReq'[r].inc <= Most
    BY <1>5, <1>6, <1>7, <2>2
  <2> QED
    BY <2>1, <2>3
<1> DEFINE a == Cardinality(Adding)
           b == Cardinality(Adding')
           c == Cardinality(Noticed)
           e == Cardinality(Noticed')
<1>13. /\ b \in 0..Slots /\ b = IF User!Below THEN a + 1 ELSE a
  BY <1>1, <1>5, <1>6, <1>7, InPcMoves DEF Adding
<1>14. e \in 0..Slots /\ (User!Below => e = c)
  BY <1>1, <1>5, <1>6, <1>7, InPcMoves DEF Noticed
<1>15. /\ traffic + a <= UserThreshold + Slots - 1
       /\ total + OfRequests(c) <= OfBursts(bursts)
       /\ traffic >= UserThreshold => bursts > 0 /\ total <= OfBursts(bursts - 1)
       /\ traffic \in Nat /\ total \in Nat /\ bursts \in Nat /\ a \in 0..Slots
       /\ UserThreshold \in Nat /\ UserThreshold >= 1 /\ Slots \in Nat
  BY BurstNumbers
<1>16. User!Below <=> traffic < UserThreshold
  BY DEF User!Below
<1> HIDE DEF a, b, c, e, Slots, OfRequests, OfBursts, Most
<1>17. traffic + b <= UserThreshold + Slots - 1
  BY <1>13, <1>15, <1>16
<1>18. total + OfRequests(e) <= OfBursts(bursts)
  <2>1. CASE User!Below
    BY <1>14, <1>15, <2>1
  <2>2. CASE ~User!Below
    <3>1. bursts - 1 \in Nat /\ total <= OfBursts(bursts - 1)
      BY <1>15, <1>16, <2>2
    <3>2. /\ OfBursts(bursts - 1) \in Nat
          /\ OfBursts(bursts) = OfBursts(bursts - 1) + OfRequests(Slots)
      <4>1. (bursts - 1) + 1 = bursts
        BY <1>15
      <4> QED
        BY <3>1, <4>1, OfBurstsGrows
    <3>3. OfRequests(e) \in Nat /\ OfRequests(Slots) \in Nat /\ OfRequests(e) <= OfRequests(Slots)
      BY <1>14, <1>15, OfRequestsGrows
    <3> QED
      BY <1>15, <3>1, <3>2, <3>3
  <2> QED
    BY <2>1, <2>2
<1>19. BurstsFit'
  BY <1>1, <1>12, <1>15, <1>17, <1>18, BurstsFitNext DEF b, e
<1> QED
  BY <1>8, <1>9, <1>11, <1>19 DEF UserInv

LEMMA UserInc ==
  ASSUME UserInv, NEW r \in Requests, User!Inc(r)
  PROVE  UserInv'
<1> DEFINE next == User!Counted(userReq[r])
<1>1. /\ userReq[r].pc = "inc"
      /\ User!Become(r, next)
      /\ traffic' = traffic + 1
      /\ bursts' = IF traffic + 1 = UserThreshold THEN bursts + 1 ELSE bursts
      /\ UNCHANGED <<now, db, cache, total>>
  BY DEF User!Inc
<1>2. /\ next \in User!Slot /\ next.pc = "idle"
      /\ next.copy \in {userReq[r].copy, User!NewUser} /\ next.fresh = User!NewUser
  BY UserSlot, CountedIs
<1> HIDE DEF next
<1>3. next.copy.high <= total /\ next.fresh.high <= total
  BY <1>2, UserSlot, NewUserIs
<1>4. userReq'[r] = next /\ \A q \in Requests : q # r => userReq'[q] = userReq[q]
  BY <1>1, UserTurn DEF UserInv
<1> DEFINE a == Cardinality(Adding)
           b == Cardinality(Adding')
           c == Cardinality(Noticed)
           e == Cardinality(Noticed')
<1>5. b \in 0..Slots /\ b = a - 1
  BY <1>1, <1>2, <1>4, InPcMoves DEF Adding
<1>6. e = c
  BY <1>1, <1>2, <1>4, InPcMoves DEF Noticed
<1>7. /\ traffic + a <= UserThreshold + Slots - 1
      /\ total + OfRequests(c) <= OfBursts(bursts)
      /\ traffic >= UserThreshold => bursts > 0 /\ total <= OfBursts(bursts - 1)
      /\ traffic \in Nat /\ total \in Nat /\ bursts \in Nat
      /\ a \in 0..Slots /\ c \in 0..Slots
      /\ UserThreshold \in Nat /\ UserThreshold >= 1 /\ Slots \in Nat
  BY BurstNumbers
<1> HIDE DEF a, b, c, e, Slots, OfRequests, OfBursts, Most
<1>8. traffic' + b <= UserThreshold + Slots - 1 /\ traffic' \in 0..(UserThreshold + Slots - 1)
  BY <1>1, <1>5, <1>7
<1>9. User!TypeOK'
  <2>1. bursts' \in Nat
    BY <1>1, <1>7
  <2> QED
    BY <1>1, <1>2, <1>8, <2>1, UserSlot, TurnTypes
<1>10. CopiesFit'
  BY <1>1, <1>2, <1>3, UserSlot, TurnCopies
<1>11. HighFits'
  <2>1. OnTheWay' = OnTheWay
    BY <1>1, <1>2, <1>4, OnTheWayStays
  <2> QED
    BY <1>1, <2>1 DEF UserInv, HighFits
<1>12. \A q \in Noticed' : userReq'[q].inc <= Most
  <2>1. ASSUME NEW q \in Noticed' PROVE q \in Noticed /\ userReq'[q] = userReq[q]
    BY <1>2, <1>4 DEF Noticed, InPc
  <2> QED
    BY <2>1 DEF UserInv, BurstsFit
<1>13. /\ OfBursts(bursts) \in Nat /\ OfBursts(bursts + 1) = OfBursts(bursts) + OfRequests(Slots)
       /\ OfRequests(Slots) \in Nat /\ OfRequests(c) \in Nat
  BY <1>7, OfBurstsGrows, OfRequestsGrows
<1>14. total + OfRequests(e) <= OfBursts(bursts')
  BY <1>1, <1>6, <1>7, <1>13
<1>15. traffic' >= UserThreshold => bursts' > 0 /\ total <= OfBursts(bursts' - 1)
  <2>1. CASE traffic + 1 = UserThreshold
    <3>1. bursts' = bursts + 1 /\ bursts' - 1 = bursts /\ bursts' > 0
      BY <1>1, <1>7, <2>1
    <3>2. total <= OfBursts(bursts)
      BY <1>7, <1>13
    <3> QED
      BY <3>1, <3>2
  <2>2. CASE traffic + 1 # UserThreshold
    BY <1>1, <1>7, <2>2
  <2> QED
    BY <2>1, <2>2
<1>16. BurstsFit'
  BY <1>1, <1>8, <1>12, <1>14, <1>15, BurstsFitNext DEF b, e
<1> QED
  BY <1>9, <1>10, <1>11, <1>16 DEF UserInv

LEMMA UserFlag ==
  ASSUME UserInv, NEW r \in Requests, User!Flag(r)
  PROVE  UserInv'
<1> DEFINE old == userReq[r].fresh
           n == userReq[r].inc
           f == IF User!TimeOutIsDue(r) THEN User!AddTimeout(old, Duration) ELSE old
           u == [f EXCEPT !.high = @ + n]
           out == User!TimeOutIsDue(r)
           next == [userReq[r] EXCEPT !.pc = "write", !.fresh = u, !.out = out]
<1>1. /\ userReq[r].pc = "flag"
      /\ User!Become(r, next)
      /\ cache' = u
      /\ traffic' = 0
      /\ total' = total + n
      /\ UNCHANGED <<now, db, bursts>>
  BY DEF User!Flag, User!Reset
<1>2. /\ old \in User!User /\ old.high <= total /\ n \in Nat /\ total \in Nat
      /\ now \in Nat /\ Duration \in Nat
  BY UserSlot, UserConstants
<1>3. out \in BOOLEAN
  BY DEF User!TimeOutIsDue
<1> HIDE DEF old, n, out
<1>4. f \in User!User /\ f.high = old.high
  BY <1>2, AddTimeoutIs
<1> HIDE DEF f
<1>5. u \in User!User /\ u.high = old.high + n /\ old.high \in Nat
  BY <1>2, <1>4 DEF User!User
<1> HIDE DEF u
<1>6. u.high <= total' /\ total' \in Nat /\ total <= total'
  BY <1>1, <1>2, <1>5
<1>7. /\ next \in User!Slot /\ next.pc = "write" /\ next.fresh = u
      /\ next.copy = userReq[r].copy /\ next.inc = n
  BY <1>3, <1>5, UserSlot DEF User!Slot, User!Pcs, n
<1> HIDE DEF next
<1>8. next.copy.high <= total' /\ next.fresh.high <= total'
  <2>1. userReq[r].copy.high \in Nat /\ userReq[r].copy.high <= total
    BY UserSlot DEF User!User
  <2> QED
    BY <1>1, <1>2, <1>6, <1>7, <2>1
<1>9. userReq'[r] = next /\ \A q \in Requests : q # r => userReq'[q] = userReq[q]
  BY <1>1, UserTurn DEF UserInv
<1> DEFINE a == Cardinality(Adding)
           b == Cardinality(Adding')
           c == Cardinality(Noticed)
           e == Cardinality(Noticed')
<1>10. b = a
  BY <1>1, <1>7, <1>9, InPcMoves DEF Adding
<1>11. e \in 0..Slots /\ e = c - 1
  BY <1>1, <1>7, <1>9, InPcMoves DEF Noticed
<1>12. /\ total + OfRequests(c) <= OfBursts(bursts)
       /\ bursts \in Nat /\ a \in 0..Slots /\ c \in 0..Slots
       /\ UserThreshold \in Nat /\ UserThreshold >= 1 /\ Slots \in Nat
  BY BurstNumbers
<1>13. n <= Most
  <2>1. r \in Noticed
    BY <1>1 DEF Noticed, InPc
  <2> QED
    BY <2>1 DEF UserInv, BurstsFit, n
<1>14. \A q \in Noticed' : userReq'[q].inc <= Most
  <2>1. ASSUME NEW q \in Noticed' PROVE q \in Noticed /\ userReq'[q] = userReq[q]
    BY <1>7, <1>9 DEF Noticed, InPc
  <2> QED
    BY <2>1 DEF UserInv, BurstsFit
<1> HIDE DEF a, b, c, e, Slots, OfRequests, OfBursts, Most
<1>15. traffic' + b <= UserThreshold + Slots - 1 /\ traffic' \in 0..(UserThreshold + Slots - 1)
  BY <1>1, <1>10, <1>12
<1>16. User!TypeOK'
  BY <1>1, <1>5, <1>6, <1>7, <1>12, <1>15, UserSlot, TurnTypes
<1>17. CopiesFit'
  BY <1>1, <1>6, <1>7, <1>8, TurnCopies
<1>18. HighFits'
  <2> DEFINE B == OnTheWay
             A == OnTheWay'
  <2>1. IsFiniteSet(B) /\ db.high + Cardinality(B) = total
    BY DEF UserInv, HighFits
  <2>2. IsFiniteSet(A) /\ Cardinality(A) = Cardinality(B) + n
    BY <1>1, <1>2, <1>7, <1>9, <2>1, OnTheWayGrows
  <2> HIDE DEF A, B
  <2>3. Cardinality(B) \in Nat /\ db.high \in Nat
    BY <2>1, FS_CardinalityType, UserSlot
  <2>4. db'.high + Cardinality(A) = total'
    BY <1>1, <1>2, <2>1, <2>2, <2>3
  <2> QED
    BY <2>2, <2>4 DEF A, HighFits
<1>19. total' + OfRequests(e) <= OfBursts(bursts')
  <2>1. e \in Nat /\ c = e + 1
    BY <1>11, <1>12
  <2>2. OfRequests(e) \in Nat /\ OfRequests(c) = OfRequests(e) + Most
    BY <2>1, OfRequestsGrows
  <2>3. Most \in Nat /\ OfBursts(bursts) \in Nat
    BY <1>12, MostIs, OfBurstsGrows
  <2> QED
    BY <1>1, <1>2, <1>12, <1>13, <2>2, <2>3
<1>20. ~ traffic' >= UserThreshold
  BY <1>1, <1>12
<1>21. BurstsFit'
  BY <1>14, <1>15, <1>19, <1>20, BurstsFitNext DEF b, e
<1> QED
  BY <1>16, <1>17, <1>18, <1>21 DEF UserInv

LEMMA UserWrite ==
  ASSUME UserInv, NEW r \in Requests, User!Write(r)
  PROVE  UserInv'
<1> DEFINE n == userReq[r].inc
           times == IF userReq[r].out THEN userReq[r].fresh.times ELSE db.times
           until == IF userReq[r].out THEN userReq[r].fresh.until ELSE db.until
           next == User!Counted(userReq[r])
<1>1. /\ userReq[r].pc = "write"
      /\ User!Become(r, next)
      /\ db' = [db EXCEPT !.high = @ + n, !.times = times, !.until = until]
      /\ UNCHANGED <<now, traffic, cache, total, bursts>>
  BY DEF User!Write
<1>2. times \in Nat /\ until \in Nat /\ n \in Nat /\ db.high \in Nat
  BY UserSlot DEF User!User
<1> HIDE DEF n, times, until
<1>3. db' \in User!User /\ db'.high = db.high + n
  <2> DEFINE high == db.high + n
  <2>1. high \in Nat /\ db' = [db EXCEPT !.high = high, !.times = times, !.until = until]
    BY <1>1, <1>2
  <2> HIDE DEF high
  <2>2. db' \in User!User /\ db'.high = high
    BY <1>2, <2>1, UserSlot DEF User!User
  <2> QED
    BY <2>2 DEF high
<1>4. /\ next \in User!Slot /\ next.pc = "idle"
      /\ next.copy \in {userReq[r].copy, User!NewUser} /\ next.fresh = User!NewUser
  BY UserSlot, CountedIs
<1> HIDE DEF next
<1>5. next.copy.high <= total /\ next.fresh.high <= total
  BY <1>4, UserSlot, NewUserIs
<1>6. userReq'[r] = next /\ \A q \in Requests : q # r => userReq'[q] = userReq[q]
  BY <1>1, UserTurn DEF UserInv
<1>7. User!TypeOK'
  <2>1. traffic' \in 0..(UserThreshold + Slots - 1)
    BY <1>1, SameCounting DEF UserInv, User!TypeOK, Slots
  <2> HIDE DEF Slots
  <2> QED
    BY <1>1, <1>3, <1>4, <2>1, UserSlot, TurnTypes
<1>8. CopiesFit'
  BY <1>1, <1>4, <1>5, UserSlot, TurnCopies
<1>9. HighFits'
  <2> DEFINE B == OnTheWay
             A == OnTheWay'
  <2>1. IsFiniteSet(B) /\ db.high + Cardinality(B) = total
    BY DEF UserInv, HighFits
  <2>2. userReq[r].inc = n
    BY DEF n
  <2>3. IsFiniteSet(A) /\ Cardinality(B) = Cardinality(A) + n
    BY <1>1, <1>2, <1>4, <1>6, <2>1, <2>2, OnTheWayShrinks
  <2> HIDE DEF A, B
  <2>4. Cardinality(A) \in Nat
    BY <2>3, FS_CardinalityType
  <2>5. db'.high + Cardinality(A) = total'
    BY <1>1, <1>2, <1>3, <2>1, <2>3, <2>4
  <2> QED
    BY <2>3, <2>5 DEF A, HighFits
<1>10. Adding' = Adding /\ Noticed' = Noticed
  BY <1>1, <1>4, <1>6 DEF Adding, Noticed, InPc
<1>11. BurstsFit'
  <2>1. \A q \in Noticed' : userReq'[q].inc <= Most
    <3>1. ASSUME NEW q \in Noticed' PROVE q \in Noticed /\ userReq'[q] = userReq[q]
      BY <1>1, <1>6, <1>10 DEF Noticed, InPc
    <3> QED
      BY <3>1 DEF UserInv, BurstsFit
  <2> HIDE DEF Slots, OfRequests, OfBursts, Most, Adding, Noticed
  <2> QED
    BY <1>1, <1>10, <2>1, BurstNumbers, BurstsFitNext
<1> QED
  BY <1>7, <1>8, <1>9, <1>11 DEF UserInv

\* The counter is cleared, the cached user is dropped, time passes.
LEMMA UserRest ==
  ASSUME UserInv, User!Clear \/ User!Evict \/ User!Tick \/ UNCHANGED userVars
  PROVE  UserInv'
<1>1. /\ UNCHANGED <<userReq, total, bursts, db>>
      /\ traffic' \in {traffic, 0}
      /\ cache' \in {cache, NoEntry}
      /\ now' = now \/ (now < MaxTime /\ now' = now + 1)
  BY DEF User!Clear, User!Evict, User!Tick, userVars
<1>2. HighFits' /\ BurstsFit'
  BY <1>1, TrafficKept
<1>3. CopiesFit'
  BY <1>1 DEF UserInv, CopiesFit
<1>4. now' \in 0..MaxTime
  BY <1>1, UserConstants DEF UserInv, User!TypeOK
<1>5. traffic' \in 0..(UserThreshold + User!Cardinality(Requests) - 1)
  BY <1>1, UserConstants, SameCounting DEF UserInv, User!TypeOK, Slots
<1>6. User!TypeOK'
  BY <1>1, <1>4, <1>5 DEF UserInv, User!TypeOK
<1> QED
  BY <1>2, <1>3, <1>6 DEF UserInv

LEMMA UserStep == ASSUME UserInv, User!Next PROVE UserInv'
  BY UserEnter, UserEnterBasic, UserLeave, UserPeek, UserInc, UserLoad, UserFlag, UserWrite,
     UserJudge, UserSentence, UserRest DEF User!Next

LEMMA UserInit == User!Init => UserInv
<1> SUFFICES ASSUME User!Init PROVE UserInv
  OBVIOUS
<1>1. \A r \in Requests : userReq[r] = User!Idle
  BY DEF User!Init
<1>2. /\ traffic = 0 /\ db = User!NewUser /\ cache = NoEntry /\ total = 0 /\ bursts = 0
      /\ now = 0 /\ userReq \in [Requests -> User!Slot]
  BY IdleIs DEF User!Init
<1>3. User!TypeOK
  <2>1. 0 \in 0..MaxTime /\ 0 \in 0..(UserThreshold + Slots - 1)
    BY UserConstants
  <2>2. traffic \in 0..(UserThreshold + User!Cardinality(Requests) - 1)
    BY <1>2, <2>1, SameCounting DEF Slots
  <2> QED
    BY <1>2, <2>1, <2>2, NewUserIs DEF User!TypeOK
<1>4. CopiesFit
  BY <1>1, <1>2, IdleIs, NewUserIs DEF CopiesFit
<1>5. Adding = {} /\ Noticed = {} /\ Writing = {}
  BY <1>1, IdleIs DEF Adding, Noticed, Writing, InPc
<1>6. Cardinality({}) = 0 /\ IsFiniteSet({})
  BY FS_EmptySet
<1>7. HighFits
  <2>1. OnTheWay = {}
    BY <1>5, OnTheWayIs
  <2> QED
    BY <1>2, <1>6, <2>1, NewUserIs DEF HighFits
<1>8. BurstsFit
  <2>1. OfRequests(0) = 0 /\ OfBursts(0) = 0
    <3>1. Most \in Nat /\ Slots \in Nat
      BY MostIs, UserConstants
    <3>2. OfRequests(Slots) \in Nat
      BY <3>1, OfRequestsGrows
    <3> HIDE DEF Most, Slots
    <3>3. OfRequests(0) = 0
      BY <3>1 DEF OfRequests
    <3> HIDE DEF OfRequests
    <3> QED
      BY <3>2, <3>3 DEF OfBursts
  <2> HIDE DEF OfRequests, OfBursts, Slots, Most
  <2> QED
    BY <1>2, <1>5, <1>6, <2>1, UserConstants DEF BurstsFit
<1> QED
  BY <1>3, <1>4, <1>7, <1>8 DEF UserInv

-----------------------------------------------------------------------------
(***************************************************************************)
(* The two protections together.                                           *)
(***************************************************************************)
LEMMA InvIpInv == Spec => []IpInv
<1>1. Init => IpInv
  BY IpInit DEF Init
<1>2. IpInv /\ [Next]_vars => IpInv'
  BY IpStep, IpStutters DEF Next, ByIp, ByUser, vars
<1> QED
  BY <1>1, <1>2, PTL DEF Spec

LEMMA InvUserInv == Spec => []UserInv
<1>1. Init => UserInv
  BY UserInit DEF Init
<1>2. UserInv /\ [Next]_vars => UserInv'
  BY UserStep, UserRest DEF Next, ByIp, ByUser, vars
<1> QED
  BY <1>1, <1>2, PTL DEF Spec

\* However many IPs and requests there are, the guard's tables stay what they
\* are: the traffic cache never tracks more IPs than it was made for, each at
\* most once, and increments that race (the counter is read before the user is
\* looked up and written after) take a user's counter at most one below the
\* threshold plus the requests under way.
THEOREM TypeCorrect == Spec => []TypeOK
<1>1. IpInv /\ UserInv => TypeOK
  BY DEF IpInv, UserInv, TypeOK
<1> QED
  BY <1>1, InvIpInv, InvUserInv, PTL

\* addTrafficToIpTrafficMap compares the counter, and adds to it later: whatever
\* the interleaving of the requests under way, between two moments at which an IP
\* is forgotten (pushed out of the cache, cleared by the cron) or forgiven (its
\* time-out passes) it gets no more requests through than the threshold and two
\* for each request that can be under way.
THEOREM ServedIsBounded == Spec => []ServedBound
<1>1. IpInv => ServedBound
  <2> SUFFICES ASSUME IpInv PROVE ServedBound
    OBVIOUS
  <2>1. \A ip \in Ips : served[ip] <= IpThreshold + 2 * IpSlots
    BY Zenon DEF IpInv, IpFits
  <2>2. IpSlots = Ip!Cardinality(IpRequests)
    BY SameCounting DEF IpSlots
  <2>3. \A ip \in Ips : served[ip] <= IpThreshold + 2 * Ip!Cardinality(IpRequests)
    BY Zenon, <2>1, <2>2
  <2> QED
    BY Zenon, <2>3 DEF ServedBound, Ip!ServedBound
<1> QED
  BY <1>1, InvIpInv, PTL

\* addTrafficToUserTrafficMap decides an incident on the copy, caches the copy
\* and patches the database later, while other requests do the same: no
\* incident is lost or added twice, and no copy accuses the user of more than
\* was decided.
THEOREM IncidentsAreKept == Spec => []IncidentsAddUp
<1>1. UserInv => IncidentsAddUp
  <2> SUFFICES ASSUME UserInv PROVE IncidentsAddUp
    OBVIOUS
  <2>1. ASSUME \A r \in Requests : userReq[r].pc # "write" PROVE db.high = total
    <3>1. OnTheWay = {}
      BY <2>1, OnTheWayIs DEF Writing, InPc
    <3>2. db.high + Cardinality({}) = total /\ Cardinality({}) = 0
      BY <3>1, FS_EmptySet DEF UserInv, HighFits
    <3>3. db.high \in Nat
      BY DEF UserInv, User!TypeOK, User!User
    <3> QED
      BY <3>2, <3>3
  <2>2. cache # NoEntry => cache.high <= total
    BY DEF UserInv, CopiesFit
  <2> QED
    BY <2>1, <2>2, DbFits DEF IncidentsAddUp, User!IncidentsAddUp
<1> QED
  BY <1>1, InvUserInv, PTL

\* addTrafficToUserTrafficMap resets the counter when an incident is flagged;
\* requests that saw it at the threshold before are incidents as well.  Yet each
\* time the counter reaches the threshold gives at most one record for each
\* request under way, of as many incidents as racing increments can amount to.
THEOREM BurstsAreBounded == Spec => []IncidentsPerBurst
<1>1. UserInv => IncidentsPerBurst
  <2> SUFFICES ASSUME UserInv PROVE IncidentsPerBurst
    OBVIOUS
  <2> DEFINE c == Cardinality(Noticed)
  <2>1. /\ total + OfRequests(c) <= OfBursts(bursts)
        /\ total \in Nat /\ bursts \in Nat /\ c \in 0..Slots /\ Slots \in Nat
    BY BurstNumbers
  <2>2. OfRequests(c) \in Nat /\ OfBursts(bursts) \in Nat
    BY <2>1, OfRequestsGrows, OfBurstsGrows
  <2>3. total <= OfBursts(bursts)
    <3> HIDE DEF c, OfRequests, OfBursts
    <3> QED
      BY <2>1, <2>2
  <2>4. Most \in Nat
    BY MostIs
  <2>5. OfBursts(bursts) = bursts * Slots * Most
    <3>1. OfBursts(bursts) = Most * Slots * bursts
      BY DEF OfBursts, OfRequests
    <3> HIDE DEF Most, Slots
    <3> QED
      BY <2>1, <2>4, <3>1
  <2>6. IncidentsPerBurst <=> total <= bursts * Slots * Most
    BY SameCounting DEF IncidentsPerBurst, User!IncidentsPerBurst, Slots, Most
  <2> HIDE DEF Slots, Most
  <2> QED
    BY <2>3, <2>5, <2>6
<1> QED
  BY <1>1, InvUserInv, PTL
=============================================================================
