--------------------------- MODULE AccountProofs ---------------------------
(***************************************************************************)
(* Proofs about Account, for any requests, limits and times.               *)
(*                                                                         *)
(* The components are side by side, so each has an invariant of its own.   *)
(* Where requests race, it weighs what is written and what is on its way:  *)
(* a counter in the database and the number of slots that may yet add to   *)
(* it are bounded together, though neither is bounded alone.  For links    *)
(* that is a potential: what was made is weighed against how far the     *)
(* slots have come.                                                        *)
(***************************************************************************)
EXTENDS Account, Sequences, Combinatorics, TLAPS, FiniteSetTheorems

-----------------------------------------------------------------------------
(***************************************************************************)
(* Sets of slots.                                                          *)
(***************************************************************************)

Slots == Cardinality(Requests)

LEMMA RequestsAreFinite == IsFiniteSet(Requests) /\ Requests # {} /\ Slots \in Nat \ {0}
<1>1. IsFiniteSet(Requests) /\ Requests # {}
  BY AccountAssumption
     DEF AccountAssumption, SignIn!LoginAssumption, SignIn!IsFiniteSet, IsFiniteSet
<1>2. Slots \in Nat /\ Slots # 0
  BY <1>1, FS_CardinalityType, FS_EmptySet DEF Slots
<1> QED
  BY <1>1, <1>2

\* When one slot moves, a set of slots has one more, one less, or as many.
LEMMA OneMoves ==
  ASSUME NEW A, NEW B, A \subseteq Requests, B \subseteq Requests,
         NEW r \in Requests, \A q \in Requests : q # r => (q \in A <=> q \in B)
  PROVE  /\ Cardinality(A) \in 0..Slots /\ Cardinality(B) \in 0..Slots
         /\ (r \in A <=> r \in B) => Cardinality(B) = Cardinality(A)
         /\ r \notin A /\ r \in B => Cardinality(B) = Cardinality(A) + 1
         /\ r \in A /\ r \notin B => Cardinality(B) = Cardinality(A) - 1
<1>1. /\ IsFiniteSet(A) /\ Cardinality(A) \in Nat /\ Cardinality(A) <= Slots
      /\ IsFiniteSet(B) /\ Cardinality(B) \in Nat /\ Cardinality(B) <= Slots
  BY RequestsAreFinite, FS_Subset, FS_CardinalityType DEF Slots
<1>2. (r \in A <=> r \in B) => A = B
  OBVIOUS
<1>3. ASSUME r \notin A, r \in B PROVE Cardinality(B) = Cardinality(A) + 1
  <2>1. B = A \cup {r}
    BY <1>3
  <2> QED
    BY <1>1, <1>3, <2>1, FS_AddElement
<1>4. ASSUME r \in A, r \notin B PROVE Cardinality(B) = Cardinality(A) - 1
  <2>1. A = B \cup {r}
    BY <1>4
  <2> QED
    BY <1>1, <1>4, <2>1, FS_AddElement
<1> QED
  BY <1>1, <1>2, <1>3, <1>4

-----------------------------------------------------------------------------
(***************************************************************************)
(* In how many ways f can be chosen of p + f: Pascal's triangle.  The      *)
(* factorials are given by a recursive function; that it exists is shown   *)
(* by exhibiting one, and inductions go by the least counterexample.       *)
(***************************************************************************)

Less == {e \in Nat \X Nat : e[1] < e[2]}

\* A set of natural numbers has a least one.
LEMMA LeastNumber ==
  ASSUME NEW T, T \subseteq Nat, T # {}
  PROVE  \E y \in T : \A z \in T : y <= z
<1>1. IsWellFoundedOn(Less, Nat)
  BY NatLessThanWellFounded, Zenon DEF Less, OpToRel
<1>2. PICK y \in T : \A z \in T : ~(<<z, y>> \in Less)
  BY <1>1, WFMin
<1>3. ASSUME NEW z \in T, z < y PROVE FALSE
  <2> DEFINE e == <<z, y>>
  <2>1. e \in Nat \X Nat /\ e[1] < e[2]
    BY <1>3
  <2>2. e \in Less
    BY <2>1 DEF Less
  <2> QED
    BY <1>2, <2>2
<1> QED
  BY <1>2, <1>3

\* The factorials up to n.
FactorialsTo(n, g) ==
  /\ g \in [0..n -> Nat \ {0}]
  /\ g[0] = 1
  /\ \A i \in 1..n : g[i] = i * g[i - 1]

LEMMA ProductIsPositive ==
  ASSUME NEW a \in Nat \ {0}, NEW b \in Nat \ {0}
  PROVE  a * b \in Nat \ {0}
  OBVIOUS

\* There are factorials up to any number ...
LEMMA FactorialsExist == \A n \in Nat : \E g : FactorialsTo(n, g)
<1> DEFINE T == {n \in Nat : ~ \E g : FactorialsTo(n, g)}
<1>1. SUFFICES ASSUME T # {} PROVE FALSE
  OBVIOUS
<1>2. PICK n \in T : \A z \in T : n <= z
  BY <1>1, LeastNumber
<1>3. n \in Nat /\ ~ \E g : FactorialsTo(n, g)
  OBVIOUS
<1> HIDE DEF T
<1>4. CASE n = 0
  <2> DEFINE g == [i \in 0..0 |-> 1]
  <2>1. FactorialsTo(0, g)
    BY DEF FactorialsTo
  <2> QED
    BY <1>3, <1>4, <2>1
<1>5. CASE n # 0
  <2>1. n - 1 \in Nat /\ n - 1 \notin T
    BY <1>2, <1>3, <1>5
  <2>2. PICK g : FactorialsTo(n - 1, g)
    BY <2>1 DEF T
  <2> DEFINE h == [i \in 0..n |-> IF i = n THEN n * g[n - 1] ELSE g[i]]
  <2>3. /\ g \in [0..(n - 1) -> Nat \ {0}] /\ g[0] = 1
        /\ \A i \in 1..(n - 1) : g[i] = i * g[i - 1]
    BY <2>2 DEF FactorialsTo
  <2>4. n * g[n - 1] \in Nat \ {0}
    <3>1. n \in Nat \ {0} /\ g[n - 1] \in Nat \ {0}
      BY <1>3, <1>5, <2>3
    <3> QED
      BY <3>1, ProductIsPositive
  <2>5. h \in [0..n -> Nat \ {0}] /\ h[0] = 1
    BY <1>3, <1>5, <2>3, <2>4
  <2>6. ASSUME NEW i \in 1..n PROVE h[i] = i * h[i - 1]
    <3>1. i \in 0..n /\ i - 1 \in 0..n /\ i - 1 # n
      BY <1>3
    <3>2. h[i - 1] = g[i - 1]
      BY <3>1
    <3>3. CASE i = n
      BY <3>1, <3>2, <3>3
    <3>4. CASE i # n
      <4>1. i \in 1..(n - 1)
        BY <1>3, <3>4
      <4> QED
        BY <2>3, <3>1, <3>2, <3>4, <4>1
    <3> QED
      BY <3>3, <3>4
  <2> HIDE DEF h
  <2>7. FactorialsTo(n, h)
    BY <2>5, <2>6 DEF FactorialsTo
  <2> QED
    BY <1>3, <2>7
<1> QED
  BY <1>4, <1>5

\* ... and no two of them differ where both are given.
LEMMA FactorialsAgree ==
  ASSUME NEW n \in Nat, NEW m \in 0..n, NEW g, NEW h, FactorialsTo(m, g), FactorialsTo(n, h)
  PROVE  \A i \in 0..m : g[i] = h[i]
<1> DEFINE T == {i \in 0..m : g[i] # h[i]}
<1>1. SUFFICES ASSUME T # {} PROVE FALSE
  OBVIOUS
<1>2. T \subseteq Nat
  OBVIOUS
<1>3. PICK i \in T : \A z \in T : i <= z
  BY <1>1, <1>2, LeastNumber
<1>4. i \in 0..m /\ g[i] # h[i]
  OBVIOUS
<1>5. i # 0
  BY <1>4 DEF FactorialsTo
<1>6. i - 1 \in 0..m /\ i - 1 \notin T /\ i \in 1..m /\ i \in 1..n
  BY <1>3, <1>4, <1>5
<1>7. g[i - 1] = h[i - 1]
  BY <1>6
<1> QED
  BY <1>4, <1>6, <1>7 DEF FactorialsTo

\* What the recursive function of Combinatorics is.
LEMMA Factorials ==
  /\ factorial[0] = 1
  /\ \A n \in Nat : factorial[n] \in Nat \ {0}
  /\ \A n \in Nat \ {0} : factorial[n] = n * factorial[n - 1]
<1> DEFINE upto(n) == CHOOSE g : FactorialsTo(n, g)
           f == [n \in Nat |-> upto(n)[n]]
<1>1. ASSUME NEW n \in Nat PROVE FactorialsTo(n, upto(n))
  BY FactorialsExist
<1>2. \A n \in Nat : f[n] = upto(n)[n]
  OBVIOUS
<1> HIDE DEF upto, f
<1>3. ASSUME NEW n \in Nat PROVE f[n] \in Nat \ {0}
  <2>1. n \in 0..n
    OBVIOUS
  <2>2. upto(n) \in [0..n -> Nat \ {0}]
    BY <1>1 DEF FactorialsTo
  <2> QED
    BY <1>2, <2>1, <2>2
<1>4. f[0] = 1
  BY <1>1, <1>2 DEF FactorialsTo
<1>5. ASSUME NEW n \in Nat \ {0} PROVE f[n] = n * f[n - 1]
  <2>1. n - 1 \in Nat /\ n - 1 \in 0..n /\ n - 1 \in 0..(n - 1) /\ n \in 1..n
    OBVIOUS
  <2>2. FactorialsTo(n, upto(n)) /\ FactorialsTo(n - 1, upto(n - 1))
    BY <1>1, <2>1
  <2>3. upto(n - 1)[n - 1] = upto(n)[n - 1]
    BY <2>1, <2>2, FactorialsAgree
  <2> QED
    BY <1>2, <2>1, <2>2, <2>3 DEF FactorialsTo
<1>6. f = [n \in Nat |-> IF n = 0 THEN 1 ELSE n * f[n - 1]]
  <2>1. \A n \in Nat : f[n] = IF n = 0 THEN 1 ELSE n * f[n - 1]
    BY <1>4, <1>5
  <2>2. f = [n \in Nat |-> f[n]]
    BY DEF f
  <2> QED
    BY <2>1, <2>2
<1>7. factorial = [n \in Nat |-> IF n = 0 THEN 1 ELSE n * factorial[n - 1]]
  BY <1>6 DEF factorial
<1>8. factorial[0] = 1
  BY <1>7
<1>9. ASSUME NEW n \in Nat \ {0} PROVE factorial[n] = n * factorial[n - 1]
  BY <1>7
<1> DEFINE T == {n \in Nat : factorial[n] \notin Nat \ {0}}
<1>10. T = {}
  <2>1. SUFFICES ASSUME T # {} PROVE FALSE
    OBVIOUS
  <2>2. PICK n \in T : \A z \in T : n <= z
    BY <2>1, LeastNumber
  <2>3. n \in Nat \ {0}
    BY <1>8
  <2>4. n - 1 \in Nat /\ n - 1 \notin T
    BY <2>2, <2>3
  <2>5. factorial[n - 1] \in Nat \ {0}
    BY <2>4
  <2> HIDE DEF T
  <2>6. factorial[n] \in Nat \ {0}
    BY <1>9, <2>3, <2>5, ProductIsPositive
  <2> QED
    BY <2>6 DEF T
<1> QED
  BY <1>8, <1>9, <1>10

\* In how many ways f can be chosen of p + f.
Ways(p, f) == choose(p + f, f)

LEMMA Quotient ==
  ASSUME NEW a \in Nat, NEW b \in Nat \ {0}, NEW d \in Nat, a = d * b
  PROVE  a \div b = d
  OBVIOUS

\* (p + f)! is a multiple of f! p!.
Divides(p, f) ==
  \E d \in Nat \ {0} : factorial[p + f] = d * (factorial[f] * factorial[p])

\* x and y stand for (p - 1)! and (f - 1)!, z for (p + f - 1)!.
LEMMA SumOfMultiples ==
  ASSUME NEW p \in Nat \ {0}, NEW f \in Nat \ {0}, NEW x \in Nat, NEW y \in Nat,
         NEW z \in Nat, NEW d \in Nat, NEW e \in Nat,
         z = d * ((f * y) * x), z = e * (y * (p * x))
  PROVE  (p + f) * z = (d + e) * ((f * y) * (p * x))
<1>1. p * z = d * ((f * y) * (p * x))
  BY Z3
<1>2. f * z = e * ((f * y) * (p * x))
  BY Z3
<1> DEFINE w == (f * y) * (p * x)
<1>3. w \in Nat
  OBVIOUS
<1> HIDE DEF w
<1>4. (p + f) * z = d * w + e * w
  BY <1>1, <1>2 DEF w
<1> QED
  BY <1>3, <1>4 DEF w

LEMMA AlwaysDivides == \A p, f \in Nat : Divides(p, f)
<1> DEFINE T == {n \in Nat : \E p, f \in Nat : p + f = n /\ ~Divides(p, f)}
<1>1. SUFFICES ASSUME T # {} PROVE FALSE
  <2>1. ASSUME NEW p \in Nat, NEW f \in Nat, ~Divides(p, f) PROVE p + f \in T
    BY <2>1
  <2>2. T = {} => \A p, f \in Nat : Divides(p, f)
    <3> HIDE DEF T
    <3> QED
      BY <2>1
  <2> HIDE DEF T
  <2> QED
    BY <2>2
<1>2. PICK n \in T : \A z \in T : n <= z
  BY <1>1, LeastNumber
<1>3. PICK p \in Nat, f \in Nat : n \in Nat /\ p + f = n /\ ~Divides(p, f)
  OBVIOUS
<1>4. ASSUME NEW q \in Nat, NEW g \in Nat, q + g < n PROVE Divides(q, g)
  <2>1. q + g \in Nat /\ q + g \notin T
    <3> HIDE DEF T
    <3> QED
      BY <1>2, <1>3, <1>4
  <2> QED
    BY <2>1
<1> HIDE DEF T
<1>5. CASE p = 0
  <2>1. factorial[p + f] = 1 * (factorial[f] * factorial[p])
    BY <1>5, Factorials
  <2> QED
    BY <1>3, <2>1 DEF Divides
<1>6. CASE f = 0
  <2>1. factorial[p + f] = 1 * (factorial[f] * factorial[p])
    BY <1>6, Factorials
  <2> QED
    BY <1>3, <2>1 DEF Divides
<1>7. CASE p # 0 /\ f # 0
  <2>1. /\ p - 1 \in Nat /\ f - 1 \in Nat /\ p + f - 1 \in Nat
        /\ p - 1 + f < n /\ p + (f - 1) < n /\ p + f \in Nat \ {0}
        /\ p - 1 + f = p + f - 1 /\ p + (f - 1) = p + f - 1
    BY <1>3, <1>7
  <2>2. Divides(p - 1, f) /\ Divides(p, f - 1)
    BY <1>4, <2>1
  <2> DEFINE x == factorial[p - 1]  y == factorial[f - 1]  z == factorial[p + f - 1]
  <2>3. /\ factorial[p] = p * x /\ factorial[f] = f * y
        /\ factorial[p + f] = (p + f) * z
        /\ x \in Nat /\ y \in Nat /\ z \in Nat
    BY <1>7, <2>1, Factorials
  <2>4. PICK d \in Nat \ {0} : z = d * (factorial[f] * x)
    BY <2>1, <2>2 DEF Divides
  <2>5. PICK e \in Nat \ {0} : z = e * (y * factorial[p])
    BY <2>1, <2>2 DEF Divides
  <2> HIDE DEF x, y, z
  <2>6. (p + f) * z = (d + e) * ((f * y) * (p * x))
    BY <1>7, <2>3, <2>4, <2>5, SumOfMultiples
  <2>7. d + e \in Nat \ {0}
    OBVIOUS
  <2> QED
    BY <1>3, <2>3, <2>6, <2>7 DEF Divides
<1> QED
  BY <1>5, <1>6, <1>7

\* So the quotient is exact.
LEMMA WaysTimes ==
  ASSUME NEW p \in Nat, NEW f \in Nat
  PROVE  /\ Ways(p, f) \in Nat \ {0}
         /\ factorial[p + f] = Ways(p, f) * (factorial[f] * factorial[p])
<1>1. PICK d \in Nat \ {0} : factorial[p + f] = d * (factorial[f] * factorial[p])
  BY AlwaysDivides DEF Divides
<1>2. /\ factorial[p + f] \in Nat /\ factorial[f] \in Nat \ {0}
      /\ factorial[p] \in Nat \ {0} /\ p + f - f = p
  BY Factorials
<1>3. factorial[f] * factorial[p] \in Nat \ {0}
  BY <1>2, ProductIsPositive
<1>4. Ways(p, f) = factorial[p + f] \div (factorial[f] * factorial[p])
  BY <1>2 DEF Ways, choose
<1>5. Ways(p, f) = d
  BY <1>1, <1>2, <1>3, <1>4, Quotient
<1> QED
  BY <1>1, <1>5

LEMMA Cancel ==
  ASSUME NEW a \in Nat, NEW b \in Nat, NEW c \in Nat \ {0}, a * c = b * c
  PROVE  a = b
  OBVIOUS

\* The triangle: its edges, and that an entry is the sum of the two above it.
LEMMA WaysAre ==
  /\ \A p, f \in Nat : Ways(p, f) \in Nat \ {0}
  /\ \A f \in Nat : Ways(0, f) = 1
  /\ \A p \in Nat : Ways(p, 0) = 1
  /\ \A p, f \in Nat \ {0} : Ways(p, f) = Ways(p - 1, f) + Ways(p, f - 1)
<1>1. ASSUME NEW p \in Nat, NEW f \in Nat, p = 0 \/ f = 0 PROVE Ways(p, f) = 1
  <2> DEFINE c == factorial[p + f]
  <2>1. c \in Nat \ {0} /\ factorial[f] * factorial[p] = c
    BY <1>1, Factorials
  <2>2. Ways(p, f) \in Nat /\ c = Ways(p, f) * c
    BY <2>1, WaysTimes
  <2> HIDE DEF c
  <2>3. 1 * c = c
    BY <2>1
  <2> QED
    BY <2>1, <2>2, <2>3, Cancel
<1>2. ASSUME NEW p \in Nat \ {0}, NEW f \in Nat \ {0}
      PROVE  Ways(p, f) = Ways(p - 1, f) + Ways(p, f - 1)
  <2> DEFINE x == factorial[p - 1]  y == factorial[f - 1]  z == factorial[p + f - 1]
             d == Ways(p - 1, f)    e == Ways(p, f - 1)
  <2>1. /\ p - 1 \in Nat /\ f - 1 \in Nat /\ p + f \in Nat \ {0} /\ p + f - 1 \in Nat
        /\ p - 1 + f = p + f - 1 /\ p + (f - 1) = p + f - 1
    OBVIOUS
  <2>2. /\ factorial[p] = p * x /\ factorial[f] = f * y
        /\ factorial[p + f] = (p + f) * z
        /\ x \in Nat \ {0} /\ y \in Nat \ {0} /\ z \in Nat
    BY <2>1, Factorials
  <2>3. /\ z = d * (factorial[f] * x) /\ d \in Nat
        /\ z = e * (y * factorial[p]) /\ e \in Nat
    BY <2>1, WaysTimes
  <2>7. /\ Ways(p, f) \in Nat
        /\ factorial[p + f] = Ways(p, f) * (factorial[f] * factorial[p])
    BY WaysTimes
  <2> HIDE DEF x, y, z, d, e
  <2>4. (p + f) * z = (d + e) * ((f * y) * (p * x))
    BY <2>2, <2>3, SumOfMultiples
  <2>5. (f * y) * (p * x) \in Nat \ {0}
    <3>1. f * y \in Nat \ {0} /\ p * x \in Nat \ {0}
      BY <2>2, ProductIsPositive
    <3> QED
      BY <3>1, ProductIsPositive
  <2>6. Ways(p, f) * ((f * y) * (p * x)) = (d + e) * ((f * y) * (p * x))
    BY <2>2, <2>4, <2>7
  <2>8. d + e \in Nat
    BY <2>3
  <2>9. Ways(p, f) = d + e
    BY <2>5, <2>6, <2>7, <2>8, Cancel
  <2> QED
    BY <2>9 DEF d, e
<1> QED
  BY <1>1, <1>2, WaysTimes

\* More of which to choose, more ways.
LEMMA WaysGrow ==
  \A q \in Nat : \A p \in 0..q, f \in Nat \ {0} : Ways(p, f) <= Ways(q, f)
<1> DEFINE Grows(q) == \A p \in 0..q, f \in Nat \ {0} : Ways(p, f) <= Ways(q, f)
           T == {q \in Nat : ~Grows(q)}
<1>1. SUFFICES ASSUME T # {} PROVE FALSE
  OBVIOUS
<1>2. PICK q \in T : \A z \in T : q <= z
  BY <1>1, LeastNumber
<1>3. q \in Nat /\ ~Grows(q)
  OBVIOUS
<1>4. \A z \in 0..(q - 1) : Grows(z)
  <2> SUFFICES ASSUME NEW z \in 0..(q - 1), ~Grows(z) PROVE FALSE
    OBVIOUS
  <2>1. z \in Nat /\ z < q
    BY <1>3
  <2>2. z \in T
    BY <2>1
  <2> HIDE DEF T
  <2> QED
    BY <1>2, <1>3, <2>1, <2>2
<1> HIDE DEF T
<1>5. ASSUME NEW p \in 0..q, NEW f \in Nat \ {0} PROVE Ways(p, f) <= Ways(q, f)
  <2>1. CASE p = q
    <3>1. Ways(q, f) \in Nat
      BY <1>3, WaysAre
    <3> QED
      BY <2>1, <3>1
  <2>2. CASE p # q
    <3>1. q \in Nat \ {0} /\ q - 1 \in 0..(q - 1) /\ p \in 0..(q - 1) /\ q - 1 \in Nat
          /\ f - 1 \in Nat /\ p \in Nat
      BY <1>3, <2>2
    <3>2. Ways(p, f) <= Ways(q - 1, f)
      BY <1>4, <3>1
    <3>3. Ways(q, f) = Ways(q - 1, f) + Ways(q, f - 1)
      BY <3>1, WaysAre
    <3>4. /\ Ways(q, f - 1) \in Nat /\ Ways(q - 1, f) \in Nat
          /\ Ways(q, f) \in Nat /\ Ways(p, f) \in Nat
      BY <3>1, WaysAre
    <3> QED
      BY <3>2, <3>3, <3>4
  <2> QED
    BY <2>1, <2>2
<1> QED
  BY <1>3, <1>5

-----------------------------------------------------------------------------
(***************************************************************************)
(* Bursts of mails.  The level of a slot is the count that its request     *)
(* judges by: the one in its copy while it sends, or the one it would      *)
(* read.  Sending takes a slot above the level it sent from, and may take  *)
(* those above that level down, since an older copy writes a smaller       *)
(* count: a slot that passes a level is paid for by everything that could  *)
(* be sent from the levels above.                                          *)
(***************************************************************************)

\* The slots that ask from above level l.
Above(level, l) == {r \in Requests : level[r] > l}

Passed(level, l) == Cardinality(Above(level, l))

\* How often slots may have sent from level l, f below the last, if p have passed it.
Sent(p, f) == IF p = 0 THEN 0 ELSE Ways(p - 1, f)

\* s says, of each level, how much may have been sent from it or one above it.
Weighs(level, s) ==
  /\ s \in [0..Free -> Nat] /\ s[Free] = 0
  /\ \A l \in 0..(Free - 1) : s[l] <= Sent(Passed(level, l), Free - l) + s[l + 1]

\* One burst, and what all of it comes to.
Burst == Ways(Slots, Free) - 1

BurstsOf(n) == Burst * n

\* total links fit with the levels, after so many times that attempts were forgotten.
Explained(level, total, rounds) ==
  \E s : Weighs(level, s) /\ total <= BurstsOf(rounds) + s[0]

LEMMA FreeIs == Free \in Nat \ {0}
  BY AccountAssumption DEF AccountAssumption, Link!EmailLinksAssumption

LEMMA PassedIs ==
  ASSUME NEW level, NEW l
  PROVE  Passed(level, l) \in 0..Slots
<1>1. Above(level, l) \subseteq Requests
  BY DEF Above
<1> QED
  BY <1>1, RequestsAreFinite, FS_Subset, FS_CardinalityType DEF Passed, Slots

LEMMA SentIs ==
  ASSUME NEW p \in Nat, NEW q \in Nat, p <= q, NEW f \in Nat \ {0}
  PROVE  Sent(p, f) \in Nat /\ Sent(q, f) \in Nat /\ Sent(p, f) <= Sent(q, f)
<1>1. \A n \in Nat : Sent(n, f) \in Nat
  <2>1. ASSUME NEW n \in Nat, n # 0 PROVE Ways(n - 1, f) \in Nat
    <3>1. n - 1 \in Nat
      BY <2>1
    <3> QED
      BY <3>1, WaysAre
  <2> QED
    BY <2>1 DEF Sent
<1>2. CASE p = 0
  BY <1>1, <1>2 DEF Sent
<1>3. CASE p # 0
  <2>1. q # 0 /\ q - 1 \in Nat /\ p - 1 \in 0..(q - 1)
    BY <1>3
  <2>2. Ways(p - 1, f) <= Ways(q - 1, f)
    BY <2>1, WaysGrow
  <2> QED
    BY <1>1, <1>3, <2>1, <2>2 DEF Sent
<1> QED
  BY <1>2, <1>3

\* Sending from a level takes up what all the levels above it may add.
LEMMA SentFills ==
  ASSUME NEW p \in Nat, NEW f \in Nat \ {0}
  PROVE  Ways(p, f) = Sent(p, f) + Ways(p, f - 1)
<1>1. f - 1 \in Nat
  OBVIOUS
<1>2. CASE p = 0
  BY <1>1, <1>2, WaysAre DEF Sent
<1>3. CASE p # 0
  BY <1>1, <1>3, WaysAre DEF Sent
<1> QED
  BY <1>2, <1>3

\* If at most p slots passed a level, less than Ways(p, ...) was sent from there.
LEMMA WeightFits ==
  ASSUME NEW level, NEW s, Weighs(level, s), NEW k \in 0..Free, NEW p \in Nat,
         \A l \in k..(Free - 1) : Passed(level, l) <= p
  PROVE  s[k] + 1 <= Ways(p, Free - k)
<1> DEFINE Fits(j) == s[Free - j] + 1 <= Ways(p, j)
           T == {j \in 0..(Free - k) : ~Fits(j)}
<1>0. Free \in Nat /\ k \in Nat /\ Free - k \in 0..(Free - k) /\ Free - (Free - k) = k
  BY FreeIs
<1>1. SUFFICES ASSUME T # {} PROVE FALSE
  <2>1. T = {} => Fits(Free - k)
    BY <1>0
  <2> HIDE DEF T
  <2> QED
    BY <1>0, <2>1
<1>2. T \subseteq Nat
  BY <1>0
<1>3. PICK j \in T : \A z \in T : j <= z
  BY <1>1, <1>2, LeastNumber
<1>4. j \in 0..(Free - k) /\ j \in Nat /\ ~Fits(j)
  BY <1>0
<1>5. CASE j = 0
  <2>1. Free - 0 = Free /\ s[Free] = 0 /\ Ways(p, 0) = 1
    BY <1>0, WaysAre DEF Weighs
  <2> QED
    BY <1>4, <1>5, <2>1
<1>6. CASE j # 0
  <2>1. /\ j - 1 \in 0..(Free - k) /\ j \in Nat \ {0} /\ j - 1 \in Nat
        /\ Free - (j - 1) = Free - j + 1 /\ Free - (Free - j) = j
        /\ Free - j \in k..(Free - 1) /\ Free - j \in 0..(Free - 1)
        /\ Free - j \in 0..Free /\ Free - j + 1 \in 0..Free
    BY <1>0, <1>4, <1>6
  <2>2. Fits(j - 1)
    <3>1. j - 1 \notin T
      BY <1>3, <1>4, <2>1
    <3> QED
      BY <2>1, <3>1
  <2> HIDE DEF T
  <2> DEFINE l == Free - j
  <2>3. s[l + 1] + 1 <= Ways(p, j - 1)
    BY <2>1, <2>2
  <2>4. /\ s[l] <= Sent(Passed(level, l), j) + s[l + 1]
        /\ s[l] \in Nat /\ s[l + 1] \in Nat
    BY <2>1 DEF Weighs
  <2>5. Passed(level, l) \in Nat /\ Passed(level, l) <= p
    BY <2>1, PassedIs, RequestsAreFinite
  <2>6. /\ Sent(Passed(level, l), j) <= Sent(p, j)
        /\ Sent(Passed(level, l), j) \in Nat /\ Sent(p, j) \in Nat
    BY <2>1, <2>5, SentIs
  <2>7. Ways(p, j) = Sent(p, j) + Ways(p, j - 1) /\ Ways(p, j - 1) \in Nat
    BY <2>1, SentFills, WaysAre
  <2>8. s[l] + 1 <= Ways(p, j)
    <3> HIDE DEF l
    <3> QED
      BY <2>3, <2>4, <2>6, <2>7
  <2> QED
    BY <1>4, <2>8
<1> QED
  BY <1>5, <1>6

-----------------------------------------------------------------------------
\* Nobody falls below where they were.
LEMMA WeightStays ==
  ASSUME NEW level, NEW next, NEW s, Weighs(level, s),
         level \in [Requests -> Nat], next \in [Requests -> Nat],
         \A r \in Requests : level[r] <= next[r]
  PROVE  Weighs(next, s)
<1>1. ASSUME NEW l \in 0..(Free - 1) PROVE s[l] <= Sent(Passed(next, l), Free - l) + s[l + 1]
  <2>1. /\ l \in 0..Free /\ l + 1 \in 0..Free /\ Free - l \in Nat \ {0}
    BY FreeIs
  <2>2. Passed(level, l) <= Passed(next, l)
    <3>1. Above(level, l) \subseteq Above(next, l) /\ Above(next, l) \subseteq Requests
      BY DEF Above
    <3> QED
      BY <3>1, RequestsAreFinite, FS_Subset DEF Passed
  <2>3. Passed(level, l) \in Nat /\ Passed(next, l) \in Nat
    BY PassedIs, RequestsAreFinite
  <2>4. /\ Sent(Passed(level, l), Free - l) <= Sent(Passed(next, l), Free - l)
        /\ Sent(Passed(level, l), Free - l) \in Nat /\ Sent(Passed(next, l), Free - l) \in Nat
    BY <2>1, <2>2, <2>3, SentIs
  <2>5. /\ s[l] <= Sent(Passed(level, l), Free - l) + s[l + 1]
        /\ s[l] \in Nat /\ s[l + 1] \in Nat
    BY <2>1 DEF Weighs
  <2> QED
    BY <2>4, <2>5
<1> QED
  BY <1>1 DEF Weighs

\* Whoever sends passes the level it was at, and nobody at or below that level
\* falls below where they were; those above may.
LEMMA WeightGrows ==
  ASSUME NEW level, NEW next, NEW s, Weighs(level, s), NEW r \in Requests, NEW k \in 0..(Free - 1),
         level \in [Requests -> Nat], next \in [Requests -> Nat],
         level[r] = k, next[r] > k,
         \A q \in Requests : level[q] <= next[q] \/ next[q] > k
  PROVE  \E t : Weighs(next, t) /\ t[0] = s[0] + 1
<1> DEFINE t == [l \in 0..Free |-> IF l <= k THEN s[l] + 1 ELSE 0]
<1>0. Free \in Nat \ {0} /\ k \in Nat /\ k < Free
  BY FreeIs
<1>1. t \in [0..Free -> Nat] /\ t[Free] = 0 /\ t[0] = s[0] + 1
  BY <1>0 DEF Weighs
<1>2. ASSUME NEW l \in 0..(Free - 1) PROVE t[l] <= Sent(Passed(next, l), Free - l) + t[l + 1]
  <2>1. /\ l \in 0..Free /\ l + 1 \in 0..Free /\ Free - l \in Nat \ {0}
        /\ l \in Nat
    BY <1>0
  <2>2. /\ s[l] <= Sent(Passed(level, l), Free - l) + s[l + 1]
        /\ s[l] \in Nat /\ s[l + 1] \in Nat
    BY <2>1 DEF Weighs
  <2>3. Passed(level, l) \in Nat /\ Passed(next, l) \in Nat
    BY PassedIs, RequestsAreFinite
  <2>4. l <= k => Above(level, l) \subseteq Above(next, l)
    <3> SUFFICES ASSUME l <= k, NEW q \in Requests, level[q] > l PROVE next[q] > l
      BY DEF Above
    <3>1. level[q] \in Nat /\ next[q] \in Nat /\ (level[q] <= next[q] \/ next[q] > k)
      OBVIOUS
    <3> QED
      BY <1>0, <2>1, <3>1
  <2>5. IsFiniteSet(Above(next, l)) /\ Above(next, l) \subseteq Requests
    <3>1. Above(next, l) \subseteq Requests
      BY DEF Above
    <3> QED
      BY <3>1, RequestsAreFinite, FS_Subset
  <2>6. l <= k => Passed(level, l) <= Passed(next, l)
    BY <2>4, <2>5, FS_Subset DEF Passed
  <2>7. l <= k => /\ Sent(Passed(level, l), Free - l) <= Sent(Passed(next, l), Free - l)
                  /\ Sent(Passed(level, l), Free - l) \in Nat
    BY <2>1, <2>3, <2>6, SentIs
  <2>8. Sent(Passed(next, l), Free - l) \in Nat
    BY <2>1, <2>3, SentIs
  <2>9. CASE l < k
    <3>1. t[l] = s[l] + 1 /\ t[l + 1] = s[l + 1] + 1
      BY <1>0, <2>1, <2>9
    <3> HIDE DEF t
    <3> QED
      BY <2>2, <2>7, <2>8, <2>9, <3>1, <1>0, <2>1
  <2>10. CASE l > k
    <3>1. t[l] = 0 /\ t[l + 1] = 0
      BY <1>0, <2>1, <2>10
    <3> HIDE DEF t
    <3> QED
      BY <2>8, <3>1
  <2>11. CASE l = k
    <3> DEFINE p == Passed(level, k)
    <3>1. t[l] = s[k] + 1 /\ t[l + 1] = 0
      BY <1>0, <2>1, <2>11
    <3>2. Passed(next, l) >= p + 1
      <4>1. /\ Above(level, k) \cup {r} \subseteq Above(next, k)
            /\ r \notin Above(level, k) /\ IsFiniteSet(Above(level, k))
        <5>1. r \in Above(next, k) /\ r \notin Above(level, k)
          BY <1>0 DEF Above
        <5> QED
          BY <2>4, <2>5, <2>11, <5>1, <1>0, FS_Subset
      <4>2. Cardinality(Above(level, k) \cup {r}) = p + 1
        BY <4>1, FS_AddElement DEF Passed
      <4> QED
        BY <2>5, <2>11, <4>1, <4>2, FS_Subset DEF Passed
    <3>3. p \in Nat /\ k + 1 \in 0..Free /\ Free - k \in Nat \ {0} /\ Free - (k + 1) = Free - k - 1
      BY <1>0, <2>1, <2>3, <2>11
    <3>4. \A m \in (k + 1)..(Free - 1) : Passed(level, m) <= p
      <4> SUFFICES ASSUME NEW m \in (k + 1)..(Free - 1) PROVE Passed(level, m) <= p
        OBVIOUS
      <4>1. Above(level, m) \subseteq Above(level, k) /\ Above(level, k) \subseteq Requests
        BY <1>0 DEF Above
      <4> QED
        BY <4>1, RequestsAreFinite, FS_Subset DEF Passed
    <3> HIDE DEF p
    <3>5. s[k + 1] + 1 <= Ways(p, Free - k - 1)
      <4> HIDE DEF t
      <4>1. s[k + 1] + 1 <= Ways(p, Free - (k + 1))
        BY <3>3, <3>4, WeightFits
      <4> QED
        BY <3>3, <4>1
    <3>6. /\ Ways(p, Free - k) = Sent(p, Free - k) + Ways(p, Free - k - 1)
          /\ Ways(p, Free - k) \in Nat /\ Ways(p, Free - k - 1) \in Nat
      <4>1. p \in Nat /\ Free - k \in Nat \ {0} /\ Free - k \in Nat /\ Free - k - 1 \in Nat
        BY <3>3
      <4> HIDE DEF t
      <4>2. Ways(p, Free - k) = Sent(p, Free - k) + Ways(p, Free - k - 1)
        BY <4>1, SentFills
      <4> QED
        BY <4>1, <4>2, WaysAre
    <3>7. Sent(p + 1, Free - k) = Ways(p, Free - k)
      BY <3>3 DEF Sent
    <3>8. Sent(p + 1, Free - k) <= Sent(Passed(next, l), Free - k)
      <4>1. p + 1 \in Nat
        BY <3>3
      <4> QED
        BY <2>3, <3>2, <3>3, <4>1, SentIs
    <3>9. s[k] <= Sent(p, Free - k) + s[k + 1] /\ s[k] \in Nat /\ s[k + 1] \in Nat
      BY <2>2, <2>11 DEF p
    <3>10. Sent(p, Free - k) \in Nat /\ Sent(Passed(next, l), Free - k) \in Nat
      BY <2>8, <2>11, <3>3, SentIs
    <3> HIDE DEF t
    <3>11. s[k] + 1 <= Sent(Passed(next, l), Free - k)
      BY <3>5, <3>6, <3>7, <3>8, <3>9, <3>10
    <3> QED
      BY <2>11, <3>1, <3>10, <3>11
  <2> QED
    BY <1>0, <2>1, <2>9, <2>10, <2>11
<1> HIDE DEF t
<1>3. Weighs(next, t)
  BY <1>1, <1>2 DEF Weighs
<1> QED
  BY <1>1, <1>3

-----------------------------------------------------------------------------
\* With nothing sent, anybody may be anywhere.
LEMMA WeightOfNothing ==
  ASSUME NEW level
  PROVE  \E z : Weighs(level, z) /\ z[0] = 0
<1> DEFINE z == [l \in 0..Free |-> 0]
<1>1. z \in [0..Free -> Nat] /\ z[Free] = 0 /\ z[0] = 0
  BY FreeIs
<1>2. ASSUME NEW l \in 0..(Free - 1) PROVE z[l] <= Sent(Passed(level, l), Free - l) + z[l + 1]
  <2>1. l \in 0..Free /\ l + 1 \in 0..Free /\ Free - l \in Nat \ {0}
    BY FreeIs
  <2>2. Sent(Passed(level, l), Free - l) \in Nat
    BY <2>1, PassedIs, RequestsAreFinite, SentIs
  <2>3. z[l] = 0 /\ z[l + 1] = 0
    BY <2>1
  <2> HIDE DEF z
  <2> QED
    BY <2>2, <2>3
<1> HIDE DEF z
<1>3. Weighs(level, z)
  BY <1>1, <1>2 DEF Weighs
<1> QED
  BY <1>1, <1>3

LEMMA BurstsGrow ==
  ASSUME NEW n \in Nat
  PROVE  /\ Burst \in Nat /\ BurstsOf(n) \in Nat
         /\ BurstsOf(n + 1) = BurstsOf(n) + Burst
         /\ BurstsOf(n + 1) = Burst * (n + 1)
<1>1. Burst \in Nat
  BY FreeIs, RequestsAreFinite, WaysAre DEF Burst
<1> QED
  BY <1>1 DEF BurstsOf

\* Whatever the levels, it is one burst at most.
LEMMA WeightIsBounded ==
  ASSUME NEW level, NEW s, Weighs(level, s)
  PROVE  s[0] \in Nat /\ s[0] <= Burst
<1>1. 0 \in 0..Free /\ Slots \in Nat /\ Free - 0 = Free
  BY FreeIs, RequestsAreFinite
<1>2. s[0] + 1 <= Ways(Slots, Free)
  <2>1. \A l \in 0..(Free - 1) : Passed(level, l) <= Slots
    BY PassedIs, <1>1
  <2>2. s[0] + 1 <= Ways(Slots, Free - 0)
    BY <1>1, <2>1, WeightFits
  <2> QED
    BY <1>1, <2>2
<1>3. s[0] \in Nat /\ Ways(Slots, Free) \in Nat
  BY <1>1, FreeIs, WaysAre DEF Weighs
<1> QED
  BY <1>2, <1>3 DEF Burst

\* What the steps do: nothing, send one, or forget the attempts, which allows another burst.
LEMMA ExplainedBounds ==
  ASSUME NEW level, NEW total \in Nat, NEW rounds \in Nat, Explained(level, total, rounds)
  PROVE  total <= Burst * (rounds + 1)
<1>1. PICK s : Weighs(level, s) /\ total <= BurstsOf(rounds) + s[0]
  BY DEF Explained
<1>2. s[0] \in Nat /\ s[0] <= Burst
  BY <1>1, WeightIsBounded
<1>3. BurstsOf(rounds) + Burst = Burst * (rounds + 1) /\ BurstsOf(rounds) \in Nat /\ Burst \in Nat
  BY BurstsGrow
<1> QED
  BY <1>1, <1>2, <1>3

LEMMA ExplainedStays ==
  ASSUME NEW level, NEW next, NEW total \in Nat, NEW rounds \in Nat,
         Explained(level, total, rounds),
         level \in [Requests -> Nat], next \in [Requests -> Nat],
         \A r \in Requests : level[r] <= next[r]
  PROVE  Explained(next, total, rounds)
BY WeightStays DEF Explained

LEMMA ExplainedGrows ==
  ASSUME NEW level, NEW next, NEW total \in Nat, NEW rounds \in Nat,
         Explained(level, total, rounds), NEW r \in Requests, NEW k \in 0..(Free - 1),
         level \in [Requests -> Nat], next \in [Requests -> Nat],
         level[r] = k, next[r] > k,
         \A q \in Requests : level[q] <= next[q] \/ next[q] > k
  PROVE  Explained(next, total + 1, rounds)
<1>1. PICK s : Weighs(level, s) /\ total <= BurstsOf(rounds) + s[0]
  BY DEF Explained
<1>2. PICK t : Weighs(next, t) /\ t[0] = s[0] + 1
  BY <1>1, WeightGrows
<1>3. s[0] \in Nat /\ BurstsOf(rounds) \in Nat
  BY <1>1, WeightIsBounded, BurstsGrow
<1>4. total + 1 <= BurstsOf(rounds) + t[0]
  BY <1>1, <1>2, <1>3
<1> QED
  BY <1>2, <1>4 DEF Explained

LEMMA ExplainedAnew ==
  ASSUME NEW level, NEW next, NEW total \in Nat, NEW rounds \in Nat,
         Explained(level, total, rounds)
  PROVE  Explained(next, total, rounds + 1)
<1>1. total <= Burst * (rounds + 1)
  BY ExplainedBounds
<1>2. PICK z : Weighs(next, z) /\ z[0] = 0
  BY WeightOfNothing
<1>3. total <= BurstsOf(rounds + 1) + z[0]
  BY <1>1, <1>2, BurstsGrow
<1> QED
  BY <1>2, <1>3 DEF Explained

LEMMA ExplainedAtFirst ==
  ASSUME NEW level
  PROVE  Explained(level, 0, 0)
<1>1. PICK z : Weighs(level, z) /\ z[0] = 0
  BY WeightOfNothing
<1>2. 0 <= BurstsOf(0) + z[0]
  BY <1>1, BurstsGrow
<1> QED
  BY <1>1, <1>2 DEF Explained

\* Counting and choosing are the same in the components.
LEMMA SameChoosing ==
  /\ Link!MailBurst <=> (linkNow < LinkTimeout => Len(links) <= Burst * (linkUses + 1))
  /\ Reset!MailBurst <=> (~guests /\ resetNow < ResetTimeout => resets <= Burst * (sets + 1))
<1>1. Link!Cardinality(Requests) = Slots /\ Reset!Cardinality(Requests) = Slots
  BY DEF Link!Cardinality, Reset!Cardinality, Cardinality, Slots
<1>2. Link!factorial = factorial /\ Reset!factorial = factorial
  BY DEF Link!factorial, Reset!factorial, factorial
<1>3. \A n, k : Link!choose(n, k) = choose(n, k) /\ Reset!choose(n, k) = choose(n, k)
  BY <1>2 DEF Link!choose, Reset!choose, choose
<1> QED
  BY <1>1, <1>3, Zenon DEF Link!MailBurst, Reset!MailBurst, Burst, Ways


-----------------------------------------------------------------------------
(***************************************************************************)
(* Trust: it is never much older than its date says.                       *)
(***************************************************************************)

\* A trust is dated after the user it was computed from was read, but not long
\* after: that long a request may take.
Dated(trust) ==
  trust \in Bonus!Value /\ trust.asOf <= trust.at /\ trust.at <= trust.asOf + Patience

TrustInv ==
  /\ Bonus!TypeOK
  /\ Dated(trustDb)
  /\ \A r \in Requests :
       /\ Dated(trustReq[r].trust)
       /\ trustReq[r].pc \in {"read", "computing"} =>
            trustReq[r].since <= trustNow /\ trustNow <= trustReq[r].since + Patience

LEMMA TrustConstants == Interval \in Nat /\ Patience \in Nat /\ TrustTime \in Nat
  BY AccountAssumption DEF AccountAssumption, Bonus!TrustAssumption

LEMMA TrustInit == Bonus!Init => TrustInv
  BY TrustConstants
     DEF Bonus!Init, TrustInv, Bonus!TypeOK, Dated, Bonus!Never, Bonus!Value, Bonus!Idle,
         Bonus!Slot, Bonus!Pcs

LEMMA TrustStep == TrustInv /\ [Bonus!Next]_(Bonus!vars) => TrustInv'
<1> SUFFICES ASSUME TrustInv, [Bonus!Next]_(Bonus!vars) PROVE TrustInv'
  OBVIOUS
<1> USE TrustConstants
<1>1. /\ trustNow \in 0..TrustTime /\ Dated(trustDb) /\ trustReq \in [Requests -> Bonus!Slot]
  BY DEF TrustInv, Bonus!TypeOK
\* A slot takes a new state and the rest stays.
<1>2. ASSUME NEW r \in Requests, NEW next \in Bonus!Slot, Bonus!Become(r, next),
             Dated(next.trust), UNCHANGED trustNow, Dated(trustDb)',
             next.pc \in {"read", "computing"} =>
               next.since <= trustNow /\ trustNow <= next.since + Patience
      PROVE  TrustInv'
  <2>1. /\ trustReq' \in [Requests -> Bonus!Slot] /\ trustReq'[r] = next
        /\ \A q \in Requests : q # r => trustReq'[q] = trustReq[q]
    BY <1>1, <1>2 DEF Bonus!Become
  <2>2. \A q \in Requests :
          /\ Dated(trustReq'[q].trust)
          /\ trustReq'[q].pc \in {"read", "computing"} =>
               trustReq'[q].since <= trustNow' /\ trustNow' <= trustReq'[q].since + Patience
    BY <1>2, <2>1 DEF TrustInv
  <2> QED
    BY <1>1, <1>2, <2>1, <2>2 DEF TrustInv, Bonus!TypeOK, Dated
<1>3. /\ Bonus!Idle \in Bonus!Slot /\ Dated(Bonus!Idle.trust)
      /\ Bonus!Idle.pc \notin {"read", "computing"}
  BY DEF Bonus!Idle, Bonus!Slot, Bonus!Pcs, Dated, Bonus!Never, Bonus!Value
<1>4. ASSUME NEW r \in Requests, Bonus!Read(r) PROVE TrustInv'
  <2> DEFINE next == [pc |-> "read", trust |-> trustDb, since |-> trustNow]
  <2>1. next \in Bonus!Slot /\ Dated(next.trust) /\ next.since = trustNow
    BY <1>1 DEF Bonus!Slot, Bonus!Pcs, Dated
  <2>2. Bonus!Become(r, next) /\ UNCHANGED trustNow /\ Dated(trustDb)'
    BY <1>1, <1>4 DEF Bonus!Read, Dated
  <2> HIDE DEF next
  <2> QED
    BY <1>1, <1>2, <2>1, <2>2
<1>5. ASSUME NEW r \in Requests, Bonus!Keep(r) PROVE TrustInv'
  BY <1>1, <1>2, <1>3, <1>5 DEF Bonus!Keep, Dated
<1>6. ASSUME NEW r \in Requests, Bonus!Compute(r) PROVE TrustInv'
  <2> DEFINE next == [trustReq[r] EXCEPT !.pc = "computing"]
  <2>1. /\ next \in Bonus!Slot /\ next.trust = trustReq[r].trust
        /\ next.since = trustReq[r].since
    BY <1>1 DEF Bonus!Slot, Bonus!Pcs
  <2>2. Bonus!Become(r, next) /\ UNCHANGED trustNow /\ Dated(trustDb)'
    BY <1>1, <1>6 DEF Bonus!Compute, Dated
  <2> HIDE DEF next
  <2> QED
    BY <1>2, <1>6, <2>1, <2>2 DEF TrustInv, Bonus!Compute
<1>7. ASSUME NEW r \in Requests, Bonus!Use(r) PROVE TrustInv'
  <2> DEFINE trust == [asOf |-> trustReq[r].since, at |-> trustNow]
             next == [trustReq[r] EXCEPT !.pc = "writing", !.trust = trust]
  <2>1. Dated(trust)
    BY <1>1, <1>7 DEF TrustInv, Bonus!Use, Dated, Bonus!Value, Bonus!Slot
  <2>2. next \in Bonus!Slot /\ next.trust = trust /\ next.pc = "writing"
    BY <1>1, <2>1 DEF Bonus!Slot, Bonus!Pcs, Dated
  <2>3. Bonus!Become(r, next) /\ UNCHANGED trustNow /\ Dated(trustDb)'
    BY <1>1, <1>7 DEF Bonus!Use, Dated
  <2> HIDE DEF next
  <2> QED
    BY <1>2, <2>1, <2>2, <2>3
<1>8. ASSUME NEW r \in Requests, Bonus!Write(r) PROVE TrustInv'
  <2>1. Dated(trustDb)'
    BY <1>1, <1>8 DEF Bonus!Write, TrustInv, Dated
  <2> QED
    BY <1>2, <1>3, <1>8, <2>1 DEF Bonus!Write
<1>9. CASE Bonus!Tick
  <2>1. trustNow' \in 0..TrustTime /\ trustNow' = trustNow + 1 /\ UNCHANGED <<trustDb, trustReq>>
    BY <1>1, <1>9 DEF Bonus!Tick
  <2>2. ASSUME NEW r \in Requests, trustReq[r].pc \in {"read", "computing"}
        PROVE  trustReq[r].since <= trustNow' /\ trustNow' <= trustReq[r].since + Patience
    <3>1. trustReq[r].since \in Int
      BY <1>1 DEF Bonus!Slot
    <3> QED
      BY <1>1, <1>9, <2>1, <2>2, <3>1 DEF TrustInv, Bonus!Tick
  <2> QED
    BY <1>1, <2>1, <2>2 DEF TrustInv, Bonus!TypeOK, Dated
<1>10. CASE UNCHANGED Bonus!vars
  BY <1>1, <1>10 DEF Bonus!vars, TrustInv, Bonus!TypeOK, Dated
<1> QED
  BY <1>4, <1>5, <1>6, <1>7, <1>8, <1>9, <1>10 DEF Bonus!Next

LEMMA TrustUsed ==
  TrustInv /\ [Bonus!Next]_(Bonus!vars) =>
    \A r \in Requests :
      trustReq[r].pc = "read" /\ trustReq'[r] = Bonus!Idle
      => trustNow - trustReq[r].trust.asOf < Interval + Patience
<1> SUFFICES ASSUME TrustInv, [Bonus!Next]_(Bonus!vars), NEW r \in Requests,
                    trustReq[r].pc = "read", trustReq'[r] = Bonus!Idle
             PROVE  trustNow - trustReq[r].trust.asOf < Interval + Patience
  OBVIOUS
<1>1. trustNow \in Int /\ trustReq \in [Requests -> Bonus!Slot]
  BY DEF TrustInv, Bonus!TypeOK
<1>2. trustReq'[r].pc = "idle"
  BY DEF Bonus!Idle
<1>3. Bonus!Keep(r)
  <2>1. trustReq' # trustReq
    BY <1>2
  <2>2. PICK q \in Requests : \/ Bonus!Read(q) \/ Bonus!Keep(q) \/ Bonus!Compute(q)
                              \/ Bonus!Use(q) \/ Bonus!Write(q)
    BY <2>1 DEF Bonus!Next, Bonus!vars, Bonus!Tick
  <2>3. PICK next : Bonus!Become(q, next)
    BY <2>2 DEF Bonus!Read, Bonus!Keep, Bonus!Compute, Bonus!Use, Bonus!Write
  <2>4. q = r
    BY <1>1, <1>2, <2>3 DEF Bonus!Become
  <2>5. ~Bonus!Compute(r)
    BY <1>1, <1>2 DEF Bonus!Compute, Bonus!Become, Bonus!Slot
  <2>6. ~Bonus!Read(r)
    BY DEF Bonus!Read, Bonus!Idle
  <2> QED
    BY <2>2, <2>4, <2>5, <2>6 DEF Bonus!Use, Bonus!Write
<1>4. Dated(trustReq[r].trust) /\ trustReq[r].trust.at + Interval > trustNow
  BY <1>3 DEF TrustInv, Bonus!Keep, Bonus!Fresh
<1> QED
  BY <1>1, <1>4, TrustConstants DEF Dated, Bonus!Value

-----------------------------------------------------------------------------
(***************************************************************************)
(* Passwords.  While nothing overlaps and no role is mocked, every copy    *)
(* whose password is hashed has the role that was given last.              *)
(***************************************************************************)

RolesFit ==
  causes = {} =>
    /\ resetUser.role = given
    /\ \A r \in Requests : resetReq[r].pc = "hashing" => resetReq[r].copy.role = given

ResetInv == Reset!TypeOK /\ RolesFit

LEMMA ResetConstants ==
  /\ Roles # {} /\ ResetTime \in Nat /\ Free \in Nat /\ ResetTimeout \in Nat
  /\ Mocks \in [Roles -> SUBSET Roles]
  BY AccountAssumption DEF AccountAssumption, Reset!PasswordsAssumption

LEMMA ResetIdle ==
  /\ Reset!Idle \in Reset!Slot /\ Reset!Idle.pc = "idle"
  /\ \A role \in Roles : Reset!NewUser(role) \in Reset!User
<1>1. \A role \in Roles : Reset!NewUser(role) \in Reset!User
  BY DEF Reset!NewUser, Reset!User, Reset!NoLink, Reset!Rounds
<1>2. (CHOOSE role \in Roles : TRUE) \in Roles
  BY ResetConstants
<1> QED
  BY <1>1, <1>2 DEF Reset!Idle, Reset!Slot, Reset!Pcs, Reset!NoLink

LEMMA ResetInit == Reset!Init => ResetInv
<1> SUFFICES ASSUME Reset!Init PROVE ResetInv
  OBVIOUS
<1>1. PICK role \in Roles : resetUser = Reset!NewUser(role)
  BY DEF Reset!Init
<1>2. resetUser.token = 0 /\ resetUser.role \in Roles
  BY <1>1 DEF Reset!NewUser, Reset!NoLink
<1>3. Reset!TypeOK
  BY <1>1, <1>2, ResetConstants, ResetIdle DEF Reset!Init, Reset!TypeOK
<1>4. RolesFit
  BY ResetIdle DEF Reset!Init, RolesFit
<1> QED
  BY <1>3, <1>4 DEF ResetInv

\* What Change leaves in the copy is the user, with a role of theirs or one mocked.
LEMMA ResetChange ==
  ASSUME Reset!TypeOK, NEW r \in Requests, NEW role \in Roles, Reset!Change(r, role)
  PROVE  \E next \in Reset!Slot :
           /\ next.pc = "hashing" /\ next.copy.role = role /\ Reset!Become(r, next)
<1> DEFINE copy == [resetUser EXCEPT !.role = role]
           next == [Reset!Idle EXCEPT !.pc = "hashing", !.copy = copy]
<1>1. copy \in Reset!User /\ copy.role = role
  BY DEF Reset!TypeOK, Reset!User
<1>2. Reset!Become(r, next)
  BY DEF Reset!Change
<1> HIDE DEF copy
<1>3. next \in Reset!Slot /\ next.pc = "hashing" /\ next.copy = copy
  BY <1>1, ResetIdle DEF Reset!Slot, Reset!Pcs
<1> QED
  BY <1>1, <1>2, <1>3

LEMMA ResetStep == ResetInv /\ [Reset!Next]_(Reset!vars) => ResetInv'
<1> SUFFICES ASSUME ResetInv, [Reset!Next]_(Reset!vars) PROVE ResetInv'
  OBVIOUS
<1> USE ResetConstants, ResetIdle
<1>0. Reset!TypeOK /\ RolesFit
  BY DEF ResetInv
<1>1. /\ resetNow \in 0..ResetTime /\ guests \in BOOLEAN
      /\ resetUser \in Reset!User /\ resetUser.token \in 0..resets
      /\ resetReq \in [Requests -> Reset!Slot] /\ resets \in Nat /\ sets \in Nat
      /\ \A q \in Requests : resetReq[q].pc = "mailing" => resetReq[q].link \in 1..resets
      /\ resetMailed \subseteq 1..resets
      /\ given \in Roles /\ causes \subseteq Reset!Causes
  BY <1>0 DEF Reset!TypeOK
<1>2. ASSUME NEW r \in Requests, NEW next \in Reset!Slot, Reset!Become(r, next),
             UNCHANGED <<resetNow, guests, given>>,
             resets' \in {resets, resets + 1}, resetMailed' \subseteq 1..resets',
             resetUser' \in Reset!User, sets' \in Nat, resetUser'.token \in 0..resets',
             next.pc = "mailing" => next.link \in 1..resets',
             causes \subseteq causes', causes' \subseteq Reset!Causes,
             causes' = {} => resetUser'.role = given,
             causes' = {} /\ next.pc = "hashing" => next.copy.role = given
      PROVE  ResetInv'
  <2>1. /\ resetReq' \in [Requests -> Reset!Slot] /\ resetReq'[r] = next
        /\ \A q \in Requests : q # r => resetReq'[q] = resetReq[q]
    BY <1>1, <1>2 DEF Reset!Become
  <2>2. resets' \in Nat /\ 1..resets \subseteq 1..resets'
    BY <1>1, <1>2
  <2>3. \A q \in Requests : resetReq'[q].pc = "mailing" => resetReq'[q].link \in 1..resets'
    BY <1>1, <1>2, <2>1, <2>2
  <2>4. Reset!TypeOK'
    BY <1>1, <1>2, <2>1, <2>2, <2>3 DEF Reset!TypeOK
  <2>5. causes' = {} => causes = {}
    BY <1>2
  <2>6. RolesFit'
    BY <1>0, <1>2, <2>1, <2>5 DEF RolesFit
  <2> QED
    BY <2>4, <2>6 DEF ResetInv
\* A step that leaves the user and the links alone.
<1>3. ASSUME NEW r \in Requests, NEW next \in Reset!Slot, Reset!Become(r, next),
             UNCHANGED <<resetNow, guests, given, resets, resetUser, sets>>,
             resetMailed' \subseteq 1..resets, next.pc # "mailing",
             causes \subseteq causes', causes' \subseteq Reset!Causes,
             causes' = {} /\ next.pc = "hashing" => next.copy.role = given
      PROVE  ResetInv'
  <2>1. causes' = {} => resetUser.role = given
    BY <1>0, <1>3 DEF RolesFit
  <2> QED
    BY <1>1, <1>2, <1>3, <2>1
<1>4. ASSUME NEW r \in Requests, Reset!Ask(r) PROVE ResetInv'
  <2> DEFINE next == [Reset!Idle EXCEPT !.pc = "sending", !.copy = resetUser,
                                        !.asked = IF guests THEN 0 ELSE resetUser.count]
  <2>1. Reset!Become(r, next)
        /\ UNCHANGED <<resetNow, guests, given, resets, resetUser, sets, resetMailed, causes>>
    BY <1>4 DEF Reset!Ask
  <2>2. next \in Reset!Slot /\ next.pc = "sending"
    BY <1>1 DEF Reset!Slot, Reset!Pcs, Reset!User
  <2> HIDE DEF next
  <2> QED
    BY <1>1, <1>3, <2>1, <2>2
<1>5. ASSUME NEW r \in Requests, Reset!Send(r) PROVE ResetInv'
  <2> DEFINE asked == resetReq[r].asked
             next == [Reset!Idle EXCEPT !.pc = "mailing", !.link = resets + 1]
  <2>1. asked + 1 \in Nat /\ resets + 1 \in Nat /\ resetNow \in Nat
    BY <1>1 DEF Reset!Slot
  <2>2. /\ resetUser' = [resetUser EXCEPT !.token = resets + 1, !.sent = resetNow,
                                          !.count = asked + 1]
        /\ resets' = resets + 1 /\ Reset!Become(r, next)
        /\ UNCHANGED <<resetNow, guests, resetMailed, sets, given, causes>>
    BY <1>5 DEF Reset!Send, Reset!Sent
  <2>3. next \in Reset!Slot /\ next.pc = "mailing" /\ next.link = resets + 1
    BY <2>1 DEF Reset!Slot, Reset!Pcs
  <2> HIDE DEF asked, next
  <2>4. /\ resetUser' \in Reset!User /\ resetUser'.token = resets + 1
        /\ resetUser'.role = resetUser.role
    BY <1>1, <2>1, <2>2 DEF Reset!User
  <2>5. causes' = {} => resetUser'.role = given
    BY <1>0, <2>2, <2>4 DEF RolesFit
  <2>6. 1..resets \subseteq 1..(resets + 1) /\ resets + 1 \in 1..(resets + 1)
    BY <1>1
  <2> QED
    BY <1>1, <1>2, <2>2, <2>3, <2>4, <2>5, <2>6
<1>6. ASSUME NEW r \in Requests, Reset!Mail(r) \/ Reset!MailFails(r) PROVE ResetInv'
  <2>1. resetReq[r].link \in 1..resets
    BY <1>1, <1>6 DEF Reset!Mail, Reset!MailFails
  <2> QED
    BY <1>1, <1>3, <1>6, <2>1 DEF Reset!Mail, Reset!MailFails
<1>7. ASSUME NEW r \in Requests, Reset!Refuse(r) PROVE ResetInv'
  BY <1>1, <1>3, <1>7 DEF Reset!Refuse
<1>8. ASSUME NEW r \in Requests, NEW n \in resetMailed, Reset!Click(r, n) PROVE ResetInv'
  <2> DEFINE next == [Reset!Idle EXCEPT !.pc = "hashing", !.copy = resetUser]
  <2>1. next \in Reset!Slot /\ next.pc = "hashing" /\ next.copy = resetUser
    BY <1>1 DEF Reset!Slot, Reset!Pcs
  <2>2. Reset!Become(r, next)
        /\ UNCHANGED <<resetNow, guests, given, resets, resetUser, sets, resetMailed, causes>>
    BY <1>8 DEF Reset!Click
  <2>3. causes' = {} => next.copy.role = given
    BY <1>0, <2>1, <2>2 DEF RolesFit
  <2> HIDE DEF next
  <2> QED
    BY <1>1, <1>3, <2>1, <2>2, <2>3
<1>9. ASSUME NEW r \in Requests, NEW role \in Roles, Reset!Change(r, role) PROVE ResetInv'
  <2>1. PICK next \in Reset!Slot :
          next.pc = "hashing" /\ next.copy.role = role /\ Reset!Become(r, next)
    BY <1>0, <1>9, ResetChange
  <2>2. /\ causes' = IF role = resetUser.role THEN causes ELSE causes \cup {"mock"}
        /\ UNCHANGED <<resetNow, guests, given, resets, resetUser, sets, resetMailed>>
    BY <1>9 DEF Reset!Change
  <2>3. causes \subseteq causes' /\ causes' \subseteq Reset!Causes
    BY <1>1, <2>2 DEF Reset!Causes
  <2>4. causes' = {} => causes = {} /\ role = resetUser.role
    BY <2>2
  <2>5. causes' = {} => next.copy.role = given
    BY <1>0, <2>1, <2>4 DEF RolesFit
  <2> QED
    BY <1>1, <1>3, <2>1, <2>2, <2>3, <2>5
<1>10. ASSUME NEW r \in Requests, Reset!SetPassword(r) PROVE ResetInv'
  <2> DEFINE copy == resetReq[r].copy
  <2>1. copy \in Reset!User /\ resetReq[r].pc = "hashing"
    BY <1>1, <1>10 DEF Reset!Slot, Reset!SetPassword
  <2>2. /\ resetUser' = Reset!Patched(copy) /\ Reset!Become(r, Reset!Idle) /\ sets' = sets + 1
        /\ UNCHANGED <<resetNow, guests, resets, resetMailed, given, causes>>
    BY <1>10 DEF Reset!SetPassword
  <2>3. causes' = {} => copy.role = given
    BY <1>0, <2>1, <2>2 DEF RolesFit
  <2> HIDE DEF copy
  <2>4. resetUser' \in Reset!User /\ resetUser'.token = resetUser.token
        /\ resetUser'.role = copy.role
    BY <1>1, <2>1, <2>2 DEF Reset!Patched, Reset!User, Reset!Rounds
  <2> QED
    BY <1>1, <1>2, <2>2, <2>3, <2>4
<1>11. ASSUME NEW role \in Roles, Reset!GiveRole(role) PROVE ResetInv'
  <2>1. /\ resetUser' = [resetUser EXCEPT !.role = role] /\ given' = role
        /\ causes' = IF Reset!Hashing THEN causes \cup {"overlap"} ELSE {}
        /\ UNCHANGED <<resetNow, guests, resetReq, resets, resetMailed, sets>>
    BY <1>11 DEF Reset!GiveRole
  <2>2. /\ resetUser' \in Reset!User /\ resetUser'.token = resetUser.token
        /\ resetUser'.role = role
    BY <1>1, <2>1 DEF Reset!User
  <2>3. causes' \subseteq Reset!Causes /\ (causes' = {} => ~Reset!Hashing)
    BY <1>1, <2>1 DEF Reset!Causes
  <2>4. Reset!TypeOK'
    BY <1>1, <2>1, <2>2, <2>3 DEF Reset!TypeOK
  <2>5. RolesFit'
    BY <2>1, <2>2, <2>3 DEF RolesFit, Reset!Hashing
  <2> QED
    BY <2>4, <2>5 DEF ResetInv
<1>12. CASE Reset!Tick
  BY <1>0, <1>1, <1>12 DEF Reset!Tick, Reset!TypeOK, RolesFit, ResetInv
<1>13. CASE UNCHANGED Reset!vars
  BY <1>0, <1>1, <1>13 DEF Reset!vars, Reset!TypeOK, RolesFit, ResetInv
<1> QED
  BY <1>4, <1>5, <1>6, <1>7, <1>8, <1>9, <1>10, <1>11, <1>12, <1>13 DEF Reset!Next

\* A command moves one slot, and time passes by itself.
LEMMA ResetMoves ==
  [Reset!Next]_(Reset!vars) => guests' = guests /\ resetNow' \in {resetNow, resetNow + 1}
<1> SUFFICES ASSUME [Reset!Next]_(Reset!vars)
             PROVE  guests' = guests /\ resetNow' \in {resetNow, resetNow + 1}
  OBVIOUS
<1>1. ASSUME NEW r \in Requests,
             Reset!Ask(r) \/ Reset!Send(r) \/ Reset!Mail(r) \/ Reset!MailFails(r)
             \/ Reset!Refuse(r) \/ Reset!SetPassword(r)
      PROVE  UNCHANGED <<guests, resetNow>>
  BY <1>1 DEF Reset!Ask, Reset!Send, Reset!Mail, Reset!MailFails, Reset!Refuse,
     Reset!SetPassword
<1>2. ASSUME NEW r \in Requests, NEW n \in resetMailed, Reset!Click(r, n)
      PROVE  UNCHANGED <<guests, resetNow>>
  BY <1>2 DEF Reset!Click
<1>3. ASSUME NEW r \in Requests, NEW role \in Roles, Reset!Change(r, role)
      PROVE  UNCHANGED <<guests, resetNow>>
  BY <1>3 DEF Reset!Change
<1>4. ASSUME NEW role \in Roles, Reset!GiveRole(role)
      PROVE  UNCHANGED <<guests, resetNow>>
  BY <1>4 DEF Reset!GiveRole
<1>5. CASE Reset!Tick
  BY <1>5 DEF Reset!Tick
<1>6. CASE UNCHANGED Reset!vars
  BY <1>6 DEF Reset!vars
<1> QED
  BY <1>1, <1>2, <1>3, <1>4, <1>5, <1>6 DEF Reset!Next

\* As for links, with the count that was read from the caller.
ResetLevel ==
  [r \in Requests |->
    IF resetReq[r].pc = "sending" /\ resetReq[r].asked < resetUser.count
    THEN resetReq[r].asked ELSE resetUser.count]

ResetBursts ==
  ~guests /\ resetNow < ResetTimeout => Explained(ResetLevel, resets, sets)

LEMMA ResetBurstsInit == Reset!Init => ResetBursts
  BY ExplainedAtFirst DEF Reset!Init, ResetBursts

LEMMA ResetBurstsStep ==
  ResetInv /\ ResetBursts /\ [Reset!Next]_(Reset!vars) => ResetBursts'
<1> SUFFICES ASSUME ResetInv, ResetBursts, [Reset!Next]_(Reset!vars),
                    ~guests', resetNow' < ResetTimeout
             PROVE  Explained(ResetLevel', resets', sets')
  BY DEF ResetBursts
<1>1. /\ resetUser \in Reset!User /\ resetReq \in [Requests -> Reset!Slot]
      /\ resetNow \in Nat /\ sets \in Nat /\ resets \in Nat
      /\ ResetTimeout \in Nat
  BY ResetConstants DEF ResetInv, Reset!TypeOK
<1>2. resetUser' \in Reset!User /\ resetReq' \in [Requests -> Reset!Slot]
  BY ResetStep DEF ResetInv, Reset!TypeOK
<1>3. ~guests /\ resetNow < ResetTimeout
  <2>1. guests' = guests /\ (resetNow' = resetNow \/ resetNow' = resetNow + 1)
    BY ResetMoves
  <2> QED
    BY <1>1, <2>1
<1>4. Explained(ResetLevel, resets, sets)
  BY <1>3 DEF ResetBursts
<1>5. ResetLevel \in [Requests -> Nat] /\ ResetLevel' \in [Requests -> Nat]
  BY <1>1, <1>2 DEF ResetLevel, Reset!User, Reset!Slot
<1>6. ASSUME \A r \in Requests : ResetLevel[r] <= ResetLevel'[r], UNCHANGED <<resets, sets>>
      PROVE  Explained(ResetLevel', resets', sets')
  BY <1>1, <1>4, <1>5, <1>6, ExplainedStays
<1>7. ASSUME NEW r \in Requests, Reset!Ask(r)
      PROVE  Explained(ResetLevel', resets', sets')
  <2>1. \A q \in Requests : ResetLevel[q] <= ResetLevel'[q]
    BY <1>1, <1>3, <1>7 DEF Reset!Ask, Reset!Become, Reset!Idle, ResetLevel, Reset!User,
       Reset!Slot
  <2> QED
    BY <1>6, <1>7, <2>1 DEF Reset!Ask
<1>8. ASSUME NEW r \in Requests,
             \/ Reset!Mail(r) \/ Reset!MailFails(r) \/ Reset!Refuse(r)
             \/ \E n \in resetMailed : Reset!Click(r, n)
             \/ \E role \in Roles : Reset!Change(r, role)
      PROVE  Explained(ResetLevel', resets', sets')
  <2>1. /\ resetReq'[r].pc # "sending" /\ \A q \in Requests \ {r} : resetReq'[q] = resetReq[q]
        /\ UNCHANGED <<resetUser, resets, sets>>
    <3>1. PICK next : /\ Reset!Become(r, next) /\ next.pc # "sending"
                      /\ UNCHANGED <<resetUser, resets, sets>>
      <4>1. CASE Reset!Mail(r) \/ Reset!MailFails(r) \/ Reset!Refuse(r)
        BY <4>1, ResetIdle DEF Reset!Mail, Reset!MailFails, Reset!Refuse
      <4>2. ASSUME NEW n \in resetMailed, Reset!Click(r, n)
            PROVE  \E next : /\ Reset!Become(r, next) /\ next.pc # "sending"
                             /\ UNCHANGED <<resetUser, resets, sets>>
        <5>1. [Reset!Idle EXCEPT !.pc = "hashing", !.copy = resetUser].pc = "hashing"
          BY DEF Reset!Idle
        <5> QED
          BY <4>2, <5>1 DEF Reset!Click
      <4>3. ASSUME NEW role \in Roles, Reset!Change(r, role)
            PROVE  \E next : /\ Reset!Become(r, next) /\ next.pc # "sending"
                             /\ UNCHANGED <<resetUser, resets, sets>>
        <5>1. Reset!TypeOK
          BY DEF ResetInv
        <5>2. UNCHANGED <<resetUser, resets, sets>>
          BY <4>3 DEF Reset!Change
        <5> QED
          BY <4>3, <5>1, <5>2, ResetChange
      <4> QED
        BY <1>8, <4>1, <4>2, <4>3
    <3> QED
      BY <1>1, <3>1 DEF Reset!Become
  <2>2. ASSUME NEW q \in Requests PROVE ResetLevel[q] <= ResetLevel'[q]
    BY <1>1, <2>1 DEF ResetLevel, Reset!User, Reset!Slot
  <2> QED
    BY <1>6, <2>1, <2>2
<1>9. ASSUME NEW r \in Requests, Reset!SetPassword(r)
      PROVE  Explained(ResetLevel', resets', sets')
  <2>1. resets' = resets /\ sets' = sets + 1
    BY <1>9 DEF Reset!SetPassword
  <2> QED
    BY <1>1, <1>4, <2>1, ExplainedAnew
<1>10. ASSUME NEW r \in Requests, Reset!Send(r)
       PROVE  Explained(ResetLevel', resets', sets')
  <2> DEFINE asked == resetReq[r].asked  k == ResetLevel[r]
  <2>1. /\ resetReq[r].pc = "sending" /\ Reset!MaySend(resetReq[r])
        /\ resets' = resets + 1 /\ resetUser'.count = asked + 1
        /\ Reset!Become(r, [Reset!Idle EXCEPT !.pc = "mailing", !.link = resets + 1])
        /\ UNCHANGED sets
    <3>1. resetUser' = [resetUser EXCEPT !.token = resets + 1, !.sent = resetNow,
                                         !.count = asked + 1]
      BY <1>10 DEF Reset!Send, Reset!Sent
    <3>2. resetUser'.count = asked + 1
      BY <1>1, <3>1 DEF Reset!User
    <3> QED
      BY <1>10, <3>2 DEF Reset!Send
  <2>2. /\ asked \in Nat /\ resetReq[r].copy.sent \in Nat /\ resetUser.count \in Nat
    BY <1>1 DEF Reset!Slot, Reset!User
  <2>3. asked < Free
    BY <1>1, <1>3, <2>1, <2>2, ResetConstants DEF Reset!MaySend
  <2>4. k \in Nat /\ k <= asked
    BY <1>1, <2>1, <2>2 DEF ResetLevel
  <2>5. resetReq'[r].pc # "sending" /\ \A q \in Requests \ {r} : resetReq'[q] = resetReq[q]
    BY <1>1, <2>1 DEF Reset!Become, Reset!Idle
  <2>6. ResetLevel'[r] = asked + 1
    BY <2>1, <2>5 DEF ResetLevel
  <2>7. ASSUME NEW q \in Requests PROVE ResetLevel[q] <= ResetLevel'[q] \/ ResetLevel'[q] > k
    <3>1. CASE q = r
      BY <2>2, <2>4, <2>6, <3>1
    <3>2. CASE q # r
      <4>1. resetReq[q].asked \in Nat
        BY <1>1 DEF Reset!Slot
      <4> HIDE DEF k, asked
      <4>2. asked \in Nat
        BY <2>2
      <4> QED
        BY <2>1, <2>2, <2>4, <2>5, <3>2, <4>1, <4>2 DEF ResetLevel
    <3> QED
      BY <3>1, <3>2
  <2>8. k \in 0..(Free - 1) /\ ResetLevel'[r] > k
    BY <2>2, <2>3, <2>4, <2>6, ResetConstants
  <2> HIDE DEF k, asked
  <2>9. ResetLevel[r] = k
    BY DEF k
  <2>10. Explained(ResetLevel', resets + 1, sets)
    BY <1>1, <1>4, <1>5, <2>7, <2>8, <2>9, ExplainedGrows
  <2> QED
    BY <2>1, <2>10
<1>11. ASSUME NEW role \in Roles, Reset!GiveRole(role)
       PROVE  Explained(ResetLevel', resets', sets')
  <2>1. resetUser'.count = resetUser.count /\ UNCHANGED <<resetReq, resets, sets>>
    BY <1>1, <1>11 DEF Reset!GiveRole, Reset!User
  <2>2. ResetLevel' = ResetLevel
    BY <2>1 DEF ResetLevel
  <2> QED
    BY <1>4, <2>1, <2>2
<1>12. CASE Reset!Tick
  BY <1>5, <1>6, <1>12 DEF Reset!Tick, ResetLevel
<1>13. CASE UNCHANGED Reset!vars
  BY <1>5, <1>6, <1>13 DEF Reset!vars, ResetLevel
<1> QED
  BY <1>7, <1>8, <1>9, <1>10, <1>11, <1>12, <1>13 DEF Reset!Next

LEMMA ResetBurstsBound == ResetInv /\ ResetBursts => Reset!MailBurst
<1> SUFFICES ASSUME ResetInv, ResetBursts, ~guests, resetNow < ResetTimeout
             PROVE  resets <= Burst * (sets + 1)
  BY SameChoosing
<1>1. resets \in Nat /\ sets \in Nat
  BY DEF ResetInv, Reset!TypeOK
<1> QED
  BY <1>1, ExplainedBounds DEF ResetBursts

-----------------------------------------------------------------------------
(***************************************************************************)
(* E-mail links: what is pending is what the link asked for whose token is *)
(* in the database, or it was used.                                        *)
(***************************************************************************)

\* The change that the n-th link was asked for is this, if any.
AsksFor(n, next) == links[n].change => next = links[n].to

PendingFits ==
  linkUser.token # Link!NoLink =>
    \/ AsksFor(linkUser.token, linkUser.next)
    \/ linkUser.next = NoAddress /\ linkUser.ok

LinkInv ==
  /\ Link!TypeOK
  /\ PendingFits
  /\ \A r \in Requests :
       /\ linkReq[r].pc = "sending" => linkReq[r].to \in Addresses
       /\ linkReq[r].pc = "using" =>
            /\ linkReq[r].link \in DOMAIN links
            /\ AsksFor(linkReq[r].link, linkReq[r].copy.next)

LEMMA LinkConstants ==
  /\ NoAddress \notin Addresses /\ Free \in Nat /\ LinkTimeout \in Nat /\ LinkTime \in Nat
  BY AccountAssumption DEF AccountAssumption, Link!EmailLinksAssumption

LEMMA LinkIdle ==
  /\ Link!Idle \in Link!Slot /\ Link!Idle.pc = "idle"
  /\ \A a \in Addresses \cup {NoAddress} :
       Link!NewUser(a) \in Link!User /\ Link!NewUser(a).token = Link!NoLink
  BY DEF Link!Idle, Link!Slot, Link!Pcs, Link!NewUser, Link!User, Link!NoLink

LEMMA LinkInit == Link!Init => LinkInv
<1> SUFFICES ASSUME Link!Init PROVE LinkInv
  OBVIOUS
<1>1. PICK a \in Addresses : linkUser = Link!NewUser(a)
  BY DEF Link!Init
<1>2. linkUser.email # NoAddress /\ linkUser.token = Link!NoLink
  BY <1>1, LinkConstants, LinkIdle DEF Link!NewUser
<1>3. Link!TypeOK
  BY <1>1, <1>2, LinkConstants, LinkIdle DEF Link!Init, Link!TypeOK
<1> QED
  BY <1>2, <1>3, LinkIdle DEF Link!Init, LinkInv, PendingFits

LEMMA LinkStep == LinkInv /\ [Link!Next]_(Link!vars) => LinkInv'
<1> SUFFICES ASSUME LinkInv, [Link!Next]_(Link!vars) PROVE LinkInv'
  OBVIOUS
<1> USE LinkConstants, LinkIdle
<1>1. /\ linkNow \in 0..LinkTime /\ linkUser \in Link!User /\ linkUser.email # NoAddress
      /\ linkUser.token \in {Link!NoLink} \cup DOMAIN links
      /\ linkReq \in [Requests -> Link!Slot]
      /\ \A q \in Requests : linkReq[q].pc = "mailing" => linkReq[q].link \in DOMAIN links
      /\ links \in Seq(Link!Link) /\ linkMailed \subseteq DOMAIN links /\ linkUses \in Nat
  BY DEF LinkInv, Link!TypeOK
<1>2. PendingFits
  BY DEF LinkInv
\* What slots do with links that were made before is not disturbed by new ones.
<1>3. ASSUME NEW r \in Requests, NEW next \in Link!Slot, Link!Become(r, next),
             UNCHANGED linkNow, linkUses' \in Nat,
             links' \in Seq(Link!Link), DOMAIN links \subseteq DOMAIN links',
             \A n \in DOMAIN links : links'[n] = links[n],
             linkMailed' \subseteq DOMAIN links',
             linkUser' \in Link!User, linkUser'.email # NoAddress,
             linkUser'.token \in {Link!NoLink} \cup DOMAIN links', PendingFits',
             next.pc = "sending" => next.to \in Addresses,
             next.pc = "mailing" => next.link \in DOMAIN links',
             next.pc = "using" => next.link \in DOMAIN links /\ AsksFor(next.link, next.copy.next)
      PROVE  LinkInv'
  <2>1. /\ linkReq' \in [Requests -> Link!Slot] /\ linkReq'[r] = next
        /\ \A q \in Requests : q # r => linkReq'[q] = linkReq[q]
    BY <1>1, <1>3 DEF Link!Become
  <2>2. ASSUME NEW q \in Requests
        PROVE  /\ linkReq'[q].pc = "sending" => linkReq'[q].to \in Addresses
               /\ linkReq'[q].pc = "mailing" => linkReq'[q].link \in DOMAIN links'
               /\ linkReq'[q].pc = "using" =>
                    /\ linkReq'[q].link \in DOMAIN links
                    /\ AsksFor(linkReq'[q].link, linkReq'[q].copy.next)
    <3>1. CASE q = r
      BY <1>3, <2>1, <3>1
    <3>2. CASE q # r
      BY <1>1, <1>3, <2>1, <3>2 DEF LinkInv
    <3> QED
      BY <3>1, <3>2
  <2>3. ASSUME NEW q \in Requests, linkReq'[q].pc = "using"
        PROVE  /\ linkReq'[q].link \in DOMAIN links'
               /\ links'[linkReq'[q].link].change
                  => linkReq'[q].copy.next = links'[linkReq'[q].link].to
    BY <1>3, <2>2, <2>3 DEF AsksFor
  <2>4. Link!TypeOK'
    BY <1>1, <1>3, <2>1, <2>2 DEF Link!TypeOK, Link!NoLink
  <2> QED
    BY <1>3, <2>2, <2>3, <2>4 DEF LinkInv, AsksFor
\* A step that leaves the user and the links alone.
<1>4. ASSUME NEW r \in Requests, NEW next \in Link!Slot, Link!Become(r, next),
             UNCHANGED <<linkNow, linkUses, links, linkUser>>,
             linkMailed' \subseteq DOMAIN links, next.pc # "mailing",
             next.pc = "sending" => next.to \in Addresses,
             next.pc = "using" => next.link \in DOMAIN links /\ AsksFor(next.link, next.copy.next)
      PROVE  LinkInv'
  <2>1. PendingFits'
    BY <1>2, <1>4 DEF PendingFits, AsksFor
  <2> QED
    BY <1>1, <1>3, <1>4, <2>1
<1>5. ASSUME NEW r \in Requests, NEW to \in Addresses, Link!Ask(r, to) PROVE LinkInv'
  <2> DEFINE next == [Link!Idle EXCEPT !.pc = "sending", !.copy = linkUser, !.to = to]
  <2>1. next \in Link!Slot /\ next.pc = "sending" /\ next.to = to
    BY <1>1 DEF Link!Idle, Link!Slot, Link!Pcs
  <2>2. /\ Link!Become(r, next)
        /\ UNCHANGED <<linkNow, linkUser, links, linkMailed, linkUses>>
    BY <1>5 DEF Link!Ask
  <2> HIDE DEF next
  <2> QED
    BY <1>1, <1>4, <2>1, <2>2
<1>6. ASSUME NEW r \in Requests, Link!Send(r) PROVE LinkInv'
  <2> DEFINE copy == linkReq[r].copy
             to == linkReq[r].to
             token == Len(links) + 1
             link == [to |-> to, change |-> to # copy.email]
             next == [Link!Idle EXCEPT !.pc = "mailing", !.link = token]
  <2>1. to \in Addresses /\ copy \in Link!User
    BY <1>1, <1>6 DEF LinkInv, Link!Send, Link!Slot
  <2>2. /\ links' = Append(links, link) /\ linkUser' = Link!Pending(linkUser, copy, to)
        /\ Link!Become(r, next) /\ UNCHANGED <<linkNow, linkMailed, linkUses>>
    BY <1>6 DEF Link!Send
  <2>3. link \in Link!Link /\ link.to = to /\ (link.change <=> to # copy.email)
    BY <2>1 DEF Link!Link
  <2> HIDE DEF link
  <2>4. /\ links' \in Seq(Link!Link) /\ Len(links) \in Nat /\ token \in Nat \ {0}
        /\ DOMAIN links \subseteq DOMAIN links' /\ token \in DOMAIN links'
        /\ \A n \in DOMAIN links : links'[n] = links[n]
        /\ links'[token] = link
    BY <1>1, <2>2, <2>3
  <2>5. next \in Link!Slot /\ next.pc = "mailing" /\ next.link = token
    BY <2>4 DEF Link!Idle, Link!Slot, Link!Pcs
  <2> HIDE DEF token, next
  <2>6. /\ linkUser' \in Link!User /\ linkUser'.email = linkUser.email
        /\ linkUser'.token = token /\ (to # copy.email => linkUser'.next = to)
    <3> DEFINE wanted == IF to # copy.email THEN to ELSE linkUser.next
               count == copy.count + 1
    <3>1. /\ wanted \in Addresses \cup {NoAddress} /\ count \in Nat /\ linkNow \in Nat
          /\ (to # copy.email => wanted = to)
      BY <1>1, <2>1 DEF Link!User
    <3>2. linkUser' = [linkUser EXCEPT !.token = token, !.sent = linkNow,
                                       !.count = count, !.next = wanted]
      BY <1>1, <2>2 DEF Link!Pending, Link!User, token
    <3> HIDE DEF wanted, count
    <3> QED
      BY <1>1, <2>4, <3>1, <3>2 DEF Link!User
  <2>7. PendingFits'
    <3>1. links'[linkUser'.token].change => linkUser'.next = links'[linkUser'.token].to
      BY <2>3, <2>4, <2>6
    <3> QED
      BY <3>1 DEF PendingFits, AsksFor
  <2> HIDE DEF copy, to
  <2> QED
    BY <1>1, <1>3, <2>2, <2>4, <2>5, <2>6, <2>7
<1>7. ASSUME NEW r \in Requests, Link!Mail(r) \/ Link!MailFails(r) PROVE LinkInv'
  <2>1. linkReq[r].link \in DOMAIN links
    BY <1>1, <1>7 DEF Link!Mail, Link!MailFails
  <2> QED
    BY <1>1, <1>4, <1>7, <2>1 DEF Link!Mail, Link!MailFails
<1>8. ASSUME NEW r \in Requests, Link!Refuse(r) PROVE LinkInv'
  BY <1>1, <1>4, <1>8 DEF Link!Refuse
<1>9. ASSUME NEW r \in Requests, NEW n \in linkMailed, Link!Click(r, n) PROVE LinkInv'
  <2> DEFINE next == [Link!Idle EXCEPT !.pc = "using", !.copy = linkUser, !.link = n]
  <2>1. n \in Nat \ {0} /\ n \in DOMAIN links
    BY <1>1
  <2>2. next \in Link!Slot /\ next.copy = linkUser /\ next.pc = "using" /\ next.link = n
    BY <1>1, <2>1 DEF Link!Idle, Link!Slot, Link!Pcs
  <2>3. /\ Link!Become(r, next) /\ linkUser.token = n
        /\ ~(linkUser.ok /\ linkUser.next = NoAddress)
        /\ UNCHANGED <<linkNow, linkUser, links, linkMailed, linkUses>>
    BY <1>9 DEF Link!Click
  <2>4. AsksFor(n, linkUser.next)
    BY <1>2, <2>1, <2>3 DEF PendingFits, Link!NoLink
  <2> HIDE DEF next
  <2> QED
    BY <1>1, <1>4, <2>1, <2>2, <2>3, <2>4
<1>10. ASSUME NEW r \in Requests, Link!Use(r) PROVE LinkInv'
  <2> DEFINE next == linkReq[r].copy.next
             u == [linkUser EXCEPT !.ok = TRUE, !.count = 0]
  <2>1. next \in Addresses \cup {NoAddress}
    BY <1>1 DEF Link!Slot, Link!User
  <2>2. /\ linkUser' = IF next = NoAddress THEN u
                       ELSE [u EXCEPT !.email = next, !.next = NoAddress]
        /\ Link!Become(r, Link!Idle) /\ UNCHANGED <<linkNow, links, linkMailed>>
        /\ linkUses' = linkUses + 1
    BY <1>10 DEF Link!Use
  <2> HIDE DEF next
  <2>3. /\ linkUser' \in Link!User /\ linkUser'.email # NoAddress /\ linkUser'.ok
        /\ linkUser'.token = linkUser.token /\ linkUser'.next \in {linkUser.next, NoAddress}
    BY <1>1, <2>1, <2>2 DEF Link!User
  <2>4. PendingFits'
    BY <1>2, <2>2, <2>3 DEF PendingFits, AsksFor
  <2> QED
    BY <1>1, <1>3, <2>2, <2>3, <2>4
<1>11. CASE Link!Tick
  BY <1>1, <1>11 DEF Link!Tick, LinkInv, Link!TypeOK, PendingFits, AsksFor
<1>12. CASE UNCHANGED Link!vars
  BY <1>1, <1>12 DEF Link!vars, LinkInv, Link!TypeOK, PendingFits, AsksFor
<1> QED
  BY <1>5, <1>6, <1>7, <1>8, <1>9, <1>10, <1>11, <1>12 DEF Link!Next

LEMMA LinkAsks ==
  ASSUME NEW q \in Requests, NEW to \in Addresses, Link!Ask(q, to)
  PROVE  UNCHANGED linkNow /\ (\E next : Link!Become(q, next)) /\ linkReq[q] = Link!Idle
<1> DEFINE next == [Link!Idle EXCEPT !.pc = "sending", !.copy = linkUser, !.to = to]
<1>1. Link!Become(q, next) /\ UNCHANGED linkNow /\ linkReq[q] = Link!Idle
  BY DEF Link!Ask
<1> HIDE DEF next
<1> QED
  BY <1>1

LEMMA LinkClicks ==
  ASSUME NEW q \in Requests, NEW n \in linkMailed, Link!Click(q, n)
  PROVE  UNCHANGED linkNow /\ (\E next : Link!Become(q, next)) /\ linkReq[q] = Link!Idle
<1> DEFINE next == [Link!Idle EXCEPT !.pc = "using", !.copy = linkUser, !.link = n]
<1>1. Link!Become(q, next) /\ UNCHANGED linkNow /\ linkReq[q] = Link!Idle
  BY DEF Link!Click
<1> HIDE DEF next
<1> QED
  BY <1>1

\* A command moves one slot, and time passes by itself.
LEMMA LinkMoves ==
  ASSUME NEW q \in Requests,
         \/ \E to \in Addresses : Link!Ask(q, to)
         \/ Link!Send(q) \/ Link!Mail(q) \/ Link!MailFails(q) \/ Link!Refuse(q)
         \/ \E n \in linkMailed : Link!Click(q, n)
         \/ Link!Use(q)
  PROVE  /\ UNCHANGED linkNow
         /\ \E next : Link!Become(q, next)
         /\ Link!Use(q) \/ linkReq[q] = Link!Idle \/ linkReq[q].pc \in {"sending", "mailing"}
<1>1. ASSUME NEW to \in Addresses, Link!Ask(q, to)
      PROVE  /\ UNCHANGED linkNow /\ (\E next : Link!Become(q, next))
             /\ linkReq[q] = Link!Idle
  BY <1>1, LinkAsks
<1>2. CASE Link!Send(q)
  BY <1>2 DEF Link!Send
<1>3. CASE Link!Mail(q) \/ Link!MailFails(q)
  BY <1>3 DEF Link!Mail, Link!MailFails
<1>4. CASE Link!Refuse(q)
  BY <1>4 DEF Link!Refuse
<1>5. ASSUME NEW n \in linkMailed, Link!Click(q, n)
      PROVE  /\ UNCHANGED linkNow /\ (\E next : Link!Become(q, next))
             /\ linkReq[q] = Link!Idle
  BY <1>5, LinkClicks
<1>6. CASE Link!Use(q)
  BY <1>6 DEF Link!Use
<1> QED
  BY <1>1, <1>2, <1>3, <1>4, <1>5, <1>6

LEMMA ChangeIsMade ==
  LinkInv /\ [Link!Next]_(Link!vars) =>
    \A r \in Requests :
      linkReq[r].pc = "using" /\ linkReq'[r].pc = "idle" /\ links[linkReq[r].link].change
      => linkUser'.email = links[linkReq[r].link].to
<1> SUFFICES ASSUME LinkInv, [Link!Next]_(Link!vars), NEW r \in Requests,
                    linkReq[r].pc = "using", linkReq'[r].pc = "idle",
                    links[linkReq[r].link].change
             PROVE  linkUser'.email = links[linkReq[r].link].to
  OBVIOUS
<1>1. /\ linkUser \in Link!User /\ linkReq \in [Requests -> Link!Slot]
      /\ links \in Seq(Link!Link) /\ linkReq[r].link \in DOMAIN links
  BY DEF LinkInv, Link!TypeOK
<1>2. Link!Use(r)
  <2>1. linkReq' # linkReq
    OBVIOUS
  <2>2. PICK q \in Requests :
          \/ \E to \in Addresses : Link!Ask(q, to)
          \/ Link!Send(q) \/ Link!Mail(q) \/ Link!MailFails(q) \/ Link!Refuse(q)
          \/ \E n \in linkMailed : Link!Click(q, n)
          \/ Link!Use(q)
    <3>1. Link!Next /\ ~Link!Tick
      BY <2>1 DEF Link!vars, Link!Tick
    <3> QED
      BY <3>1, Zenon DEF Link!Next
  <2>3. PICK next : Link!Become(q, next)
    BY <2>2, LinkMoves
  <2>4. q = r
    BY <1>1, <2>3 DEF Link!Become
  <2>5. linkReq[r] # Link!Idle /\ linkReq[r].pc \notin {"sending", "mailing"}
    BY LinkIdle
  <2>6. Link!Use(q) \/ linkReq[q] = Link!Idle \/ linkReq[q].pc \in {"sending", "mailing"}
    BY <2>2, LinkMoves
  <2> QED
    BY <2>4, <2>5, <2>6
<1>3. linkReq[r].copy.next = links[linkReq[r].link].to
  BY DEF LinkInv, AsksFor
<1>4. linkReq[r].copy.next # NoAddress
  <2> DEFINE link == links[linkReq[r].link]
  <2>1. link \in Link!Link
    BY <1>1
  <2>2. link.to \in Addresses
    BY <2>1 DEF Link!Link
  <2> QED
    BY <1>3, <2>2, LinkConstants
<1>5. linkUser' = [[linkUser EXCEPT !.ok = TRUE, !.count = 0]
                     EXCEPT !.email = linkReq[r].copy.next, !.next = NoAddress]
  BY <1>2, <1>4 DEF Link!Use
<1> QED
  BY <1>1, <1>3, <1>5 DEF Link!User

\* A request that read a smaller count judges by it; the others would read the user's.
LinkLevel ==
  [r \in Requests |->
    IF linkReq[r].pc = "sending" /\ linkReq[r].copy.count < linkUser.count
    THEN linkReq[r].copy.count ELSE linkUser.count]

\* Until the first time-out could be over, the links fit with where the slots are.
LinkBursts ==
  linkNow < LinkTimeout => Explained(LinkLevel, Len(links), linkUses)

LEMMA LinkBurstsInit == Link!Init => LinkBursts
  BY ExplainedAtFirst DEF Link!Init, LinkBursts

LEMMA LinkBurstsStep == LinkInv /\ LinkBursts /\ [Link!Next]_(Link!vars) => LinkBursts'
<1> SUFFICES ASSUME LinkInv, LinkBursts, [Link!Next]_(Link!vars), linkNow' < LinkTimeout
             PROVE  Explained(LinkLevel', Len(links'), linkUses')
  BY DEF LinkBursts
<1>1. /\ linkUser \in Link!User /\ linkReq \in [Requests -> Link!Slot]
      /\ linkNow \in Nat /\ linkUses \in Nat /\ links \in Seq(Link!Link)
      /\ LinkTimeout \in Nat
  BY LinkConstants DEF LinkInv, Link!TypeOK
<1>2. linkUser' \in Link!User /\ linkReq' \in [Requests -> Link!Slot]
  BY LinkStep DEF LinkInv, Link!TypeOK
<1>3. linkNow < LinkTimeout
  <2>1. linkNow' = linkNow \/ linkNow' = linkNow + 1
    BY LinkMoves DEF Link!Next, Link!vars, Link!Tick
  <2> QED
    BY <1>1, <2>1
<1>4. Explained(LinkLevel, Len(links), linkUses) /\ Len(links) \in Nat
  BY <1>1, <1>3 DEF LinkBursts
<1>5. LinkLevel \in [Requests -> Nat] /\ LinkLevel' \in [Requests -> Nat]
  BY <1>1, <1>2 DEF LinkLevel, Link!User, Link!Slot
<1>6. ASSUME \A r \in Requests : LinkLevel[r] <= LinkLevel'[r], UNCHANGED <<links, linkUses>>
      PROVE  Explained(LinkLevel', Len(links'), linkUses')
  BY <1>1, <1>4, <1>5, <1>6, ExplainedStays
<1>7. ASSUME NEW r \in Requests, NEW to \in Addresses, Link!Ask(r, to)
      PROVE  Explained(LinkLevel', Len(links'), linkUses')
  <2>1. \A q \in Requests : LinkLevel[q] <= LinkLevel'[q]
    BY <1>1, <1>7 DEF Link!Ask, Link!Become, Link!Idle, LinkLevel, Link!User, Link!Slot
  <2> QED
    BY <1>6, <1>7, <2>1 DEF Link!Ask
<1>8. ASSUME NEW r \in Requests, Link!Mail(r) \/ Link!MailFails(r) \/ Link!Refuse(r)
      PROVE  Explained(LinkLevel', Len(links'), linkUses')
  <2>1. ASSUME NEW q \in Requests PROVE LinkLevel[q] <= LinkLevel'[q]
    <3>1. /\ UNCHANGED linkUser /\ linkReq'[r] = Link!Idle
          /\ \A p \in Requests \ {r} : linkReq'[p] = linkReq[p]
      <4>1. linkReq' = [linkReq EXCEPT ![r] = Link!Idle] /\ UNCHANGED linkUser
        BY <1>8 DEF Link!Mail, Link!MailFails, Link!Refuse, Link!Become
      <4> QED
        BY <1>1, <4>1
    <3> QED
      <4>1. linkUser.count \in Nat /\ linkReq[q].copy.count \in Nat
        BY <1>1 DEF Link!User, Link!Slot
      <4>2. linkReq'[q].pc = "sending" => linkReq'[q] = linkReq[q]
        BY <3>1, LinkIdle
      <4> QED
        BY <3>1, <4>1, <4>2 DEF LinkLevel
  <2> QED
    BY <1>6, <1>8, <2>1 DEF Link!Mail, Link!MailFails, Link!Refuse
<1>9. ASSUME NEW r \in Requests, NEW n \in linkMailed, Link!Click(r, n)
      PROVE  Explained(LinkLevel', Len(links'), linkUses')
  <2>1. \A q \in Requests : LinkLevel[q] <= LinkLevel'[q]
    BY <1>1, <1>9 DEF Link!Click, Link!Become, Link!Idle, LinkLevel, Link!User, Link!Slot
  <2> QED
    BY <1>6, <1>9, <2>1 DEF Link!Click
<1>10. ASSUME NEW r \in Requests, Link!Use(r)
       PROVE  Explained(LinkLevel', Len(links'), linkUses')
  <2>1. links' = links /\ linkUses' = linkUses + 1
    BY <1>10 DEF Link!Use
  <2> QED
    BY <1>1, <1>4, <2>1, ExplainedAnew
<1>11. ASSUME NEW r \in Requests, Link!Send(r)
       PROVE  Explained(LinkLevel', Len(links'), linkUses')
  <2> DEFINE copy == linkReq[r].copy  k == LinkLevel[r]
             link == [to |-> linkReq[r].to, change |-> linkReq[r].to # copy.email]
  <2>1. /\ linkReq[r].pc = "sending" /\ Link!MaySend(copy)
        /\ linkUser' = Link!Pending(linkUser, copy, linkReq[r].to)
        /\ links' = Append(links, link)
        /\ Link!Become(r, [Link!Idle EXCEPT !.pc = "mailing", !.link = Len(links) + 1])
        /\ UNCHANGED <<linkNow, linkUses>>
    BY <1>11 DEF Link!Send
  <2>2. copy \in Link!User /\ copy.count \in Nat /\ copy.sent \in Nat /\ linkUser.count \in Nat
    BY <1>1 DEF Link!Slot, Link!User
  <2>3. copy.count < Free
    BY <1>1, <1>3, <2>1, <2>2, LinkConstants DEF Link!MaySend
  <2>4. linkUser'.count = copy.count + 1
    BY <1>1, <2>1 DEF Link!Pending, Link!User
  <2>5. k \in Nat /\ k <= copy.count
    BY <1>1, <2>1, <2>2 DEF LinkLevel
  <2>6. linkReq'[r].pc # "sending" /\ \A q \in Requests \ {r} : linkReq'[q] = linkReq[q]
    BY <1>1, <2>1 DEF Link!Become, Link!Idle
  <2>7. LinkLevel'[r] = copy.count + 1
    BY <2>4, <2>6 DEF LinkLevel
  <2>8. ASSUME NEW q \in Requests PROVE LinkLevel[q] <= LinkLevel'[q] \/ LinkLevel'[q] > k
    <3>1. CASE q = r
      BY <2>2, <2>5, <2>7, <3>1
    <3>2. CASE q # r
      <4>1. linkReq[q].copy.count \in Nat
        BY <1>1 DEF Link!Slot, Link!User
      <4> HIDE DEF k, copy
      <4>2. copy.count \in Nat
        BY <2>2
      <4> QED
        BY <2>2, <2>4, <2>5, <2>6, <3>2, <4>1, <4>2 DEF LinkLevel
    <3> QED
      BY <3>1, <3>2
  <2>9. Len(links') = Len(links) + 1
    <3>1. link \in Link!Link
      BY <2>1 DEF LinkInv, Link!Link
    <3> HIDE DEF link
    <3> QED
      BY <1>1, <2>1, <3>1
  <2>10. k \in 0..(Free - 1) /\ LinkLevel'[r] > k
    BY <2>2, <2>3, <2>5, <2>7, LinkConstants
  <2> HIDE DEF k, copy
  <2>11. LinkLevel[r] = k
    BY DEF k
  <2>12. Explained(LinkLevel', Len(links) + 1, linkUses)
    BY <1>1, <1>4, <1>5, <2>8, <2>10, <2>11, ExplainedGrows
  <2> QED
    BY <2>1, <2>9, <2>12
<1>12. CASE Link!Tick
  BY <1>5, <1>6, <1>12 DEF Link!Tick, LinkLevel
<1>13. CASE UNCHANGED Link!vars
  BY <1>5, <1>6, <1>13 DEF Link!vars, LinkLevel
<1> QED
  BY <1>7, <1>8, <1>9, <1>10, <1>11, <1>12, <1>13 DEF Link!Next

LEMMA LinkBurstsBound == LinkInv /\ LinkBursts => Link!MailBurst
<1> SUFFICES ASSUME LinkInv, LinkBursts, linkNow < LinkTimeout
             PROVE  Len(links) <= Burst * (linkUses + 1)
  BY SameChoosing
<1>1. Len(links) \in Nat /\ linkUses \in Nat
  BY DEF LinkInv, Link!TypeOK
<1> QED
  BY <1>1, ExplainedBounds DEF LinkBursts

-----------------------------------------------------------------------------
(***************************************************************************)
(* Command limits.                                                         *)
(***************************************************************************)

Most == MaxUses + MaxBonus

Adding == {r \in Requests : useReq[r].pc = "adding"}

\* Those that may yet be counted.
MayCount ==
  {r \in Requests : \/ useReq[r].pc \in {"running", "adding"}
                    \/ /\ useReq[r].pc = "read" /\ useReq[r].secure
                       /\ useReq[r].copy.count < Most}

\* Each was let in by a count below the limit, when it was among the others.
UsesCounted ==
  /\ useDb.count + Cardinality(Adding) <= used
  /\ ~lost => useDb.count + Cardinality(Adding) = used
  /\ security.maxUses => useDb.count + Cardinality(MayCount) <= Most - 1 + Slots

\* The date in the database is none before the first use of the last round, or
\* will be overwritten by one that is not.
UsesDated ==
  security.minTime /\ ~lost =>
    /\ round.open => Adding = {}
    /\ \A r \in Adding : useReq[r].at >= round.first
    /\ useDb.last >= round.first \/ Adding # {}
    /\ \A r \in Requests :
         useReq[r].pc = "read" /\ useReq[r].secure => useReq[r].copy.last >= useReq[r].since

CmdInv ==
  /\ Cmd!TypeOK
  /\ \A r \in Adding : useReq[r].at \in Nat
  /\ useDb.last >= Cmd!Never /\ round.first <= useNow
  /\ UsesCounted
  /\ UsesDated

LEMMA CmdConstants ==
  /\ MaxUses \in Nat \ {0} /\ MinTime \in Nat \ {0}
  /\ MaxBonus \in Nat /\ UseTime \in Nat /\ MaxCount \in Nat /\ Most \in Nat \ {0}
  BY AccountAssumption DEF AccountAssumption, Cmd!CmdLimitsAssumption, Most

LEMMA CmdTypes ==
  ASSUME CmdInv
  PROVE  /\ security \in [maxUses : BOOLEAN, minTime : BOOLEAN] /\ useNow \in 0..UseTime
         /\ useDb \in Cmd!Copy /\ cache \in Cmd!Copy \cup {NoEntry}
         /\ useReq \in [Requests -> Cmd!Slot] /\ used \in Nat
         /\ round \in [open : BOOLEAN, first : Int] /\ lost \in BOOLEAN
         /\ useDb.count \in Nat /\ useDb.last \in Int
         /\ \A r \in Requests :
              useReq[r].copy \in Cmd!Copy /\ useReq[r].secure \in BOOLEAN
         /\ Cmd!Idle \in Cmd!Slot /\ Cmd!Idle.pc = "idle"
         /\ Cmd!UnderWay <=> \E r \in Requests : useReq[r].pc \in {"running", "adding"}
<1>1. /\ Cmd!Idle \in Cmd!Slot /\ Cmd!Idle.pc = "idle"
  BY CmdConstants DEF Cmd!Idle, Cmd!Slot, Cmd!Pcs, Cmd!Unused, Cmd!Copy, Cmd!Never
<1> QED
  BY <1>1 DEF CmdInv, Cmd!TypeOK, Cmd!UnderWay, Cmd!Copy, Cmd!Slot

\* What is counted when a slot moves.
LEMMA CmdMoves ==
  ASSUME CmdInv, NEW r \in Requests, NEW next \in Cmd!Slot, Cmd!Become(r, next)
  PROVE  /\ useReq' \in [Requests -> Cmd!Slot] /\ useReq'[r] = next
         /\ \A q \in Requests : q # r => useReq'[q] = useReq[q]
         /\ \A q \in Requests : q # r => (q \in Adding' <=> q \in Adding)
         /\ r \in Adding <=> useReq[r].pc = "adding"
         /\ r \in Adding' <=> next.pc = "adding"
         /\ r \in MayCount <=>
              \/ useReq[r].pc \in {"running", "adding"}
              \/ useReq[r].pc = "read" /\ useReq[r].secure /\ useReq[r].copy.count < Most
         /\ r \in MayCount' <=>
              \/ next.pc \in {"running", "adding"}
              \/ next.pc = "read" /\ next.secure /\ next.copy.count < Most
         /\ Cardinality(Adding) \in Nat /\ Cardinality(Adding)' \in Nat
         /\ (r \in Adding <=> r \in Adding') => Cardinality(Adding)' = Cardinality(Adding)
         /\ r \notin Adding /\ r \in Adding' => Cardinality(Adding)' = Cardinality(Adding) + 1
         /\ r \in Adding /\ r \notin Adding' => Cardinality(Adding)' = Cardinality(Adding) - 1
         /\ Cardinality(MayCount) \in 0..Slots /\ Cardinality(MayCount)' \in 0..Slots
         /\ (r \in MayCount <=> r \in MayCount') => Cardinality(MayCount)' = Cardinality(MayCount)
         /\ r \in MayCount /\ r \notin MayCount' =>
              Cardinality(MayCount)' = Cardinality(MayCount) - 1
<1>1. /\ useReq' \in [Requests -> Cmd!Slot] /\ useReq'[r] = next
      /\ \A q \in Requests : q # r => useReq'[q] = useReq[q]
  BY CmdTypes DEF Cmd!Become
<1>2. /\ Adding \subseteq Requests /\ Adding' \subseteq Requests
      /\ MayCount \subseteq Requests /\ MayCount' \subseteq Requests
  BY DEF Adding, MayCount
<1>3. \A q \in Requests : q # r =>
         (q \in Adding' <=> q \in Adding) /\ (q \in MayCount' <=> q \in MayCount)
  BY <1>1 DEF Adding, MayCount
<1>4. /\ r \in Adding <=> useReq[r].pc = "adding"
      /\ r \in Adding' <=> next.pc = "adding"
      /\ r \in MayCount <=>
              \/ useReq[r].pc \in {"running", "adding"}
              \/ useReq[r].pc = "read" /\ useReq[r].secure /\ useReq[r].copy.count < Most
      /\ r \in MayCount' <=>
              \/ next.pc \in {"running", "adding"}
              \/ next.pc = "read" /\ next.secure /\ next.copy.count < Most
  BY <1>1 DEF Adding, MayCount
<1> DEFINE A == Adding
           B == Adding'
           C == MayCount
           D == MayCount'
<1>5. /\ A \subseteq Requests /\ B \subseteq Requests
      /\ C \subseteq Requests /\ D \subseteq Requests
      /\ \A q \in Requests : q # r => (q \in A <=> q \in B) /\ (q \in C <=> q \in D)
      /\ Cardinality(A) = Cardinality(Adding) /\ Cardinality(B) = Cardinality(Adding)'
      /\ Cardinality(C) = Cardinality(MayCount) /\ Cardinality(D) = Cardinality(MayCount)'
  BY <1>2, <1>3
<1>6. A = Adding /\ B = Adding' /\ C = MayCount /\ D = MayCount'
  OBVIOUS
<1> HIDE DEF A, B, C, D
<1>7. /\ Cardinality(A) \in Nat /\ Cardinality(B) \in Nat
      /\ (r \in A <=> r \in B) => Cardinality(B) = Cardinality(A)
      /\ r \notin A /\ r \in B => Cardinality(B) = Cardinality(A) + 1
      /\ r \in A /\ r \notin B => Cardinality(B) = Cardinality(A) - 1
  BY <1>5, OneMoves, RequestsAreFinite
<1>8. /\ Cardinality(C) \in 0..Slots /\ Cardinality(D) \in 0..Slots
      /\ (r \in C <=> r \in D) => Cardinality(D) = Cardinality(C)
      /\ r \in C /\ r \notin D => Cardinality(D) = Cardinality(C) - 1
  BY <1>5, OneMoves, RequestsAreFinite
<1> QED
  BY <1>1, <1>3, <1>4, <1>5, <1>6, <1>7, <1>8

LEMMA CmdInit == Cmd!Init => CmdInv
<1> SUFFICES ASSUME Cmd!Init PROVE CmdInv
  OBVIOUS
<1>1. /\ useDb = Cmd!Unused /\ useReq = [r \in Requests |-> Cmd!Idle] /\ used = 0
      /\ useNow = 0 /\ round = [open |-> FALSE, first |-> Cmd!Never] /\ lost = FALSE
      /\ security \in [maxUses : BOOLEAN, minTime : BOOLEAN] /\ cache = NoEntry
  BY DEF Cmd!Init
<1>2. /\ Cmd!Idle \in Cmd!Slot /\ Cmd!Idle.pc = "idle" /\ Cmd!Unused \in Cmd!Copy
      /\ Cmd!Unused.count = 0 /\ Cmd!Unused.last = Cmd!Never /\ Cmd!Never \in Int /\ Cmd!Never <= 0
  BY CmdConstants DEF Cmd!Idle, Cmd!Slot, Cmd!Pcs, Cmd!Unused, Cmd!Copy, Cmd!Never
<1>3. Cmd!TypeOK
  <2>1. round \in [open : BOOLEAN, first : Int] /\ lost \in BOOLEAN
    BY <1>1, <1>2
  <2>2. useDb \in Cmd!Copy /\ useDb.count <= used /\ useReq \in [Requests -> Cmd!Slot]
    BY <1>1, <1>2
  <2>3. useNow \in 0..UseTime /\ used \in Nat /\ cache \in Cmd!Copy \cup {NoEntry}
    BY <1>1, CmdConstants
  <2> QED
    BY <1>1, <2>1, <2>2, <2>3 DEF Cmd!TypeOK
<1>4. Adding = {} /\ MayCount = {}
  BY <1>1, <1>2 DEF Adding, MayCount
<1>5. UsesCounted
  BY <1>1, <1>2, <1>4, FS_EmptySet, CmdConstants, RequestsAreFinite DEF UsesCounted
<1>6. UsesDated
  BY <1>1, <1>2, <1>4 DEF UsesDated
<1> QED
  BY <1>1, <1>2, <1>3, <1>4, <1>5, <1>6 DEF CmdInv

\* Steps that count nothing.
LEMMA CmdQuiet ==
  ASSUME CmdInv, NEW r \in Requests, NEW next \in Cmd!Slot, Cmd!Become(r, next),
         UNCHANGED <<security, useNow, useDb, used, lost>>,
         cache' \in Cmd!Copy \cup {NoEntry},
         round' \in [open : BOOLEAN, first : Int], round'.first = round.first,
         round'.open => round.open \/ Adding = {},
         useReq[r].pc # "adding", next.pc # "adding",
         next.pc = "running" => r \in MayCount \/ ~security.maxUses,
         next.pc = "read" /\ next.secure /\ next.copy.count < Most =>
           r \in MayCount \/ useDb.count < Most,
         next.pc = "read" /\ next.secure /\ security.minTime /\ ~lost =>
           next.copy.last >= next.since
  PROVE  CmdInv'
<1>1. /\ useReq' \in [Requests -> Cmd!Slot] /\ useReq'[r] = next
      /\ \A q \in Requests : q # r => useReq'[q] = useReq[q]
  BY CmdMoves
<1>2. Adding' = Adding
  <2>1. r \notin Adding /\ r \notin Adding'
    BY CmdMoves
  <2>2. \A q \in Requests : q # r => (q \in Adding' <=> q \in Adding)
    BY CmdMoves
  <2>3. Adding \subseteq Requests /\ Adding' \subseteq Requests
    BY DEF Adding
  <2> QED
    BY <2>1, <2>2, <2>3
<1>3. /\ Cardinality(MayCount) \in 0..Slots /\ Cardinality(MayCount)' \in 0..Slots
      /\ (r \in MayCount <=> r \in MayCount') => Cardinality(MayCount)' = Cardinality(MayCount)
      /\ r \in MayCount /\ r \notin MayCount' =>
              Cardinality(MayCount)' = Cardinality(MayCount) - 1
      /\ r \in MayCount' <=>
              \/ next.pc \in {"running", "adding"}
              \/ next.pc = "read" /\ next.secure /\ next.copy.count < Most
  BY CmdMoves
<1>4. ASSUME security.maxUses
      PROVE  useDb.count + Cardinality(MayCount)' <= Most - 1 + Slots
  <2>1. useDb.count + Cardinality(MayCount) <= Most - 1 + Slots
    BY <1>4 DEF CmdInv, UsesCounted
  <2>2. r \in MayCount' => r \in MayCount \/ useDb.count < Most
    BY <1>3, <1>4
  <2> QED
    BY <1>3, <2>1, <2>2, CmdTypes, CmdConstants, RequestsAreFinite
<1>5. UsesCounted'
  BY <1>2, <1>4 DEF CmdInv, UsesCounted
<1>6. UsesDated'
  BY <1>1, <1>2 DEF CmdInv, UsesDated, Adding
<1>7. Cmd!TypeOK'
  BY <1>1 DEF CmdInv, Cmd!TypeOK
<1>8. \A q \in Adding' : useReq'[q].at \in Nat
  BY <1>1, <1>2 DEF CmdInv, Adding
<1> QED
  BY <1>5, <1>6, <1>7, <1>8 DEF CmdInv, Cmd!Never

LEMMA ReadDbKeeps ==
  ASSUME CmdInv, NEW r \in Requests, Cmd!ReadDb(r)
  PROVE  CmdInv'
<1> DEFINE since == IF Cmd!UnderWay THEN Cmd!Never ELSE round.first
           next == [Cmd!Idle EXCEPT !.pc = "read", !.copy = useDb, !.since = since]
<1>1. /\ next \in Cmd!Slot /\ next.pc = "read" /\ next.copy = useDb /\ next.since = since
  BY CmdTypes, CmdConstants DEF Cmd!Idle, Cmd!Slot, Cmd!Pcs, Cmd!Unused, Cmd!Never
<1>2. /\ Cmd!Become(r, next) /\ useReq[r].pc = "idle"
      /\ UNCHANGED <<security, useNow, useDb, used, lost>> /\ UNCHANGED round /\ UNCHANGED cache
  BY CmdTypes DEF Cmd!ReadDb
<1>3. ASSUME security.minTime, ~lost PROVE useDb.last >= since
  <2>1. CASE Cmd!UnderWay
    BY <2>1 DEF CmdInv
  <2>2. CASE ~Cmd!UnderWay
    <3>1. Adding = {}
      BY <2>2, CmdTypes DEF Adding
    <3> QED
      BY <1>3, <2>2, <3>1 DEF CmdInv, UsesDated
  <2> QED
    BY <2>1, <2>2
<1>4. cache' \in Cmd!Copy \cup {NoEntry} /\ round' \in [open : BOOLEAN, first : Int]
  BY <1>2, CmdTypes
<1> HIDE DEF next, since
<1> QED
  BY <1>1, <1>2, <1>3, <1>4, CmdQuiet

LEMMA ReadCachedKeeps ==
  ASSUME CmdInv, NEW r \in Requests, Cmd!ReadCached(r)
  PROVE  CmdInv'
<1> DEFINE since == IF Cmd!UnderWay THEN Cmd!Never ELSE round.first
           copy == IF cache = NoEntry THEN useDb ELSE cache
           next == [Cmd!Idle EXCEPT !.pc = "read", !.secure = FALSE, !.copy = copy,
                                    !.since = since]
<1>1. copy \in Cmd!Copy /\ since \in Int
  BY CmdTypes, CmdConstants DEF Cmd!Never
<1>2. /\ Cmd!Become(r, next) /\ useReq[r].pc = "idle" /\ cache' = copy
      /\ UNCHANGED <<security, useNow, useDb, used, lost>> /\ UNCHANGED round
  BY CmdTypes DEF Cmd!ReadCached
<1> HIDE DEF copy, since
<1>3. next \in Cmd!Slot /\ next.pc = "read" /\ ~next.secure
  <2>1. Cmd!Idle \in Cmd!Slot
    BY CmdTypes
  <2> QED
    BY <1>1, <2>1 DEF Cmd!Slot, Cmd!Pcs
<1>4. cache' \in Cmd!Copy \cup {NoEntry} /\ round' \in [open : BOOLEAN, first : Int]
  BY <1>1, <1>2, CmdTypes
<1> HIDE DEF next
<1> QED
  BY <1>2, <1>3, <1>4, CmdQuiet

LEMMA AuthorizeKeeps ==
  ASSUME CmdInv, NEW r \in Requests, Cmd!Authorize(r)
  PROVE  CmdInv'
<1> DEFINE next == [useReq[r] EXCEPT !.pc = "running"]
<1>1. next \in Cmd!Slot /\ next.pc = "running"
  BY CmdTypes DEF Cmd!Slot, Cmd!Pcs
<1>2. /\ Cmd!Become(r, next) /\ useReq[r].pc = "read"
      /\ UNCHANGED <<security, useNow, useDb, used, lost>> /\ UNCHANGED cache
      /\ round' = IF Cmd!UnderWay THEN round ELSE [round EXCEPT !.open = TRUE]
  BY DEF Cmd!Authorize
<1>3. ASSUME security.maxUses PROVE r \in MayCount
  <2>1. PICK bonus \in 0..MaxBonus : Cmd!Permitted(useReq[r], bonus)
    BY DEF Cmd!Authorize
  <2>2. useReq[r].secure /\ useReq[r].copy.count < MaxUses + bonus
    BY <1>3, <2>1 DEF Cmd!Permitted, Cmd!MayUse
  <2>3. useReq[r].copy.count < Most
    BY <2>2, CmdTypes, CmdConstants DEF Most, Cmd!Copy
  <2> QED
    BY <1>2, <2>2, <2>3 DEF MayCount
<1>4. /\ round' \in [open : BOOLEAN, first : Int] /\ round'.first = round.first
      /\ round'.open => round.open \/ ~Cmd!UnderWay
  BY <1>2, CmdTypes
<1>5. ~Cmd!UnderWay => Adding = {}
  BY CmdTypes DEF Adding
<1>6. cache' \in Cmd!Copy \cup {NoEntry}
  BY <1>2, CmdTypes
<1> HIDE DEF next
<1> QED
  BY <1>1, <1>2, <1>3, <1>4, <1>5, <1>6, CmdQuiet

\* 403 or 429, or the command throws.
LEMMA RefuseKeeps ==
  ASSUME CmdInv, NEW r \in Requests, Cmd!Refuse(r) \/ Cmd!Throw(r)
  PROVE  CmdInv'
<1>1. /\ Cmd!Become(r, Cmd!Idle) /\ useReq[r].pc \in {"read", "running"}
      /\ cache' = useReq[r].copy /\ UNCHANGED <<security, useNow, useDb, used, lost>>
      /\ UNCHANGED round
  BY DEF Cmd!Refuse, Cmd!Throw
<1>2. cache' \in Cmd!Copy \cup {NoEntry} /\ round' \in [open : BOOLEAN, first : Int]
  BY <1>1, CmdTypes
<1> QED
  BY <1>1, <1>2, CmdTypes, CmdQuiet

LEMMA ReturnKeeps ==
  ASSUME CmdInv, NEW r \in Requests, Cmd!Return(r)
  PROVE  CmdInv'
<1> DEFINE next == [useReq[r] EXCEPT !.pc = "adding", !.at = useNow]
<1>1. next \in Cmd!Slot /\ next.pc = "adding" /\ next.at = useNow
  <2>1. useNow \in Int /\ useReq[r] \in Cmd!Slot
    BY CmdTypes
  <2> QED
    BY <2>1 DEF Cmd!Slot, Cmd!Pcs
<1>2. /\ Cmd!Become(r, next) /\ useReq[r].pc = "running" /\ used' = used + 1
      /\ round' = IF round.open THEN [open |-> FALSE, first |-> useNow] ELSE round
      /\ UNCHANGED <<security, useNow, useDb, cache, lost>>
  BY DEF Cmd!Return
<1> HIDE DEF next
<1>3. /\ useReq' \in [Requests -> Cmd!Slot] /\ useReq'[r] = next
      /\ \A q \in Requests : q # r => useReq'[q] = useReq[q]
  BY <1>1, <1>2, CmdMoves
<1>4. /\ r \notin Adding /\ r \in Adding' /\ Cardinality(Adding)' = Cardinality(Adding) + 1
      /\ Cardinality(Adding) \in Nat
      /\ Cardinality(MayCount)' = Cardinality(MayCount)
      /\ \A q \in Requests : q # r => (q \in Adding' <=> q \in Adding)
  BY <1>1, <1>2, CmdMoves
<1>5. UsesCounted'
  BY <1>2, <1>4, CmdTypes DEF CmdInv, UsesCounted
<1>6. Cmd!TypeOK'
  BY <1>2, <1>3, CmdTypes DEF CmdInv, Cmd!TypeOK
<1>7. \A q \in Adding' : q \in Requests /\ (q = r \/ q \in Adding)
  BY <1>4 DEF Adding
<1>8. ASSUME security.minTime, ~lost
      PROVE  /\ ~round'.open
             /\ \A q \in Adding' : useReq'[q].at >= round'.first
             /\ \A q \in Requests :
                  useReq'[q].pc = "read" /\ useReq'[q].secure
                  => useReq'[q].copy.last >= useReq'[q].since
  <2>1. /\ round.open => Adding = {}
        /\ \A q \in Adding : useReq[q].at >= round.first
        /\ \A q \in Requests :
             useReq[q].pc = "read" /\ useReq[q].secure => useReq[q].copy.last >= useReq[q].since
    BY <1>8 DEF CmdInv, UsesDated
  <2>2. ~round'.open
    BY <1>2
  <2>3. ASSUME NEW q \in Adding' PROVE useReq'[q].at >= round'.first
    <3>1. CASE q = r
      BY <1>1, <1>2, <1>3, <3>1, CmdTypes DEF CmdInv
    <3>2. CASE q # r
      BY <1>2, <1>3, <1>7, <2>1, <3>2
    <3> QED
      BY <3>1, <3>2
  <2>4. ASSUME NEW q \in Requests, useReq'[q].pc = "read", useReq'[q].secure
        PROVE  useReq'[q].copy.last >= useReq'[q].since
    BY <1>1, <1>3, <2>1, <2>4
  <2> QED
    BY <2>2, <2>3, <2>4
<1>9. UsesDated'
  BY <1>2, <1>4, <1>8 DEF UsesDated
<1>10. \A q \in Adding' : useReq'[q].at \in Nat
  BY <1>1, <1>3, <1>7, CmdTypes DEF CmdInv
<1>11. useDb'.last >= Cmd!Never /\ round'.first <= useNow'
  BY <1>2, CmdTypes DEF CmdInv
<1> QED
  BY <1>5, <1>6, <1>9, <1>10, <1>11 DEF CmdInv, Cmd!Never

LEMMA CountKeeps ==
  ASSUME CmdInv, NEW r \in Requests, Cmd!Count(r)
  PROVE  CmdInv'
<1>1. /\ Cmd!Become(r, Cmd!Idle) /\ useReq[r].pc = "adding"
      /\ useDb' = [count |-> useDb.count + 1,
                   last |-> IF security.minTime THEN useReq[r].at ELSE useDb.last]
      /\ UNCHANGED <<security, useNow, cache, used, round, lost>>
  BY DEF Cmd!Count, Cmd!Counted
<1>2. /\ useReq' \in [Requests -> Cmd!Slot] /\ useReq'[r] = Cmd!Idle
      /\ \A q \in Requests : q # r => useReq'[q] = useReq[q]
  BY <1>1, CmdTypes, CmdMoves
<1>3. /\ r \in Adding /\ r \notin Adding' /\ Cardinality(Adding)' = Cardinality(Adding) - 1
      /\ Cardinality(Adding) \in Nat /\ Cardinality(MayCount) \in Nat
      /\ Cardinality(MayCount)' = Cardinality(MayCount) - 1
      /\ \A q \in Requests : q # r => (q \in Adding' <=> q \in Adding)
  BY <1>1, CmdTypes, CmdMoves
<1>4. useReq[r].at \in Nat
  BY <1>3 DEF CmdInv
<1>5. /\ useDb' \in Cmd!Copy /\ useDb'.count = useDb.count + 1 /\ useDb.count \in Nat
      /\ useDb'.last = IF security.minTime THEN useReq[r].at ELSE useDb.last
  BY <1>1, <1>4, CmdTypes DEF Cmd!Copy
<1>6. UsesCounted'
  BY <1>1, <1>3, <1>5, CmdTypes, CmdConstants, RequestsAreFinite DEF CmdInv, UsesCounted
<1>7. Cardinality(Adding)' \in Nat
  BY <1>1, CmdTypes, CmdMoves
<1>8. Cmd!TypeOK'
  <2>1. useDb'.count <= used'
    BY <1>1, <1>5, <1>6, <1>7, CmdTypes DEF UsesCounted
  <2> QED
    BY <1>1, <1>2, <1>5, <2>1 DEF CmdInv, Cmd!TypeOK
<1>9. \A q \in Adding' : q # r /\ q \in Adding /\ q \in Requests
  BY <1>3 DEF Adding
<1>10. UsesDated'
  <2> SUFFICES ASSUME security.minTime, ~lost
               PROVE  /\ ~round.open
                      /\ \A q \in Adding' : useReq'[q].at >= round.first
                      /\ useDb'.last >= round.first
                      /\ \A q \in Requests :
                           useReq'[q].pc = "read" /\ useReq'[q].secure
                           => useReq'[q].copy.last >= useReq'[q].since
    BY <1>1 DEF UsesDated
  <2>1. /\ round.open => Adding = {}
        /\ \A q \in Adding : useReq[q].at >= round.first
        /\ \A q \in Requests :
             useReq[q].pc = "read" /\ useReq[q].secure => useReq[q].copy.last >= useReq[q].since
    BY DEF CmdInv, UsesDated
  <2> QED
    BY <1>2, <1>3, <1>5, <1>9, <2>1, CmdTypes
<1>11. \A q \in Adding' : useReq'[q].at \in Nat
  BY <1>2, <1>9 DEF CmdInv
<1>12. useDb'.last >= Cmd!Never
  BY <1>4, <1>5, CmdConstants DEF CmdInv, Cmd!Never
<1> QED
  BY <1>1, <1>6, <1>8, <1>10, <1>11, <1>12 DEF CmdInv, Cmd!Never

LEMMA CrashKeeps ==
  ASSUME CmdInv, Cmd!Crash
  PROVE  CmdInv'
<1>1. /\ useReq' = [r \in Requests |-> Cmd!Idle] /\ cache' = NoEntry
      /\ lost' = (lost \/ Adding # {})
      /\ UNCHANGED <<security, useNow, useDb, used, round>>
  BY DEF Cmd!Crash, Adding
<1>2. Adding' = {} /\ MayCount' = {} /\ Cardinality({}) = 0
  BY <1>1, CmdTypes, FS_EmptySet DEF Adding, MayCount
<1>3. Cardinality(Adding) \in Nat /\ Cardinality(MayCount) \in Nat
  <2>1. Adding \subseteq Requests /\ MayCount \subseteq Requests
    BY DEF Adding, MayCount
  <2> QED
    BY <2>1, RequestsAreFinite, FS_Subset, FS_CardinalityType
<1>4. UsesCounted'
  <2>1. Cardinality(Adding)' = 0 /\ Cardinality(MayCount)' = 0
    BY <1>2
  <2> DEFINE a == Cardinality(Adding)
             m == Cardinality(MayCount)
  <2>2. /\ useDb.count + a <= used
        /\ ~lost => useDb.count + a = used
        /\ security.maxUses => useDb.count + m <= Most - 1 + Slots
    BY DEF CmdInv, UsesCounted
  <2>3. Adding = {} => a = 0
    BY <1>2
  <2>4. a \in Nat /\ m \in Nat
    BY <1>3
  <2> HIDE DEF a, m
  <2>5. /\ useDb.count + 0 <= used
        /\ ~lost /\ Adding = {} => useDb.count + 0 = used
        /\ security.maxUses => useDb.count + 0 <= Most - 1 + Slots
    BY <2>2, <2>3, <2>4, CmdTypes, CmdConstants, RequestsAreFinite
  <2> QED
    BY <1>1, <2>1, <2>5 DEF UsesCounted
<1>5. UsesDated'
  BY <1>1, <1>2, CmdTypes DEF CmdInv, UsesDated
<1>6. Cmd!TypeOK'
  BY <1>1, CmdTypes DEF CmdInv, Cmd!TypeOK
<1> QED
  BY <1>1, <1>2, <1>4, <1>5, <1>6 DEF CmdInv, Cmd!Never

LEMMA CmdStep == CmdInv /\ [Cmd!Next]_(Cmd!vars) => CmdInv'
<1> SUFFICES ASSUME CmdInv, [Cmd!Next]_(Cmd!vars) PROVE CmdInv'
  OBVIOUS
<1>1. ASSUME UNCHANGED <<security, useDb, useReq, used, round, lost>>,
             cache' \in Cmd!Copy \cup {NoEntry}, useNow' \in 0..UseTime, useNow' >= useNow
      PROVE  CmdInv'
  <2>1. Adding' = Adding /\ MayCount' = MayCount
    BY <1>1 DEF Adding, MayCount
  <2>2. UsesCounted' /\ UsesDated'
    BY <1>1, <2>1 DEF CmdInv, UsesCounted, UsesDated
  <2>3. Cmd!TypeOK'
    BY <1>1 DEF CmdInv, Cmd!TypeOK
  <2>4. round'.first <= useNow'
    BY <1>1, CmdTypes DEF CmdInv
  <2> QED
    BY <1>1, <2>1, <2>2, <2>3, <2>4 DEF CmdInv, Cmd!Never
<1>2. CASE \E r \in Requests : Cmd!PutBack(r)
  <2>1. UNCHANGED <<security, useDb, useReq, used, round, lost>> /\ UNCHANGED useNow
    BY <1>2 DEF Cmd!PutBack
  <2> QED
    BY <1>1, <1>2, <2>1, CmdTypes DEF Cmd!PutBack
<1>3. CASE Cmd!Lapse \/ Cmd!Tick \/ UNCHANGED Cmd!vars
  <2>1. UNCHANGED <<security, useDb, useReq, used, round, lost>>
    BY <1>3 DEF Cmd!Lapse, Cmd!Tick, Cmd!vars
  <2>2. cache' \in Cmd!Copy \cup {NoEntry} /\ useNow' \in 0..UseTime /\ useNow' >= useNow
    BY <1>3, CmdTypes, CmdConstants DEF Cmd!Lapse, Cmd!Tick, Cmd!vars
  <2> QED
    BY <1>1, <2>1, <2>2
<1> QED
  BY <1>2, <1>3, ReadDbKeeps, ReadCachedKeeps, AuthorizeKeeps, RefuseKeeps, ReturnKeeps,
     CountKeeps, CrashKeeps DEF Cmd!Next

LEMMA UsesAreBounded == CmdInv => Cmd!UsesBound
<1> SUFFICES ASSUME CmdInv, security.maxUses, ~lost
             PROVE  used <= MaxUses + MaxBonus - 1 + Slots
  BY DEF Cmd!UsesBound, Slots, Cmd!Cardinality, Cardinality
<1>1. /\ useDb.count + Cardinality(Adding) = used
      /\ useDb.count + Cardinality(MayCount) <= Most - 1 + Slots
  BY DEF CmdInv, UsesCounted
<1>2. Adding \subseteq MayCount /\ MayCount \subseteq Requests
  BY DEF Adding, MayCount
<1>3. /\ Cardinality(Adding) \in Nat /\ Cardinality(MayCount) \in Nat
      /\ Cardinality(Adding) <= Cardinality(MayCount)
  BY <1>2, RequestsAreFinite, FS_Subset, FS_CardinalityType
<1> QED
  BY <1>1, <1>3, CmdTypes, CmdConstants, RequestsAreFinite DEF Most

LEMMA UsesAreSpaced ==
  CmdInv /\ [Cmd!Next]_(Cmd!vars) =>
    \A r \in Requests :
      /\ security.minTime /\ useReq[r].secure /\ ~lost
      /\ useReq[r].pc = "read" /\ useReq'[r].pc = "running"
      => useNow >= useReq[r].since + MinTime
<1> SUFFICES ASSUME CmdInv, [Cmd!Next]_(Cmd!vars), NEW r \in Requests,
                    security.minTime, useReq[r].secure, ~lost,
                    useReq[r].pc = "read", useReq'[r].pc = "running"
             PROVE  useNow >= useReq[r].since + MinTime
  OBVIOUS
<1>1. Cmd!Authorize(r)
  <2>1. useReq' # useReq
    OBVIOUS
  <2>2. ~Cmd!Crash
    BY CmdTypes DEF Cmd!Crash
  <2>3. PICK q \in Requests : \/ Cmd!ReadDb(q) \/ Cmd!ReadCached(q) \/ Cmd!Authorize(q)
                              \/ Cmd!Refuse(q) \/ Cmd!Return(q) \/ Cmd!Throw(q) \/ Cmd!Count(q)
    BY <2>1, <2>2 DEF Cmd!Next, Cmd!vars, Cmd!PutBack, Cmd!Lapse, Cmd!Tick
  <2>4. PICK next : Cmd!Become(q, next)
    BY <2>3 DEF Cmd!ReadDb, Cmd!ReadCached, Cmd!Authorize, Cmd!Refuse, Cmd!Return, Cmd!Throw,
         Cmd!Count
  <2>5. q = r
    BY <2>4, CmdTypes DEF Cmd!Become
  <2>6. ~Cmd!Refuse(r)
    BY CmdTypes DEF Cmd!Refuse, Cmd!Become
  <2>7. ~Cmd!ReadDb(r) /\ ~Cmd!ReadCached(r)
    BY CmdTypes DEF Cmd!ReadDb, Cmd!ReadCached
  <2> QED
    BY <2>3, <2>5, <2>6, <2>7 DEF Cmd!Return, Cmd!Throw, Cmd!Count
<1>2. useReq[r].copy.last + MinTime <= useNow
  BY <1>1 DEF Cmd!Authorize, Cmd!Permitted
<1>3. useReq[r].copy.last >= useReq[r].since
  BY DEF CmdInv, UsesDated
<1>4. useReq[r].copy.last \in Int /\ useReq[r].since \in Int /\ useNow \in Int
  BY CmdTypes DEF Cmd!Copy, Cmd!Slot
<1> QED
  BY <1>2, <1>3, <1>4, CmdConstants

-----------------------------------------------------------------------------
(***************************************************************************)
(* Login.                                                                  *)
(***************************************************************************)

At(pcs) == {r \in Requests : loginReq[r].pc \in pcs}

Counting == Cardinality(At({"counting"}))
Guessing == Cardinality(At({"comparing", "counting"}))
Mailing == Cardinality(At({"mailing"}))

\* Between two successes.
Guesses == LimitCount - 1 + Slots
GuessesFor(n) == Guesses * n
MailsFor(n) == Slots * n

\* Failures that are not in the count are on their way there, or were lost
\* when a success wrote zero; each success loses no more than the lock allows.
Guessed ==
  /\ loginUser.count + Counting <= fails
  /\ loginNow < SignIn!LockTicks(LimitCount) =>
       /\ loginUser.count + Guessing <= Guesses
       /\ fails - loginUser.count - Counting <= GuessesFor(grants)

\* When no code is pending none was mailed since the last success.
CodesMailed ==
  loginNow < CodeTicks =>
    IF loginUser.sent = SignIn!Never
    THEN codes <= MailsFor(grants)
    ELSE codes + Mailing <= MailsFor(grants + 1)

SlotOK(slot) ==
  /\ slot.code \in 0..codes
  /\ slot.pc \notin {"idle", "reading"} => slot.copy.twoFA = loginUser.twoFA

SignInInv ==
  /\ SignIn!TypeOK
  /\ loginUser.sent = SignIn!Never \/ loginUser.sent \in Nat
  /\ \A r \in Requests : SlotOK(loginReq[r])
  /\ loginUser.twoFA => loginUser.code \notin spent
  /\ Guessed
  /\ CodesMailed

LEMMA SignInConstants ==
  /\ LimitCount \in Nat \ {0} /\ Cap \in Nat /\ CodeTicks \in Nat \ {0} /\ LoginTime \in Nat
  /\ SignIn!Never \in Int /\ SignIn!Never = -CodeTicks /\ SignIn!NoCode = 0
  /\ Guesses \in Nat /\ Guesses = LimitCount - 1 + Slots
  /\ \A n \in Nat : /\ GuessesFor(n) \in Nat /\ GuessesFor(n + 1) = GuessesFor(n) + Guesses
                    /\ MailsFor(n) \in Nat /\ MailsFor(n + 1) = MailsFor(n) + Slots
<1>1. /\ LimitCount \in Nat \ {0} /\ Cap \in Nat /\ CodeTicks \in Nat \ {0} /\ LoginTime \in Nat
  BY AccountAssumption DEF AccountAssumption, SignIn!LoginAssumption
<1>2. Guesses \in Nat /\ Slots \in Nat
  BY <1>1, RequestsAreFinite DEF Guesses
<1>3. \A k, n \in Nat : k * n \in Nat /\ k * (n + 1) = k * n + k
  OBVIOUS
<1>4. \A n \in Nat : /\ GuessesFor(n) \in Nat /\ GuessesFor(n + 1) = GuessesFor(n) + Guesses
                     /\ MailsFor(n) \in Nat /\ MailsFor(n + 1) = MailsFor(n) + Slots
  BY <1>2, <1>3 DEF GuessesFor, MailsFor
<1> QED
  BY <1>1, <1>2, <1>4 DEF SignIn!Never, SignIn!NoCode, Guesses

\* More failures never lock for less.
LEMMA LockGrows ==
  /\ SignIn!LockTicks(LimitCount) \in Nat
  /\ \A n \in Nat : n >= LimitCount =>
       SignIn!LockTicks(n) \in Nat /\ SignIn!LockTicks(n) >= SignIn!LockTicks(LimitCount)
<1>1. LimitCount \in Nat /\ Cap \in Nat /\ Cap >= LimitCount * LimitCount
  BY AccountAssumption DEF AccountAssumption, SignIn!LoginAssumption
<1>2. SignIn!LockTicks(LimitCount) = LimitCount * LimitCount /\ LimitCount * LimitCount \in Nat
  BY <1>1 DEF SignIn!LockTicks, SignIn!Least
<1>3. ASSUME NEW n \in Nat, n >= LimitCount PROVE n * n \in Nat /\ n * n >= LimitCount * LimitCount
  <2>1. \A a, b, c \in Nat : a >= b => c * a >= c * b /\ a * c >= b * c
    OBVIOUS
  <2>2. n * n >= n * LimitCount /\ n * LimitCount >= LimitCount * LimitCount
    BY <1>1, <1>3, <2>1
  <2>3. n * n \in Nat /\ n * LimitCount \in Nat
    BY <1>1
  <2> QED
    BY <1>2, <2>2, <2>3
<1> QED
  BY <1>1, <1>2, <1>3 DEF SignIn!LockTicks, SignIn!Least

LEMMA SignInTypes ==
  ASSUME SignInInv
  PROVE  /\ loginNow \in 0..LoginTime /\ recent \in BOOLEAN /\ loginUser \in SignIn!User
         /\ loginReq \in [Requests -> SignIn!Slot] /\ codes \in Nat /\ spent \subseteq 1..codes
         /\ fails \in Nat /\ grants \in Nat
         /\ loginUser.count \in Nat /\ loginUser.twoFA \in BOOLEAN /\ loginUser.sent \in Int
         /\ \A r \in Requests : /\ loginReq[r].copy \in SignIn!User /\ loginReq[r].code \in Nat
                                /\ loginReq[r].at \in Nat /\ loginReq[r].pc \in SignIn!Pcs
         /\ SignIn!Idle \in SignIn!Slot /\ SignIn!Idle.pc = "idle" /\ SignIn!Idle.code = 0
         /\ Counting \in Nat /\ Guessing \in Nat /\ Mailing \in Nat /\ Counting <= Guessing
<1>1. /\ SignIn!Idle \in SignIn!Slot /\ SignIn!Idle.pc = "idle" /\ SignIn!Idle.code = 0
  BY SignInConstants
     DEF SignIn!Idle, SignIn!Slot, SignIn!Pcs, SignIn!Unread, SignIn!User
<1>2. /\ At({"counting"}) \subseteq At({"comparing", "counting"})
      /\ At({"comparing", "counting"}) \subseteq Requests /\ At({"mailing"}) \subseteq Requests
  BY DEF At
<1>3. Counting \in Nat /\ Guessing \in Nat /\ Mailing \in Nat /\ Counting <= Guessing
  BY <1>2, RequestsAreFinite, FS_Subset, FS_CardinalityType DEF Counting, Guessing, Mailing
<1> QED
  BY <1>1, <1>3 DEF SignInInv, SignIn!TypeOK, SignIn!User, SignIn!Slot

LEMMA SignInMoves ==
  ASSUME SignInInv, NEW r \in Requests, NEW next \in SignIn!Slot, SignIn!Become(r, next)
  PROVE  /\ loginReq' \in [Requests -> SignIn!Slot] /\ loginReq'[r] = next
         /\ \A q \in Requests : q # r => loginReq'[q] = loginReq[q]
         /\ Counting \in 0..Slots /\ Counting' \in 0..Slots
         /\ Guessing \in 0..Slots /\ Guessing' \in 0..Slots
         /\ Mailing \in 0..Slots /\ Mailing' \in 0..Slots
         /\ LET old == loginReq[r].pc IN
            /\ (old = "counting" <=> next.pc = "counting") => Counting' = Counting
            /\ old # "counting" /\ next.pc = "counting" => Counting' = Counting + 1
            /\ old = "counting" /\ next.pc # "counting" => Counting' = Counting - 1
            /\ (old \in {"comparing", "counting"} <=> next.pc \in {"comparing", "counting"}) =>
                 Guessing' = Guessing
            /\ old \in {"comparing", "counting"} /\ next.pc \notin {"comparing", "counting"} =>
                 Guessing' = Guessing - 1
            /\ (old = "mailing" <=> next.pc = "mailing") => Mailing' = Mailing
            /\ old = "mailing" /\ next.pc # "mailing" => Mailing' = Mailing - 1
<1>1. /\ loginReq' \in [Requests -> SignIn!Slot] /\ loginReq'[r] = next
      /\ \A q \in Requests : q # r => loginReq'[q] = loginReq[q]
  BY SignInTypes DEF SignIn!Become
<1>2. ASSUME NEW pcs
      PROVE  /\ Cardinality(At(pcs)) \in 0..Slots /\ Cardinality(At(pcs)') \in 0..Slots
             /\ (loginReq[r].pc \in pcs <=> next.pc \in pcs) =>
                  Cardinality(At(pcs)') = Cardinality(At(pcs))
             /\ loginReq[r].pc \notin pcs /\ next.pc \in pcs =>
                  Cardinality(At(pcs)') = Cardinality(At(pcs)) + 1
             /\ loginReq[r].pc \in pcs /\ next.pc \notin pcs =>
                  Cardinality(At(pcs)') = Cardinality(At(pcs)) - 1
  <2> DEFINE A == At(pcs)
             B == At(pcs)'
  <2>1. /\ A \subseteq Requests /\ B \subseteq Requests
        /\ \A q \in Requests : q # r => (q \in A <=> q \in B)
        /\ r \in A <=> loginReq[r].pc \in pcs
        /\ r \in B <=> next.pc \in pcs
    BY <1>1 DEF At
  <2> HIDE DEF A, B
  <2>2. /\ Cardinality(A) \in 0..Slots /\ Cardinality(B) \in 0..Slots
        /\ (r \in A <=> r \in B) => Cardinality(B) = Cardinality(A)
        /\ r \notin A /\ r \in B => Cardinality(B) = Cardinality(A) + 1
        /\ r \in A /\ r \notin B => Cardinality(B) = Cardinality(A) - 1
    BY <2>1, OneMoves
  <2> QED
    BY <2>1, <2>2 DEF A, B
<1> DEFINE old == loginReq[r].pc
<1>3. /\ Counting = Cardinality(At({"counting"})) /\ Counting' = Cardinality(At({"counting"})')
      /\ Mailing = Cardinality(At({"mailing"})) /\ Mailing' = Cardinality(At({"mailing"})')
      /\ Guessing = Cardinality(At({"comparing", "counting"}))
      /\ Guessing' = Cardinality(At({"comparing", "counting"})')
  BY DEF Counting, Guessing, Mailing
<1>4. /\ Counting \in 0..Slots /\ Counting' \in 0..Slots
      /\ (old = "counting" <=> next.pc = "counting") => Counting' = Counting
      /\ old # "counting" /\ next.pc = "counting" => Counting' = Counting + 1
      /\ old = "counting" /\ next.pc # "counting" => Counting' = Counting - 1
  BY <1>2, <1>3
<1>5. /\ Mailing \in 0..Slots /\ Mailing' \in 0..Slots
      /\ (old = "mailing" <=> next.pc = "mailing") => Mailing' = Mailing
      /\ old = "mailing" /\ next.pc # "mailing" => Mailing' = Mailing - 1
  BY <1>2, <1>3
<1>6. /\ Guessing \in 0..Slots /\ Guessing' \in 0..Slots
      /\ (old \in {"comparing", "counting"} <=> next.pc \in {"comparing", "counting"}) =>
           Guessing' = Guessing
      /\ old \in {"comparing", "counting"} /\ next.pc \notin {"comparing", "counting"} =>
           Guessing' = Guessing - 1
  BY <1>2, <1>3
<1> QED
  BY <1>1, <1>4, <1>5, <1>6

LEMMA SignInInit == SignIn!Init => SignInInv
<1> SUFFICES ASSUME SignIn!Init PROVE SignInInv
  OBVIOUS
<1>1. /\ loginNow = 0 /\ recent = FALSE /\ loginReq = [r \in Requests |-> SignIn!Idle]
      /\ codes = 0 /\ spent = {} /\ fails = 0 /\ grants = 0
  BY DEF SignIn!Init
<1>2. /\ loginUser \in SignIn!User /\ loginUser.count = 0 /\ loginUser.sent = SignIn!Never
  BY SignInConstants DEF SignIn!Init, SignIn!Unread, SignIn!User
<1>3. /\ SignIn!Idle \in SignIn!Slot /\ SignIn!Idle.pc = "idle" /\ SignIn!Idle.code = 0
  BY SignInConstants
     DEF SignIn!Idle, SignIn!Slot, SignIn!Pcs, SignIn!Unread, SignIn!User
<1>4. SignIn!TypeOK
  <2>1. loginNow \in 0..LoginTime
    BY <1>1, SignInConstants
  <2>4. recent \in BOOLEAN
    BY <1>1
  <2>2. loginReq \in [Requests -> SignIn!Slot] /\ spent \subseteq 1..codes
    BY <1>1, <1>3
  <2>3. codes \in Nat /\ fails \in Nat /\ grants \in Nat /\ loginUser.count <= fails
    BY <1>1, <1>2
  <2> QED
    BY <1>2, <2>1, <2>2, <2>3, <2>4 DEF SignIn!TypeOK
<1>5. Counting = 0 /\ Guessing = 0
  <2>1. At({"counting"}) = {} /\ At({"comparing", "counting"}) = {}
    BY <1>1, <1>3 DEF At
  <2> QED
    BY <2>1, FS_EmptySet DEF Counting, Guessing
<1>6. Guessed /\ CodesMailed
  BY <1>1, <1>2, <1>5, SignInConstants DEF Guessed, CodesMailed
<1>7. \A r \in Requests : SlotOK(loginReq[r])
  <2> SUFFICES ASSUME NEW r \in Requests PROVE SlotOK(loginReq[r])
    OBVIOUS
  <2>1. loginReq[r] = SignIn!Idle /\ 0 \in 0..codes
    BY <1>1
  <2> QED
    BY <1>3, <2>1 DEF SlotOK
<1> QED
  BY <1>1, <1>2, <1>4, <1>6, <1>7 DEF SignInInv

\* Steps that write nothing to the user.
LEMMA SignInQuiet ==
  ASSUME SignInInv, NEW r \in Requests, NEW next \in SignIn!Slot, SignIn!Become(r, next),
         UNCHANGED <<loginNow, loginUser, codes, spent, grants>>, recent' \in BOOLEAN,
         SlotOK(next), loginReq[r].pc # "counting",
         \/ next.pc # "counting" /\ UNCHANGED fails
         \/ next.pc = "counting" /\ loginReq[r].pc = "comparing" /\ fails' = fails + 1,
         next.pc = "comparing" => loginReq[r].pc = "comparing" \/ ~SignIn!Locked,
         next.pc = "mailing" => loginReq[r].pc = "mailing" \/ loginUser.sent + CodeTicks <= loginNow
  PROVE  SignInInv'
<1>1. /\ loginReq' \in [Requests -> SignIn!Slot] /\ loginReq'[r] = next
      /\ \A q \in Requests : q # r => loginReq'[q] = loginReq[q]
  BY SignInMoves
<1>2. fails' \in Nat /\ fails' - Counting' = fails - Counting /\ Counting' \in Nat
      /\ fails' >= fails
  BY SignInMoves, SignInTypes
<1>3. Guessing' \in 0..Slots /\ (Guessing' <= Guessing \/ ~SignIn!Locked)
  BY SignInMoves
<1>4. ASSUME loginNow < SignIn!LockTicks(LimitCount), ~SignIn!Locked
      PROVE  loginUser.count <= LimitCount - 1
  <2> SUFFICES ASSUME loginUser.count >= LimitCount PROVE FALSE
    BY SignInTypes, SignInConstants
  <2>1. loginNow - loginUser.last < SignIn!LockTicks(loginUser.count)
    <3>1. loginUser.last \in Nat
      BY SignInTypes DEF SignIn!User
    <3> QED
      BY <1>4, <3>1, LockGrows, SignInTypes, SignInConstants
  <2> QED
    BY <1>4, <2>1 DEF SignIn!Locked
<1>5. Guessed'
  <2>1. loginUser.count + Counting' <= fails'
    BY <1>2, SignInTypes DEF SignInInv, Guessed
  <2> SUFFICES ASSUME loginNow < SignIn!LockTicks(LimitCount)
               PROVE  /\ loginUser.count + Guessing' <= Guesses
                      /\ fails' - loginUser.count - Counting' <= GuessesFor(grants)
    BY <2>1 DEF Guessed, SignIn!LockTicks, SignIn!Least, Guesses, GuessesFor, Slots
  <2>2. /\ loginUser.count + Guessing <= Guesses
        /\ fails - loginUser.count - Counting <= GuessesFor(grants)
    BY DEF SignInInv, Guessed
  <2>3. loginUser.count + Guessing' <= Guesses
    BY <1>3, <1>4, <2>2, SignInTypes, SignInConstants, RequestsAreFinite
  <2> QED
    BY <1>2, <2>2, <2>3, SignInTypes, SignInConstants
<1>6. CodesMailed'
  <2> SUFFICES ASSUME loginNow < CodeTicks, loginUser.sent # SignIn!Never
               PROVE  codes + Mailing' <= MailsFor(grants + 1)
    BY DEF SignInInv, CodesMailed, SignIn!Never, MailsFor, Slots
  <2>1. loginUser.sent \in Nat /\ loginNow \in Nat
    BY SignInTypes DEF SignInInv
  <2>2. next.pc = "mailing" => loginReq[r].pc = "mailing"
    BY <2>1, SignInConstants
  <2>3. Mailing' <= Mailing /\ Mailing' \in Nat
    BY <2>2, SignInMoves
  <2>4. codes + Mailing <= MailsFor(grants + 1)
    BY DEF SignInInv, CodesMailed
  <2>5. MailsFor(grants + 1) \in Nat
    BY SignInTypes, SignInConstants
  <2> QED
    BY <2>3, <2>4, <2>5, SignInTypes
<1>7. SignIn!TypeOK'
  <2>1. loginUser'.count <= fails'
    BY <1>2, SignInTypes DEF SignInInv, SignIn!TypeOK
  <2> QED
    BY <1>1, <1>2, <2>1 DEF SignInInv, SignIn!TypeOK
<1>8. \A q \in Requests : SlotOK(loginReq[q])'
  BY <1>1 DEF SignInInv, SlotOK
<1> QED
  BY <1>5, <1>6, <1>7, <1>8 DEF SignInInv, SignIn!Never

LEMMA EnterKeeps ==
  ASSUME SignInInv, NEW r \in Requests, NEW right \in BOOLEAN, NEW code \in 0..codes,
         SignIn!Enter(r, right, code)
  PROVE  SignInInv'
<1> DEFINE next == [SignIn!Idle EXCEPT !.pc = "reading", !.right = right, !.code = code]
<1>1. next \in SignIn!Slot /\ next.pc = "reading" /\ next.code = code
  <2>1. SignIn!Idle \in SignIn!Slot /\ code \in Nat
    BY SignInTypes
  <2> QED
    BY <2>1 DEF SignIn!Slot, SignIn!Pcs
<1>2. /\ SignIn!Become(r, next) /\ loginReq[r].pc = "idle" /\ recent' \in BOOLEAN
      /\ UNCHANGED <<loginNow, loginUser, codes, spent, grants>> /\ UNCHANGED fails
  BY SignInTypes DEF SignIn!Enter
<1> HIDE DEF next
<1>3. SlotOK(next)
  BY <1>1 DEF SlotOK
<1> QED
  BY <1>1, <1>2, <1>3, SignInQuiet

LEMMA ReadKeeps ==
  ASSUME SignInInv, NEW r \in Requests, SignIn!Read(r)
  PROVE  SignInInv'
<1> DEFINE mailing == [loginReq[r] EXCEPT !.pc = "mailing", !.copy = loginUser]
           comparing == [loginReq[r] EXCEPT !.pc = "comparing", !.copy = loginUser,
                                            !.at = loginNow]
<1>1. /\ loginReq[r].pc = "reading" /\ UNCHANGED recent /\ UNCHANGED fails
      /\ UNCHANGED <<loginNow, loginUser, codes, spent, grants>>
  BY DEF SignIn!Read
<1>2. recent' \in BOOLEAN /\ SlotOK(loginReq[r])
  BY <1>1, SignInTypes DEF SignInInv
<1>3. /\ mailing \in SignIn!Slot /\ mailing.pc = "mailing" /\ mailing.copy = loginUser
      /\ mailing.code = loginReq[r].code
  BY SignInTypes DEF SignIn!Slot, SignIn!Pcs
<1>4. /\ comparing \in SignIn!Slot /\ comparing.pc = "comparing" /\ comparing.copy = loginUser
      /\ comparing.code = loginReq[r].code
  <2>1. loginNow \in Nat /\ loginReq[r] \in SignIn!Slot /\ loginUser \in SignIn!User
    BY SignInTypes
  <2> QED
    BY <2>1 DEF SignIn!Slot, SignIn!Pcs
<1>5. \/ SignIn!Become(r, SignIn!Idle)
      \/ SignIn!Become(r, mailing) /\ ~(loginUser.sent + CodeTicks > loginNow)
      \/ SignIn!Become(r, comparing) /\ ~SignIn!Locked
  BY DEF SignIn!Read
<1>6. ~(loginUser.sent + CodeTicks > loginNow) => loginUser.sent + CodeTicks <= loginNow
  BY SignInTypes, SignInConstants
<1> HIDE DEF mailing, comparing
<1>7. SlotOK(mailing) /\ SlotOK(comparing) /\ SlotOK(SignIn!Idle)
  BY <1>2, <1>3, <1>4, SignInTypes DEF SlotOK
<1>8. CASE SignIn!Become(r, SignIn!Idle)
  BY <1>1, <1>2, <1>7, <1>8, SignInTypes, SignInQuiet
<1>9. CASE SignIn!Become(r, mailing) /\ ~(loginUser.sent + CodeTicks > loginNow)
  BY <1>1, <1>2, <1>3, <1>6, <1>7, <1>9, SignInQuiet
<1>10. CASE SignIn!Become(r, comparing) /\ ~SignIn!Locked
  BY <1>1, <1>2, <1>4, <1>7, <1>10, SignInQuiet
<1> QED
  BY <1>5, <1>8, <1>9, <1>10

LEMMA CompareKeeps ==
  ASSUME SignInInv, NEW r \in Requests, SignIn!Compare(r)
  PROVE  SignInInv'
<1> DEFINE granting == [loginReq[r] EXCEPT !.pc = "granting"]
           counting == [loginReq[r] EXCEPT !.pc = "counting"]
<1>1. /\ loginReq[r].pc = "comparing" /\ UNCHANGED recent
      /\ UNCHANGED <<loginNow, loginUser, codes, spent, grants>>
      /\ \/ SignIn!Become(r, granting) /\ UNCHANGED fails
         \/ SignIn!Become(r, counting) /\ fails' = fails + 1
  BY DEF SignIn!Compare
<1>2. recent' \in BOOLEAN /\ SlotOK(loginReq[r])
  BY <1>1, SignInTypes DEF SignInInv
<1>3. /\ granting \in SignIn!Slot /\ granting.pc = "granting" /\ granting.copy = loginReq[r].copy
      /\ granting.code = loginReq[r].code
      /\ counting \in SignIn!Slot /\ counting.pc = "counting" /\ counting.copy = loginReq[r].copy
      /\ counting.code = loginReq[r].code
  BY SignInTypes DEF SignIn!Slot, SignIn!Pcs
<1> HIDE DEF granting, counting
<1>4. SlotOK(granting) /\ SlotOK(counting)
  BY <1>1, <1>2, <1>3 DEF SlotOK
<1>5. CASE SignIn!Become(r, granting) /\ UNCHANGED fails
  BY <1>1, <1>2, <1>3, <1>4, <1>5, SignInQuiet
<1>6. CASE SignIn!Become(r, counting) /\ fails' = fails + 1
  BY <1>1, <1>2, <1>3, <1>4, <1>6, SignInQuiet
<1> QED
  BY <1>1, <1>5, <1>6

\* Steps that write to the user and free the slot.
LEMMA SignInWrites ==
  ASSUME SignInInv, NEW r \in Requests, SignIn!Become(r, SignIn!Idle),
         UNCHANGED <<loginNow, recent, fails>>,
         loginUser' \in SignIn!User, loginUser'.twoFA = loginUser.twoFA,
         loginUser'.sent = SignIn!Never \/ loginUser'.sent \in Nat,
         codes' \in Nat, codes' >= codes, spent' \subseteq 1..codes', grants' \in Nat,
         loginUser'.twoFA => loginUser'.code \notin spent',
         Guessed', CodesMailed', Counting' \in Nat
  PROVE  SignInInv'
<1>1. /\ loginReq' \in [Requests -> SignIn!Slot] /\ loginReq'[r] = SignIn!Idle
      /\ \A q \in Requests : q # r => loginReq'[q] = loginReq[q]
  BY SignInTypes, SignInMoves
<1>2. SignIn!TypeOK'
  <2>1. loginUser'.count <= fails'
    <3>1. loginUser'.count \in Nat /\ fails \in Nat
      BY SignInTypes DEF SignIn!User
    <3> QED
      BY <3>1 DEF Guessed
  <2> QED
    BY <1>1, <2>1 DEF SignInInv, SignIn!TypeOK
<1>3. \A q \in Requests : SlotOK(loginReq[q])'
  <2> SUFFICES ASSUME NEW q \in Requests
               PROVE  /\ loginReq'[q].code \in 0..codes'
                      /\ loginReq'[q].pc \notin {"idle", "reading"} =>
                           loginReq'[q].copy.twoFA = loginUser'.twoFA
    BY DEF SlotOK
  <2>1. CASE q = r
    BY <1>1, <2>1, SignInTypes
  <2>2. CASE q # r
    <3>1. SlotOK(loginReq[q])
      BY DEF SignInInv
    <3> QED
      BY <1>1, <2>2, <3>1, SignInTypes DEF SlotOK
  <2> QED
    BY <2>1, <2>2
<1> QED
  BY <1>2, <1>3 DEF SignInInv, SignIn!Never

LEMMA MailKeeps ==
  ASSUME SignInInv, NEW r \in Requests, SignIn!Mail(r)
  PROVE  SignInInv'
<1>1. /\ loginReq[r].pc = "mailing" /\ codes' = codes + 1
      /\ loginUser' = [loginUser EXCEPT !.code = codes + 1, !.sent = loginNow]
      /\ SignIn!Become(r, SignIn!Idle) /\ UNCHANGED <<loginNow, recent, spent, fails, grants>>
  BY DEF SignIn!Mail
<1>2. codes + 1 \in Nat /\ loginNow \in Nat
  BY SignInTypes
<1>3. /\ loginUser' \in SignIn!User /\ loginUser'.twoFA = loginUser.twoFA
      /\ loginUser'.sent = loginNow /\ loginUser'.code = codes + 1
      /\ loginUser'.count = loginUser.count
  <2> DEFINE code == codes + 1
             u == [loginUser EXCEPT !.code = code, !.sent = loginNow]
  <2>1. loginUser \in SignIn!User /\ code \in Nat /\ loginNow \in Int
    BY <1>2, SignInTypes
  <2> HIDE DEF code
  <2>2. /\ u \in SignIn!User /\ u.twoFA = loginUser.twoFA /\ u.sent = loginNow
        /\ u.code = code /\ u.count = loginUser.count
    BY <2>1 DEF SignIn!User
  <2> QED
    BY <1>1, <2>2 DEF code
<1>4. /\ Counting' = Counting /\ Guessing' = Guessing /\ Mailing' = Mailing - 1
      /\ Mailing \in 0..Slots
  BY <1>1, SignInTypes, SignInMoves
<1>5. Guessed'
  BY <1>1, <1>3, <1>4
     DEF SignInInv, Guessed, SignIn!LockTicks, SignIn!Least, Guesses, GuessesFor, Slots
<1>6. CodesMailed'
  <2> SUFFICES ASSUME loginNow < CodeTicks PROVE codes + 1 + (Mailing - 1) <= MailsFor(grants + 1)
    <3>1. loginUser'.sent # SignIn!Never
      BY <1>2, <1>3, SignInConstants
    <3> QED
      BY <1>1, <1>4, <3>1 DEF CodesMailed, SignIn!Never, MailsFor, Slots
  <2>1. CASE loginUser.sent = SignIn!Never
    <3>1. codes <= MailsFor(grants) /\ MailsFor(grants + 1) = MailsFor(grants) + Slots
      BY <2>1, SignInTypes, SignInConstants DEF SignInInv, CodesMailed
    <3>2. MailsFor(grants) \in Nat
      BY SignInTypes, SignInConstants
    <3> QED
      BY <1>4, <3>1, <3>2, SignInTypes, RequestsAreFinite
  <2>2. CASE loginUser.sent # SignIn!Never
    <3>1. codes + Mailing <= MailsFor(grants + 1)
      BY <2>2 DEF SignInInv, CodesMailed
    <3>2. MailsFor(grants + 1) \in Nat
      BY SignInTypes, SignInConstants
    <3> QED
      BY <1>4, <3>1, <3>2, SignInTypes, RequestsAreFinite
  <2> QED
    BY <2>1, <2>2
<1>7. spent \subseteq 1..codes' /\ codes + 1 \notin spent /\ codes' >= codes
  BY <1>1, SignInTypes
<1> QED
  BY <1>1, <1>2, <1>3, <1>4, <1>5, <1>6, <1>7, SignInTypes, SignInWrites

LEMMA CountFailKeeps ==
  ASSUME SignInInv, NEW r \in Requests, SignIn!Count(r)
  PROVE  SignInInv'
<1>1. /\ loginReq[r].pc = "counting" /\ loginReq[r].at \in Nat
      /\ loginUser' = [loginUser EXCEPT !.count = loginUser.count + 1, !.last = loginReq[r].at]
      /\ SignIn!Become(r, SignIn!Idle)
      /\ UNCHANGED <<loginNow, recent, codes, spent, fails, grants>>
  BY SignInTypes DEF SignIn!Count, SignIn!User
<1>2. /\ loginUser' \in SignIn!User /\ loginUser'.twoFA = loginUser.twoFA
      /\ loginUser'.sent = loginUser.sent /\ loginUser'.code = loginUser.code
      /\ loginUser'.count = loginUser.count + 1
  <2> DEFINE count == loginUser.count + 1
             at == loginReq[r].at
             u == [loginUser EXCEPT !.count = count, !.last = at]
  <2>1. loginUser \in SignIn!User /\ count \in Nat /\ at \in Nat
    BY SignInTypes
  <2> HIDE DEF count, at
  <2>2. /\ u \in SignIn!User /\ u.twoFA = loginUser.twoFA /\ u.sent = loginUser.sent
        /\ u.code = loginUser.code /\ u.count = count
    BY <2>1 DEF SignIn!User
  <2> QED
    BY <1>1, <2>2 DEF count, at
<1>3. /\ Counting' = Counting - 1 /\ Guessing' = Guessing - 1 /\ Mailing' = Mailing
      /\ Counting' \in Nat
  BY <1>1, SignInTypes, SignInMoves
<1>4. Guessed'
  <2>1. loginUser'.count + Counting' = loginUser.count + Counting
    BY <1>2, <1>3, SignInTypes
  <2>2. loginUser'.count + Guessing' = loginUser.count + Guessing
    BY <1>2, <1>3, SignInTypes
  <2>3. fails - loginUser'.count - Counting' = fails - loginUser.count - Counting
    BY <1>2, <1>3, SignInTypes
  <2> QED
    BY <1>1, <2>1, <2>2, <2>3
       DEF SignInInv, Guessed, SignIn!LockTicks, SignIn!Least, Guesses, GuessesFor, Slots
<1>5. CodesMailed'
  BY <1>1, <1>2, <1>3 DEF SignInInv, CodesMailed, SignIn!Never, MailsFor, Slots
<1> QED
  BY <1>1, <1>2, <1>3, <1>4, <1>5, SignInTypes, SignInWrites DEF SignInInv

\* The password is outdated and the patch throws: nothing is written.
LEMMA FailedGrantKeeps ==
  ASSUME SignInInv, NEW r \in Requests, loginReq[r].pc = "granting",
         SignIn!Become(r, SignIn!Idle),
         UNCHANGED <<loginNow, recent, loginUser, codes, spent, fails, grants>>
  PROVE  SignInInv'
<1>1. SlotOK(SignIn!Idle)
  BY SignInTypes DEF SlotOK
<1>2. recent' \in BOOLEAN
  BY SignInTypes
<1> QED
  BY <1>1, <1>2, SignInTypes, SignInQuiet

LEMMA GrantKeeps ==
  ASSUME SignInInv, NEW r \in Requests, SignIn!Grant(r)
  PROVE  SignInInv'
<1>1. CASE loginReq[r].copy.hash = "outdated"
  BY <1>1, FailedGrantKeeps DEF SignIn!Grant
<1>2. CASE loginReq[r].copy.hash # "outdated"
  <2> DEFINE u == [loginUser EXCEPT !.count = 0, !.last = loginReq[r].at]
             code == loginReq[r].code
  <2>1. /\ loginReq[r].pc = "granting" /\ SignIn!Become(r, SignIn!Idle)
        /\ loginUser' = SignIn!Granted(r) /\ spent' = spent \cup ({code} \ {SignIn!NoCode})
        /\ grants' = grants + 1 /\ UNCHANGED <<loginNow, recent, codes, fails>>
    BY <1>2 DEF SignIn!Grant
  <2>2. /\ loginReq[r].copy.twoFA = loginUser.twoFA /\ code \in 0..codes
    BY <2>1 DEF SignInInv, SlotOK
  <2>3. /\ loginUser' \in SignIn!User /\ loginUser'.twoFA = loginUser.twoFA
        /\ loginUser'.count = 0
        /\ loginUser.twoFA => loginUser'.sent = SignIn!Never /\ loginUser'.code = 0
        /\ ~loginUser.twoFA => loginUser'.sent = loginUser.sent
    <3>1. u \in SignIn!User /\ u.twoFA = loginUser.twoFA /\ u.count = 0 /\ u.sent = loginUser.sent
      BY SignInTypes DEF SignIn!User
    <3>2. loginUser' = IF loginUser.twoFA
                       THEN [u EXCEPT !.code = SignIn!NoCode, !.sent = SignIn!Never] ELSE u
      BY <2>1, <2>2 DEF SignIn!Granted
    <3> HIDE DEF u
    <3>3. CASE loginUser.twoFA
      <4>1. loginUser' = [u EXCEPT !.code = 0, !.sent = SignIn!Never]
        BY <3>2, <3>3, SignInConstants
      <4> QED
        BY <3>1, <3>3, <4>1, SignInConstants DEF SignIn!User
    <3>4. CASE ~loginUser.twoFA
      BY <3>1, <3>2, <3>4
    <3> QED
      BY <3>3, <3>4
  <2>4. Counting' = Counting /\ Guessing' = Guessing /\ Mailing' = Mailing
    BY <2>1, SignInTypes, SignInMoves
  <2>5. spent' \subseteq 1..codes
    BY <2>1, <2>2, SignInTypes, SignInConstants
  <2>6. grants + 1 \in Nat /\ grants \in Nat
    BY SignInTypes
  <2>7. Guessed'
    <3> SUFFICES ASSUME TRUE
                 PROVE  /\ 0 + Counting <= fails
                        /\ loginNow < SignIn!LockTicks(LimitCount) =>
                             /\ 0 + Guessing <= Guesses
                             /\ fails - 0 - Counting <= GuessesFor(grants + 1)
      BY <2>1, <2>3, <2>4
         DEF Guessed, SignIn!LockTicks, SignIn!Least, Guesses, GuessesFor, Slots
    <3>1. loginUser.count + Counting <= fails
      BY DEF SignInInv, Guessed
    <3>2. ASSUME loginNow < SignIn!LockTicks(LimitCount)
          PROVE  /\ loginUser.count + Guessing <= Guesses
                 /\ fails - loginUser.count - Counting <= GuessesFor(grants)
      BY <3>2 DEF SignInInv, Guessed
    <3>3. GuessesFor(grants + 1) = GuessesFor(grants) + Guesses /\ GuessesFor(grants) \in Nat
      BY <2>6, SignInConstants
    <3> QED
      BY <3>1, <3>2, <3>3, SignInTypes, SignInConstants
  <2>8. CodesMailed'
    <3> SUFFICES ASSUME loginNow < CodeTicks
                 PROVE  IF loginUser'.sent = SignIn!Never
                        THEN codes <= MailsFor(grants + 1)
                        ELSE codes + Mailing <= MailsFor(grants + 1 + 1)
      BY <2>1, <2>4 DEF CodesMailed, SignIn!Never, MailsFor, Slots
    <3>1. /\ MailsFor(grants) \in Nat /\ MailsFor(grants + 1) \in Nat
          /\ MailsFor(grants + 1) = MailsFor(grants) + Slots
          /\ MailsFor(grants + 1 + 1) = MailsFor(grants + 1) + Slots
      BY <2>6, SignInConstants
    <3>2. /\ loginUser.sent = SignIn!Never => codes <= MailsFor(grants)
          /\ loginUser.sent # SignIn!Never => codes + Mailing <= MailsFor(grants + 1)
      BY DEF SignInInv, CodesMailed
    <3>3. codes <= MailsFor(grants + 1)
      BY <3>1, <3>2, SignInTypes, RequestsAreFinite
    <3>4. CASE loginUser'.sent = SignIn!Never
      BY <3>3, <3>4
    <3>5. CASE loginUser'.sent # SignIn!Never
      <4>1. codes + Mailing <= MailsFor(grants + 1)
        BY <2>3, <3>2, <3>5
      <4> QED
        BY <3>1, <3>5, <4>1, SignInTypes, RequestsAreFinite
    <3> QED
      BY <3>4, <3>5
  <2>9. loginUser'.sent = SignIn!Never \/ loginUser'.sent \in Nat
    BY <2>3 DEF SignInInv
  <2>10. loginUser'.twoFA => loginUser'.code \notin spent'
    <3>1. 0 \notin spent'
      BY <2>5
    <3> QED
      BY <2>3, <3>1
  <2> HIDE DEF u, code
  <2> QED
    BY <2>1, <2>3, <2>4, <2>5, <2>6, <2>7, <2>8, <2>9, <2>10, SignInTypes, SignInWrites
<1> QED
  BY <1>1, <1>2

LEMMA SignInStep == SignInInv /\ [SignIn!Next]_(SignIn!vars) => SignInInv'
<1> SUFFICES ASSUME SignInInv, [SignIn!Next]_(SignIn!vars) PROVE SignInInv'
  OBVIOUS
<1>1. ASSUME UNCHANGED <<loginReq, codes, spent, fails, grants>>,
             loginNow' \in 0..LoginTime, loginNow' >= loginNow, recent' \in BOOLEAN,
             loginUser' \in SignIn!User, loginUser'.count = loginUser.count,
             loginUser'.twoFA = loginUser.twoFA, loginUser'.code = loginUser.code,
             loginUser'.sent = loginUser.sent
      PROVE  SignInInv'
  <2>1. Counting' = Counting /\ Guessing' = Guessing /\ Mailing' = Mailing
    BY <1>1 DEF Counting, Guessing, Mailing, At
  <2>2. loginNow \in Int /\ loginNow' \in Int
    BY <1>1, SignInTypes
  <2>3. Guessed'
    <3>1. loginNow' < SignIn!LockTicks(LimitCount) => loginNow < SignIn!LockTicks(LimitCount)
      BY <1>1, <2>2, LockGrows
    <3> QED
      BY <1>1, <2>1, <3>1
         DEF SignInInv, Guessed, SignIn!LockTicks, SignIn!Least, Guesses, GuessesFor, Slots
  <2>4. CodesMailed'
    <3>1. loginNow' < CodeTicks => loginNow < CodeTicks
      BY <1>1, <2>2, SignInConstants
    <3> QED
      BY <1>1, <2>1, <3>1 DEF SignInInv, CodesMailed, SignIn!Never, MailsFor, Slots
  <2> QED
    BY <1>1, <2>3, <2>4 DEF SignInInv, SignIn!TypeOK, SlotOK, SignIn!Never
<1>2. CASE SignIn!ChangeRole \/ SignIn!NewPassword
  <2>1. PICK hash \in {"current", "outdated"} : loginUser' = [loginUser EXCEPT !.hash = hash]
    BY <1>2 DEF SignIn!ChangeRole, SignIn!NewPassword
  <2>2. /\ loginUser' \in SignIn!User /\ loginUser'.count = loginUser.count
        /\ loginUser'.twoFA = loginUser.twoFA /\ loginUser'.code = loginUser.code
        /\ loginUser'.sent = loginUser.sent
    BY <2>1, SignInTypes DEF SignIn!User
  <2>3. /\ UNCHANGED <<loginReq, codes, spent, fails, grants>>
        /\ UNCHANGED loginNow /\ UNCHANGED recent
    BY <1>2 DEF SignIn!ChangeRole, SignIn!NewPassword
  <2> QED
    BY <1>1, <2>2, <2>3, SignInTypes
<1>3. CASE SignIn!Forget \/ SignIn!Tick \/ UNCHANGED SignIn!vars
  <2>1. UNCHANGED <<loginReq, codes, spent, fails, grants>> /\ UNCHANGED loginUser
    BY <1>3 DEF SignIn!Forget, SignIn!Tick, SignIn!vars
  <2>2. recent' \in BOOLEAN
    BY <1>3, SignInTypes DEF SignIn!Forget, SignIn!Tick, SignIn!vars
  <2>3. loginNow' \in 0..LoginTime /\ loginNow' >= loginNow
    BY <1>3, SignInTypes, SignInConstants DEF SignIn!Forget, SignIn!Tick, SignIn!vars
  <2> QED
    BY <1>1, <2>1, <2>2, <2>3, SignInTypes
<1> QED
  BY <1>2, <1>3, EnterKeeps, ReadKeeps, MailKeeps, CompareKeeps, CountFailKeeps, GrantKeeps
     DEF SignIn!Next

LEMMA GuessesAreBounded == SignInInv => SignIn!GuessBound
<1> SUFFICES ASSUME SignInInv, loginNow < SignIn!LockTicks(LimitCount)
             PROVE  fails <= GuessesFor(grants + 1)
  BY DEF SignIn!GuessBound, GuessesFor, Guesses, Slots, SignIn!Cardinality, Cardinality
<1>1. /\ loginUser.count + Guessing <= Guesses
      /\ fails - loginUser.count - Counting <= GuessesFor(grants)
  BY DEF SignInInv, Guessed
<1>2. GuessesFor(grants + 1) = GuessesFor(grants) + Guesses /\ GuessesFor(grants) \in Nat
  BY SignInTypes, SignInConstants
<1> QED
  BY <1>1, <1>2, SignInTypes, SignInConstants

LEMMA MailsAreBounded == SignInInv => SignIn!MailBound
<1> SUFFICES ASSUME SignInInv, loginNow < CodeTicks
             PROVE  codes <= MailsFor(grants + 1)
  BY DEF SignIn!MailBound, MailsFor, Slots, SignIn!Cardinality, Cardinality
<1>1. /\ MailsFor(grants) \in Nat /\ MailsFor(grants + 1) = MailsFor(grants) + Slots
  BY SignInTypes, SignInConstants
<1> QED
  BY <1>1, SignInTypes, RequestsAreFinite DEF SignInInv, CodesMailed

LEMMA SpentIsDead ==
  SignInInv /\ [SignIn!Next]_(SignIn!vars) =>
    \A r \in Requests :
      loginUser.twoFA /\ loginReq[r].pc = "reading" /\ loginReq'[r].pc = "comparing"
      => loginReq[r].code \notin spent
<1> SUFFICES ASSUME SignInInv, [SignIn!Next]_(SignIn!vars), NEW r \in Requests,
                    loginUser.twoFA, loginReq[r].pc = "reading",
                    loginReq'[r].pc = "comparing"
             PROVE  loginReq[r].code \notin spent
  OBVIOUS
<1>1. SignIn!Read(r)
  <2>1. loginReq' # loginReq
    OBVIOUS
  <2>2. PICK q \in Requests :
          \/ \E right \in BOOLEAN, code \in 0..codes : SignIn!Enter(q, right, code)
          \/ SignIn!Read(q) \/ SignIn!Mail(q) \/ SignIn!Compare(q) \/ SignIn!Count(q)
          \/ SignIn!Grant(q)
    BY <2>1 DEF SignIn!Next, SignIn!vars, SignIn!ChangeRole, SignIn!NewPassword,
         SignIn!Forget, SignIn!Tick
  <2>3. PICK next : SignIn!Become(q, next)
    BY <2>2 DEF SignIn!Enter, SignIn!Read, SignIn!Mail, SignIn!Compare, SignIn!Count,
         SignIn!Grant
  <2>4. q = r
    BY <2>3, SignInTypes DEF SignIn!Become
  <2>5. \A right \in BOOLEAN, code \in 0..codes : ~SignIn!Enter(r, right, code)
    BY SignInTypes DEF SignIn!Enter
  <2> QED
    BY <2>2, <2>4, <2>5 DEF SignIn!Mail, SignIn!Compare, SignIn!Count, SignIn!Grant
<1>2. SignIn!CodeIsGood(loginReq[r].code)
  <2>1. ~SignIn!Become(r, SignIn!Idle)
    BY SignInTypes DEF SignIn!Become
  <2>2. ~SignIn!Become(r, [loginReq[r] EXCEPT !.pc = "mailing", !.copy = loginUser])
    BY SignInTypes DEF SignIn!Become, SignIn!Slot
  <2> QED
    BY <1>1, <2>1, <2>2 DEF SignIn!Read
<1> QED
  BY <1>2 DEF SignIn!CodeIsGood, SignInInv

-----------------------------------------------------------------------------
(***************************************************************************)
(* Theorems.                                                               *)
(***************************************************************************)

AccountInv ==
  /\ part \in {"login", "links", "passwords", "uses", "trust"}
  /\ SignInInv
  /\ LinkInv /\ LinkBursts
  /\ ResetInv /\ ResetBursts
  /\ CmdInv
  /\ TrustInv

\* A step of the component followed is one of it; the others do nothing.
LEMMA StepsAreParts ==
  [Next]_vars =>
    /\ UNCHANGED part
    /\ [SignIn!Next]_(SignIn!vars) /\ [Link!Next]_(Link!vars) /\ [Reset!Next]_(Reset!vars)
    /\ [Cmd!Next]_(Cmd!vars) /\ [Bonus!Next]_(Bonus!vars)
<1> SUFFICES ASSUME [Next]_vars
             PROVE  /\ UNCHANGED part
                    /\ SignIn!Next \/ UNCHANGED signInVars
                    /\ Link!Next \/ UNCHANGED linkVars
                    /\ Reset!Next \/ UNCHANGED resetVars
                    /\ Cmd!Next \/ UNCHANGED cmdVars
                    /\ Bonus!Next \/ UNCHANGED trustVars
  BY DEF signInVars, SignIn!vars, linkVars, Link!vars, resetVars, Reset!vars, cmdVars, Cmd!vars,
         trustVars, Bonus!vars
<1> QED
  BY DEF Next, vars, FollowLogin, FollowLinks, FollowPasswords, FollowUses, FollowTrust

LEMMA AccountAlways == Spec => []AccountInv
<1>1. Init => AccountInv
  BY SignInInit, LinkInit, LinkBurstsInit, ResetInit, ResetBurstsInit, CmdInit, TrustInit
     DEF Init, AccountInv
<1>2. AccountInv /\ [Next]_vars => AccountInv'
  BY StepsAreParts, SignInStep, LinkStep, LinkBurstsStep, ResetStep, ResetBurstsStep, CmdStep,
     TrustStep
     DEF AccountInv
<1> QED
  BY <1>1, <1>2, PTL DEF Spec

\* Documents and requests stay what they are meant to be in each component: no
\* counter passes what happened, no token is one that no link was made with.
THEOREM TypeCorrect == Spec => []TypeOK
<1>1. AccountInv => TypeOK
  BY DEF AccountInv, TypeOK, SignInInv, LinkInv, ResetInv, CmdInv, TrustInv
<1> QED
  BY <1>1, AccountAlways, PTL

\* Logins: $login judges by the copy it read and counts a failure with an update
\* that nobody awaits ($unsecure_incPatch).  However logins race, wrong passwords
\* are limited until the first lock could be over, for any rate limit and any
\* number of slots.
THEOREM GuessesBounded == Spec => []GuessBound
<1>1. AccountInv => GuessBound
  BY GuessesAreBounded DEF AccountInv, GuessBound
<1> QED
  BY <1>1, AccountAlways, PTL

\* Logins: $login asks for a new code when its copy has none pending, and
\* $sendTwoFACode writes it later.  However they race, no more codes are mailed
\* than there are slots, until one lets somebody in or the first could be over.
THEOREM CodesBounded == Spec => []MailBound
<1>1. AccountInv => MailBound
  BY MailsAreBounded DEF AccountInv, MailBound
<1> QED
  BY <1>1, AccountAlways, PTL

\* Logins: the patch after a success withdraws the code (verifyTwoFA,
\* $login); no patch that was computed from an older copy brings it back.
THEOREM SpentCodesAreDead == Spec => SpentCodeIsDead
<1>1. AccountInv /\ [Next]_vars =>
        [\A r \in Requests :
           loginUser.twoFA /\ loginReq[r].pc = "reading" /\ loginReq'[r].pc = "comparing"
           => loginReq[r].code \notin spent]_(SignIn!vars)
  BY StepsAreParts, SpentIsDead DEF AccountInv
<1> QED
  BY <1>1, AccountAlways, PTL DEF Spec, SpentCodeIsDead, SignIn!SpentCodeIsDead

\* Links: sendTokenEmail judges by the count in a copy of the user and writes that
\* count and one, so a request that read earlier takes the count back and gives way
\* to more links.  Until a time-out could be over, so many are made between two
\* uses of a link, or two new passwords, as there are ways to choose what a request
\* alone may send from that and the slots, less one.
THEOREM BurstsBounded == Spec => []MailBurst
<1>1. AccountInv => MailBurst
  BY LinkBurstsBound, ResetBurstsBound DEF AccountInv, MailBurst
<1> QED
  BY <1>1, AccountAlways, PTL

\* E-mail links: $verify_email sets the nextEmail of the copy that useToken read,
\* while $send_verification_email may note another and its mail may fail: a link that
\* was asked for to change the address sets the one it was mailed to.
THEOREM ChangesGoWhereMailed == Spec => ChangeGoesWhereMailed
<1>1. AccountInv /\ [Next]_vars =>
        [\A r \in Requests :
           linkReq[r].pc = "using" /\ linkReq'[r].pc = "idle" /\ links[linkReq[r].link].change
           => linkUser'.email = links[linkReq[r].link].to]_(Link!vars)
  BY StepsAreParts, ChangeIsMade DEF AccountInv
<1> QED
  BY <1>1, AccountAlways, PTL DEF Spec, ChangeGoesWhereMailed, Link!ChangeGoesWhereMailed

\* Passwords: change_password and reset_password write the role of the copy they
\* read.  The user keeps the role that was given last, for any roles and any number
\* of commands under way, unless it was given while a password was being hashed or a
\* password was changed with a role mocked since.
THEOREM RolesStay == Spec => []RoleStays
<1>1. AccountInv => RoleStays
  BY DEF AccountInv, ResetInv, RolesFit, RoleStays, Reset!RoleStays
<1> QED
  BY <1>1, AccountAlways, PTL

\* Command limits: the authorization compares the uses it read with
\* maxUsesPerUser, and they are counted after the command returned: calls that
\* race exceed the limit by one for each other call there can be, and no more.
THEOREM UsesBounded == Spec => []UsesBound
<1>1. AccountInv => UsesBound
  BY UsesAreBounded DEF AccountInv, UsesBound
<1> QED
  BY <1>1, AccountAlways, PTL

\* Command limits: a POST waits out minTimeBetweenCmdCallMs since the uses that
\* were recorded before it.
THEOREM UsesAreApart == Spec => UsesSpaced
<1>1. AccountInv /\ [Next]_vars =>
        [\A r \in Requests :
           /\ security.minTime /\ useReq[r].secure /\ ~lost
           /\ useReq[r].pc = "read" /\ useReq'[r].pc = "running"
           => useNow >= useReq[r].since + MinTime]_(Cmd!vars)
  BY StepsAreParts, UsesAreSpaced DEF AccountInv
<1> QED
  BY <1>1, AccountAlways, PTL DEF Spec, UsesSpaced, Cmd!UsesSpaced

\* Trust: it is computed anew when the copy's is too old, and written by a patch
\* that may land after another: none that is too old raises a limit.
THEOREM TrustStaysRecent == Spec => TrustIsRecent
<1>1. AccountInv /\ [Next]_vars =>
        [\A r \in Requests :
           trustReq[r].pc = "read" /\ trustReq'[r] = Bonus!Idle
           => trustNow - trustReq[r].trust.asOf < Interval + Patience]_(Bonus!vars)
  BY StepsAreParts, TrustUsed DEF AccountInv
<1> QED
  BY <1>1, AccountAlways, PTL DEF Spec, TrustIsRecent, Bonus!TrustIsRecent
=============================================================================
