-------------------------- MODULE RoleGraphProofs --------------------------
(***************************************************************************)
(* Proofs about RoleGraph, for any roles, any inheritance between them,    *)
(* cycles and unknown names included, and any rights and batch sizes.      *)
(*                                                                         *)
(* A walk is right because of what is still to visit: every role that was  *)
(* visited has those it inherits from among the visited and the pending.   *)
(* When nothing is pending, the visited are closed under `inherits`, and   *)
(* Ancestors, the smallest such set, is among them.  The walk for the      *)
(* batch size does not note what it visited; there, every ancestor counts  *)
(* already or is an ancestor of something pending; and calls deeper than   *)
(* there are roles form a chain that meets a role twice.                   *)
(***************************************************************************)
EXTENDS RoleGraph, FiniteSetTheorems, TLAPS

\* The names still to visit.
Pending == {todo[i][1] : i \in DOMAIN todo}

Shape ==
  /\ inherits \in [Roles -> Lists]
  /\ rights \in [Roles -> SUBSET Needs]
  /\ size \in [Roles -> Sizes]
  /\ walk \in {"authorize", "batch", "parents"}
  /\ todo \in Seq(Names \X (1..(MaxDepth + 1)))
  /\ seen \subseteq Roles
  /\ best \in Sizes
  /\ outcome \in {"walking", "granted", "denied", "done", "error"}

\* A call is never deeper than the roles visited before it.
Shallow ==
  walk # "batch" => \A i \in DOMAIN todo : todo[i][2] <= Cardinality(seen) + 1

Inside == seen \cup Pending \subseteq Ancestors(root)

\* authorize, parents: nothing is forgotten.
Covered ==
  walk # "batch" /\ outcome # "granted" =>
    /\ root \in seen \cup Pending
    /\ \A r \in seen : Range(inherits[r]) \subseteq seen \cup Pending

Judged ==
  walk = "authorize" =>
    IF outcome = "granted" THEN seen \cap Sufficient # {} ELSE seen \cap Sufficient = {}

\* batch: a role counts, or one that inherits it is pending.
Measured ==
  walk = "batch" =>
    \A a \in Ancestors(root) :
      \/ a \in Roles /\ size[a] <= best
      \/ \E p \in Pending : a \in Ancestors(p)

Attained == best = 0 \/ \E r \in Ancestors(root) \cap Roles : size[r] = best

Ended ==
  /\ outcome \in {"denied", "done"} => todo = <<>>
  /\ outcome = "denied" => walk = "authorize"
  /\ ErrorsHaveCauses

\* The names a chain of calls leads to from the root, and how deep: each role
\* of the chain inherits from the next, and so has all later ones as ancestors.
Reached ==
  {e \in Names \X (1..(MaxDepth + 1)) :
     \E f \in [1..e[2] -> Names] :
       /\ f[e[2]] = e[1]
       /\ \A k \in 1..e[2] : f[k] \in Ancestors(root)
       /\ \A k \in 1..(e[2] - 1) :
            /\ f[k] \in Roles
            /\ f[k + 1] \in Range(inherits[f[k]])
            /\ \A l \in (k + 1)..e[2] : f[l] \in Ancestors(f[k + 1])}

Chained == \A i \in DOMAIN todo : todo[i] \in Reached

IInv ==
  /\ Shape /\ Shallow /\ Inside /\ Covered /\ Judged /\ Measured /\ Attained
  /\ Chained /\ Ended

-----------------------------------------------------------------------------
(***************************************************************************)
(* Ancestors is the smallest closed set.                                   *)
(***************************************************************************)

\* A name is an ancestor of itself.
LEMMA AncestorsRoot == \A r \in Names : r \in Ancestors(r)
  BY DEF Ancestors

\* Ancestors are names.
LEMMA AncestorsNames == \A r \in Names : Ancestors(r) \subseteq Names
  BY DEF Ancestors

\* A closed set has all ancestors of what it has.
LEMMA AncestorsLeast ==
  ASSUME NEW S \in SUBSET Names, NEW r \in S, Closed(S)
  PROVE  Ancestors(r) \subseteq S
  BY DEF Ancestors

\* The ancestors are closed themselves.
LEMMA AncestorsClosed ==
  ASSUME inherits \in [Roles -> Lists], NEW r \in Names
  PROVE  Closed(Ancestors(r))
<1> SUFFICES ASSUME NEW p \in Ancestors(r) \cap Roles, NEW q \in Range(inherits[p])
             PROVE  q \in Ancestors(r)
  BY DEF Closed
<1>1. q \in Names
  BY DEF Range, Lists, Names
<1>2. ASSUME NEW S \in SUBSET Names, r \in S, Closed(S)
      PROVE  q \in S
  <2>1. p \in S
    BY <1>2 DEF Ancestors
  <2> QED
    BY <1>2, <2>1 DEF Closed
<1> QED
  BY <1>1, <1>2 DEF Ancestors

\* An ancestor of a role is the role, or an ancestor of one it inherits from.
LEMMA AncestorsUnfold ==
  ASSUME inherits \in [Roles -> Lists], NEW r \in Roles
  PROVE  \A a \in Ancestors(r) : a = r \/ \E q \in Range(inherits[r]) : a \in Ancestors(q)
<1> DEFINE below == UNION {Ancestors(q) : q \in Range(inherits[r])}
           S == {r} \cup below
<1>1. Range(inherits[r]) \subseteq Names
  BY DEF Range, Lists, Names
<1>2. S \in SUBSET Names
  BY <1>1, AncestorsNames DEF Names
<1>3. Closed(S)
  <2> SUFFICES ASSUME NEW p \in S \cap Roles, NEW q \in Range(inherits[p])
               PROVE  q \in S
    BY DEF Closed
  <2>1. CASE p = r
    BY <2>1, <1>1, AncestorsRoot
  <2>2. CASE p \in below
    <3>1. PICK c \in Range(inherits[r]) : p \in Ancestors(c)
      BY <2>2
    <3>2. q \in Ancestors(c)
      BY <3>1, <1>1, AncestorsClosed DEF Closed
    <3> QED
      BY <3>2
  <2> QED
    BY <2>1, <2>2
<1>4. Ancestors(r) \subseteq S
  BY <1>2, <1>3, AncestorsLeast
<1> QED
  BY <1>4

\* A name that rolesMap does not have inherits nothing.
LEMMA AncestorsGhost ==
  ASSUME RoleGraphAssumption, NEW g \in Ghosts
  PROVE  Ancestors(g) = {g}
<1>1. Closed({g})
  BY DEF Closed, RoleGraphAssumption
<1> QED
  BY <1>1, AncestorsLeast, AncestorsRoot DEF Names

-----------------------------------------------------------------------------
(***************************************************************************)
(* What a visit does to the names still to visit.                          *)
(***************************************************************************)

Rest == {Tail(todo)[i][1] : i \in DOMAIN Tail(todo)}

\* The next name to visit, and the rest of the list.
LEMMA HeadAndRest ==
  ASSUME Shape, todo # <<>>
  PROVE  /\ Next0 \in Names /\ Depth \in 1..(MaxDepth + 1)
         /\ Tail(todo) \in Seq(Names \X (1..(MaxDepth + 1)))
         /\ Pending = {Next0} \cup Rest
         /\ \A i \in DOMAIN Tail(todo) : \E j \in DOMAIN todo : Tail(todo)[i] = todo[j]
         /\ 1 \in DOMAIN todo /\ Head(todo) = todo[1]
<1> DEFINE E == Names \X (1..(MaxDepth + 1))
<1>1. todo \in Seq(E) /\ Len(todo) \in Nat /\ Len(todo) > 0
  BY DEF Shape
<1>2. 1 \in DOMAIN todo /\ Head(todo) = todo[1] /\ todo[1] \in E
  BY <1>1
<1>3. /\ Tail(todo) \in Seq(E)
      /\ DOMAIN Tail(todo) = 1..(Len(todo) - 1)
      /\ \A i \in DOMAIN Tail(todo) : i + 1 \in DOMAIN todo /\ Tail(todo)[i] = todo[i + 1]
  BY <1>1
<1>4. \A j \in DOMAIN todo : j = 1 \/ (j - 1 \in DOMAIN Tail(todo) /\ todo[j] = Tail(todo)[j - 1])
  BY <1>1, <1>3
<1>5. Pending = {Next0} \cup Rest
  <2>1. Pending \subseteq {Next0} \cup Rest
    BY <1>2, <1>4 DEF Pending, Rest, Next0
  <2>2. {Next0} \cup Rest \subseteq Pending
    BY <1>2, <1>3 DEF Pending, Rest, Next0
  <2> QED
    BY <2>1, <2>2
<1> QED
  BY <1>2, <1>3, <1>5 DEF Next0, Depth

\* Where the elements of two lists in a row are.
LEMMA ConcatAt ==
  ASSUME NEW E, NEW f \in Seq(E), NEW t \in Seq(E)
  PROVE  /\ f \o t \in Seq(E)
         /\ DOMAIN (f \o t) = 1..(Len(f) + Len(t))
         /\ \A i \in 1..Len(f) : (f \o t)[i] = f[i]
         /\ \A i \in DOMAIN t : /\ Len(f) + i \in DOMAIN (f \o t)
                                /\ (f \o t)[Len(f) + i] = t[i]
         /\ \A i \in DOMAIN (f \o t) :
              \/ i \in 1..Len(f)
              \/ i - Len(f) \in DOMAIN t /\ (f \o t)[i] = t[i - Len(f)]
  OBVIOUS

\* A role inherits from a list of names.
LEMMA ListShape ==
  ASSUME Shape, MaxInherits \in Nat, NEW r \in Roles
  PROVE  \E n \in Nat : inherits[r] \in [1..n -> Names]
<1>1. inherits[r] \in Lists
  BY DEF Shape
<1> QED
  BY <1>1 DEF Lists

\* A visit puts what the role inherits from in the place of the role.
LEMMA OnwardEffect ==
  ASSUME Shape, RoleGraphAssumption, todo # <<>>, Next0 \in Roles, Depth <= MaxDepth,
         todo' = Onward
  PROVE  /\ todo' \in Seq(Names \X (1..(MaxDepth + 1)))
         /\ Pending' = Range(inherits[Next0]) \cup Rest
         /\ \A i \in DOMAIN todo' :
              \/ \E q \in Range(inherits[Next0]) : todo'[i] = <<q, Depth + 1>>
              \/ \E j \in DOMAIN todo : todo'[i] = todo[j]
<1> DEFINE E == Names \X (1..(MaxDepth + 1))
           s == inherits[Next0]
           front == [i \in DOMAIN s |-> <<s[i], Depth + 1>>]
           t == Tail(todo)
<1>1. PICK n \in Nat : s \in [1..n -> Names]
  <2> HIDE DEF s
  <2>1. \A r \in Roles : \E m \in Nat : inherits[r] \in [1..m -> Names]
    BY ListShape DEF RoleGraphAssumption
  <2> QED
    BY <2>1 DEF s
<1>2. DOMAIN s = 1..n
  BY <1>1
<1>3. Depth + 1 \in 1..(MaxDepth + 1)
  BY HeadAndRest DEF RoleGraphAssumption
<1>4. front \in Seq(E) /\ Len(front) = n
  BY <1>1, <1>2, <1>3
<1>5. t \in Seq(E)
  BY HeadAndRest
<1>6. todo' = front \o t
  BY DEF Onward
<1>7. /\ todo' \in Seq(E)
      /\ DOMAIN todo' = 1..(n + Len(t))
      /\ \A i \in 1..n : todo'[i] = <<s[i], Depth + 1>>
      /\ \A i \in DOMAIN t : n + i \in DOMAIN todo' /\ todo'[n + i] = t[i]
      /\ \A i \in DOMAIN todo' : i \in 1..n \/ (i - n \in DOMAIN t /\ todo'[i] = t[i - n])
  <2> HIDE DEF E, front, t
  <2>1. DOMAIN front = 1..n /\ \A i \in 1..n : front[i] = <<s[i], Depth + 1>>
    BY <1>2 DEF front
  <2>2. /\ todo' \in Seq(E)
        /\ DOMAIN todo' = 1..(n + Len(t))
        /\ \A i \in 1..n : todo'[i] = front[i]
        /\ \A i \in DOMAIN t : n + i \in DOMAIN todo' /\ todo'[n + i] = t[i]
        /\ \A i \in DOMAIN todo' : i \in 1..n \/ (i - n \in DOMAIN t /\ todo'[i] = t[i - n])
    <3>1. front \in Seq(E) /\ t \in Seq(E) /\ Len(front) = n
      BY <1>4, <1>5
    <3>2. /\ front \o t \in Seq(E)
          /\ DOMAIN (front \o t) = 1..(Len(front) + Len(t))
          /\ \A i \in 1..Len(front) : (front \o t)[i] = front[i]
          /\ \A i \in DOMAIN t : /\ Len(front) + i \in DOMAIN (front \o t)
                                 /\ (front \o t)[Len(front) + i] = t[i]
          /\ \A i \in DOMAIN (front \o t) :
               \/ i \in 1..Len(front)
               \/ i - Len(front) \in DOMAIN t /\ (front \o t)[i] = t[i - Len(front)]
      BY <3>1, ConcatAt, ZenonT(30)
    <3> QED
      BY <3>1, <3>2, <1>6
  <2> HIDE DEF s
  <2> QED
    BY <2>1, <2>2
<1>8. Pending' = Range(s) \cup Rest
  <2>1. Pending' = {todo'[i][1] : i \in DOMAIN todo'}
    BY DEF Pending
  <2>2. Rest = {t[i][1] : i \in DOMAIN t}
    BY DEF Rest
  <2>3. Range(s) = {s[i] : i \in 1..n}
    BY <1>2 DEF Range
  <2> HIDE DEF s, t
  <2>4. \A i \in DOMAIN todo' : todo'[i][1] \in Range(s) \cup Rest
    <3> SUFFICES ASSUME NEW i \in DOMAIN todo'
                 PROVE  todo'[i][1] \in Range(s) \cup Rest
      OBVIOUS
    <3>1. CASE i \in 1..n
      <4>1. todo'[i] = <<s[i], Depth + 1>>
        BY <3>1, <1>7
      <4>2. s[i] \in Range(s)
        BY <3>1, <2>3
      <4> QED
        BY <4>1, <4>2
    <3>2. CASE i - n \in DOMAIN t /\ todo'[i] = t[i - n]
      <4>1. t[i - n][1] \in Rest
        BY <3>2, <2>2
      <4> QED
        BY <3>2, <4>1
    <3>3. i \in 1..n \/ (i - n \in DOMAIN t /\ todo'[i] = t[i - n])
      BY <1>7
    <3> QED
      BY <3>1, <3>2, <3>3
  <2>5. \A i \in 1..n : s[i] \in Pending'
    <3> SUFFICES ASSUME NEW i \in 1..n PROVE s[i] \in Pending'
      OBVIOUS
    <3>1. i \in DOMAIN todo' /\ todo'[i][1] = s[i]
      BY <1>5, <1>7
    <3> QED
      BY <2>1, <3>1
  <2>6. \A i \in DOMAIN t : t[i][1] \in Pending'
    BY <2>1, <1>7
  <2> QED
    BY <2>1, <2>2, <2>3, <2>4, <2>5, <2>6
<1>9. \A i \in DOMAIN todo' :
        \/ \E q \in Range(s) : todo'[i] = <<q, Depth + 1>>
        \/ \E j \in DOMAIN todo : todo'[i] = todo[j]
  <2>1. \A i \in DOMAIN t : \E j \in DOMAIN todo : t[i] = todo[j]
    BY HeadAndRest
  <2>2. Range(s) = {s[i] : i \in 1..n}
    BY <1>2 DEF Range
  <2> HIDE DEF s, t
  <2> QED
    BY <1>7, <2>1, <2>2
<1> QED
  BY <1>7, <1>8, <1>9

-----------------------------------------------------------------------------
(***************************************************************************)
(* The invariant holds at the start.                                       *)
(***************************************************************************)

\* Only the root is to be visited.
LEMMA InitIInv == ASSUME RoleGraphAssumption PROVE Init => IInv
<1> SUFFICES ASSUME Init PROVE IInv
  OBVIOUS
<1>0. root \in Names /\ 1 \in 1..(MaxDepth + 1)
  BY DEF RoleGraphAssumption, Names
<1>1. todo = << <<root, 1>> >> /\ todo \in Seq(Names \X (1..(MaxDepth + 1)))
  BY <1>0 DEF Init
<1>2. Pending = {root}
  <2>1. DOMAIN todo = {1} /\ todo[1][1] = root /\ todo[1][2] = 1
    BY <1>1
  <2> QED
    BY <2>1 DEF Pending
<1>3. Cardinality(seen) = 0 /\ seen = {}
  BY FS_EmptySet DEF Init
<1>4. Shape
  <2>1. rights \in [Roles -> SUBSET Needs]
    BY DEF Init
  <2>2. size \in [Roles -> Sizes]
    BY DEF Init, RoleGraphAssumption
  <2> QED
    BY <1>1, <1>3, <2>1, <2>2 DEF Init, Shape, RoleGraphAssumption
<1>5. Shallow
  BY <1>1, <1>3 DEF Shallow
<1>6. Inside
  BY <1>0, <1>2, <1>3, AncestorsRoot DEF Inside
<1>7. Covered
  BY <1>2, <1>3 DEF Covered
<1>8. Judged
  BY <1>3 DEF Judged, Init
<1>9. Measured
  BY <1>2 DEF Measured
<1>10. Attained
  BY DEF Attained, Init
<1>11. Chained
  <2> DEFINE e == <<root, 1>>
             f == [k \in 1..1 |-> root]
  <2>1. /\ e \in Names \X (1..(MaxDepth + 1)) /\ e[1] = root /\ e[2] = 1
        /\ f \in [1..e[2] -> Names] /\ f[1] = root
    BY <1>0
  <2>2. root \in Ancestors(root)
    BY <1>0, AncestorsRoot
  <2> HIDE DEF e, f
  <2>3. 1..e[2] = {1} /\ 1..(e[2] - 1) = {}
    BY <2>1
  <2>4. e \in Reached
    BY <2>1, <2>2, <2>3 DEF Reached
  <2>5. DOMAIN todo = {1} /\ todo[1] = e
    BY <1>1 DEF e
  <2> QED
    BY <2>4, <2>5 DEF Chained
<1>12. Ended
  BY DEF Ended, ErrorsHaveCauses, Init
<1> QED
  BY <1>4, <1>5, <1>6, <1>7, <1>8, <1>9, <1>10, <1>11, <1>12 DEF IInv

-----------------------------------------------------------------------------
(***************************************************************************)
(* Every step keeps it.                                                    *)
(***************************************************************************)

\* The roles do not change, so neither do their ancestors.
LEMMA AncestorsSame ==
  ASSUME inherits' = inherits
  PROVE  \A r : Ancestors(r)' = Ancestors(r)
  BY DEF Ancestors, Closed

\* Neither do the chains of calls,
LEMMA ReachedSame ==
  ASSUME inherits' = inherits
  PROVE  Reached' = Reached
  BY AncestorsSame DEF Reached

\* nor whether there is a cycle.
LEMMA CyclicSame ==
  ASSUME inherits' = inherits
  PROVE  Cyclic' = Cyclic
  BY AncestorsSame DEF Cyclic

\* An unknown name was to be visited, so it is an ancestor.
LEMMA FailStep ==
  ASSUME RoleGraphAssumption, IInv, NEW w, Fail(w)
  PROVE  IInv'
<1>1. UNCHANGED <<config, todo, seen, best>> /\ outcome' = "error" /\ outcome = "walking"
  BY DEF Fail, Walking
<1>2. Next0 \in Pending
  BY HeadAndRest DEF Fail, Walking, IInv
<1>3. Ancestors(root) \cap Ghosts # {}
  BY <1>2 DEF IInv, Inside, Fail
<1>4. Ancestors(root)' = Ancestors(root) /\ Pending' = Pending
  BY <1>1, AncestorsSame DEF config, Pending
<1>5. Shape' /\ Shallow' /\ Inside' /\ Covered'
  BY <1>1, <1>4 DEF IInv, Shape, Shallow, Inside, Covered, config
<1>6. Judged'
  BY <1>1 DEF IInv, Judged, Sufficient, config
<1>7. Measured' /\ Attained'
  BY <1>1, <1>4, AncestorsSame DEF IInv, Measured, Attained, config
<1>8. Chained'
  BY <1>1, ReachedSame DEF IInv, Chained, config
<1>9. Ended'
  BY <1>1, <1>3, <1>4 DEF Ended, ErrorsHaveCauses, config
<1> QED
  BY <1>5, <1>6, <1>7, <1>8, <1>9 DEF IInv

\* A role that was visited is dropped from the list.
LEMMA SkipStep ==
  ASSUME RoleGraphAssumption, IInv, NEW w \in {"authorize", "parents"}, Skip(w)
  PROVE  IInv'
<1>1. /\ UNCHANGED <<config, seen, best, outcome>> /\ todo' = Tail(todo)
      /\ todo # <<>> /\ outcome = "walking" /\ walk # "batch" /\ Next0 \in seen
  BY DEF Skip, Walking
<1>2. /\ Pending = {Next0} \cup Pending'
      /\ \A i \in DOMAIN todo' : \E j \in DOMAIN todo : todo'[i] = todo[j]
      /\ todo' \in Seq(Names \X (1..(MaxDepth + 1)))
  BY <1>1, HeadAndRest DEF IInv, Pending, Rest
<1>3. Ancestors(root)' = Ancestors(root)
  BY <1>1, AncestorsSame DEF config
<1>4. Shape'
  BY <1>1, <1>2 DEF IInv, Shape, config
<1>5. Shallow'
  BY <1>1, <1>2 DEF IInv, Shallow, config
<1>6. Inside'
  BY <1>1, <1>2, <1>3 DEF IInv, Inside
<1>7. Covered'
  BY <1>1, <1>2 DEF IInv, Covered, config
<1>8. Judged'
  BY <1>1 DEF IInv, Judged, Sufficient, config
<1>9. Measured' /\ Attained'
  BY <1>1, <1>3 DEF IInv, Measured, Attained, config
<1>10. Chained'
  BY <1>1, <1>2, ReachedSame DEF IInv, Chained, config
<1>11. Ended'
  BY <1>1 DEF Ended, ErrorsHaveCauses, config
<1> QED
  BY <1>4, <1>5, <1>6, <1>7, <1>8, <1>9, <1>10, <1>11 DEF IInv

\* A chain goes on with what its last role inherits from.
LEMMA ReachedNext ==
  ASSUME Shape, RoleGraphAssumption, NEW r \in Roles, NEW d \in 1..MaxDepth,
         <<r, d>> \in Reached, NEW q \in Range(inherits[r])
  PROVE  <<q, d + 1>> \in Reached
<1>1. PICK f \in [1..d -> Names] :
        /\ f[d] = r
        /\ \A k \in 1..d : f[k] \in Ancestors(root)
        /\ \A k \in 1..(d - 1) :
             /\ f[k] \in Roles
             /\ f[k + 1] \in Range(inherits[f[k]])
             /\ \A l \in (k + 1)..d : f[l] \in Ancestors(f[k + 1])
  BY DEF Reached
<1> DEFINE g == [k \in 1..(d + 1) |-> IF k = d + 1 THEN q ELSE f[k]]
<1>2. d \in Nat /\ d + 1 \in 1..(MaxDepth + 1) /\ d \in 1..d
  BY DEF RoleGraphAssumption
<1>3. inherits \in [Roles -> Lists] /\ root \in Names /\ r \in Names /\ q \in Names
  <2>1. inherits[r] \in Lists
    BY DEF Shape
  <2>2. q \in Names
    BY <2>1 DEF Lists, Range
  <2> QED
    BY <2>2 DEF Shape, RoleGraphAssumption, Names
<1>4. /\ g \in [1..(d + 1) -> Names] /\ g[d + 1] = q
      /\ \A k \in 1..d : g[k] = f[k]
  BY <1>2, <1>3
<1> HIDE DEF g
<1>5. \A a \in Names : r \in Ancestors(a) => q \in Ancestors(a)
  BY <1>3, AncestorsClosed DEF Closed
<1>6. \A k \in 1..(d + 1) : g[k] \in Ancestors(root)
  <2>1. q \in Ancestors(root)
    BY <1>1, <1>2, <1>3, <1>5
  <2>2. \A k \in 1..(d + 1) : k = d + 1 \/ k \in 1..d
    BY <1>2
  <2> QED
    BY <1>1, <1>4, <2>1, <2>2
<1>7. ASSUME NEW k \in 1..d
      PROVE  /\ g[k] \in Roles
             /\ g[k + 1] \in Range(inherits[g[k]])
             /\ \A l \in (k + 1)..(d + 1) : g[l] \in Ancestors(g[k + 1])
  <2>1. CASE k = d
    <3>1. (k + 1)..(d + 1) = {d + 1}
      BY <2>1, <1>2
    <3> QED
      BY <2>1, <3>1, <1>1, <1>2, <1>3, <1>4, AncestorsRoot
  <2>2. CASE k # d
    <3>1. k \in 1..(d - 1) /\ k + 1 \in 1..d
      BY <2>2, <1>2
    <3>2. g[k] = f[k] /\ g[k + 1] = f[k + 1] /\ f[k + 1] \in Names
      BY <3>1, <1>4
    <3>3. \A l \in (k + 1)..d : l \in 1..d /\ f[l] \in Ancestors(f[k + 1])
      <4>1. \A l \in (k + 1)..d : l \in 1..d
        BY <3>1, <1>2
      <4>2. \A l \in (k + 1)..d : f[l] \in Ancestors(f[k + 1])
        BY <3>1, <1>1
      <4> QED
        BY <4>1, <4>2
    <3>4. q \in Ancestors(f[k + 1])
      <4>1. d \in (k + 1)..d
        BY <3>1, <1>2
      <4> QED
        BY <4>1, <3>2, <3>3, <1>1, <1>5
    <3>5. \A l \in (k + 1)..(d + 1) : l = d + 1 \/ l \in (k + 1)..d
      BY <1>2
    <3> QED
      BY <3>1, <3>2, <3>3, <3>4, <3>5, <1>1, <1>4
  <2> QED
    BY <2>1, <2>2
<1> DEFINE e == <<q, d + 1>>
<1>8. e \in Names \X (1..(MaxDepth + 1)) /\ e[1] = q /\ e[2] = d + 1 /\ e[2] - 1 = d
  BY <1>2, <1>3
<1> HIDE DEF e
<1>9. e \in Reached
  BY <1>4, <1>6, <1>7, <1>8 DEF Reached
<1> QED
  BY <1>9 DEF e

\* A visit keeps every name on the list at the end of a chain.
LEMMA ChainedOnward ==
  ASSUME Shape, Chained, RoleGraphAssumption, todo # <<>>, Next0 \in Roles, Depth <= MaxDepth,
         todo' = Onward, inherits' = inherits
  PROVE  Chained'
<1>1. 1 \in DOMAIN todo /\ Head(todo) = todo[1] /\ Depth \in 1..MaxDepth
  BY HeadAndRest DEF RoleGraphAssumption
<1>2. <<Next0, Depth>> \in Reached
  <2>1. todo[1] \in Reached
    BY <1>1 DEF Chained
  <2> QED
    BY <1>1, <2>1 DEF Reached, Next0, Depth
<1>3. \A q \in Range(inherits[Next0]) : <<q, Depth + 1>> \in Reached
  BY <1>1, <1>2, ReachedNext
<1>4. \A i \in DOMAIN todo' : todo'[i] \in Reached
  BY <1>3, OnwardEffect DEF Chained
<1> QED
  BY <1>4, ReachedSame DEF Chained

\* A chain longer than there are roles meets one of them twice.
LEMMA DeepIsCyclic ==
  ASSUME Shape, RoleGraphAssumption, NEW x \in Names, <<x, MaxDepth + 1>> \in Reached
  PROVE  Cyclic
<1> DEFINE m == MaxDepth
<1>1. m \in Nat /\ m > Cardinality(Roles) /\ IsFiniteSet(Roles)
  BY DEF RoleGraphAssumption
<1>2. PICK f \in [1..(m + 1) -> Names] :
        /\ \A k \in 1..(m + 1) : f[k] \in Ancestors(root)
        /\ \A k \in 1..m :
             /\ f[k] \in Roles
             /\ f[k + 1] \in Range(inherits[f[k]])
             /\ \A l \in (k + 1)..(m + 1) : f[l] \in Ancestors(f[k + 1])
  <2>1. (m + 1) - 1 = m
    BY <1>1
  <2> QED
    BY <2>1 DEF Reached
<1> HIDE DEF m
<1>3. PICK i \in 1..m, j \in 1..m : i < j /\ f[i] = f[j]
  <2> DEFINE h == [k \in 1..m |-> f[k]]
  <2>1. h \in [1..m -> Roles]
    BY <1>2
  <2>2. IsFiniteSet(1..m) /\ Cardinality(1..m) = m
    BY <1>1, FS_Interval
  <2>3. \E a, b \in 1..m : a # b /\ h[a] = h[b]
    <3> HIDE DEF h
    <3> QED
      BY <2>1, <2>2, <1>1, FS_PigeonHole
  <2> QED
    BY <2>3, <1>1
<1>4. /\ f[i] \in Ancestors(root) \cap Roles
      /\ f[i + 1] \in Range(inherits[f[i]]) \cap Roles
      /\ f[i] \in Ancestors(f[i + 1])
  <2>1. i + 1 \in 1..m /\ j \in (i + 1)..(m + 1) /\ i \in 1..(m + 1)
    BY <1>1, <1>3
  <2> QED
    BY <2>1, <1>2, <1>3
<1> QED
  BY <1>4 DEF Cyclic

\* A visit that notes the role and goes on, in `authorize` and `parents`.
LEMMA VisitStep ==
  ASSUME RoleGraphAssumption, IInv, walk # "batch", outcome = "walking", todo # <<>>,
         Next0 \in Roles \ seen, seen' = seen \cup {Next0}, todo' = Onward,
         UNCHANGED <<config, best, outcome>>,
         walk = "authorize" => Next0 \notin Sufficient
  PROVE  IInv'
<1> DEFINE E == Names \X (1..(MaxDepth + 1))
<1>0. Shape /\ Next0 \in Names /\ inherits' = inherits
  BY DEF IInv, Names, config
<1>1. IsFiniteSet(seen) /\ Cardinality(seen) \in Nat /\ Cardinality(seen') = Cardinality(seen) + 1
      /\ Cardinality(seen') <= Cardinality(Roles) /\ Cardinality(Roles) \in Nat
  <2>1. IsFiniteSet(Roles) /\ seen \in SUBSET Roles /\ seen' \in SUBSET Roles
    BY <1>0 DEF RoleGraphAssumption, Shape
  <2> QED
    BY <2>1, FS_Subset, FS_AddElement, FS_CardinalityType
<1>2. 1 \in DOMAIN todo /\ Head(todo) = todo[1] /\ Depth \in 1..(MaxDepth + 1)
      /\ Pending = {Next0} \cup Rest
  BY <1>0, HeadAndRest
<1>3. Depth <= Cardinality(seen) + 1
  BY <1>2 DEF IInv, Shallow, Depth
<1>4. Depth <= MaxDepth
  BY <1>1, <1>2, <1>3 DEF RoleGraphAssumption
<1>5. /\ todo' \in Seq(E)
      /\ Pending' = Range(inherits[Next0]) \cup Rest
      /\ \A i \in DOMAIN todo' :
           \/ \E q \in Range(inherits[Next0]) : todo'[i] = <<q, Depth + 1>>
           \/ \E j \in DOMAIN todo : todo'[i] = todo[j]
  BY <1>0, <1>4, OnwardEffect
<1>6. Ancestors(root)' = Ancestors(root)
  BY <1>0, AncestorsSame
<1>7. Shape'
  BY <1>0, <1>5 DEF Shape, config
<1>8. Shallow'
  <2> SUFFICES ASSUME NEW i \in DOMAIN todo'
               PROVE  todo'[i][2] <= Cardinality(seen') + 1
    BY DEF Shallow
  <2>1. CASE \E q \in Range(inherits[Next0]) : todo'[i] = <<q, Depth + 1>>
    BY <2>1, <1>1, <1>2, <1>3
  <2>2. CASE \E j \in DOMAIN todo : todo'[i] = todo[j]
    <3>1. PICK j \in DOMAIN todo : todo'[i] = todo[j]
      BY <2>2
    <3>2. todo[j] \in E
      BY <1>0 DEF Shape
    <3>3. todo[j][2] \in Int
      BY <3>2
    <3>4. todo[j][2] <= Cardinality(seen) + 1
      BY DEF IInv, Shallow
    <3> QED
      BY <3>1, <3>3, <3>4, <1>1
  <2> QED
    BY <2>1, <2>2, <1>5
<1>9. Inside'
  <2>1. Next0 \in Ancestors(root) \cap Roles
    BY <1>2 DEF IInv, Inside
  <2>2. Range(inherits[Next0]) \subseteq Ancestors(root)
    BY <2>1, <1>0, AncestorsClosed DEF Closed, Shape, RoleGraphAssumption, Names
  <2> QED
    BY <2>1, <2>2, <1>2, <1>5, <1>6 DEF IInv, Inside
<1>10. Covered'
  BY <1>0, <1>2, <1>5 DEF IInv, Covered, config
<1>11. Judged'
  BY DEF IInv, Judged, Sufficient, config
<1>12. Measured' /\ Attained'
  BY <1>6 DEF IInv, Measured, Attained, config
<1>13. Chained'
  BY <1>0, <1>4, ChainedOnward DEF IInv
<1>14. Ended'
  BY DEF Ended, ErrorsHaveCauses, config
<1> QED
  BY <1>7, <1>8, <1>9, <1>10, <1>11, <1>12, <1>13, <1>14 DEF IInv

\* The role allows all, or the walk goes on.
LEMMA CheckStep ==
  ASSUME RoleGraphAssumption, IInv, Check
  PROVE  IInv'
<1>1. /\ walk = "authorize" /\ outcome = "walking" /\ todo # <<>> /\ Next0 \in Roles \ seen
      /\ seen' = seen \cup {Next0} /\ UNCHANGED <<config, best>>
  BY DEF Check, Walking
<1>2. CASE ~Allows(Next0)
  <2>1. todo' = Onward /\ UNCHANGED outcome
    BY <1>2 DEF Check
  <2>2. Next0 \notin Sufficient
    BY <1>2 DEF Allows, Sufficient
  <2> QED
    BY <1>1, <2>1, <2>2, VisitStep
<1>3. CASE Allows(Next0)
  <2>1. outcome' = "granted" /\ UNCHANGED todo
    BY <1>3 DEF Check
  <2>2. Next0 \in Sufficient
    BY <1>1, <1>3 DEF Allows, Sufficient
  <2>3. Ancestors(root)' = Ancestors(root) /\ Pending' = Pending
    BY <1>1, <2>1, AncestorsSame DEF config, Pending
  <2>4. Shape'
    BY <1>1, <2>1 DEF IInv, Shape, config
  <2>5. Shallow'
    <3>1. IsFiniteSet(seen) /\ Cardinality(seen') = Cardinality(seen) + 1 /\ Cardinality(seen) \in Nat
      <4>1. IsFiniteSet(Roles) /\ seen \in SUBSET Roles
        BY DEF IInv, RoleGraphAssumption, Shape
      <4> QED
        BY <4>1, <1>1, FS_Subset, FS_AddElement, FS_CardinalityType
    <3>2. \A j \in DOMAIN todo : todo[j][2] \in Int
      <4>1. \A j \in DOMAIN todo : todo[j] \in Names \X (1..(MaxDepth + 1))
        BY DEF IInv, Shape
      <4> QED
        BY <4>1
    <3> QED
      BY <1>1, <2>1, <3>1, <3>2 DEF IInv, Shallow, config
  <2>6. Inside'
    <3>1. Next0 \in Pending
      BY <1>1, HeadAndRest DEF IInv
    <3> QED
      BY <1>1, <2>3, <3>1 DEF IInv, Inside
  <2>7. Covered' /\ Judged'
    BY <1>1, <2>1, <2>2 DEF Covered, Judged, Sufficient, config
  <2>8. Measured' /\ Attained'
    BY <1>1, <2>3 DEF IInv, Measured, Attained, config
  <2>9. Chained'
    BY <1>1, <2>1, ReachedSame DEF IInv, Chained, config
  <2>10. Ended'
    BY <2>1 DEF Ended, ErrorsHaveCauses
  <2> QED
    BY <2>4, <2>5, <2>6, <2>7, <2>8, <2>9, <2>10 DEF IInv
<1> QED
  BY <1>2, <1>3

\* The role is noted.
LEMMA CollectStep ==
  ASSUME RoleGraphAssumption, IInv, Collect
  PROVE  IInv'
<1>1. /\ walk = "parents" /\ outcome = "walking" /\ todo # <<>> /\ Next0 \in Roles \ seen
      /\ seen' = seen \cup {Next0} /\ todo' = Onward /\ UNCHANGED <<config, best, outcome>>
  BY DEF Collect, Walking
<1> QED
  BY <1>1, VisitStep

\* Nothing is left to visit, or the calls do not end: only the outcome changes.
LEMMA OutcomeStep ==
  ASSUME IInv, UNCHANGED <<config, todo, seen, best>>, outcome = "walking",
         outcome' \in {"denied", "done"} => todo = <<>>,
         outcome' = "denied" => walk = "authorize",
         outcome' = "error" => walk = "batch" /\ Cyclic,
         outcome' \in {"denied", "done", "error"}
  PROVE  IInv'
<1>1. Ancestors(root)' = Ancestors(root) /\ Pending' = Pending
  BY AncestorsSame DEF config, Pending
<1>2. Shape' /\ Shallow' /\ Inside' /\ Covered'
  BY <1>1 DEF IInv, Shape, Shallow, Inside, Covered, config
<1>3. Judged'
  BY DEF IInv, Judged, Sufficient, config
<1>4. Measured' /\ Attained'
  BY <1>1, AncestorsSame DEF IInv, Measured, Attained, config
<1>5. Chained'
  BY ReachedSame DEF IInv, Chained, config
<1>6. Ended'
  BY <1>1, CyclicSame DEF Ended, ErrorsHaveCauses, config
<1> QED
  BY <1>2, <1>3, <1>4, <1>5, <1>6 DEF IInv

\* Nothing is left to visit.
LEMMA DenyStep ==
  ASSUME IInv, Deny
  PROVE  IInv'
  BY OutcomeStep DEF Deny

\* Nothing is left to visit.
LEMMA EndStep ==
  ASSUME IInv, End
  PROVE  IInv'
<1>1. /\ UNCHANGED <<config, todo, seen, best>>
      /\ outcome = "walking" /\ outcome' = "done" /\ todo = <<>>
  BY DEF End
<1> QED
  BY <1>1, OutcomeStep

\* The calls are as deep as only a cycle makes them.
LEMMA OverflowStep ==
  ASSUME RoleGraphAssumption, IInv, Overflow
  PROVE  IInv'
<1>1. /\ UNCHANGED <<config, todo, seen, best>> /\ todo # <<>> /\ walk = "batch"
      /\ outcome = "walking" /\ outcome' = "error" /\ Depth > MaxDepth
  BY DEF Overflow, Walking
<1>2. Shape /\ Chained
  BY DEF IInv
<1>3. Head(todo) = todo[1] /\ 1 \in DOMAIN todo /\ Depth \in 1..(MaxDepth + 1) /\ Next0 \in Names
  BY <1>1, <1>2, HeadAndRest
<1>4. Depth = MaxDepth + 1
  BY <1>1, <1>3 DEF RoleGraphAssumption
<1>5. <<Next0, MaxDepth + 1>> \in Reached
  <2>1. todo[1] \in Reached
    BY <1>2, <1>3 DEF Chained
  <2> QED
    BY <2>1, <1>3, <1>4 DEF Reached, Next0, Depth
<1>6. Cyclic
  BY <1>2, <1>3, <1>5, DeepIsCyclic
<1> QED
  BY <1>1, <1>6, OutcomeStep

\* An ancestor of the visited role is that role, or one of what it inherits from.
LEMMA MeasureStep ==
  ASSUME RoleGraphAssumption, IInv, Measure
  PROVE  IInv'
<1> DEFINE E == Names \X (1..(MaxDepth + 1))
<1>0. /\ walk = "batch" /\ outcome = "walking" /\ todo # <<>> /\ Next0 \in Roles
      /\ Depth <= MaxDepth /\ best' = Larger(Next0) /\ todo' = Onward
      /\ UNCHANGED <<config, seen, outcome>> /\ inherits' = inherits /\ size' = size
      /\ walk' = walk
  BY DEF Measure, Walking, config
<1>1. Shape /\ Chained
  BY DEF IInv
<1>2. Pending = {Next0} \cup Rest
  BY <1>0, <1>1, HeadAndRest
<1>3. todo' \in Seq(E) /\ Pending' = Range(inherits[Next0]) \cup Rest
  BY <1>0, <1>1, OnwardEffect
<1>4. Ancestors(root)' = Ancestors(root)
  BY <1>0, AncestorsSame
<1>5. Next0 \in Ancestors(root) \cap Roles /\ Range(inherits[Next0]) \subseteq Ancestors(root)
  <2>1. Next0 \in Ancestors(root) \cap Roles
    BY <1>0, <1>2 DEF IInv, Inside
  <2> QED
    BY <2>1, <1>1, AncestorsClosed DEF Closed, Shape, RoleGraphAssumption, Names
<1>6. /\ size[Next0] \in Sizes /\ best \in Sizes /\ best' \in Sizes /\ Sizes \subseteq Nat
      /\ best <= best' /\ size[Next0] <= best' /\ (best' = best \/ best' = size[Next0])
  <2>1. size[Next0] \in Sizes /\ best \in Sizes /\ Sizes \subseteq Nat
    BY <1>0, <1>1 DEF Shape, RoleGraphAssumption
  <2>2. best' = IF size[Next0] > best THEN size[Next0] ELSE best
    BY <1>0 DEF Larger
  <2>3. size[Next0] \in Nat /\ best \in Nat
    BY <2>1
  <2>4. CASE size[Next0] > best
    BY <2>1, <2>2, <2>3, <2>4
  <2>5. CASE ~(size[Next0] > best)
    BY <2>1, <2>2, <2>3, <2>5
  <2> QED
    BY <2>4, <2>5
<1>7. Shape'
  BY <1>0, <1>1, <1>3, <1>6 DEF Shape, config
<1>8. Shallow' /\ Covered' /\ Judged'
  BY <1>0 DEF Shallow, Covered, Judged
<1>9. Inside'
  BY <1>0, <1>2, <1>3, <1>4, <1>5 DEF IInv, Inside
<1>10. Measured'
  <2> SUFFICES ASSUME NEW a \in Ancestors(root)
               PROVE  \/ a \in Roles /\ size[a] <= best'
                      \/ \E p \in Pending' : a \in Ancestors(p)
    BY <1>0, <1>4, AncestorsSame DEF Measured
  <2>1. CASE a \in Roles /\ size[a] <= best
    <3>1. size[a] \in Nat
      BY <2>1, <1>1, <1>6 DEF Shape
    <3> QED
      BY <2>1, <3>1, <1>6
  <2>2. CASE a \in Ancestors(Next0)
    <3>1. a = Next0 \/ \E q \in Range(inherits[Next0]) : a \in Ancestors(q)
      BY <2>2, <1>0, <1>1, AncestorsUnfold DEF Shape
    <3> QED
      BY <3>1, <1>0, <1>3, <1>6
  <2>3. CASE \E p \in Rest : a \in Ancestors(p)
    BY <2>3, <1>3
  <2> QED
    BY <2>1, <2>2, <2>3, <1>0, <1>2 DEF IInv, Measured
<1>11. Attained'
  BY <1>0, <1>4, <1>5, <1>6 DEF IInv, Attained
<1>12. Chained'
  BY <1>0, <1>1, ChainedOnward
<1>13. Ended'
  BY <1>0 DEF Ended, ErrorsHaveCauses
<1> QED
  BY <1>7, <1>8, <1>9, <1>10, <1>11, <1>12, <1>13 DEF IInv

\* Every action.
LEMMA StepIInv ==
  ASSUME RoleGraphAssumption, IInv, [Next]_vars
  PROVE  IInv'
<1>1. CASE \E w \in {"authorize", "batch", "parents"} : Fail(w)
  BY <1>1, FailStep
<1>2. CASE \E w \in {"authorize", "parents"} : Skip(w)
  BY <1>2, SkipStep
<1>3. CASE Check
  BY <1>3, CheckStep
<1>4. CASE Deny
  BY <1>4, DenyStep
<1>5. CASE Measure
  BY <1>5, MeasureStep
<1>6. CASE Overflow
  BY <1>6, OverflowStep
<1>7. CASE Collect
  BY <1>7, CollectStep
<1>8. CASE End
  BY <1>8, EndStep
<1>9. CASE UNCHANGED vars
  <2>1. inherits' = inherits /\ rights' = rights /\ size' = size /\ walk' = walk
        /\ todo' = todo /\ seen' = seen /\ best' = best /\ outcome' = outcome
    BY <1>9 DEF vars, config
  <2>2. Ancestors(root)' = Ancestors(root) /\ Pending' = Pending
    BY <2>1, AncestorsSame DEF Pending
  <2>3. Shape' /\ Shallow' /\ Inside' /\ Covered' /\ Judged'
    BY <2>1, <2>2 DEF IInv, Shape, Shallow, Inside, Covered, Judged, Sufficient
  <2>4. Measured' /\ Attained' /\ Chained'
    BY <2>1, <2>2, AncestorsSame, ReachedSame DEF IInv, Measured, Attained, Chained
  <2>5. Ended'
    BY <2>1, <2>2, CyclicSame DEF IInv, Ended, ErrorsHaveCauses
  <2> QED
    BY <2>3, <2>4, <2>5 DEF IInv
<1> QED
  BY <1>1, <1>2, <1>3, <1>4, <1>5, <1>6, <1>7, <1>8, <1>9 DEF Next

-----------------------------------------------------------------------------
(***************************************************************************)
(* What it implies.                                                        *)
(***************************************************************************)

\* The list of the names still to visit is empty when a walk ends.
LEMMA NothingPending == ASSUME todo = <<>> PROVE Pending = {}
  BY DEF Pending

\* A walk that noted what it visited, and visited all, visited the ancestors.
LEMMA AllVisited ==
  ASSUME RoleGraphAssumption, IInv, walk # "batch", outcome # "granted", todo = <<>>
  PROVE  seen = Ancestors(root)
<1>1. Pending = {}
  BY NothingPending
<1>2. root \in seen /\ seen \subseteq Roles /\ Closed(seen) /\ seen \subseteq Ancestors(root)
  BY <1>1 DEF IInv, Covered, Closed, Shape, Inside
<1>3. Ancestors(root) \subseteq seen
  BY <1>2, AncestorsLeast DEF Names
<1> QED
  BY <1>2, <1>3

\* The types.
LEMMA TypeOKFromIInv == ASSUME IInv PROVE TypeOK
  BY DEF IInv, Shape, Inside, TypeOK

\* What was visited holds no sufficient role until one grants.
LEMMA GrantedFromIInv == ASSUME RoleGraphAssumption, IInv PROVE GrantedByOneRole
<1> SUFFICES ASSUME walk = "authorize"
             PROVE  /\ outcome = "granted" => seen \cap Sufficient # {}
                    /\ outcome = "denied"  => Ancestors(root) \subseteq Roles \ Sufficient
                    /\ outcome = "error"   => /\ Ancestors(root) \cap Ghosts # {}
                                              /\ seen \cap Sufficient = {}
  BY DEF GrantedByOneRole
<1>1. outcome = "granted" => seen \cap Sufficient # {}
  BY DEF IInv, Judged
<1>2. ASSUME outcome = "denied" PROVE Ancestors(root) \subseteq Roles \ Sufficient
  <2>1. todo = <<>>
    BY <1>2 DEF IInv, Ended
  <2>2. seen = Ancestors(root)
    BY <2>1, <1>2, AllVisited
  <2> QED
    BY <2>2, <1>2 DEF IInv, Judged, Shape
<1>3. ASSUME outcome = "error"
      PROVE  Ancestors(root) \cap Ghosts # {} /\ seen \cap Sufficient = {}
  BY <1>3 DEF IInv, Judged, Ended, ErrorsHaveCauses
<1> QED
  BY <1>1, <1>2, <1>3

\* With nothing pending, all ancestors were visited or count.
LEMMA WalksFromIInv == ASSUME RoleGraphAssumption, IInv PROVE WalksAgree
<1>1. ParentsAreAncestors
  BY AllVisited DEF ParentsAreAncestors, IInv, Ended
<1>2. BatchIsLargest
  <2> SUFFICES ASSUME walk = "batch", outcome = "done"
               PROVE  /\ Ancestors(root) \subseteq Roles
                      /\ \A r \in Ancestors(root) : size[r] <= best
                      /\ best = 0 \/ \E r \in Ancestors(root) : size[r] = best
    BY DEF BatchIsLargest
  <2>1. Pending = {}
    BY NothingPending DEF IInv, Ended
  <2> QED
    BY <2>1 DEF IInv, Measured, Attained
<1>3. ErrorsHaveCauses
  BY DEF IInv, Ended
<1> QED
  BY <1>1, <1>2, <1>3 DEF WalksAgree

\* IInv is an invariant.
LEMMA InvIInv == ASSUME RoleGraphAssumption PROVE Spec => []IInv
<1>1. Init => IInv
  BY InitIInv
<1>2. IInv /\ [Next]_vars => IInv'
  BY StepIInv
<1> QED
  BY <1>1, <1>2, PTL DEF Spec

\* The type invariant: no walk that notes what it visited is deeper than there
\* are roles, and it stays among the user's role's ancestors.
THEOREM TypeCorrect == ASSUME RoleGraphAssumption PROVE Spec => []TypeOK
<1>1. IInv => TypeOK
  BY TypeOKFromIInv
<1> QED
  BY <1>1, InvIInv, PTL

\* recursCheckRolesAndParents grants when one role among the user's and those
\* it inherits from allows all of the request by itself, and denies only when
\* none does, whatever inherits from what.
THEOREM GrantIsByOneRole == ASSUME RoleGraphAssumption PROVE Spec => []GrantedByOneRole
<1>1. IInv => GrantedByOneRole
  BY GrantedFromIInv
<1> QED
  BY <1>1, InvIInv, PTL

\* getParentRoles finds all ancestors, getMatchBatchSizeFromCrudRoleAndParents
\* the largest batch size among them, and a walk fails for an unknown name or,
\* the one that does not note what it visited, for a cycle.
THEOREM WalksAreOverAncestors == ASSUME RoleGraphAssumption PROVE Spec => []WalksAgree
<1>1. IInv => WalksAgree
  BY WalksFromIInv
<1> QED
  BY <1>1, InvIInv, PTL

=============================================================================
