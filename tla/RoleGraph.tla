----------------------------- MODULE RoleGraph -----------------------------
(***************************************************************************)
(* Three walks over the roles and those they inherit from, each written    *)
(* on its own:                                                             *)
(*   authorize   recursCheckRolesAndParents: the first role that allows    *)
(*               all that the request needs                                *)
(*   batch       getMatchBatchSizeFromCrudRoleAndParents: the largest      *)
(*               maxBatchSize                                              *)
(*   parents     getParentRoles: all of them                               *)
(*                                                                         *)
(* `todo` is what the recursion has still to visit, the next one first;    *)
(* visiting a role puts those it inherits from in front.  The first and    *)
(* the last skip what was visited before, the second does not.             *)
(***************************************************************************)
EXTENDS Integers, Sequences, FiniteSets, Functions

CONSTANTS
  Roles,     \* the roles in rolesMap
  root,      \* the user's role
  Ghosts,    \* names that roles inherit from and rolesMap does not have
  Needs,     \* what a request needs: that the role has rights for the service
             \* at all, the fields it names, its options
  Sizes,     \* values of maxBatchSize, 0 for none
  MaxInherits,  \* bound: a role inherits directly from no more
  MaxDepth   \* how many calls the stack has room for

RoleGraphAssumption ==
  /\ IsFiniteSet(Roles) /\ root \in Roles
  /\ Roles \cap Ghosts = {}
  /\ Sizes \subseteq Nat /\ 0 \in Sizes
  /\ MaxInherits \in Nat
  /\ MaxDepth \in Nat /\ MaxDepth > Cardinality(Roles)

Names == Roles \cup Ghosts

VARIABLES
  inherits,   \* the roles each role inherits from, in order
  rights,     \* what each role allows, judged alone
  size,       \* maxBatchSize of each role
  walk,       \* which of the three
  todo,       \* the roles to visit, with the depth of the call
  seen,       \* checkedRoles, parentRolesMap
  best,       \* maxBatchSize so far
  outcome     \* how the walk ended

config == <<inherits, rights, size, walk>>
vars == <<config, todo, seen, best, outcome>>

Lists == {s \in UNION {[1..n -> Names] : n \in 0..MaxInherits} : IsInjective(s)}

\* What a walk does not read is left out; so is a role that inherits from
\* itself directly, which is as one that does so through another.
Init ==
  /\ walk \in {"authorize", "batch", "parents"}
  /\ inherits \in [Roles -> Lists]
  /\ \A r \in Roles : r \notin Range(inherits[r])
  /\ rights \in [Roles -> IF walk = "authorize" THEN SUBSET Needs ELSE {{}}]
  /\ size \in [Roles -> IF walk = "batch" THEN Sizes ELSE {0}]
  /\ todo = << <<root, 1>> >>
  /\ seen = {}
  /\ best = 0
  /\ outcome = "walking"

-----------------------------------------------------------------------------
Next0 == Head(todo)[1]    \* the role to visit
Depth == Head(todo)[2]

Walking(w) == walk = w /\ outcome = "walking" /\ todo # <<>>

\* Those the visited role inherits from, then the rest.
Onward == [i \in DOMAIN inherits[Next0] |-> <<inherits[Next0][i], Depth + 1>>] \o Tail(todo)

\* A name without a role: rolesMap gives undefined.
Fail(w) ==
  /\ Walking(w)
  /\ Next0 \in Ghosts
  /\ outcome' = "error"
  /\ UNCHANGED <<config, todo, seen, best>>

Skip(w) ==
  /\ Walking(w)
  /\ Next0 \in seen
  /\ todo' = Tail(todo)
  /\ UNCHANGED <<config, seen, best, outcome>>

\* Mutant of Allows: the roles visited so far allow it together.
Allows_Together(r) == Needs \subseteq UNION {rights[p] : p \in seen \cup {r}}

\* The abilities and options of one role.
Allows(r) == Needs \subseteq rights[r]

\* recursCheckRolesAndParents
Check ==
  /\ Walking("authorize")
  /\ Next0 \in Roles \ seen
  /\ seen' = seen \cup {Next0}
  /\ IF Allows(Next0)
     THEN outcome' = "granted" /\ UNCHANGED todo
     ELSE todo' = Onward /\ UNCHANGED outcome
  /\ UNCHANGED <<config, best>>

\* All were visited.
Deny ==
  /\ walk = "authorize" /\ outcome = "walking" /\ todo = <<>>
  /\ outcome' = "denied"
  /\ UNCHANGED <<config, todo, seen, best>>

\* Mutant of Larger: the size of the role visited last.
Larger_Last(r) == IF size[r] > 0 THEN size[r] ELSE best

Larger(r) == IF size[r] > best THEN size[r] ELSE best

\* getMatchBatchSizeFromCrudRoleAndParents
Measure ==
  /\ Walking("batch")
  /\ Next0 \in Roles /\ Depth <= MaxDepth
  /\ best' = Larger(Next0)
  /\ todo' = Onward
  /\ UNCHANGED <<config, seen, outcome>>

\* A role that inherits from itself: the calls never end.
Overflow ==
  /\ Walking("batch")
  /\ Depth > MaxDepth
  /\ outcome' = "error"
  /\ UNCHANGED <<config, todo, seen, best>>

\* recursGetParentRoles
Collect ==
  /\ Walking("parents")
  /\ Next0 \in Roles \ seen
  /\ seen' = seen \cup {Next0}
  /\ todo' = Onward
  /\ UNCHANGED <<config, best, outcome>>

End ==
  /\ walk \in {"batch", "parents"} /\ outcome = "walking" /\ todo = <<>>
  /\ outcome' = "done"
  /\ UNCHANGED <<config, todo, seen, best>>

Next ==
  \/ \E w \in {"authorize", "batch", "parents"} : Fail(w)
  \/ \E w \in {"authorize", "parents"} : Skip(w)
  \/ Check \/ Deny \/ Measure \/ Overflow \/ Collect \/ End

Spec == Init /\ [][Next]_vars

-----------------------------------------------------------------------------
\* A set of names that nothing leads out of.
Closed(S) == \A r \in S \cap Roles : Range(inherits[r]) \subseteq S

\* The names a role inherits from, directly or not, and itself.
Ancestors(r) == {p \in Names : \A S \in SUBSET Names : r \in S /\ Closed(S) => p \in S}

\* The roles that allow all of a request, each by itself.
Sufficient == {r \in Roles : Needs \subseteq rights[r]}

\* Some role inherits from itself.
Cyclic ==
  \E r \in Ancestors(root) \cap Roles :
    \E p \in Range(inherits[r]) \cap Roles : r \in Ancestors(p)

\* Type invariant; no walk visits more than there is room for.
TypeOK ==
  /\ inherits \in [Roles -> Lists]
  /\ todo \in Seq(Names \X (1..(MaxDepth + 1)))
  /\ seen \subseteq Ancestors(root)
  /\ best \in Sizes
  /\ outcome \in {"walking", "granted", "denied", "done", "error"}

\* docs/security/roles.md, "Authorization": a request passes exactly when one
\* role among the user's and those it inherits from allows all of it by
\* itself; an unknown name is an error only while no such role was met.
GrantedByOneRole ==
  walk = "authorize" =>
    /\ outcome = "granted" => seen \cap Sufficient # {}
    /\ outcome = "denied"  => Ancestors(root) \subseteq Roles \ Sufficient
    /\ outcome = "error"   => /\ Ancestors(root) \cap Ghosts # {}
                              /\ seen \cap Sufficient = {}

ParentsAreAncestors == walk = "parents" /\ outcome = "done" => seen = Ancestors(root)

BatchIsLargest ==
  walk = "batch" /\ outcome = "done" =>
    /\ Ancestors(root) \subseteq Roles
    /\ \A r \in Ancestors(root) : size[r] <= best
    /\ best = 0 \/ \E r \in Ancestors(root) : size[r] = best

ErrorsHaveCauses ==
  outcome = "error" => Ancestors(root) \cap Ghosts # {} \/ (walk = "batch" /\ Cyclic)

\* The three walks see the same roles: the ones that may skip validation of a
\* query, those whose batch size counts and those whose rights do.  Only the
\* walk for the batch size fails when roles inherit from each other.
WalksAgree == ParentsAreAncestors /\ BatchIsLargest /\ ErrorsHaveCauses
=============================================================================
