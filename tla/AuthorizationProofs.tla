------------------------ MODULE AuthorizationProofs ------------------------
(***************************************************************************)
(* What is proved of the rules Authorization checks.                       *)
(*                                                                         *)
(* RoleGraph: whatever is followed beside them, the roles behave as        *)
(* RoleGraph says.  The theorems about it come with an instance of their   *)
(* own, Proved, which has the same definitions as Role; the first lemmas   *)
(* say so of those that are needed.                                        *)
(*                                                                         *)
(* UserQuota: an inductive invariant weighs a user's counter against the   *)
(* entities she has, those removed and not subtracted yet, and those       *)
(* stored and not counted yet; the bounds on the overshoot follow from it. *)
(***************************************************************************)
EXTENDS Authorization, FiniteSets, TLAPS, FiniteSetTheorems

Proved == INSTANCE RoleGraphProofs

\* The constants are what RoleGraph assumes.
LEMMA SameAssumption == Proved!RoleGraphAssumption
  BY AuthorizationAssumption
  DEF AuthorizationAssumption, Role!RoleGraphAssumption, Proved!RoleGraphAssumption,
      Role!IsFiniteSet, Proved!IsFiniteSet, Role!Cardinality, Proved!Cardinality

\* The initial states are the same.
LEMMA SameInit == Role!Init => Proved!Init
  BY DEF Role!Init, Proved!Init, Role!Lists, Proved!Lists, Role!Names, Proved!Names,
         Role!IsInjective, Proved!IsInjective, Role!Range, Proved!Range

\* So are the steps.
LEMMA SameNext == Role!Next => Proved!Next
  BY DEF Role!Next, Role!Fail, Role!Skip, Role!Check, Role!Deny, Role!Measure,
         Role!Overflow, Role!Collect, Role!End, Role!Walking, Role!Next0, Role!Depth,
         Role!Onward, Role!Allows, Role!Larger, Role!config,
         Proved!Next, Proved!Fail, Proved!Skip, Proved!Check, Proved!Deny, Proved!Measure,
         Proved!Overflow, Proved!Collect, Proved!End, Proved!Walking, Proved!Next0,
         Proved!Depth, Proved!Onward, Proved!Allows, Proved!Larger, Proved!config

\* So is what is said of a state ...
LEMMA SameGranted == Proved!GrantedByOneRole => GrantedByOneRole
  BY DEF GrantedByOneRole, Role!GrantedByOneRole, Proved!GrantedByOneRole,
         Role!Sufficient, Proved!Sufficient, Role!Ancestors, Proved!Ancestors,
         Role!Closed, Proved!Closed, Role!Names, Proved!Names, Role!Range, Proved!Range

\* ... by each of the properties.
LEMMA SameWalks == Proved!WalksAgree => WalksAgree
  BY DEF WalksAgree, Role!WalksAgree, Proved!WalksAgree,
         Role!ParentsAreAncestors, Proved!ParentsAreAncestors,
         Role!BatchIsLargest, Proved!BatchIsLargest,
         Role!ErrorsHaveCauses, Proved!ErrorsHaveCauses, Role!Cyclic, Proved!Cyclic,
         Role!Ancestors, Proved!Ancestors, Role!Closed, Proved!Closed,
         Role!Names, Proved!Names, Role!Range, Proved!Range

\* The roles of Authorization start and step as those of RoleGraph, or stand
\* still.
LEMMA ImplementsRoleGraph == Spec => Proved!Spec
<1>1. Init => Proved!Init
  BY SameInit DEF Init
<1>2. [Next]_vars => [Proved!Next]_(Proved!vars)
  <2> SUFFICES ASSUME [Next]_vars
               PROVE  Proved!Next \/ UNCHANGED Proved!vars
    OBVIOUS
  <2>1. CASE CheckItems
    BY <2>1 DEF CheckItems, roleVars, Proved!vars, Proved!config
  <2>2. CASE CheckRoles
    BY <2>2, SameNext DEF CheckRoles
  <2>3. CASE UNCHANGED vars
    BY <2>3 DEF vars, roleVars, Proved!vars, Proved!config
  <2> QED
    BY <2>1, <2>2, <2>3 DEF Next
<1> QED
  BY <1>1, <1>2, PTL DEF Spec, Proved!Spec

\* A request passes exactly when one role, the user's or one it inherits from,
\* allows all of it (recursCheckRolesAndParents), for any roles and rights.
THEOREM GrantIsByOneRole == Spec => []GrantedByOneRole
<1>1. Proved!Spec => []Proved!GrantedByOneRole
  BY SameAssumption, Proved!GrantIsByOneRole
<1> QED
  BY <1>1, ImplementsRoleGraph, SameGranted, PTL

\* The walks for the batch size and for the parents see the same roles as the
\* one that authorizes (getMatchBatchSizeFromCrudRoleAndParents,
\* getParentRoles), and fail for the stated causes only.
THEOREM WalksAreOverAncestors == Spec => []WalksAgree
<1>1. Proved!Spec => []Proved!WalksAgree
  BY SameAssumption, Proved!WalksAreOverAncestors
<1> QED
  BY <1>1, ImplementsRoleGraph, SameWalks, PTL

-----------------------------------------------------------------------------
(***************************************************************************)
(* UserQuota: the inductive invariant.  What a user's counter should be is *)
(* said of sets: the entities it owes a count for, live or removed and not *)
(* yet subtracted, against those it was not told of yet.                   *)
(***************************************************************************)
Slots == Cardinality(Requests)

Storing == {"stored", "adding"}

Removing == {"removed", "subtracting"}

Making == {"create", "stored", "adding"}

\* The slots that hold something of user u, and where.
InFlight(u, pcs) == {r \in Requests : req[r].user = u /\ req[r].pc \in pcs}

\* Stored by u, and the increment has not arrived.
Added(u) == {i \in Items : \E r \in InFlight(u, Storing) : i \in req[r].items}

\* Removed by u, and the decrement has not arrived.
Removed(u) == {i \in Items : \E r \in InFlight(u, Removing) : i \in req[r].items}

\* What the counter will stand for when the increments have arrived.
Owed(u) == Quota!Live(u) \cup Removed(u)

\* What a slot holds was made by somebody; what it stored, by its user.
SlotFits(r) ==
  /\ req[r].pc # "idle" => req[r].user \in Users
  /\ IsFiniteSet(req[r].items)
  /\ \A i \in req[r].items : maker[i] \in Users
  /\ req[r].pc = "create" /\ "batch" \notin slips[req[r].user] => req[r].size = 1
  /\ req[r].pc \in Storing =>
       /\ \A i \in req[r].items : maker[i] = req[r].user
       /\ "batch" \notin slips[req[r].user] => Cardinality(req[r].items) = 1
  /\ req[r].pc \in Removing => req[r].items \cap live = {}

\* No entity is stored twice, none is live and nobody's.
EntitiesFit ==
  /\ IsFiniteSet(live)
  /\ \A i \in live : maker[i] \in Users
  /\ \A r, q \in Requests :
       r # q /\ req[r].pc \in Storing /\ req[q].pc \in Storing
         => req[r].items \cap req[q].items = {}

\* The slots that have passed their last check of maxItemsInDb.
Ready == {r \in Requests : req[r].pc = "create" /\ req[r].left = 0}

\* What they can add to the collection.
Room(n) == MaxSize * n

DbFits == Cardinality(live) + Room(Cardinality(Ready)) <= MaxInDb - 1 + Room(Slots)

\* No decrement is counted for an entity twice, and the counter falls short of
\* what it will stand for by no more than the increments on their way.
Counted(u) ==
  /\ IsFiniteSet(Owed(u)) /\ IsFiniteSet(Added(u))
  /\ \A r, q \in InFlight(u, Removing) : r # q => req[r].items \cap req[q].items = {}
  /\ Cardinality(Owed(u)) <= count[u] + Cardinality(Added(u))
  /\ "taken" \notin slips[u] => Cardinality(Owed(u)) = count[u] + Cardinality(Added(u))

\* Every slot that makes an entity was let in below the quota.
Limited(u) ==
  /\ Cardinality(Added(u)) <= Cardinality(InFlight(u, Storing))
  /\ count[u] + Cardinality(InFlight(u, Making)) <= MaxPerUser - 1 + Slots

UserFits(u) ==
  /\ "drift" \notin slips[u] => Counted(u)
  /\ slips[u] \subseteq {"taken"} => Limited(u)

QuotaInv ==
  /\ Quota!TypeOK
  /\ \A r \in Requests : SlotFits(r)
  /\ EntitiesFit
  /\ DbFits
  /\ \A u \in Users : UserFits(u)

-----------------------------------------------------------------------------
(***************************************************************************)
(* UserQuota: constants, sets of slots, and what a turn of one slot does.  *)
(***************************************************************************)
\* What the proofs need of the constants.
LEMMA QuotaConstants ==
  /\ Nobody \notin Users
  /\ IsFiniteSet(Requests)
  /\ Slots \in Nat /\ Slots >= 1
  /\ MaxSize \in Nat /\ MaxSize >= 1
  /\ BatchSizes \subseteq 1..MaxSize
  /\ MaxPerUser \in Nat /\ MaxPerUser >= 1
  /\ MaxInDb \in Nat /\ MaxInDb >= 1
<1>1. IsFiniteSet(Requests) /\ Requests # {}
  BY AuthorizationAssumption
  DEF AuthorizationAssumption, Quota!QuotaAssumption, Quota!IsFiniteSet, IsFiniteSet
<1>2. Slots \in Nat /\ Slots # 0
  BY <1>1, FS_CardinalityType, FS_EmptySet DEF Slots
<1> QED
  BY <1>1, <1>2, AuthorizationAssumption DEF AuthorizationAssumption, Quota!QuotaAssumption

\* UserQuota counts as we do.
LEMMA SameCounting ==
  /\ \A S : Quota!Cardinality(S) = Cardinality(S)
  /\ \A S : Quota!IsFiniteSet(S) <=> IsFiniteSet(S)
  BY DEF Quota!Cardinality, Cardinality, Quota!IsFiniteSet, IsFiniteSet

\* A free slot, and the type of one.
LEMMA IdleSlot ==
  /\ Quota!Idle \in Quota!Request
  /\ Quota!Idle.pc = "idle" /\ Quota!Idle.user = Nobody /\ Quota!Idle.size = 0
  /\ Quota!Idle.left = 0 /\ Quota!Idle.items = {}
  BY QuotaConstants DEF Quota!Idle, Quota!Request, Quota!Pcs

\* The sets of slots are finite and no larger than all the slots.
LEMMA SomeSlots ==
  ASSUME NEW A \in SUBSET Requests
  PROVE  IsFiniteSet(A) /\ Cardinality(A) \in 0..Slots
  BY QuotaConstants, FS_Subset, FS_CardinalityType DEF Slots

\* A slot more.
LEMMA OneMore ==
  ASSUME NEW A \in SUBSET Requests, NEW r \in Requests, r \notin A
  PROVE  Cardinality(A \cup {r}) = Cardinality(A) + 1
  BY SomeSlots, FS_AddElement

\* A slot less.
LEMMA OneLess ==
  ASSUME NEW A \in SUBSET Requests, NEW r \in A
  PROVE  Cardinality(A \ {r}) = Cardinality(A) - 1
  BY SomeSlots, FS_RemoveElement

\* Entities more: none of them was there.
LEMMA Joined ==
  ASSUME NEW A, NEW S, IsFiniteSet(A), IsFiniteSet(S), A \cap S = {}
  PROVE  /\ IsFiniteSet(A \cup S)
         /\ Cardinality(A \cup S) = Cardinality(A) + Cardinality(S)
<1>1. Cardinality(A) \in Nat /\ Cardinality(S) \in Nat
  BY FS_CardinalityType
<1> QED
  BY <1>1, FS_Union, FS_EmptySet

\* Entities less: all of them were there.
LEMMA Left ==
  ASSUME NEW A, NEW S, IsFiniteSet(A), S \subseteq A
  PROVE  /\ IsFiniteSet(A \ S)
         /\ Cardinality(A \ S) = Cardinality(A) - Cardinality(S)
<1>1. IsFiniteSet(A \ S) /\ IsFiniteSet(S)
  BY FS_Subset
<1>2. (A \ S) \cap S = {} /\ (A \ S) \cup S = A
  OBVIOUS
<1>3. Cardinality(A) = Cardinality(A \ S) + Cardinality(S)
  BY <1>1, <1>2, Joined
<1> QED
  BY <1>1, <1>3, FS_CardinalityType

\* Room is what it says, and grows with the slots.
LEMMA RoomGrows ==
  ASSUME NEW m \in Nat, NEW n \in Nat
  PROVE  /\ Room(n) \in Nat
         /\ Room(n + 1) = Room(n) + MaxSize
         /\ m <= n => Room(m) <= Room(n)
<1>1. MaxSize \in Nat
  BY QuotaConstants
<1>2. Room(n) \in Nat /\ Room(n + 1) = Room(n) + MaxSize
  BY <1>1 DEF Room
<1>3. ASSUME m <= n PROVE Room(m) <= Room(n)
  <2>1. PICK k \in Nat : n = m + k
    BY <1>3
  <2>2. MaxSize * k \in Nat
    BY <1>1
  <2>3. MaxSize * (m + k) = MaxSize * m + MaxSize * k
    BY <1>1
  <2> QED
    BY <1>1, <2>1, <2>2, <2>3 DEF Room
<1> QED
  BY <1>2, <1>3

\* A turn of slot r changes nothing in another.
LEMMA Turn ==
  ASSUME Quota!TypeOK, NEW r \in Requests, NEW next, Quota!Become(r, next)
  PROVE  req'[r] = next /\ \A q \in Requests : q # r => req'[q] = req[q]
  BY DEF Quota!Become, Quota!TypeOK

\* Where slots do the same for u before and after, it has stored and removed
\* the same.
LEMMA SameInFlight ==
  ASSUME NEW u, NEW pcs,
         \A q \in Requests : \/ req'[q] = req[q]
                             \/ /\ req[q].pc \notin pcs \/ req[q].user # u
                                /\ req'[q].pc \notin pcs \/ req'[q].user # u
                             \/ /\ req[q].user = u /\ req'[q].user = u
                                /\ req[q].pc \in pcs /\ req'[q].pc \in pcs
  PROVE  InFlight(u, pcs)' = InFlight(u, pcs)
  BY DEF InFlight

\* Nobody's turn makes an entity somebody else's, brings one back, or forgets
\* a slip.
Steady ==
  /\ \A i \in Items : maker[i] \in Users => maker'[i] = maker[i]
  /\ \A i \in live' : i \in live \/ maker[i] = Nobody
  /\ \A u \in Users : slips[u] \subseteq slips'[u]

\* A turn of slot r leaves what is said of the other slots as it is.
LEMMA SlotsKept ==
  ASSUME Quota!TypeOK, Quota!TypeOK', \A q \in Requests : SlotFits(q), Steady,
         NEW r \in Requests, \A q \in Requests : q # r => req'[q] = req[q], SlotFits(r)'
  PROVE  \A q \in Requests : SlotFits(q)'
<1> SUFFICES ASSUME NEW q \in Requests, q # r PROVE SlotFits(q)'
  OBVIOUS
<1>1. req'[q] = req[q] /\ req[q] \in Quota!Request /\ SlotFits(q)
  BY DEF Quota!TypeOK
<1>2. \A i \in req[q].items : maker'[i] = maker[i] /\ maker[i] \in Users
  BY <1>1 DEF SlotFits, Steady, Quota!Request
<1>3. req[q].pc \in Removing => req[q].items \cap live' = {}
  BY <1>1, <1>2, QuotaConstants DEF SlotFits, Steady
<1>4. req[q].pc # "idle" => slips[req[q].user] \subseteq slips'[req[q].user]
  BY <1>1 DEF SlotFits, Steady
<1>5. "create" # "idle" /\ "idle" \notin Storing
  BY DEF Storing
<1> QED
  BY <1>1, <1>2, <1>3, <1>4, <1>5 DEF SlotFits

\* A turn of slot r stores nothing that another slot stored.
LEMMA EntitiesKept ==
  ASSUME Quota!TypeOK, \A q \in Requests : SlotFits(q), EntitiesFit,
         NEW r \in Requests, \A q \in Requests : q # r => req'[q] = req[q],
         IsFiniteSet(live'), \A i \in live' : maker'[i] \in Users,
         req'[r].pc \in Storing => \A i \in req'[r].items :
           maker[i] = Nobody \/ (req[r].pc \in Storing /\ i \in req[r].items)
  PROVE  EntitiesFit'
<1> SUFFICES ASSUME NEW p \in Requests, NEW q \in Requests, p # q,
                    req'[p].pc \in Storing, req'[q].pc \in Storing,
                    NEW i \in req'[p].items \cap req'[q].items
             PROVE  FALSE
  BY DEF EntitiesFit, Storing
<1>1. \A s \in Requests : s # r /\ req'[s].pc \in Storing
        => \A j \in req'[s].items : /\ req[s].pc \in Storing /\ j \in req[s].items
                                    /\ maker[j] # Nobody
  BY QuotaConstants DEF SlotFits
<1>2. \A s \in Requests : req'[s].pc \in Storing /\ i \in req'[s].items
        => (req[s].pc \in Storing /\ i \in req[s].items) \/ (s = r /\ maker[i] = Nobody)
  BY <1>1
<1>3. p # r \/ q # r
  OBVIOUS
<1>4. maker[i] # Nobody
  BY <1>1, <1>3
<1> QED
  BY <1>2, <1>4 DEF EntitiesFit

\* Where no entity and no slot is added, the collection stays in its bounds.
LEMMA DbKept ==
  ASSUME DbFits, IsFiniteSet(live), live' \subseteq live, Ready' \subseteq Ready
  PROVE  DbFits'
<1>1. Cardinality(live') \in Nat /\ Cardinality(live) \in Nat
      /\ Cardinality(live') <= Cardinality(live)
  BY FS_Subset, FS_CardinalityType
<1>2. IsFiniteSet(Ready) /\ Cardinality(Ready) \in 0..Slots
  BY SomeSlots DEF Ready
<1>3. /\ Cardinality(Ready') \in Nat /\ Cardinality(Ready) \in Nat
      /\ Cardinality(Ready') <= Cardinality(Ready)
  BY <1>2, FS_Subset, FS_CardinalityType
<1>4. /\ Room(Cardinality(Ready')) <= Room(Cardinality(Ready))
      /\ Room(Cardinality(Ready')) \in Nat /\ Room(Cardinality(Ready)) \in Nat
  BY <1>3, RoomGrows
<1>5. Room(Slots) \in Int /\ MaxInDb \in Int
  BY QuotaConstants, RoomGrows
<1>6. /\ Room(Cardinality(Ready))' = Room(Cardinality(Ready'))
      /\ Room(Slots)' = Room(Slots)
  BY DEF Room, Slots
<1> HIDE DEF Room, Slots, Ready
<1> QED
  BY <1>1, <1>4, <1>5, <1>6 DEF DbFits

\* What is said of a user whose counter, stored and removed entities stay, and
\* who is let in no further than the quota allows.
LEMMA UserKept ==
  ASSUME Quota!TypeOK, NEW u \in Users, UserFits(u), slips[u] \subseteq slips'[u],
         count'[u] = count[u],
         InFlight(u, Storing)' = InFlight(u, Storing),
         InFlight(u, Removing)' = InFlight(u, Removing),
         \A q \in InFlight(u, Storing) \cup InFlight(u, Removing) :
           req'[q].items = req[q].items,
         Quota!Live(u)' \subseteq Quota!Live(u),
         "taken" \notin slips'[u] => Quota!Live(u)' = Quota!Live(u),
         slips'[u] \subseteq {"taken"}
           => count[u] + Cardinality(InFlight(u, Making)') <= MaxPerUser - 1 + Slots
  PROVE  UserFits(u)'
<1>1. Added(u)' = Added(u) /\ Removed(u)' = Removed(u)
  BY DEF Added, Removed
<1>2. Owed(u)' \subseteq Owed(u) /\ ("taken" \notin slips'[u] => Owed(u)' = Owed(u))
  BY <1>1 DEF Owed
<1>3. ASSUME "drift" \notin slips'[u] PROVE Counted(u)'
  <2>1. Counted(u)
    BY <1>3 DEF UserFits
  <2>2. /\ IsFiniteSet(Owed(u)') /\ Cardinality(Owed(u)') <= Cardinality(Owed(u))
        /\ Cardinality(Owed(u)') \in Nat /\ Cardinality(Owed(u)) \in Nat
    BY <1>2, <2>1, FS_Subset, FS_CardinalityType DEF Counted
  <2>3. count[u] \in Int /\ Cardinality(Added(u)) \in Nat
    BY <2>1, FS_CardinalityType DEF Counted, Quota!TypeOK
  <2>4. /\ Cardinality(Owed(u)') <= count'[u] + Cardinality(Added(u)')
        /\ "taken" \notin slips'[u]
             => Cardinality(Owed(u)') = count'[u] + Cardinality(Added(u)')
    <3> DEFINE A == Added(u)
               B == Added(u)'
               O == Owed(u)
               P == Owed(u)'
    <3>1. A = B /\ ("taken" \notin slips'[u] => O = P)
      BY <1>1, <1>2
    <3>2. /\ Cardinality(O) <= count[u] + Cardinality(A)
          /\ "taken" \notin slips[u] => Cardinality(O) = count[u] + Cardinality(A)
          /\ Cardinality(P) <= Cardinality(O)
          /\ Cardinality(O) \in Nat /\ Cardinality(P) \in Nat /\ Cardinality(A) \in Nat
      BY <2>1, <2>2, <2>3 DEF Counted
    <3> HIDE DEF A, B, O, P
    <3>3. Cardinality(P) <= count'[u] + Cardinality(B)
          /\ ("taken" \notin slips'[u] => Cardinality(P) = count'[u] + Cardinality(B))
      BY <2>3, <3>1, <3>2
    <3> QED
      BY <3>3 DEF B, P
  <2>5. \A q, s \in InFlight(u, Removing)' : q # s => req'[q].items \cap req'[s].items = {}
    BY <2>1 DEF Counted
  <2>6. IsFiniteSet(Added(u)')
    BY <1>1, <2>1 DEF Counted
  <2> QED
    BY <2>2, <2>4, <2>5, <2>6 DEF Counted
<1>4. ASSUME slips'[u] \subseteq {"taken"} PROVE Limited(u)'
  <2>1. Limited(u)
    BY <1>4 DEF UserFits
  <2>2. MaxPerUser' = MaxPerUser /\ Slots' = Slots
    BY DEF Slots
  <2> QED
    BY <1>1, <1>4, <2>1, <2>2 DEF Limited
<1> QED
  BY <1>3, <1>4 DEF UserFits

\* A turn of slot r, before and after not user u's.
LEMMA UserAway ==
  ASSUME Quota!TypeOK, NEW u \in Users, UserFits(u), slips[u] \subseteq slips'[u],
         count'[u] = count[u],
         NEW r \in Requests, \A q \in Requests : q # r => req'[q] = req[q],
         req[r].user # u, req'[r].user # u,
         Quota!Live(u)' \subseteq Quota!Live(u),
         "taken" \notin slips'[u] => Quota!Live(u)' = Quota!Live(u)
  PROVE  UserFits(u)'
<1>1. \A pcs : InFlight(u, pcs)' = InFlight(u, pcs)
  BY DEF InFlight
<1>2. slips'[u] \subseteq {"taken"}
           => count[u] + Cardinality(InFlight(u, Making)') <= MaxPerUser - 1 + Slots
  BY <1>1 DEF UserFits, Limited
<1>3. \A q \in InFlight(u, Storing) \cup InFlight(u, Removing) : req'[q].items = req[q].items
  BY DEF InFlight
<1>4. /\ InFlight(u, Storing)' = InFlight(u, Storing)
      /\ InFlight(u, Removing)' = InFlight(u, Removing)
  BY <1>1
<1> QED
  BY <1>2, <1>3, <1>4, UserKept

-----------------------------------------------------------------------------
(***************************************************************************)
(* UserQuota: every action preserves the invariant.                        *)
(***************************************************************************)
\* Who was let in below the quota: no more slots than there are can make.
LEMMA LetIn ==
  ASSUME NEW u \in Users, count[u] \in Int, Quota!MayCreate(u)
  PROVE  count[u] + Cardinality(InFlight(u, Making)') <= MaxPerUser - 1 + Slots
<1>1. InFlight(u, Making)' \in SUBSET Requests
  BY DEF InFlight
<1>2. Cardinality(InFlight(u, Making)') \in 0..Slots
  BY <1>1, SomeSlots
<1> QED
  BY <1>2, QuotaConstants DEF Quota!MayCreate

\* Fewer slots make: who was let in stays so.
LEMMA StillIn ==
  ASSUME Quota!TypeOK, NEW u \in Users, UserFits(u), slips[u] \subseteq slips'[u],
         slips'[u] \subseteq {"taken"}, InFlight(u, Making)' \subseteq InFlight(u, Making)
  PROVE  count[u] + Cardinality(InFlight(u, Making)') <= MaxPerUser - 1 + Slots
<1>1. IsFiniteSet(InFlight(u, Making)) /\ Cardinality(InFlight(u, Making)) \in 0..Slots
  BY SomeSlots DEF InFlight
<1>2. /\ Cardinality(InFlight(u, Making)') <= Cardinality(InFlight(u, Making))
      /\ Cardinality(InFlight(u, Making)') \in Nat
  BY <1>1, FS_Subset, FS_CardinalityType
<1>3. count[u] + Cardinality(InFlight(u, Making)) <= MaxPerUser - 1 + Slots
  BY DEF UserFits, Limited
<1>4. count[u] \in Int /\ MaxPerUser \in Int /\ Slots \in Int
  BY QuotaConstants DEF Quota!TypeOK
<1> HIDE DEF Slots, InFlight
<1> QED
  BY <1>1, <1>2, <1>3, <1>4

\* A turn that takes a free slot for a request that holds no entity yet and
\* changes nothing else.  The user is below the quota, or creates a batch.
LEMMA TakeSlot ==
  ASSUME QuotaInv, NEW r \in Requests, NEW u \in Users, NEW next \in Quota!Request,
         req[r] = Quota!Idle, Quota!Become(r, next), next.user = u, next.pc = "create",
         next.items = {}, next.left # 0,
         UNCHANGED <<maker, live, count>>,
         slips' \in [Users -> SUBSET Quota!Slips],
         \A v \in Users : slips[v] \subseteq slips'[v],
         \A v \in Users : "taken" \notin slips'[v] => "taken" \notin slips[v],
         \/ Quota!MayCreate(u) /\ next.size = 1
         \/ "batch" \in slips'[u]
  PROVE  QuotaInv'
<1>1. /\ Quota!TypeOK /\ \A q \in Requests : SlotFits(q)
      /\ EntitiesFit /\ DbFits /\ \A v \in Users : UserFits(v)
  BY DEF QuotaInv
<1>2. req'[r] = next /\ \A q \in Requests : q # r => req'[q] = req[q]
  BY <1>1, Turn
<1>3. req[r].pc = "idle" /\ req[r].user = Nobody
  BY IdleSlot
<1>4. Quota!TypeOK'
  BY <1>1 DEF Quota!TypeOK, Quota!Become
<1>5. SlotFits(r)'
  BY <1>2, FS_EmptySet DEF SlotFits, Storing, Removing
<1>6. Steady
  BY DEF Steady
<1>7. \A q \in Requests : SlotFits(q)'
  BY <1>1, <1>2, <1>4, <1>5, <1>6, SlotsKept
<1>8. EntitiesFit'
  BY <1>1, <1>2, EntitiesKept DEF EntitiesFit, Storing
<1>9. DbFits'
  <2>1. Ready' \subseteq Ready
    BY <1>2 DEF Ready
  <2> QED
    BY <1>1, <2>1, DbKept DEF EntitiesFit
<1>10. ASSUME NEW v \in Users PROVE UserFits(v)'
  <2>1. Quota!Live(v)' = Quota!Live(v)
    BY DEF Quota!Live
  <2>2. CASE v # u
    BY <1>1, <1>2, <1>3, <2>1, <2>2, QuotaConstants, UserAway
  <2>3. CASE v = u
    <3>1. /\ InFlight(u, Storing)' = InFlight(u, Storing)
          /\ InFlight(u, Removing)' = InFlight(u, Removing)
      BY <1>2, <1>3 DEF InFlight, Storing, Removing
    <3>2. \A q \in InFlight(u, Storing) \cup InFlight(u, Removing) :
             req'[q].items = req[q].items
      BY <1>2, <1>3 DEF InFlight, Storing, Removing
    <3>3. slips'[u] \subseteq {"taken"} => Quota!MayCreate(u)
      OBVIOUS
    <3>4. count[u] \in Int
      BY <1>1 DEF Quota!TypeOK
    <3>5. slips'[u] \subseteq {"taken"}
           => count[u] + Cardinality(InFlight(u, Making)') <= MaxPerUser - 1 + Slots
      BY <3>3, <3>4, LetIn
    <3> QED
      BY <1>1, <2>1, <2>3, <3>1, <3>2, <3>5, UserKept
  <2> QED
    BY <2>2, <2>3
<1> QED
  BY <1>4, <1>7, <1>8, <1>9, <1>10 DEF QuotaInv

\* One entity to create.
LEMMA CreateStep ==
  ASSUME QuotaInv, NEW r \in Requests, NEW u \in Users, Quota!Create(r, u)
  PROVE  QuotaInv'
<1> DEFINE pc == "create"
           one == 1
           next == [Quota!Idle EXCEPT !.pc = pc, !.user = u, !.size = one, !.left = one]
<1>1. /\ req[r] = Quota!Idle /\ Quota!MayCreate(u) /\ Quota!Become(r, next)
      /\ UNCHANGED <<maker, live, count, slips>>
  BY DEF Quota!Create
<1>2. pc \in Quota!Pcs /\ one \in 0..MaxSize /\ u \in Users \cup {Nobody}
  BY QuotaConstants DEF Quota!Pcs
<1>3. slips' \in [Users -> SUBSET Quota!Slips]
  BY <1>1 DEF QuotaInv, Quota!TypeOK
<1> HIDE DEF pc, one
<1>4. /\ next \in Quota!Request /\ next.user = u /\ next.pc = pc /\ next.items = {}
      /\ next.left = one /\ next.size = one
  BY <1>2, IdleSlot DEF Quota!Request
<1> HIDE DEF next
<1>5. next.pc = "create" /\ next.left # 0 /\ next.size = 1
  BY <1>4 DEF pc, one
<1> QED
  BY <1>1, <1>3, <1>4, <1>5, TakeSlot

\* A batch to create.
LEMMA CreateBatchStep ==
  ASSUME QuotaInv, NEW r \in Requests, NEW u \in Users, NEW n \in BatchSizes,
         Quota!CreateBatch(r, u, n)
  PROVE  QuotaInv'
<1> DEFINE pc == "create"
           next == [Quota!Idle EXCEPT !.pc = pc, !.user = u, !.size = n, !.left = n]
<1>1. /\ req[r] = Quota!Idle /\ Quota!Become(r, next)
      /\ slips' = [slips EXCEPT ![u] = @ \cup {"batch"}]
      /\ UNCHANGED <<maker, live, count>>
  BY DEF Quota!CreateBatch, Quota!Slip
<1>2. pc \in Quota!Pcs /\ n \in 1..MaxSize /\ u \in Users \cup {Nobody}
  BY QuotaConstants DEF Quota!Pcs
<1>3. slips \in [Users -> SUBSET Quota!Slips] /\ "batch" \in Quota!Slips
  BY DEF QuotaInv, Quota!TypeOK, Quota!Slips
<1>4. slips' \in [Users -> SUBSET Quota!Slips] /\ "batch" \in slips'[u]
  BY <1>1, <1>3
<1>5. \A v \in Users : /\ slips[v] \subseteq slips'[v]
                       /\ "taken" \notin slips'[v] => "taken" \notin slips[v]
  BY <1>1, <1>3
<1> HIDE DEF pc
<1>6. n \in 0..MaxSize /\ n # 0
  BY <1>2, QuotaConstants
<1>7. /\ next \in Quota!Request /\ next.user = u /\ next.pc = pc /\ next.items = {}
      /\ next.left = n
  BY <1>2, <1>6, IdleSlot DEF Quota!Request
<1> HIDE DEF next
<1>8. next.pc = "create" /\ next.left # 0
  BY <1>6, <1>7 DEF pc
<1> QED
  BY <1>1, <1>4, <1>5, <1>7, <1>8, TakeSlot

\* A turn that stores, removes and counts nothing: what the slot holds of its
\* user stays as it is.
LEMMA QuietTurn ==
  ASSUME QuotaInv, NEW r \in Requests, NEW next \in Quota!Request, Quota!Become(r, next),
         UNCHANGED <<maker, live, count, slips>>,
         req[r].pc \in Storing <=> next.pc \in Storing,
         req[r].pc \in Removing <=> next.pc \in Removing,
         next.pc \in Making => req[r].pc \in Making /\ next.user = req[r].user,
         req[r].pc \in Storing \cup Removing
           => next.user = req[r].user /\ next.items = req[r].items,
         SlotFits(r)', DbFits'
  PROVE  QuotaInv'
<1>1. /\ Quota!TypeOK /\ \A q \in Requests : SlotFits(q)
      /\ EntitiesFit /\ DbFits /\ \A v \in Users : UserFits(v)
  BY DEF QuotaInv
<1>2. req'[r] = next /\ \A q \in Requests : q # r => req'[q] = req[q]
  BY <1>1, Turn
<1>3. Quota!TypeOK'
  BY <1>1 DEF Quota!TypeOK, Quota!Become
<1>4. Steady
  BY DEF Steady
<1>5. \A q \in Requests : SlotFits(q)'
  BY <1>1, <1>2, <1>3, <1>4, SlotsKept
<1>6. EntitiesFit'
  <2>1. IsFiniteSet(live') /\ \A i \in live' : maker'[i] \in Users
    BY <1>1 DEF EntitiesFit
  <2>2. req'[r].pc \in Storing => \A i \in req'[r].items :
           maker[i] = Nobody \/ (req[r].pc \in Storing /\ i \in req[r].items)
    BY <1>2
  <2> QED
    BY <1>1, <1>2, <2>1, <2>2, EntitiesKept
<1>7. ASSUME NEW v \in Users PROVE UserFits(v)'
  <2>1. Quota!Live(v)' = Quota!Live(v)
    BY DEF Quota!Live
  <2>2. InFlight(v, Storing)' = InFlight(v, Storing)
    BY <1>2 DEF InFlight
  <2>3. InFlight(v, Removing)' = InFlight(v, Removing)
    BY <1>2 DEF InFlight
  <2>4. InFlight(v, Making)' \subseteq InFlight(v, Making)
    BY <1>2 DEF InFlight
  <2>5. \A q \in InFlight(v, Storing) \cup InFlight(v, Removing) :
           req'[q].items = req[q].items
    BY <1>2 DEF InFlight
  <2>6. slips'[v] \subseteq {"taken"}
           => count[v] + Cardinality(InFlight(v, Making)') <= MaxPerUser - 1 + Slots
    BY <1>1, <2>4, StillIn
  <2> QED
    BY <1>1, <2>1, <2>2, <2>3, <2>5, <2>6, UserKept
<1> QED
  BY <1>3, <1>5, <1>6, <1>7 DEF QuotaInv

\* One more entity of a request is below maxItemsInDb.
LEMMA CheckDbStep ==
  ASSUME QuotaInv, NEW r \in Requests, Quota!CheckDb(r)
  PROVE  QuotaInv'
<1> DEFINE next == [req[r] EXCEPT !.left = @ - 1]
<1>1. /\ Quota!TypeOK /\ \A q \in Requests : SlotFits(q)
      /\ EntitiesFit /\ DbFits /\ \A v \in Users : UserFits(v)
  BY DEF QuotaInv
<1>2. /\ req[r].pc = "create" /\ req[r].left > 0
      /\ Cardinality(live) < MaxInDb /\ Quota!Become(r, next)
      /\ UNCHANGED <<maker, live, count, slips>>
  BY SameCounting DEF Quota!CheckDb
<1>3. req[r] \in Quota!Request
  BY <1>1 DEF Quota!TypeOK
<1>4. req[r].left \in 0..MaxSize /\ req[r].left - 1 \in 0..MaxSize
  BY <1>2, <1>3, QuotaConstants DEF Quota!Request
<1>5. /\ next \in Quota!Request /\ next.pc = "create" /\ next.user = req[r].user
      /\ next.size = req[r].size /\ next.items = req[r].items
  BY <1>2, <1>3, <1>4 DEF Quota!Request
<1> HIDE DEF next
<1>6. req'[r] = next /\ \A q \in Requests : q # r => req'[q] = req[q]
  BY <1>1, <1>2, Turn
<1>7. SlotFits(r)'
  BY <1>1, <1>2, <1>5, <1>6 DEF SlotFits, Storing, Removing
<1>8. DbFits'
  <2>1. Ready' \in SUBSET Requests
    BY DEF Ready
  <2>2. Cardinality(Ready') \in 0..Slots
    BY <2>1, SomeSlots
  <2>3. Room(Cardinality(Ready')) <= Room(Slots) /\ Room(Cardinality(Ready')) \in Nat
        /\ Room(Slots) \in Nat
    BY <2>2, RoomGrows, QuotaConstants
  <2>4. Cardinality(live) \in Nat /\ Cardinality(live) <= MaxInDb - 1 /\ live' = live
    BY <1>1, <1>2, QuotaConstants, FS_CardinalityType DEF EntitiesFit
  <2>5. Room(Cardinality(Ready))' = Room(Cardinality(Ready')) /\ Room(Slots)' = Room(Slots)
    BY DEF Room, Slots
  <2> HIDE DEF Ready, Room, Slots
  <2> QED
    BY <2>3, <2>4, <2>5, QuotaConstants DEF DbFits
<1>9. "create" \notin Storing /\ "create" \notin Removing /\ "create" \in Making
  BY DEF Storing, Removing, Making
<1> QED
  BY <1>2, <1>5, <1>7, <1>8, <1>9, QuietTurn

\* No slot becomes ready and no entity appears.
LEMMA DbQuiet ==
  ASSUME QuotaInv, NEW r \in Requests, \A q \in Requests : q # r => req'[q] = req[q],
         req'[r].pc # "create", live' \subseteq live
  PROVE  DbFits'
<1>1. Ready' \subseteq Ready
  BY DEF Ready
<1> QED
  BY <1>1, DbKept DEF QuotaInv, EntitiesFit

\* deleteOne finds its entity.
LEMMA FindStep ==
  ASSUME QuotaInv, NEW r \in Requests, NEW u \in Users, NEW i \in Items, Quota!Find(r, u, i)
  PROVE  QuotaInv'
<1> DEFINE pc == "found"
           S == {i}
           next == [Quota!Idle EXCEPT !.pc = pc, !.user = u, !.items = S]
<1>1. Quota!TypeOK /\ \A q \in Requests : SlotFits(q) /\ EntitiesFit
  BY DEF QuotaInv
<1>2. /\ req[r] = Quota!Idle /\ i \in live /\ Quota!Become(r, next)
      /\ UNCHANGED <<maker, live, count, slips>>
  BY DEF Quota!Find
<1>3. /\ pc \in Quota!Pcs /\ u \in Users \cup {Nobody} /\ S \subseteq Items
  BY DEF Quota!Pcs
<1>4. IsFiniteSet(S) /\ \A j \in S : maker[j] \in Users
  BY <1>1, <1>2, FS_Singleton DEF EntitiesFit
<1> HIDE DEF pc, S
<1>5. next \in Quota!Request /\ next.pc = pc /\ next.user = u /\ next.items = S
  BY <1>3, IdleSlot DEF Quota!Request
<1> HIDE DEF next
<1>6. next.pc = "found"
  BY <1>5 DEF pc
<1>7. req'[r] = next /\ \A q \in Requests : q # r => req'[q] = req[q]
  BY <1>1, <1>2, Turn
<1>8. SlotFits(r)'
  BY <1>2, <1>4, <1>5, <1>6, <1>7 DEF SlotFits, Storing, Removing
<1>9. DbFits'
  BY <1>2, <1>6, <1>7, DbQuiet
<1>10. req[r].pc = "idle"
  BY <1>2, IdleSlot
<1> QED
  BY <1>2, <1>5, <1>6, <1>8, <1>9, <1>10, QuietTurn DEF Storing, Removing, Making

\* The hooks are over.
LEMMA AnswerStep ==
  ASSUME QuotaInv, NEW r \in Requests, Quota!Answer(r)
  PROVE  QuotaInv'
<1>1. Quota!TypeOK /\ SlotFits(r) /\ req[r] \in Quota!Request
  BY DEF QuotaInv, Quota!TypeOK
<1>2. PICK pc \in {"adding", "subtracting"} :
        /\ req[r].pc = IF pc = "adding" THEN "stored" ELSE "removed"
        /\ Quota!Become(r, [req[r] EXCEPT !.pc = pc])
        /\ UNCHANGED <<maker, live, count, slips>>
  BY DEF Quota!Answer
<1> DEFINE next == [req[r] EXCEPT !.pc = pc]
<1>3. pc \in Quota!Pcs
  BY DEF Quota!Pcs
<1>4. /\ next \in Quota!Request /\ next.pc = pc /\ next.user = req[r].user
      /\ next.items = req[r].items
  BY <1>1, <1>3 DEF Quota!Request
<1>5. Quota!Become(r, next)
  BY <1>2
<1> HIDE DEF next
<1>6. req'[r] = next /\ \A q \in Requests : q # r => req'[q] = req[q]
  BY <1>1, <1>5, Turn
<1>7. SlotFits(r)'
  BY <1>1, <1>2, <1>4, <1>6 DEF SlotFits, Storing, Removing
<1>8. DbFits'
  BY <1>2, <1>4, <1>6, DbQuiet
<1> QED
  BY <1>2, <1>4, <1>5, <1>7, <1>8, QuietTurn DEF Storing, Removing, Making

\* The flush: fresh entities S are the user's, live, and not counted yet.
LEMMA StoreUser ==
  ASSUME QuotaInv, NEW r \in Requests, NEW u \in Users, NEW S \in SUBSET Items,
         IsFiniteSet(S), \A i \in S : maker[i] = Nobody /\ maker'[i] = u,
         \A i \in Items : maker[i] \in Users => maker'[i] = maker[i],
         \A i \in Items \ S : maker'[i] = maker[i],
         live' = live \cup S,
         req[r].pc = "create", req[r].user = u,
         req'[r].pc = "stored", req'[r].user = u, req'[r].items = S,
         "batch" \notin slips[u] => Cardinality(S) = 1,
         \A q \in Requests : q # r => req'[q] = req[q],
         UNCHANGED <<count, slips>>
  PROVE  UserFits(u)'
<1>1. /\ Quota!TypeOK /\ \A q \in Requests : SlotFits(q)
      /\ EntitiesFit /\ UserFits(u)
  BY DEF QuotaInv
<1>2. InFlight(u, Removing)' = InFlight(u, Removing)
  BY DEF InFlight, Removing
<1>3. InFlight(u, Storing)' = InFlight(u, Storing) \cup {r} /\ r \notin InFlight(u, Storing)
  BY DEF InFlight, Storing
<1>4. InFlight(u, Making)' = InFlight(u, Making)
  BY DEF InFlight, Making
<1>5. Added(u)' = Added(u) \cup S
  <2>1. \A q \in InFlight(u, Storing) : req'[q].items = req[q].items
    BY <1>3 DEF InFlight
  <2> QED
    BY <1>3, <2>1 DEF Added
<1>6. Added(u) \cap S = {}
  BY <1>1, QuotaConstants DEF Added, InFlight, SlotFits
<1>7. Removed(u)' = Removed(u)
  BY <1>2, <1>3 DEF Removed, InFlight, Removing
<1>8. Quota!Live(u)' = Quota!Live(u) \cup S
  <2>1. \A i \in live : i \notin S /\ maker'[i] = maker[i]
    BY <1>1, QuotaConstants DEF EntitiesFit, Quota!TypeOK
  <2> QED
    BY <2>1 DEF Quota!Live
<1>9. Owed(u)' = Owed(u) \cup S
  BY <1>7, <1>8 DEF Owed
<1>10. Owed(u) \cap S = {}
  BY <1>1, QuotaConstants DEF Owed, Quota!Live, Removed, InFlight, SlotFits
<1>11. count[u] \in Int /\ Cardinality(S) \in Nat
  BY <1>1, FS_CardinalityType DEF Quota!TypeOK
<1>12. ASSUME "drift" \notin slips[u] PROVE Counted(u)'
  <2> DEFINE A == Added(u)
             B == Added(u)'
             O == Owed(u)
             P == Owed(u)'
  <2>1. Counted(u)
    BY <1>1, <1>12 DEF UserFits
  <2>2. /\ IsFiniteSet(A) /\ IsFiniteSet(O) /\ B = A \cup S /\ P = O \cup S
        /\ A \cap S = {} /\ O \cap S = {}
    BY <1>5, <1>6, <1>9, <1>10, <2>1 DEF Counted
  <2>3. /\ Cardinality(O) <= count[u] + Cardinality(A)
        /\ "taken" \notin slips[u] => Cardinality(O) = count[u] + Cardinality(A)
    BY <2>1 DEF Counted
  <2>4. \A q, s \in InFlight(u, Removing)' : q # s => req'[q].items \cap req'[s].items = {}
    <3>1. \A q \in InFlight(u, Removing) : req'[q] = req[q]
      BY DEF InFlight, Removing
    <3> QED
      BY <1>2, <2>1, <3>1 DEF Counted
  <2> HIDE DEF A, B, O, P
  <2>5. /\ IsFiniteSet(B) /\ IsFiniteSet(P)
        /\ Cardinality(B) = Cardinality(A) + Cardinality(S)
        /\ Cardinality(P) = Cardinality(O) + Cardinality(S)
        /\ Cardinality(A) \in Nat /\ Cardinality(O) \in Nat
    BY <2>2, Joined, FS_CardinalityType
  <2>6. /\ Cardinality(P) <= count'[u] + Cardinality(B)
        /\ "taken" \notin slips'[u] => Cardinality(P) = count'[u] + Cardinality(B)
    BY <1>11, <2>3, <2>5
  <2> QED
    BY <2>4, <2>5, <2>6 DEF Counted, B, P
<1>13. ASSUME slips[u] \subseteq {"taken"} PROVE Limited(u)'
  <2> DEFINE A == Added(u)
             B == Added(u)'
             I == InFlight(u, Storing)
             J == InFlight(u, Storing)'
  <2>1. Limited(u) /\ IsFiniteSet(A) /\ "batch" \notin slips[u]
    BY <1>1, <1>13 DEF UserFits, Counted
  <2>2. B = A \cup S /\ A \cap S = {} /\ Cardinality(A) <= Cardinality(I)
    BY <1>5, <1>6, <2>1 DEF Limited
  <2>3. J = I \cup {r} /\ r \notin I /\ I \in SUBSET Requests
    BY <1>3 DEF InFlight
  <2>4. count'[u] + Cardinality(InFlight(u, Making)') <= MaxPerUser - 1 + Slots
    BY <1>4, <2>1 DEF Limited
  <2> HIDE DEF A, B, I, J
  <2>5. Cardinality(B) = Cardinality(A) + 1 /\ Cardinality(A) \in Nat
    BY <2>1, <2>2, Joined, FS_CardinalityType
  <2>6. Cardinality(J) = Cardinality(I) + 1 /\ Cardinality(I) \in 0..Slots
    BY <2>3, OneMore, SomeSlots
  <2>7. Cardinality(B) <= Cardinality(J)
    BY <2>2, <2>5, <2>6, QuotaConstants
  <2>8. MaxPerUser' = MaxPerUser /\ Slots' = Slots
    BY DEF Slots
  <2> QED
    BY <2>4, <2>7, <2>8 DEF Limited, B, J
<1> QED
  BY <1>12, <1>13 DEF UserFits

\* The flush: no more entities than were checked, by a slot less.
LEMMA StoreDb ==
  ASSUME QuotaInv, NEW r \in Requests, NEW S \in SUBSET Items, IsFiniteSet(S),
         Cardinality(S) <= MaxSize, live \cap S = {}, live' = live \cup S,
         req[r].pc = "create", req[r].left = 0, req'[r].pc = "stored",
         \A q \in Requests : q # r => req'[q] = req[q]
  PROVE  DbFits'
<1> DEFINE n == Cardinality(Ready)
           m == Cardinality(Ready')
           l == Cardinality(live)
           s == Cardinality(S)
<1>1. Ready \in SUBSET Requests /\ r \in Ready /\ Ready' = Ready \ {r}
  BY DEF Ready
<1>2. n \in Nat /\ m = n - 1 /\ m \in Nat
  <2> HIDE DEF Ready
  <2>1. Cardinality(Ready) \in 0..Slots /\ Cardinality(Ready \ {r}) \in 0..Slots
    BY <1>1, SomeSlots
  <2>2. Cardinality(Ready \ {r}) = Cardinality(Ready) - 1
    BY <1>1, OneLess
  <2> QED
    BY <1>1, <2>1, <2>2
<1>3. Room(n) = Room(m) + MaxSize /\ Room(m) \in Nat /\ Room(Slots) \in Nat
  <2> HIDE DEF n, m
  <2>1. Room(m + 1) = Room(m) + MaxSize /\ Room(m) \in Nat /\ Room(Slots) \in Nat
    BY <1>2, RoomGrows, QuotaConstants
  <2>2. m + 1 = n
    BY <1>2
  <2> QED
    BY <2>1, <2>2
<1>4. Cardinality(live') = l + s /\ l \in Nat /\ s \in Nat
  BY Joined, FS_CardinalityType DEF QuotaInv, EntitiesFit
<1>5. l + Room(n) <= MaxInDb - 1 + Room(Slots)
  BY DEF QuotaInv, DbFits
<1>6. Room(Cardinality(Ready))' = Room(m) /\ Room(Slots)' = Room(Slots)
  BY DEF Room, Slots
<1>7. s <= MaxSize
  OBVIOUS
<1> HIDE DEF n, m, l, s, Room, Slots
<1>8. l + s + Room(m) <= MaxInDb - 1 + Room(Slots)
  BY <1>3, <1>4, <1>5, <1>7, QuotaConstants
<1> QED
  BY <1>4, <1>6, <1>8 DEF DbFits

\* The entities are in the database.
LEMMA StoreStep ==
  ASSUME QuotaInv, NEW r \in Requests, Quota!Store(r)
  PROVE  QuotaInv'
<1>1. /\ Quota!TypeOK /\ \A q \in Requests : SlotFits(q)
      /\ EntitiesFit /\ \A v \in Users : UserFits(v)
  BY DEF QuotaInv
<1> DEFINE u == req[r].user
           pc == "stored"
<1>2. PICK S \in SUBSET {i \in Items : maker[i] = Nobody} :
        /\ Quota!IsFiniteSet(S) /\ Quota!Cardinality(S) = req[r].size
        /\ maker' = [i \in Items |-> IF i \in S THEN req[r].user ELSE maker[i]]
        /\ live' = live \cup S
        /\ Quota!Become(r, [req[r] EXCEPT !.pc = "stored", !.items = S])
  BY Zenon DEF Quota!Store
<1> DEFINE next == [req[r] EXCEPT !.pc = pc, !.items = S]
<1>3. /\ req[r].pc = "create" /\ req[r].left = 0 /\ UNCHANGED <<count, slips>>
      /\ IsFiniteSet(S) /\ Cardinality(S) = req[r].size
  BY <1>2, SameCounting DEF Quota!Store
<1>4. /\ req[r] \in Quota!Request /\ u \in Users /\ SlotFits(r)
      /\ "batch" \notin slips[u] => Cardinality(S) = 1
  BY <1>1, <1>2, <1>3 DEF Quota!TypeOK, SlotFits
<1>5. S \in SUBSET Items /\ \A i \in S : maker[i] = Nobody /\ maker'[i] = u
  BY <1>2
<1>6. Quota!Become(r, next) /\ pc \in Quota!Pcs
  BY <1>2 DEF Quota!Pcs
<1>7. \A i \in Items : /\ maker[i] \in Users => maker'[i] = maker[i]
                       /\ i \notin S => maker'[i] = maker[i]
  BY <1>2, <1>5, QuotaConstants
<1>8. maker' \in [Items -> Users \cup {Nobody}]
  BY <1>1, <1>2, <1>4 DEF Quota!TypeOK
<1> HIDE DEF pc
<1>9. next \in Quota!Request /\ next.pc = pc /\ next.user = u /\ next.items = S
  BY <1>4, <1>5, <1>6 DEF Quota!Request
<1> HIDE DEF next
<1>10. req'[r] = next /\ \A q \in Requests : q # r => req'[q] = req[q]
  BY <1>1, <1>6, Turn
<1>11. req'[r].pc = "stored" /\ req'[r].user = u /\ req'[r].items = S
  BY <1>9, <1>10 DEF pc
<1>12. Cardinality(S) \in Nat /\ Cardinality(S) <= MaxSize
  BY <1>3, <1>4, QuotaConstants, FS_CardinalityType DEF Quota!Request
<1>13. live \cap S = {} /\ live' = live \cup S /\ IsFiniteSet(live')
  BY <1>1, <1>2, <1>3, <1>5, QuotaConstants, FS_Union DEF EntitiesFit
<1> HIDE DEF u
<1>14. Quota!TypeOK'
  <2>1. live' \subseteq Items
    BY <1>1, <1>5, <1>13 DEF Quota!TypeOK
  <2>2. req' \in [Requests -> Quota!Request]
    BY <1>1, <1>6, <1>9 DEF Quota!TypeOK, Quota!Become
  <2> QED
    BY <1>1, <1>3, <1>8, <2>1, <2>2 DEF Quota!TypeOK
<1>15. SlotFits(r)'
  BY <1>2, <1>3, <1>4, <1>5, <1>11 DEF SlotFits, Storing, Removing
<1>16. Steady
  BY <1>3, <1>5, <1>7, <1>13 DEF Steady
<1>17. \A q \in Requests : SlotFits(q)'
  BY <1>1, <1>10, <1>14, <1>15, <1>16, SlotsKept
<1>18. EntitiesFit'
  <2>1. \A i \in live' : maker'[i] \in Users
    BY <1>1, <1>4, <1>5, <1>7, <1>13 DEF EntitiesFit, Quota!TypeOK
  <2> QED
    BY <1>1, <1>5, <1>10, <1>11, <1>13, <2>1, EntitiesKept
<1>19. DbFits'
  BY <1>2, <1>3, <1>5, <1>10, <1>11, <1>12, <1>13, StoreDb
<1>20. req[r].user = u
  BY DEF u
<1>21. ASSUME NEW v \in Users PROVE UserFits(v)'
  <2>1. CASE v = u
    BY <1>2, <1>3, <1>4, <1>5, <1>7, <1>10, <1>11, <1>13, <1>20, <2>1, StoreUser
  <2>2. CASE v # u
    <3>1. Quota!Live(v)' = Quota!Live(v)
      <4>1. \A i \in live : i \notin S /\ maker'[i] = maker[i]
        BY <1>1, <1>5, <1>7, <1>13 DEF Quota!TypeOK
      <4> QED
        BY <1>5, <1>13, <2>2, <4>1 DEF Quota!Live
    <3> QED
      BY <1>1, <1>3, <1>10, <1>11, <1>20, <2>2, <3>1, UserAway
  <2> QED
    BY <2>1, <2>2
<1> QED
  BY <1>14, <1>17, <1>18, <1>19, <1>21 DEF QuotaInv

\* The user removes entities S: unless that goes wrong, they were hers, and are
\* owed to her counter as before.
LEMMA RemoveUser ==
  ASSUME QuotaInv, NEW r \in Requests, NEW u \in Users, NEW S \in SUBSET Quota!Live(u),
         live' = live \ S, req[r].pc \notin Making \cup Removing,
         req'[r].pc = "removed", req'[r].user = u, req'[r].items = S,
         \A q \in Requests : q # r => req'[q] = req[q],
         slips[u] \subseteq slips'[u], UNCHANGED <<maker, count>>
  PROVE  UserFits(u)'
<1>1. /\ Quota!TypeOK /\ \A q \in Requests : SlotFits(q)
      /\ EntitiesFit /\ UserFits(u)
  BY DEF QuotaInv
<1>2. InFlight(u, Removing)' = InFlight(u, Removing) \cup {r} /\ r \notin InFlight(u, Removing)
  BY DEF InFlight, Removing
<1>3. InFlight(u, Storing)' = InFlight(u, Storing) /\ r \notin InFlight(u, Storing)
  BY DEF InFlight, Storing, Making
<1>4. InFlight(u, Making)' = InFlight(u, Making)
  BY DEF InFlight, Making
<1>5. Added(u)' = Added(u)
  <2>1. \A q \in InFlight(u, Storing) : req'[q].items = req[q].items
    BY <1>3 DEF InFlight
  <2> QED
    BY <1>3, <2>1 DEF Added
<1>6. \A q \in InFlight(u, Removing) : req'[q].items = req[q].items
  BY <1>2 DEF InFlight
<1>7. S \subseteq Items
  BY <1>1 DEF Quota!TypeOK, Quota!Live
<1>8. Removed(u)' = Removed(u) \cup S
  BY <1>2, <1>6, <1>7 DEF Removed
<1>9. Quota!Live(u)' = Quota!Live(u) \ S
  BY DEF Quota!Live
<1>10. Owed(u)' = Owed(u)
  BY <1>8, <1>9 DEF Owed
<1>11. \A q \in InFlight(u, Removing) : req[q].items \cap S = {}
  BY <1>1 DEF SlotFits, InFlight, Quota!Live
<1>12. ASSUME "drift" \notin slips'[u] PROVE Counted(u)'
  <2>1. Counted(u)
    BY <1>1, <1>12 DEF UserFits
  <2>2. \A q, s \in InFlight(u, Removing)' : q # s => req'[q].items \cap req'[s].items = {}
    BY <1>2, <1>6, <1>11, <2>1 DEF Counted
  <2>3. count'[u] = count[u] /\ ("taken" \notin slips'[u] => "taken" \notin slips[u])
    OBVIOUS
  <2> QED
    BY <1>5, <1>10, <2>1, <2>2, <2>3 DEF Counted
<1>13. ASSUME slips'[u] \subseteq {"taken"} PROVE Limited(u)'
  <2>1. Limited(u)
    BY <1>1, <1>13 DEF UserFits
  <2>2. MaxPerUser' = MaxPerUser /\ Slots' = Slots /\ count'[u] = count[u]
    BY DEF Slots
  <2> QED
    BY <1>3, <1>4, <1>5, <2>1, <2>2 DEF Limited
<1> QED
  BY <1>12, <1>13 DEF UserFits

\* A turn that removes the entities S.
LEMMA Removes ==
  ASSUME QuotaInv, NEW r \in Requests, NEW u \in Users, NEW S \in SUBSET Items,
         NEW next \in Quota!Request, Quota!Become(r, next),
         req[r].pc \in {"idle", "found"}, req[r].user \in {u, Nobody},
         next.pc = "removed", next.user = u, next.items = S,
         IsFiniteSet(S), \A i \in S : maker[i] \in Users,
         live' = live \ S, Quota!SlipRemoving(u, S), UNCHANGED <<maker, count>>
  PROVE  QuotaInv'
<1>1. /\ Quota!TypeOK /\ \A q \in Requests : SlotFits(q)
      /\ EntitiesFit /\ \A v \in Users : UserFits(v)
  BY DEF QuotaInv
<1>2. req'[r] = next /\ \A q \in Requests : q # r => req'[q] = req[q]
  BY <1>1, Turn
<1>3. \A v \in Users :
        /\ slips'[v] = slips[v]
             \cup (IF v = u /\ ~(S \subseteq Quota!Live(u)) THEN {"drift"} ELSE {})
             \cup (IF v # u /\ S \cap Quota!Live(v) # {} THEN {"taken"} ELSE {})
        /\ slips[v] \in SUBSET Quota!Slips
  BY <1>1 DEF Quota!SlipRemoving, Quota!TypeOK
<1>4. slips' \in [Users -> SUBSET Quota!Slips]
  BY <1>3 DEF Quota!SlipRemoving, Quota!Slips
<1>5. Quota!TypeOK'
  <2>1. req' \in [Requests -> Quota!Request]
    BY <1>1 DEF Quota!TypeOK, Quota!Become
  <2> QED
    BY <1>1, <1>4, <2>1 DEF Quota!TypeOK
<1>6. Steady
  BY <1>3 DEF Steady
<1>7. SlotFits(r)'
  BY <1>2 DEF SlotFits, Storing, Removing
<1>8. \A q \in Requests : SlotFits(q)'
  BY <1>1, <1>2, <1>5, <1>6, <1>7, SlotsKept
<1>9. EntitiesFit'
  <2>1. IsFiniteSet(live') /\ \A i \in live' : maker'[i] \in Users
    BY <1>1, FS_Subset DEF EntitiesFit
  <2>2. req'[r].pc \notin Storing
    BY <1>2 DEF Storing
  <2> QED
    BY <1>1, <1>2, <2>1, <2>2, EntitiesKept
<1>10. DbFits'
  BY <1>2, DbQuiet
<1>11. ASSUME NEW v \in Users PROVE UserFits(v)'
  <2>1. CASE v # u
    <3>1. Quota!Live(v)' = Quota!Live(v) \ S
      BY DEF Quota!Live
    <3>2. "taken" \notin slips'[v] => S \cap Quota!Live(v) = {}
      BY <1>3, <2>1
    <3>3. req[r].user # v /\ req'[r].user # v /\ slips[v] \subseteq slips'[v]
          /\ count'[v] = count[v]
      BY <1>2, <1>3, <2>1, QuotaConstants
    <3> QED
      BY <1>1, <1>2, <3>1, <3>2, <3>3, UserAway
  <2>2. CASE v = u /\ ~(S \subseteq Quota!Live(u))
    <3>1. "drift" \in slips'[u]
      BY <1>3, <2>2
    <3> QED
      BY <2>2, <3>1 DEF UserFits
  <2>3. CASE v = u /\ S \subseteq Quota!Live(u)
    <3>1. req[r].pc \notin Making \cup Removing /\ slips[u] \subseteq slips'[u]
      BY <1>3 DEF Making, Removing
    <3> QED
      BY <1>2, <2>3, <3>1, RemoveUser
  <2> QED
    BY <2>1, <2>2, <2>3
<1> QED
  BY <1>5, <1>8, <1>9, <1>10, <1>11 DEF QuotaInv

\* deleteOne removes the entity it found, or finds it gone.
LEMMA RemoveOneStep ==
  ASSUME QuotaInv, NEW r \in Requests, Quota!RemoveOne(r)
  PROVE  QuotaInv'
<1> DEFINE u == req[r].user
           S == req[r].items
           pc == "removed"
           next == [req[r] EXCEPT !.pc = pc]
<1>1. Quota!TypeOK /\ SlotFits(r) /\ req[r] \in Quota!Request
  BY DEF QuotaInv, Quota!TypeOK
<1>2. /\ req[r].pc = "found" /\ live' = live \ S /\ Quota!Become(r, next)
      /\ Quota!SlipRemoving(u, S) /\ UNCHANGED <<maker, count>>
  BY DEF Quota!RemoveOne
<1>3. /\ u \in Users /\ S \in SUBSET Items /\ IsFiniteSet(S)
      /\ \A i \in S : maker[i] \in Users
  BY <1>1, <1>2 DEF SlotFits, Quota!Request
<1>4. pc \in Quota!Pcs
  BY DEF Quota!Pcs
<1> HIDE DEF pc
<1>5. next \in Quota!Request /\ next.pc = pc /\ next.user = u /\ next.items = S
  BY <1>1, <1>4 DEF Quota!Request
<1> HIDE DEF next
<1>6. next.pc = "removed"
  BY <1>5 DEF pc
<1>7. req[r].user = u
  OBVIOUS
<1> HIDE DEF u, S
<1> QED
  BY <1>2, <1>3, <1>5, <1>6, <1>7, Removes

\* delete removes all it matches.
LEMMA RemoveManyStep ==
  ASSUME QuotaInv, NEW r \in Requests, NEW u \in Users, Quota!RemoveMany(r, u)
  PROVE  QuotaInv'
<1>1. Quota!TypeOK /\ EntitiesFit
  BY DEF QuotaInv
<1> DEFINE pc == "removed"
<1>2. PICK S \in SUBSET live \ {{}} :
        /\ live' = live \ S
        /\ Quota!Become(r, [Quota!Idle EXCEPT !.pc = "removed", !.user = u, !.items = S])
        /\ Quota!SlipRemoving(u, S)
  BY Zenon DEF Quota!RemoveMany
<1> DEFINE next == [Quota!Idle EXCEPT !.pc = pc, !.user = u, !.items = S]
<1>3. req[r] = Quota!Idle /\ UNCHANGED <<maker, count>> /\ Quota!Become(r, next)
  BY <1>2 DEF Quota!RemoveMany
<1>4. S \in SUBSET Items /\ IsFiniteSet(S) /\ \A i \in S : maker[i] \in Users
  BY <1>1, FS_Subset DEF Quota!TypeOK, EntitiesFit
<1>5. pc \in Quota!Pcs /\ u \in Users \cup {Nobody}
  BY DEF Quota!Pcs
<1> HIDE DEF pc
<1>6. next \in Quota!Request /\ next.pc = pc /\ next.user = u /\ next.items = S
  BY <1>4, <1>5, IdleSlot DEF Quota!Request
<1> HIDE DEF next
<1>7. next.pc = "removed"
  BY <1>6 DEF pc
<1>8. req[r].pc = "idle" /\ req[r].user = Nobody
  BY <1>3, IdleSlot
<1> QED
  BY <1>2, <1>3, <1>4, <1>6, <1>7, <1>8, Removes

\* An increment arrives: what slot r stored is counted.
LEMMA AddUser ==
  ASSUME QuotaInv, NEW r \in Requests, NEW u \in Users, req[r].user = u,
         req[r].pc = "adding", req'[r].pc = "idle",
         \A q \in Requests : q # r => req'[q] = req[q],
         count'[u] = count[u] + Cardinality(req[r].items), UNCHANGED <<maker, live, slips>>
  PROVE  UserFits(u)'
<1> DEFINE S == req[r].items
<1>1. /\ Quota!TypeOK /\ \A q \in Requests : SlotFits(q)
      /\ EntitiesFit /\ UserFits(u)
  BY DEF QuotaInv
<1>2. InFlight(u, Removing)' = InFlight(u, Removing)
  BY DEF InFlight, Removing
<1>3. InFlight(u, Storing)' = InFlight(u, Storing) \ {r} /\ r \in InFlight(u, Storing)
  BY DEF InFlight, Storing
<1>4. InFlight(u, Making)' = InFlight(u, Making) \ {r} /\ r \in InFlight(u, Making)
  BY DEF InFlight, Making
<1>5. \A q \in InFlight(u, Storing)' \cup InFlight(u, Removing) : req'[q].items = req[q].items
  BY <1>2, <1>3 DEF InFlight, Removing
<1>6. Removed(u)' = Removed(u) /\ Quota!Live(u)' = Quota!Live(u)
  BY <1>2, <1>5 DEF Removed, Quota!Live
<1>7. Owed(u)' = Owed(u)
  BY <1>6 DEF Owed
<1>8. S \subseteq Added(u) /\ Added(u)' = Added(u) \ S
  <2>1. S \subseteq Items
    BY <1>1 DEF Quota!TypeOK, Quota!Request
  <2>2. \A q \in InFlight(u, Storing) : q # r => req[q].items \cap S = {}
    BY <1>1 DEF EntitiesFit, InFlight, Storing
  <2> QED
    BY <1>3, <1>5, <2>1, <2>2 DEF Added
<1>9. IsFiniteSet(S) /\ count[u] \in Int /\ count'[u] = count[u] + Cardinality(S)
  BY <1>1 DEF SlotFits, Quota!TypeOK
<1>10. ASSUME "drift" \notin slips[u] PROVE Counted(u)'
  <2> DEFINE A == Added(u)
             B == Added(u)'
             O == Owed(u)
             P == Owed(u)'
  <2>1. Counted(u)
    BY <1>1, <1>10 DEF UserFits
  <2>2. IsFiniteSet(A) /\ IsFiniteSet(O) /\ B = A \ S /\ S \subseteq A /\ P = O
    BY <1>7, <1>8, <2>1 DEF Counted
  <2>3. /\ Cardinality(O) <= count[u] + Cardinality(A)
        /\ "taken" \notin slips[u] => Cardinality(O) = count[u] + Cardinality(A)
    BY <2>1 DEF Counted
  <2>4. \A q, s \in InFlight(u, Removing)' : q # s => req'[q].items \cap req'[s].items = {}
    BY <1>2, <1>5, <2>1 DEF Counted
  <2> HIDE DEF A, B, O, P, S
  <2>5. /\ IsFiniteSet(B) /\ Cardinality(B) = Cardinality(A) - Cardinality(S)
        /\ Cardinality(A) \in Nat /\ Cardinality(O) \in Nat /\ Cardinality(S) \in Nat
    BY <1>9, <2>2, Left, FS_CardinalityType
  <2>6. /\ Cardinality(P) <= count'[u] + Cardinality(B)
        /\ "taken" \notin slips'[u] => Cardinality(P) = count'[u] + Cardinality(B)
    BY <1>9, <2>2, <2>3, <2>5
  <2>7. IsFiniteSet(P)
    BY <2>2
  <2> QED
    BY <2>4, <2>5, <2>6, <2>7 DEF Counted, B, P
<1>11. ASSUME slips[u] \subseteq {"taken"} PROVE Limited(u)'
  <2> DEFINE A == Added(u)
             B == Added(u)'
             I == InFlight(u, Storing)
             J == InFlight(u, Storing)'
             M == InFlight(u, Making)
             N == InFlight(u, Making)'
  <2>1. Limited(u) /\ IsFiniteSet(A) /\ Cardinality(S) = 1
    BY <1>1, <1>11 DEF UserFits, Counted, SlotFits, Storing
  <2>2. /\ B = A \ S /\ S \subseteq A /\ Cardinality(A) <= Cardinality(I)
        /\ count[u] + Cardinality(M) <= MaxPerUser - 1 + Slots
    BY <1>8, <2>1 DEF Limited
  <2>3. J = I \ {r} /\ r \in I /\ I \in SUBSET Requests
    BY <1>3 DEF InFlight
  <2>4. N = M \ {r} /\ r \in M /\ M \in SUBSET Requests
    BY <1>4 DEF InFlight
  <2> HIDE DEF A, B, I, J, M, N, S
  <2>5. Cardinality(B) = Cardinality(A) - 1 /\ Cardinality(A) \in Nat
    BY <2>1, <2>2, Left, FS_CardinalityType
  <2>6. /\ Cardinality(J) = Cardinality(I) - 1 /\ Cardinality(I) \in 0..Slots
        /\ Cardinality(N) = Cardinality(M) - 1 /\ Cardinality(M) \in 0..Slots
    BY <2>3, <2>4, OneLess, SomeSlots
  <2>7. /\ Cardinality(B) <= Cardinality(J)
        /\ count'[u] + Cardinality(N) <= MaxPerUser - 1 + Slots
    BY <1>9, <2>1, <2>2, <2>5, <2>6, QuotaConstants
  <2>8. MaxPerUser' = MaxPerUser /\ Slots' = Slots
    BY DEF Slots
  <2> QED
    BY <2>7, <2>8 DEF Limited, B, J, N
<1> QED
  BY <1>10, <1>11 DEF UserFits

\* A decrement arrives: what slot r removed is not owed any more.
LEMMA SubtractUser ==
  ASSUME QuotaInv, NEW r \in Requests, NEW u \in Users, req[r].user = u,
         req[r].pc = "subtracting", req'[r].pc = "idle",
         \A q \in Requests : q # r => req'[q] = req[q],
         count'[u] = count[u] - Cardinality(req[r].items), UNCHANGED <<maker, live, slips>>
  PROVE  UserFits(u)'
<1> DEFINE S == req[r].items
<1>1. /\ Quota!TypeOK /\ SlotFits(r) /\ EntitiesFit /\ UserFits(u)
  BY DEF QuotaInv
<1>2. InFlight(u, Removing)' = InFlight(u, Removing) \ {r} /\ r \in InFlight(u, Removing)
  BY DEF InFlight, Removing
<1>3. InFlight(u, Storing)' = InFlight(u, Storing)
  BY DEF InFlight, Storing
<1>4. InFlight(u, Making)' = InFlight(u, Making)
  BY DEF InFlight, Making
<1>5. \A q \in InFlight(u, Storing) \cup InFlight(u, Removing)' : req'[q].items = req[q].items
  BY <1>2, <1>3 DEF InFlight, Storing
<1>6. Added(u)' = Added(u) /\ Quota!Live(u)' = Quota!Live(u)
  BY <1>3, <1>5 DEF Added, Quota!Live
<1>7. S \subseteq Items /\ S \cap live = {} /\ IsFiniteSet(S)
  BY <1>1 DEF Quota!TypeOK, Quota!Request, SlotFits, Removing
<1>8. count[u] \in Int /\ Cardinality(S) \in Nat /\ count'[u] = count[u] - Cardinality(S)
  BY <1>1, <1>7, FS_CardinalityType DEF Quota!TypeOK
<1>9. ASSUME "drift" \notin slips[u] PROVE Counted(u)'
  <2> DEFINE A == Added(u)
             B == Added(u)'
             O == Owed(u)
             P == Owed(u)'
  <2>1. Counted(u)
    BY <1>1, <1>9 DEF UserFits
  <2>2. \A q \in InFlight(u, Removing) : q # r => req[q].items \cap S = {}
    BY <1>2, <2>1 DEF Counted
  <2>3. S \subseteq Removed(u) /\ Removed(u)' = Removed(u) \ S
    BY <1>2, <1>5, <1>7, <2>2 DEF Removed
  <2>4. S \cap Quota!Live(u) = {}
    BY <1>7 DEF Quota!Live
  <2>5. S \subseteq O /\ P = O \ S
    BY <1>6, <2>3, <2>4 DEF Owed
  <2>6. /\ IsFiniteSet(A) /\ IsFiniteSet(O) /\ B = A
        /\ Cardinality(O) <= count[u] + Cardinality(A)
        /\ "taken" \notin slips[u] => Cardinality(O) = count[u] + Cardinality(A)
    BY <1>6, <2>1 DEF Counted
  <2>7. \A q, s \in InFlight(u, Removing)' : q # s => req'[q].items \cap req'[s].items = {}
    BY <1>2, <1>5, <2>1 DEF Counted
  <2> HIDE DEF A, B, O, P, S
  <2>8. /\ IsFiniteSet(P) /\ Cardinality(P) = Cardinality(O) - Cardinality(S)
        /\ Cardinality(A) \in Nat /\ Cardinality(O) \in Nat
    BY <2>5, <2>6, Left, FS_CardinalityType
  <2>9. /\ Cardinality(P) <= count'[u] + Cardinality(B)
        /\ "taken" \notin slips'[u] => Cardinality(P) = count'[u] + Cardinality(B)
    BY <1>8, <2>6, <2>8
  <2>10. IsFiniteSet(B)
    BY <2>6
  <2> QED
    BY <2>7, <2>8, <2>9, <2>10 DEF Counted, B, P
<1>10. ASSUME slips[u] \subseteq {"taken"} PROVE Limited(u)'
  <2> DEFINE M == InFlight(u, Making)
  <2>1. Limited(u)
    BY <1>1, <1>10 DEF UserFits
  <2>2. M \in SUBSET Requests /\ count[u] + Cardinality(M) <= MaxPerUser - 1 + Slots
    BY <2>1 DEF Limited, InFlight
  <2>3. InFlight(u, Making)' = M /\ MaxPerUser' = MaxPerUser /\ Slots' = Slots
    BY <1>4 DEF Slots
  <2> HIDE DEF M, S
  <2>4. Cardinality(M) \in Nat
    BY <2>2, SomeSlots
  <2>5. count'[u] + Cardinality(M) <= MaxPerUser - 1 + Slots
    BY <1>8, <2>2, <2>4, QuotaConstants
  <2> QED
    BY <1>3, <1>6, <2>1, <2>3, <2>5 DEF Limited
<1> QED
  BY <1>9, <1>10 DEF UserFits

\* A slot becomes free: what is said of the slots and the entities.
LEMMA FreeSlot ==
  ASSUME QuotaInv, NEW r \in Requests, Quota!Become(r, Quota!Idle),
         count' \in [Users -> Int], slips' \in [Users -> SUBSET Quota!Slips],
         \A v \in Users : slips[v] \subseteq slips'[v], UNCHANGED <<maker, live>>
  PROVE  /\ Quota!TypeOK' /\ (\A q \in Requests : SlotFits(q)') /\ EntitiesFit' /\ DbFits'
         /\ req'[r].pc = "idle" /\ req'[r].user = Nobody
         /\ \A q \in Requests : q # r => req'[q] = req[q]
<1>1. Quota!TypeOK /\ (\A q \in Requests : SlotFits(q)) /\ EntitiesFit
  BY DEF QuotaInv
<1>2. req'[r] = Quota!Idle /\ \A q \in Requests : q # r => req'[q] = req[q]
  BY <1>1, Turn
<1>3. req'[r].pc = "idle" /\ req'[r].user = Nobody /\ req'[r].items = {}
  BY <1>2, IdleSlot
<1>4. Quota!TypeOK'
  BY <1>1, IdleSlot DEF Quota!TypeOK, Quota!Become
<1>5. SlotFits(r)'
  BY <1>3, FS_EmptySet DEF SlotFits, Storing, Removing
<1>6. \A q \in Requests : SlotFits(q)'
  BY <1>1, <1>2, <1>4, <1>5, SlotsKept DEF Steady
<1>7. EntitiesFit'
  BY <1>1, <1>2, <1>3, EntitiesKept DEF EntitiesFit, Storing
<1>8. DbFits'
  BY <1>2, <1>3, DbQuiet
<1> QED
  BY <1>2, <1>3, <1>4, <1>6, <1>7, <1>8

\* An increment or a decrement arrives.
LEMMA CountStep ==
  ASSUME QuotaInv, NEW r \in Requests, Quota!Count(r)
  PROVE  QuotaInv'
<1> DEFINE u == req[r].user
           n == Cardinality(req[r].items)
<1>1. /\ Quota!TypeOK /\ SlotFits(r) /\ \A v \in Users : UserFits(v)
  BY DEF QuotaInv
<1>2. /\ req[r].pc \in {"adding", "subtracting"}
      /\ count' = [count EXCEPT ![u] = IF req[r].pc = "adding" THEN @ + n ELSE @ - n]
      /\ Quota!Become(r, Quota!Idle)
      /\ UNCHANGED <<maker, live, slips>>
  BY SameCounting DEF Quota!Count
<1>3. u \in Users /\ n \in Nat
  BY <1>1, <1>2, FS_CardinalityType DEF SlotFits
<1>4. count \in [Users -> Int] /\ slips' \in [Users -> SUBSET Quota!Slips]
  BY <1>1, <1>2 DEF Quota!TypeOK
<1> HIDE DEF u, n
<1>5. /\ count' \in [Users -> Int]
      /\ \A v \in Users : v # u => count'[v] = count[v]
      /\ req[r].pc = "adding" => count'[u] = count[u] + n
      /\ req[r].pc = "subtracting" => count'[u] = count[u] - n
  BY <1>2, <1>3, <1>4
<1>6. /\ Quota!TypeOK' /\ (\A q \in Requests : SlotFits(q)') /\ EntitiesFit' /\ DbFits'
      /\ req'[r].pc = "idle" /\ req'[r].user = Nobody
      /\ \A q \in Requests : q # r => req'[q] = req[q]
  BY <1>2, <1>4, <1>5, FreeSlot
<1>7. ASSUME NEW v \in Users PROVE UserFits(v)'
  <2>1. CASE v # u
    <3>1. Quota!Live(v)' = Quota!Live(v)
      BY <1>2 DEF Quota!Live
    <3>2. req[r].user # v /\ req'[r].user # v
      BY <1>6, <2>1, QuotaConstants DEF u
    <3> QED
      BY <1>1, <1>2, <1>5, <1>6, <2>1, <3>1, <3>2, UserAway
  <2>2. CASE v = u /\ req[r].pc = "adding"
    BY <1>2, <1>5, <1>6, <2>2, AddUser DEF u, n
  <2>3. CASE v = u /\ req[r].pc = "subtracting"
    BY <1>2, <1>5, <1>6, <2>3, SubtractUser DEF u, n
  <2> QED
    BY <1>2, <2>1, <2>2, <2>3
<1> QED
  BY <1>6, <1>7 DEF QuotaInv

\* A request fails before its answer.
LEMMA AbortStep ==
  ASSUME QuotaInv, NEW r \in Requests, Quota!Abort(r)
  PROVE  QuotaInv'
<1> DEFINE u == req[r].user
<1>1. /\ Quota!TypeOK /\ SlotFits(r) /\ \A v \in Users : UserFits(v)
  BY DEF QuotaInv
<1>2. /\ req[r].pc \in {"create", "stored", "found", "removed"}
      /\ Quota!Become(r, Quota!Idle)
      /\ UNCHANGED <<maker, live, count>>
  BY DEF Quota!Abort
<1>3. /\ req[r].pc \in {"stored", "removed"} => slips' = [slips EXCEPT ![u] = @ \cup {"drift"}]
      /\ req[r].pc \notin {"stored", "removed"} => slips' = slips
  BY <1>2 DEF Quota!Abort, Quota!Uncounted, Quota!Slip
<1>4. u \in Users
  BY <1>1, <1>2 DEF SlotFits
<1>5. slips \in [Users -> SUBSET Quota!Slips] /\ "drift" \in Quota!Slips
      /\ count' \in [Users -> Int]
  BY <1>1, <1>2 DEF Quota!TypeOK, Quota!Slips
<1> HIDE DEF u
<1>6. /\ slips' \in [Users -> SUBSET Quota!Slips]
      /\ \A v \in Users : slips[v] \subseteq slips'[v]
      /\ \A v \in Users : "taken" \notin slips'[v] => "taken" \notin slips[v]
      /\ req[r].pc \in {"stored", "removed"} => "drift" \in slips'[u]
  BY <1>3, <1>4, <1>5
<1>7. /\ Quota!TypeOK' /\ (\A q \in Requests : SlotFits(q)') /\ EntitiesFit' /\ DbFits'
      /\ req'[r].pc = "idle" /\ req'[r].user = Nobody
      /\ \A q \in Requests : q # r => req'[q] = req[q]
  BY <1>2, <1>5, <1>6, FreeSlot
<1>8. ASSUME NEW v \in Users PROVE UserFits(v)'
  <2>1. Quota!Live(v)' = Quota!Live(v)
    BY <1>2 DEF Quota!Live
  <2>2. CASE v # u
    <3>1. req[r].user # v /\ req'[r].user # v
      BY <1>7, <2>2, QuotaConstants DEF u
    <3> QED
      BY <1>1, <1>2, <1>6, <1>7, <2>1, <3>1, UserAway
  <2>3. CASE v = u /\ req[r].pc \in {"stored", "removed"}
    BY <1>6, <2>3 DEF UserFits
  <2>4. CASE v = u /\ req[r].pc \in {"create", "found"}
    <3>1. InFlight(v, Storing)' = InFlight(v, Storing)
      BY <1>7, <2>4 DEF InFlight, Storing
    <3>2. InFlight(v, Removing)' = InFlight(v, Removing)
      BY <1>7, <2>4 DEF InFlight, Removing
    <3>3. InFlight(v, Making)' \subseteq InFlight(v, Making)
      BY <1>7, <2>4 DEF InFlight, Making
    <3>4. \A q \in InFlight(v, Storing) \cup InFlight(v, Removing) :
             req'[q].items = req[q].items
      BY <1>7, <2>4 DEF InFlight, Storing, Removing
    <3>5. slips'[v] \subseteq {"taken"}
           => count[v] + Cardinality(InFlight(v, Making)') <= MaxPerUser - 1 + Slots
      BY <1>1, <1>6, <3>3, StillIn
    <3>6. slips[v] \subseteq slips'[v] /\ count'[v] = count[v]
      BY <1>2, <1>6
    <3> QED
      BY <1>1, <2>1, <3>1, <3>2, <3>4, <3>5, <3>6, UserKept
  <2> QED
    BY <1>2, <2>2, <2>3, <2>4
<1> QED
  BY <1>7, <1>8 DEF QuotaInv

\* The process stops: every slot is free, and what was not counted never is.
LEMMA CrashStep ==
  ASSUME QuotaInv, Quota!Crash
  PROVE  QuotaInv'
<1>1. /\ Quota!TypeOK /\ (\A q \in Requests : SlotFits(q)) /\ EntitiesFit /\ DbFits
      /\ \A v \in Users : UserFits(v)
  BY DEF QuotaInv
<1>2. /\ \A q \in Requests : /\ req'[q] = Quota!Idle /\ req'[q].pc = "idle"
                             /\ req'[q].user = Nobody /\ req'[q].items = {}
      /\ req' \in [Requests -> Quota!Request]
      /\ UNCHANGED <<maker, live, count>>
  BY IdleSlot DEF Quota!Crash
<1>3. \A v \in Users :
        slips'[v] = IF \E q \in Requests : Quota!Uncounted(q) /\ req[q].user = v
                    THEN slips[v] \cup {"drift"} ELSE slips[v]
  BY DEF Quota!Crash
<1>4. slips \in [Users -> SUBSET Quota!Slips] /\ "drift" \in Quota!Slips
  BY <1>1 DEF Quota!TypeOK, Quota!Slips
<1>5. slips' \in [Users -> SUBSET Quota!Slips]
  BY <1>4 DEF Quota!Crash
<1>6. Quota!TypeOK'
  BY <1>1, <1>2, <1>5 DEF Quota!TypeOK
<1>7. \A q \in Requests : SlotFits(q)'
  BY <1>2, FS_EmptySet DEF SlotFits, Storing, Removing
<1>8. EntitiesFit'
  BY <1>1, <1>2 DEF EntitiesFit, Storing
<1>9. DbFits'
  <2>1. Ready' \subseteq Ready
    BY <1>2 DEF Ready
  <2> QED
    BY <1>1, <1>2, <2>1, DbKept DEF EntitiesFit
<1>10. ASSUME NEW v \in Users PROVE UserFits(v)'
  <2>1. CASE \E q \in Requests : Quota!Uncounted(q) /\ req[q].user = v
    <3>1. "drift" \in slips'[v]
      BY <1>3, <2>1
    <3> QED
      BY <3>1 DEF UserFits
  <2>2. CASE ~ \E q \in Requests : Quota!Uncounted(q) /\ req[q].user = v
    <3>1. InFlight(v, Storing) = {} /\ InFlight(v, Removing) = {}
      BY <2>2 DEF InFlight, Storing, Removing, Quota!Uncounted
    <3>2. /\ InFlight(v, Storing)' = {} /\ InFlight(v, Removing)' = {}
          /\ InFlight(v, Making)' = {}
      BY <1>2 DEF InFlight, Storing, Removing, Making
    <3>3. slips'[v] = slips[v]
      BY <1>3, <2>2
    <3>4. Quota!Live(v)' = Quota!Live(v) /\ count'[v] = count[v]
      BY <1>2 DEF Quota!Live
    <3>5. slips'[v] \subseteq {"taken"}
           => count[v] + Cardinality(InFlight(v, Making)') <= MaxPerUser - 1 + Slots
      BY <1>1, <3>2, <3>3, StillIn
    <3> QED
      BY <1>1, <3>1, <3>2, <3>3, <3>4, <3>5, UserKept
  <2> QED
    BY <2>1, <2>2
<1> QED
  BY <1>6, <1>7, <1>8, <1>9, <1>10 DEF QuotaInv

\* Nothing is stored and nothing is under way.
LEMMA QuotaInit == Quota!Init => QuotaInv
<1> SUFFICES ASSUME Quota!Init PROVE QuotaInv
  OBVIOUS
<1>1. /\ live = {} /\ maker = [i \in Items |-> Nobody] /\ count = [u \in Users |-> 0]
      /\ req = [r \in Requests |-> Quota!Idle] /\ slips = [u \in Users |-> {}]
  BY DEF Quota!Init
<1>2. \A q \in Requests : req[q].pc = "idle" /\ req[q].user = Nobody /\ req[q].items = {}
  BY <1>1, IdleSlot
<1>3. Quota!TypeOK
  BY <1>1, IdleSlot DEF Quota!TypeOK
<1>4. ASSUME NEW q \in Requests PROVE SlotFits(q)
  <2>1. req[q].pc = "idle" /\ req[q].items = {} /\ IsFiniteSet({})
    BY <1>2, FS_EmptySet
  <2> QED
    BY <2>1 DEF SlotFits, Storing, Removing
<1>5. EntitiesFit
  BY <1>1, <1>2, FS_EmptySet DEF EntitiesFit, Storing
<1>6. DbFits
  <2>1. Ready = {} /\ Cardinality({}) = 0
    BY <1>2, FS_EmptySet DEF Ready
  <2>2. Room(0) <= Room(Slots) /\ Room(0) \in Nat /\ Room(Slots) \in Nat
    BY RoomGrows, QuotaConstants
  <2> HIDE DEF Room, Slots, Ready
  <2> QED
    BY <1>1, <2>1, <2>2, QuotaConstants DEF DbFits
<1>7. ASSUME NEW u \in Users PROVE UserFits(u)
  <2>1. \A pcs : "idle" \notin pcs => InFlight(u, pcs) = {}
    BY <1>2 DEF InFlight
  <2>2. InFlight(u, Storing) = {} /\ InFlight(u, Removing) = {} /\ InFlight(u, Making) = {}
    BY <2>1 DEF Storing, Removing, Making
  <2>3. Added(u) = {} /\ Owed(u) = {}
    BY <1>1, <2>2 DEF Added, Owed, Removed, Quota!Live
  <2>4. count[u] = 0 /\ IsFiniteSet({}) /\ Cardinality({}) = 0
    BY <1>1, FS_EmptySet
  <2> HIDE DEF Slots
  <2>5. 0 <= MaxPerUser - 1 + Slots
    BY QuotaConstants
  <2> QED
    BY <2>2, <2>3, <2>4, <2>5 DEF UserFits, Counted, Limited
<1> QED
  BY <1>3, <1>4, <1>5, <1>6, <1>7 DEF QuotaInv

\* Every step of UserQuota.
LEMMA QuotaStep ==
  ASSUME QuotaInv, Quota!Next
  PROVE  QuotaInv'
<1>1. ASSUME NEW r \in Requests, NEW u \in Users,
             \/ Quota!Create(r, u) \/ Quota!RemoveMany(r, u)
             \/ \E n \in BatchSizes : Quota!CreateBatch(r, u, n)
             \/ \E i \in Items : Quota!Find(r, u, i)
      PROVE  QuotaInv'
  BY <1>1, CreateStep, RemoveManyStep, CreateBatchStep, FindStep
<1>2. ASSUME NEW r \in Requests,
             \/ Quota!CheckDb(r) \/ Quota!Store(r) \/ Quota!RemoveOne(r)
             \/ Quota!Answer(r) \/ Quota!Count(r) \/ Quota!Abort(r)
      PROVE  QuotaInv'
  BY <1>2, CheckDbStep, StoreStep, RemoveOneStep, AnswerStep, CountStep, AbortStep
<1> QED
  BY <1>1, <1>2, CrashStep DEF Quota!Next

\* Steps that leave UserQuota alone.
LEMMA QuotaStutters ==
  ASSUME QuotaInv, UNCHANGED quotaVars
  PROVE  QuotaInv'
<1>1. /\ Quota!TypeOK /\ (\A q \in Requests : SlotFits(q)) /\ EntitiesFit /\ DbFits
      /\ \A v \in Users : UserFits(v)
  BY DEF QuotaInv
<1>2. UNCHANGED <<maker, live, count, req, slips>>
  BY DEF quotaVars
<1>3. Quota!TypeOK' /\ EntitiesFit'
  BY <1>1, <1>2 DEF Quota!TypeOK, EntitiesFit
<1>4. ASSUME NEW q \in Requests PROVE SlotFits(q)'
  BY <1>1, <1>2 DEF SlotFits
<1>5. DbFits'
  BY <1>1, <1>2, DbKept DEF EntitiesFit, Ready
<1>6. ASSUME NEW u \in Users PROVE UserFits(u)'
  <2>1. \A pcs : InFlight(u, pcs)' = InFlight(u, pcs)
    BY <1>2 DEF InFlight
  <2>2. Quota!Live(u)' = Quota!Live(u)
    BY <1>2 DEF Quota!Live
  <2>3. slips'[u] \subseteq {"taken"}
          => count[u] + Cardinality(InFlight(u, Making)') <= MaxPerUser - 1 + Slots
    BY <1>1, <1>2, <2>1, StillIn
  <2>4. /\ InFlight(u, Storing)' = InFlight(u, Storing)
        /\ InFlight(u, Removing)' = InFlight(u, Removing)
    BY <2>1
  <2> QED
    BY <1>1, <1>2, <2>2, <2>3, <2>4, UserKept
<1> QED
  BY <1>3, <1>4, <1>5, <1>6 DEF QuotaInv

LEMMA InvQuotaInv == Spec => []QuotaInv
<1>1. Init => QuotaInv
  BY QuotaInit DEF Init
<1>2. QuotaInv /\ [Next]_vars => QuotaInv'
  BY QuotaStep, QuotaStutters DEF Next, CheckItems, CheckRoles, vars
<1> QED
  BY <1>1, <1>2, PTL DEF Spec

-----------------------------------------------------------------------------
(***************************************************************************)
(* UserQuota: what follows.                                                *)
(***************************************************************************)
\* What is live is owed to the counter, which falls short of it by no more
\* than the slots that stored it.
LEMMA Overshoot == ASSUME QuotaInv PROVE OvershootBound
<1> SUFFICES ASSUME NEW u \in Users, slips[u] \subseteq {"taken"}
             PROVE  Cardinality(Quota!Live(u)) <= MaxPerUser - 1 + Slots
  BY SameCounting DEF OvershootBound, Quota!OvershootBound, Slots
<1> DEFINE L == Quota!Live(u)
           A == Added(u)
           O == Owed(u)
           I == InFlight(u, Storing)
           M == InFlight(u, Making)
<1>1. Counted(u) /\ Limited(u) /\ count[u] \in Int
  BY DEF QuotaInv, UserFits, Quota!TypeOK
<1>2. I \subseteq M /\ I \in SUBSET Requests /\ M \in SUBSET Requests /\ L \subseteq O
  BY DEF InFlight, Storing, Making, Owed
<1>3. /\ IsFiniteSet(O) /\ IsFiniteSet(A) /\ Cardinality(O) <= count[u] + Cardinality(A)
      /\ Cardinality(A) <= Cardinality(I)
      /\ count[u] + Cardinality(M) <= MaxPerUser - 1 + Slots
  BY <1>1 DEF Counted, Limited
<1> HIDE DEF L, A, O, I, M
<1>4. /\ Cardinality(L) <= Cardinality(O) /\ Cardinality(L) \in Nat /\ Cardinality(O) \in Nat
      /\ Cardinality(A) \in Nat
  BY <1>2, <1>3, FS_Subset, FS_CardinalityType
<1>5. /\ Cardinality(I) <= Cardinality(M)
      /\ Cardinality(I) \in 0..Slots /\ Cardinality(M) \in 0..Slots
  BY <1>2, SomeSlots, FS_Subset
<1>6. Cardinality(L) <= MaxPerUser - 1 + Slots
  BY <1>1, <1>3, <1>4, <1>5, QuotaConstants
<1> QED
  BY <1>6 DEF L

\* With nothing under way, what is owed to the counter is what is live, and
\* there is nothing it was not told of.
LEMMA Agreement == ASSUME QuotaInv PROVE CountAgrees
<1> SUFFICES ASSUME \A r \in Requests : req[r] = Quota!Idle,
                    NEW u \in Users, slips[u] \subseteq {"batch"}
             PROVE  count[u] = Cardinality(Quota!Live(u))
  BY SameCounting DEF CountAgrees, Quota!CountAgrees
<1>1. /\ IsFiniteSet(Owed(u)) /\ Cardinality(Owed(u)) = count[u] + Cardinality(Added(u))
      /\ count[u] \in Int
  BY DEF QuotaInv, UserFits, Counted, Quota!TypeOK
<1>2. InFlight(u, Storing) = {} /\ InFlight(u, Removing) = {}
  BY IdleSlot DEF InFlight, Storing, Removing
<1>3. Added(u) = {} /\ Owed(u) = Quota!Live(u)
  BY <1>2 DEF Added, Owed, Removed
<1>4. Cardinality({}) = 0
  BY FS_EmptySet
<1> QED
  BY <1>1, <1>3, <1>4

\* Whatever the ready slots can add, it is not below zero.
LEMMA DbOvershoot == ASSUME QuotaInv PROVE DbOvershootBound
<1>1. /\ Cardinality(live) \in Nat
      /\ Cardinality(live) + Room(Cardinality(Ready)) <= MaxInDb - 1 + Room(Slots)
  BY FS_CardinalityType DEF QuotaInv, EntitiesFit, DbFits
<1>2. Ready \in SUBSET Requests
  BY DEF Ready
<1>3. Cardinality(Ready) \in Nat
  BY <1>2, SomeSlots
<1>4. Room(Cardinality(Ready)) \in Nat /\ Room(Slots) \in Nat
  BY <1>3, RoomGrows, QuotaConstants
<1>5. Cardinality(live) <= MaxInDb - 1 + Room(Slots)
  <2> HIDE DEF Room, Slots
  <2> QED
    BY <1>1, <1>4, QuotaConstants
<1> QED
  BY <1>5, SameCounting DEF DbOvershootBound, Quota!DbOvershootBound, Room, Slots

-----------------------------------------------------------------------------
\* The two instances of RoleGraph have the same types.
LEMMA SameTypes == Proved!TypeOK => Role!TypeOK
  BY DEF Role!TypeOK, Proved!TypeOK, Role!Names, Proved!Names, Role!Lists, Proved!Lists,
         Role!IsInjective, Proved!IsInjective, Role!Range, Proved!Range,
         Role!Ancestors, Proved!Ancestors, Role!Closed, Proved!Closed

\* The type invariant, for any users, slots, entities and roles: what is
\* followed stays in its types, and no walk leaves the ancestors of its role.
THEOREM TypeCorrect == Spec => []TypeOK
<1>1. Proved!Spec => []Proved!TypeOK
  BY SameAssumption, Proved!TypeCorrect
<1>2. QuotaInv /\ Role!TypeOK => TypeOK
  BY DEF TypeOK, QuotaInv
<1> QED
  BY <1>1, <1>2, ImplementsRoleGraph, SameTypes, InvQuotaInv, PTL

\* checkmaxItemsPerUser reads the counter before the entity exists and $inc
\* comes after it: a user who creates one entity at a time exceeds
\* maxItemsPerUser by at most the other requests there can be, whatever order
\* checks, flushes, hooks and increments come in.
THEOREM OvershootBounded == Spec => []OvershootBound
  BY InvQuotaInv, Overshoot, PTL

\* Once nothing is under way, crudUserCountMap is the number of the user's
\* entities, batches and deletions in flight included, unless an increment was
\* lost or somebody removed what she had not made.
THEOREM CountsAgree == Spec => []CountAgrees
  BY InvQuotaInv, Agreement, PTL

\* checkItemDbCount looks at the collection before the flush: maxItemsInDb is
\* exceeded by at most what the slots can hold, however they interleave.
THEOREM DbOvershootBounded == Spec => []DbOvershootBound
  BY InvQuotaInv, DbOvershoot, PTL
=============================================================================
