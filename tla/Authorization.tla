--------------------------- MODULE Authorization ---------------------------
(***************************************************************************)
(* What a role allows: which requests, how large a batch, and, with the    *)
(* limits of the service, how many entities a user may create.  The walks  *)
(* over the roles are functions of the configuration, and the counting of  *)
(* entities takes the largest batch from one of them (MaxSize here); a     *)
(* behaviour of both is one of each side by side, and one is followed.     *)
(***************************************************************************)
EXTENDS Integers

CONSTANTS
  Requests, Users, Nobody, Items, BatchSizes, MaxSize,       \* UserQuota
  MaxPerUser, MaxInDb,
  Roles, root, Ghosts, Needs, Sizes, MaxInherits, MaxDepth   \* RoleGraph

VARIABLES
  aspect,                                            \* the one followed
  maker, live, count, req, slips,                    \* UserQuota
  inherits, rights, size, walk,                      \* RoleGraph
  todo, seen, best, outcome

Quota == INSTANCE UserQuota

Role == INSTANCE RoleGraph

ASSUME AuthorizationAssumption == Quota!QuotaAssumption /\ Role!RoleGraphAssumption

quotaVars == <<maker, live, count, req, slips>>
roleVars == <<inherits, rights, size, walk, todo, seen, best, outcome>>

vars == <<aspect, quotaVars, roleVars>>

\* Where roles are not followed, they inherit nothing.
Plain ==
  /\ walk = "parents"
  /\ inherits = [r \in Roles |-> <<>>]

Init ==
  /\ aspect \in {"items", "roles"}
  /\ Quota!Init
  /\ Role!Init
  /\ aspect = "roles" \/ Plain

CheckItems ==
  /\ aspect = "items"
  /\ Quota!Next
  /\ UNCHANGED <<aspect, roleVars>>

CheckRoles ==
  /\ aspect = "roles"
  /\ Role!Next
  /\ UNCHANGED <<aspect, quotaVars>>

Next == CheckItems \/ CheckRoles

Spec == Init /\ [][Next]_vars

-----------------------------------------------------------------------------
\* Type invariant, of what is followed: counters and slots in their ranges,
\* and no walk outside the roles that can be reached.
TypeOK == IF aspect = "items" THEN Quota!TypeOK ELSE Role!TypeOK

\* UserQuota: how far creations that race exceed maxItemsPerUser.
OvershootBound == Quota!OvershootBound

\* UserQuota: the counter agrees with the collection when nothing is under way.
CountAgrees == Quota!CountAgrees

\* UserQuota: how far maxItemsInDb is exceeded.
DbOvershootBound == Quota!DbOvershootBound

\* RoleGraph: a request passes exactly when one role allows all of it.
GrantedByOneRole == Role!GrantedByOneRole

\* RoleGraph: three walks over the same roles.
WalksAgree == Role!WalksAgree
=============================================================================
