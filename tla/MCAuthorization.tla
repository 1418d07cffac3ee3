-------------------------- MODULE MCAuthorization --------------------------
(***************************************************************************)
(* Model checking Authorization.  Slots are interchangeable, and so are    *)
(* entities: numbered, they are created in the order of their numbers.     *)
(* Moderators remove entities and create none.                             *)
(***************************************************************************)
EXTENDS Authorization, TLC

CONSTANT Moderators

Symmetry == Permutations(Requests)

InOrder == \A i, j \in Items : i < j /\ maker[i] = Nobody => maker[j] = Nobody

Moderate == \A r \in Requests :
  req'[r].user \in Moderators => req'[r].pc \notin {"create", "stored"}

\* What is not followed does not change.  Who made an entity that is gone and
\* that no request holds makes no difference, and neither do the counters of
\* moderators.
Relevant ==
  IF aspect = "roles" THEN <<aspect, roleVars>>
  ELSE << aspect, live, req,
          [i \in Items |-> IF i \in live \/ \E r \in Requests : i \in req[r].items
                           THEN maker[i] ELSE IF maker[i] = Nobody THEN 0 ELSE 1],
          [u \in Users \ Moderators |-> <<count[u], slips[u]>>] >>
=============================================================================
