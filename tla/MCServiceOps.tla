---------------------------- MODULE MCServiceOps ----------------------------
(***************************************************************************)
(* Model checking ServiceOps: requests and entities are interchangeable.   *)
(* Once an operation is over, it does not matter which one of its kind it  *)
(* was, nor which hook threw after it; nor whether an answer was good.     *)
(***************************************************************************)
EXTENDS ServiceOps, TLC

Symmetry == Permutations(Requests) \cup Permutations(Entities)

Over(q) == q.pc \notin {"idle", "before", "work", "flush"} /\ q.left = {}

Kind(op) == IF op \in Patches THEN "patch" ELSE IF op \in Deletes THEN "delete" ELSE op

Cause(broke) ==
  CASE broke \in {"idle", "after", "return"} -> "idle"
    [] broke \in {"work", "flush"} -> "work"
    [] broke = "before" -> "before"

Relevant ==
  << live, old, took, anew,
     [r \in Requests |->
       LET q == req[r] IN
       IF Over(q) THEN [q EXCEPT !.pc = IF Answered(r) THEN "ok" ELSE @,
                                 !.op = Kind(@), !.broke = Cause(@)]
       ELSE q] >>
=============================================================================
