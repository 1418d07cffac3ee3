------------------------------ MODULE MCMsLink ------------------------------
(***************************************************************************)
(* Model checking MsLink: three deployments.  In the first each process    *)
(* has a service of its own; in the second, docs/microservices/            *)
(* configuration.md's gateway p has none and forwards to q and r, which    *)
(* share a service; in the third nothing is listed.                        *)
(***************************************************************************)
EXTENDS MsLink, TLC

CONSTANTS p, q, r, a, b

MCDeployments == {
  [lists |-> p :> {a} @@ q :> {b} @@ r :> {}, links |-> {p, q},
   controllers |-> {p, q}, proxies |-> {}, own |-> {}],
  [lists |-> p :> {} @@ q :> {a, b} @@ r :> {b}, links |-> {q, r},
   controllers |-> {p, q}, proxies |-> {p}, own |-> {r}],
  [lists |-> [x \in {p, q, r} |-> {}], links |-> {},
   controllers |-> {p}, proxies |-> {}, own |-> {}] }
=============================================================================
