------------------------------ MODULE MCClient ------------------------------
(***************************************************************************)
(* Model checking Client.                                                  *)
(***************************************************************************)
EXTENDS Client
=============================================================================
