--------------------------- MODULE MCUserSession ---------------------------
(***************************************************************************)
(* Model checking UserSession.  No symmetry: liveness is checked too.      *)
(***************************************************************************)
EXTENDS UserSession
=============================================================================
