-------------------------- MODULE RevocationLedger --------------------------
(***************************************************************************)
(* What Eicrud promises about revocation counts, without cache, guard or   *)
(* requests.  The count may be written by commands that started from old   *)
(* copies, so it may repeat a value or go back; but it never grows by more *)
(* than one above everything the database held, and a token is signed only *)
(* for a count the database has already reached.                           *)
(***************************************************************************)
EXTENDS Naturals

VARIABLES
  rvkd,    \* the count in the database
  top,     \* the highest count the database ever held
  issued   \* the counts in the tokens signed so far

Init ==
  /\ rvkd = 0
  /\ top = 0
  /\ issued = {}

\* A revocation from some copy of the user, old or new.
Revoke ==
  /\ rvkd' \in 1..(top + 1)
  /\ top' = IF rvkd' > top THEN rvkd' ELSE top
  /\ UNCHANGED issued

\* A token is signed from some copy of the user, old or new.
Sign ==
  /\ \E t \in 0..top : issued' = issued \cup {t}
  /\ UNCHANGED <<rvkd, top>>

Next == Revoke \/ Sign

Spec == Init /\ [][Next]_<<rvkd, top, issued>>
=============================================================================
