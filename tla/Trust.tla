------------------------------- MODULE Trust -------------------------------
(***************************************************************************)
(* The trust that raises a user's limits: getOrComputeTrust and            *)
(* $computeTrust, for one user.  A trust counts for Interval from when it  *)
(* was computed, but it is computed from a copy of the user that was read  *)
(* before, and written by an update nobody awaits.  Its value does not     *)
(* matter here: asOf says how the user was when it was right.              *)
(***************************************************************************)
EXTENDS Integers, FiniteSets

CONSTANTS
  Requests,   \* slots for the requests under way; a limit with a bonus is
              \* checked for a POST only, so all read the database
  Interval,   \* TRUST_COMPUTE_INTERVAL, in ticks
  Patience,   \* the longest that a request takes to reach the check
  MaxTime     \* bound: the clock stops there

TrustAssumption ==
  /\ IsFiniteSet(Requests) /\ Requests # {}
  /\ Interval \in Nat \ {0}
  /\ {Patience, MaxTime} \subseteq Nat

VARIABLES
  now,   \* the clock
  db,    \* trust and lastComputedTrust of the user
  req    \* what each slot is doing

vars == <<now, db, req>>

\* asOf: when the user was read whose trust it is   at: lastComputedTrust
Value == [asOf : Int, at : Int]

Never == [asOf |-> -Interval - 1, at |-> -Interval - 1]

Pcs == { "idle",        \* the slot is free
         "read",        \* the guard has the user, nothing is checked yet
         "computing",   \* the scores are added, addToComputedTrust is at work
         "writing" }    \* the trust was used, the patch is on its way

Slot == [pc : Pcs, trust : Value, since : Int]

Idle == [pc |-> "idle", trust |-> Never, since |-> 0]

Become(r, next) == req' = [req EXCEPT ![r] = next]

Init ==
  /\ now = 0
  /\ db = Never
  /\ req = [r \in Requests |-> Idle]

-----------------------------------------------------------------------------
\* The guard reads the user.
Read(r) ==
  /\ req[r] = Idle
  /\ Become(r, [pc |-> "read", trust |-> db, since |-> now])
  /\ UNCHANGED <<now, db>>

Fresh(trust) == trust.at + Interval > now

\* Mutant of Keep: a trust that is used is good for another day.
Keep_Renewed(r) ==
  /\ req[r].pc = "read"
  /\ Fresh(req[r].trust)
  /\ db' = [db EXCEPT !.at = now]
  /\ Become(r, Idle)
  /\ UNCHANGED now

\* getOrComputeTrust: computed less than Interval ago.
Keep(r) ==
  /\ req[r].pc = "read"
  /\ Fresh(req[r].trust)
  /\ Become(r, Idle)
  /\ UNCHANGED <<now, db>>

\* $computeTrust, up to its only await.
Compute(r) ==
  /\ req[r].pc = "read"
  /\ ~Fresh(req[r].trust)
  /\ Become(r, [req[r] EXCEPT !.pc = "computing"])
  /\ UNCHANGED <<now, db>>

\* The patch is made and sent, and the trust is used.
Use(r) ==
  /\ req[r].pc = "computing"
  /\ Become(r, [req[r] EXCEPT !.pc = "writing",
                              !.trust = [asOf |-> req[r].since, at |-> now]])
  /\ UNCHANGED <<now, db>>

\* The patch reaches the database, or fails unnoticed.
Write(r) ==
  /\ req[r].pc = "writing"
  /\ db' \in {db, req[r].trust}
  /\ Become(r, Idle)
  /\ UNCHANGED now

Tick ==
  /\ now < MaxTime
  /\ \A r \in Requests :
       req[r].pc \in {"read", "computing"} => now < req[r].since + Patience
  /\ now' = now + 1
  /\ UNCHANGED <<db, req>>

Next ==
  \/ \E r \in Requests : Read(r) \/ Keep(r) \/ Compute(r) \/ Use(r) \/ Write(r)
  \/ Tick

Spec == Init /\ [][Next]_vars

-----------------------------------------------------------------------------
\* Type invariant; a trust is never dated before the user it was computed from.
TypeOK ==
  /\ now \in 0..MaxTime
  /\ db \in Value /\ db.asOf <= db.at
  /\ req \in [Requests -> Slot]

\* Whatever order computations end and patches land in, a limit is never
\* raised by a trust that the user had more than Interval ago, plus the time a
\* request takes.
TrustIsRecent ==
  [][\A r \in Requests :
       req[r].pc = "read" /\ req'[r] = Idle
       => now - req[r].trust.asOf < Interval + Patience]_vars
=============================================================================
