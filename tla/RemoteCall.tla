----------------------------- MODULE RemoteCall -----------------------------
(***************************************************************************)
(* What a service method promises its callers when services live in        *)
(* several processes: a call runs the method at most once, in a process    *)
(* that may run it, and a result is that of a method that ran to its end.  *)
(* An error says nothing: the method may have run, be running, or run yet. *)
(***************************************************************************)
CONSTANTS Procs, Calls, Nowhere

VARIABLES
  got,      \* what each caller got: "no" before the call
  did,      \* what became of the method
  mayRun,   \* the processes that may run it
  ranAt     \* the process that did

vars == <<got, did, mayRun, ranAt>>

Init ==
  /\ got = [c \in Calls |-> "no"]
  /\ did = [c \in Calls |-> "no"]
  /\ mayRun = [c \in Calls |-> {}]
  /\ ranAt = [c \in Calls |-> Nowhere]

Ask(c, S) ==
  /\ got[c] = "no"
  /\ got' = [got EXCEPT ![c] = "waiting"]
  /\ mayRun' = [mayRun EXCEPT ![c] = S]

Begin(c, S) ==
  /\ did[c] = "no"
  /\ \E p \in S : ranAt' = [ranAt EXCEPT ![c] = p]
  /\ did' = [did EXCEPT ![c] = "begun"]

End(c) ==
  /\ did[c] = "begun"
  /\ \E how \in {"done", "threw"} : did' = [did EXCEPT ![c] = how]

\* Once the method has ended, the result; an error at any time.
Answer(c) ==
  /\ got[c] = "waiting"
  /\ got' \in {[got EXCEPT ![c] = "error"]}
              \cup {g \in {[got EXCEPT ![c] = "ok"]} : did'[c] = "done"}

\* Processes stop: callers there get nothing more, methods there end nowhere.
Stop ==
  /\ \E S \in SUBSET {c \in Calls : got[c] = "waiting"} :
       got' = [c \in Calls |-> IF c \in S THEN "gone" ELSE got[c]]
  /\ \E S \in SUBSET {c \in Calls : did[c] = "begun"} :
       did' = [c \in Calls |-> IF c \in S THEN "cut" ELSE did[c]]
  /\ UNCHANGED <<mayRun, ranAt>>

Next ==
  \/ \E c \in Calls :
       \/ \E S \in SUBSET Procs :
            Ask(c, S) /\ (Begin(c, S) \/ UNCHANGED <<did, ranAt>>)
       \/ got[c] # "no" /\ Begin(c, mayRun[c]) /\ UNCHANGED <<got, mayRun>>
       \/ End(c) /\ (Answer(c) \/ UNCHANGED got) /\ UNCHANGED <<mayRun, ranAt>>
       \/ Answer(c) /\ UNCHANGED <<did, mayRun, ranAt>>
  \/ Stop

Spec == Init /\ [][Next]_vars
=============================================================================
