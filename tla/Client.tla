------------------------------- MODULE Client -------------------------------
(***************************************************************************)
(* A client that makes a batch call and a find while the user logs in and  *)
(* out and the server ends sessions.  All of them share one token storage: *)
(* each sends the token that is stored when it sends, and each forgets     *)
(* whatever token is stored when it gets a 401.                            *)
(***************************************************************************)
EXTENDS ClientSession

CONSTANTS
  Sizes, Chunks, UserMax, GuestMaxes,                    \* ClientBatch
  Limits, Offsets, ServerLimit, GuestLimit, Stored,      \* ClientFind
  MaxMade, MaxRemoved

VARIABLES
  guestMax, batch, done, roles,                          \* ClientBatch
  items, find, data, made, removed, there, even          \* ClientFind

Batch == INSTANCE ClientBatch WITH call <- batch

Find == INSTANCE ClientFind WITH call <- find

ASSUME ClientAssumption ==
  /\ MaxTokens \in Nat \ {0}
  /\ Batch!ClientBatchAssumption
  /\ Find!ClientFindAssumption

batchVars == <<guestMax, batch, done, roles>>
findVars == <<items, find, data, made, removed, there, even>>

vars == <<stored, good, signed, account, batchVars, findVars>>

Init == SessionInit /\ Batch!Init /\ Find!Init

BatchStep == Batch!Next /\ UNCHANGED <<signed, account, findVars>>

FindStep == Find!Next /\ UNCHANGED <<signed, account, batchVars>>

SessionStep == SessionNext /\ UNCHANGED <<batchVars, findVars>>

\* The application makes no more calls.
Idle == Batch!Returned /\ Find!Returned /\ UNCHANGED vars

Next == BatchStep \/ FindStep \/ SessionStep \/ Idle

Spec == Init /\ [][Next]_vars

\* The client goes on with a call as long as it is answered.
Fairness ==
  /\ WF_vars(Batch!Progress /\ UNCHANGED <<signed, account, findVars>>)
  /\ WF_vars(Find!Progress /\ UNCHANGED <<signed, account, batchVars>>)

FairSpec == Spec /\ Fairness

-----------------------------------------------------------------------------
\* Type invariant of the session and the two calls: a call carries a token
\* that was signed, a chunk is never empty, a find stops at its last page.
TypeOK ==
  /\ SessionTypeOK
  /\ Batch!TypeOK /\ batch.sent \in 0..signed
  /\ Find!TypeOK /\ find.sent \in 0..signed

\* The tokens of the requests that are not answered yet.
Carried ==
  {account.sent}
    \cup (IF batch.pc = "sending" THEN {batch.sent} ELSE {})
    \cup (IF find.pc \in {"first", "paging"} THEN {find.sent} ELSE {})

\* A token the server would accept is lost in two ways only: the application
\* logs out or fails to log in, or a request that was sent with an older token
\* gets its 401 after the new one was stored.
GoodTokenIsKept ==
  [][(stored \in good /\ stored' = Guest) =>
       \/ Logout /\ UNCHANGED <<batchVars, findVars>>
       \/ account.pc = "login" /\ account' = NoCommand
       \/ \E t \in Carried : Rejected(t) /\ t < stored]_vars

\* ClientBatch: the result has the answers for all elements, in their order.
ResultIsWhole == Batch!ResultIsWhole

\* ClientBatch: what starting again may do twice.
TwiceOnlyAfterChange == Batch!TwiceOnlyAfterChange

\* ClientFind: nothing comes twice, and what is missed because of entities that
\* are removed meanwhile.
MissedAtMostRemoved == Find!MissedAtMostRemoved

\* Retries come to an end: whatever a request that is sent again, an array that is
\* started again or a further page is due to, fewer requests are left than before.
CallsGetOn ==
  [][/\ batch.pc = "sending" /\ batch'.pc = "sending" /\ batch' # batch
          => Batch!Left' \in 0..(Batch!Left - 1)
     /\ find.pc \in {"first", "paging"} /\ find'.pc = find.pc /\ find' # find
          => Find!Left' \in 0..(Find!Left - 1)]_vars

\* Every call returns: neither a session that ends again and again, nor chunks
\* that turn out too large, nor entities that are created faster than they are
\* read keep a call going.
CallsReturn ==
  /\ <>(batch.pc \in {"ok", "failed"})
  /\ <>(find.pc \in {"done", "failed"})

\* ClientFind: limit and offset are those of MikroORM
\* (docs/services/options.md:49 and :52).
OptionsAreKept == Find!OptionsAreKept
=============================================================================
