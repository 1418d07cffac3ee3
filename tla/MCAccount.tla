----------------------------- MODULE MCAccount -----------------------------
(***************************************************************************)
(* Model checking Account.  Slots are interchangeable, and addresses; what *)
(* is not followed does not change.  Several initial states differ only in *)
(* what is not followed: the view makes one of them.                       *)
(***************************************************************************)
EXTENDS Account, Sequences, TLC

CONSTANTS admin, member

MCMocks == [role \in Roles |-> IF role = admin THEN {member} ELSE {}]

Symmetry == Permutations(Requests) \cup Permutations(Addresses)

\* Counts, dates and the cache matter to commands whose limits are on them.
RelevantUses ==
  LET Counted(c) == IF security.maxUses THEN c ELSE [c EXCEPT !.count = 0]
      Dated(t) == IF security.minTime THEN t ELSE 0
  IN
  << security, Dated(useNow), Counted(useDb), used, lost,
     IF security.maxUses THEN 0 ELSE IF cache = NoEntry THEN cache ELSE Counted(cache),
     [r \in Requests |->
       [useReq[r] EXCEPT !.copy = Counted(@),
                         !.at = IF useReq[r].pc = "adding" THEN Dated(@) ELSE 0,
                         !.since = IF useReq[r].pc = "read" THEN Dated(@) ELSE 0]],
     IF security.minTime THEN round ELSE 0 >>

\* A link matters while its token is in the database or a request has it.
RelevantLinks ==
  LET near == {linkUser.token} \cup {linkReq[r].link : r \in Requests} IN
  << linkNow, linkUser, linkReq, Len(links), linkUses, linkMailed \cap near,
     [n \in near \cap DOMAIN links |-> links[n]] >>

\* Of a copy whose password is hashed, only the role is written.
RelevantResets ==
  LET near == {resetUser.token} \cup {resetReq[r].link : r \in Requests}
      Written(q) == IF q.pc = "hashing" THEN q.copy.role ELSE q.copy
  IN
  << resetNow, resetUser, [r \in Requests |-> <<resetReq[r].pc, resetReq[r].asked,
     resetReq[r].link, Written(resetReq[r])>>], guests, resets, resetMailed \cap near, sets, given,
     causes >>

Relevant ==
  << part,
     CASE part = "login"     -> signInVars
       [] part = "links"     -> RelevantLinks
       [] part = "passwords" -> RelevantResets
       [] part = "uses"      -> RelevantUses
       [] part = "trust"     -> trustVars >>
=============================================================================
