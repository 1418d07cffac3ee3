---------------------------- MODULE ClientBatch ----------------------------
(***************************************************************************)
(* The client's batches (createBatch, patchBatch, deleteIn, batch          *)
(* commands): one array for the application, chunks of it for the server.  *)
(* A server that finds a chunk too large says what it would take, and the  *)
(* client starts again with smaller chunks.                                *)
(*                                                                         *)
(* The session the chunks are sent with may end between two of them: the   *)
(* client forgets its token and goes on as a guest, for whom the server    *)
(* may take smaller chunks, or none; or the application logs in again.     *)
(***************************************************************************)
EXTENDS Integers, FiniteSets, Sequences

CONSTANTS
  Sizes,      \* how many elements the application's array may have
  Chunks,     \* batch sizes the client may be configured with
  UserMax,    \* maxBatchSize for the user's role
  GuestMaxes  \* what maxBatchSize may be for a guest

ClientBatchAssumption ==
  /\ Sizes \subseteq Nat \ {0}
  /\ Chunks \subseteq Nat \ {0}
  /\ {UserMax} \cup GuestMaxes \subseteq Nat

VARIABLES
  stored,     \* the token in the client's storage, see ClientSession
  good,       \* the tokens the server would accept
  guestMax,   \* maxBatchSize for a guest
  call,       \* the call
  done,       \* how often the server did its part for each element
  roles       \* history: whom the server heard, users and guests

vars == <<guestMax, call, done, roles>>

Pcs == { "idle",     \* not called yet
         "sending",  \* chunk `i` is about to be sent, or sent again
         "ok",       \* the application got the result
         "failed" }  \* the application got an error

\* n: elements   size: copts.batchSize   i: chunks that were answered
\* sent: the token the chunk under way carries
\* res: the result so far, an element standing for the answer about it
Call == [pc : Pcs, n : Nat, size : Nat, i : Nat, sent : Nat, res : Seq(Nat)]

Guest == 0

Least(a, b) == IF a < b THEN a ELSE b

\* Where the first i chunks end.
Upto(i) == Least(i * call.size, call.n)

\* Mutant of Chunk: the end of a chunk is the start of the next.
Chunk_Overlaps(i) == (IF i = 0 THEN 1 ELSE Upto(i))..Upto(i + 1)

\* _splitArrayIntoChunks: the elements of the chunk after the first i.
Chunk(i) == (Upto(i) + 1)..Upto(i + 1)

\* The server's answer: one for each element, in their order.
Answers(i) == [k \in 1..(Upto(i + 1) - Upto(i)) |-> Upto(i) + k]

\* authorizeBatch
ServerMax == IF call.sent = Guest THEN guestMax ELSE UserMax

TooLarge == Cardinality(Chunk(call.i)) > ServerMax

Init ==
  /\ guestMax \in GuestMaxes
  /\ call \in [pc : {"idle"}, n : Sizes, size : Chunks, i : {0}, sent : {Guest},
               res : {<<>>}]
  /\ done = [e \in 1..call.n |-> 0]
  /\ roles = {}

-----------------------------------------------------------------------------
(***************************************************************************)
(* _doBatch and _tryOrLogout.  A chunk is sent as soon as the one before   *)
(* it is answered, with the token that is stored then.                     *)
(***************************************************************************)

Start ==
  /\ call.pc = "idle"
  /\ call' = [call EXCEPT !.pc = "sending", !.sent = stored]
  /\ UNCHANGED <<stored, good, guestMax, done, roles>>

Rejected == call.sent # Guest /\ call.sent \notin good

\* The server accepts the session (a guest's always) and looks at the chunk.
Heard ==
  /\ call.pc = "sending" /\ ~Rejected
  /\ roles' = roles \cup {IF call.sent = Guest THEN "guest" ELSE "user"}

\* Were these all the chunks?
Answered(i) == i * call.size >= call.n

\* The server did what it was asked for the elements of e.
Did(e) == [x \in DOMAIN done |-> IF x \in e THEN done[x] + 1 ELSE done[x]]

\* The chunk is done, and the next one is sent.
Accept ==
  /\ Heard /\ ~TooLarge
  /\ done' = Did(Chunk(call.i))
  /\ call' = [call EXCEPT
                !.i = @ + 1,
                !.sent = stored,
                !.res = @ \o Answers(call.i),
                !.pc = IF Answered(call.i + 1) THEN "ok" ELSE "sending"]
  /\ UNCHANGED <<stored, good, guestMax>>

\* Mutant of Unauthorized: the client tries again with the token it had.
Unauthorized_KeepsToken ==
  /\ call.pc = "sending" /\ Rejected
  /\ UNCHANGED <<stored, good, guestMax, call, done, roles>>

\* A 401: the token that is stored by now is forgotten, and the chunk sent
\* again without one.
Unauthorized ==
  /\ call.pc = "sending" /\ Rejected
  /\ stored' = Guest
  /\ call' = [call EXCEPT !.sent = Guest]
  /\ UNCHANGED <<good, guestMax, done, roles>>

\* Mutant of Smaller: a server that takes no batch asks for smaller ones.
Smaller_Zero == ServerMax < call.size

\* _detectMatchBatchSize: does the error say a size that is worth trying?
Smaller == ServerMax > 0 /\ ServerMax < call.size

\* Mutant of Restart: the results of the chunks before are kept.
Restart_KeepsResult ==
  /\ Heard /\ TooLarge /\ Smaller
  /\ call' = [call EXCEPT !.size = ServerMax, !.i = 0, !.sent = stored]
  /\ UNCHANGED <<stored, good, guestMax, done>>

\* The chunk was too large: the whole array again, in smaller chunks.
Restart ==
  /\ Heard /\ TooLarge /\ Smaller
  /\ call' = [call EXCEPT !.size = ServerMax, !.i = 0, !.sent = stored, !.res = <<>>]
  /\ UNCHANGED <<stored, good, guestMax, done>>

\* The chunk was too large and nothing smaller is worth trying.
Refused ==
  /\ Heard /\ TooLarge /\ ~Smaller
  /\ call' = [call EXCEPT !.pc = "failed"]
  /\ UNCHANGED <<stored, good, guestMax, done>>

\* Mutant of Fail: any error is taken for the end of the session.
Fail_LogsOut ==
  /\ call.pc = "sending"
  /\ stored' = Guest
  /\ call' = [call EXCEPT !.pc = "failed"]
  /\ UNCHANGED <<good, guestMax, done, roles>>

\* Any other error, or an answer that is lost: the chunk was not done, or it
\* was.  (Patches of one chunk run side by side, so some may be done and
\* others not; what is said of an element below does not tell that apart.)
Fail ==
  /\ call.pc = "sending"
  /\ \/ UNCHANGED done
     \/ ~Rejected /\ ~TooLarge /\ done' = Did(Chunk(call.i))
  /\ call' = [call EXCEPT !.pc = "failed"]
  /\ UNCHANGED <<stored, good, guestMax, roles>>

Next == Start \/ Accept \/ Unauthorized \/ Restart \/ Refused \/ Fail

\* What the client does when it is answered.
Progress == Start \/ Unauthorized \/ Restart \/ Refused \/ Accept

-----------------------------------------------------------------------------
\* Type invariant; a chunk is never empty.
TypeOK ==
  /\ guestMax \in GuestMaxes
  /\ call \in Call
  /\ call.pc = "sending" => Chunk(call.i) # {}
  /\ done \in [1..call.n -> Nat]
  /\ roles \subseteq {"user", "guest"}

\* The result the application gets has the server's answer for every element
\* of its array, once, in the order of the array.
ResultIsWhole ==
  call.pc = "ok" => call.res = [e \in 1..call.n |-> e] /\ \A e \in DOMAIN done : done[e] > 0

\* Starting again does again what chunks before have done, but only when some
\* chunks were a guest's and others a user's; and however the two limits lie
\* and the session changes, no element is done more than twice.
TwiceOnlyAfterChange ==
  \A e \in DOMAIN done :
    done[e] > 1 => roles = {"user", "guest"} /\ done[e] = 2

Returned == call.pc \in {"ok", "failed"}

\* The call sends no more requests than this before it returns: for each size
\* that it may come down to, each chunk, with a token and without.
Left ==
  call.size * (2 * call.n + 2) + 2 * (call.n - call.i) + (IF call.sent = Guest THEN 0 ELSE 1)
=============================================================================
