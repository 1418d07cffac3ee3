--------------------------- MODULE ClientSession ---------------------------
(***************************************************************************)
(* The token a client keeps in its storage, and the commands of the user   *)
(* service that give it another: login and check_jwt.  A request carries   *)
(* the token that was stored when it was sent; the storage may hold        *)
(* another one, or none, when the answer comes.                            *)
(*                                                                         *)
(* Tokens are numbered in the order they were signed; 0 is no token.       *)
(***************************************************************************)
EXTENDS Naturals

CONSTANT MaxTokens  \* bound: no more tokens are signed

VARIABLES
  stored,   \* the token in the storage
  good,     \* the tokens the server would accept
  signed,   \* tokens signed so far
  account   \* the command under way: which, and the token it carries

Guest == 0

Tokens == 1..MaxTokens

\* The guard answers 401: the token has expired, or was revoked, or its user
\* is timed out.
Rejected(t) == t # Guest /\ t \notin good

NoCommand == [pc |-> "idle", sent |-> Guest]

SessionInit ==
  /\ stored \in {Guest, 1}
  /\ signed = 1
  /\ good = {1}
  /\ account = NoCommand

-----------------------------------------------------------------------------
\* login or check_jwt is sent.
Ask(command) ==
  /\ account = NoCommand
  /\ account' = [pc |-> command, sent |-> stored]
  /\ UNCHANGED <<stored, good, signed>>

\* The answer has a new token, which replaces whatever is stored by now:
\* check_jwt renews the token of a user only.
Receive ==
  /\ account.pc = "login" \/ (account.pc = "check" /\ account.sent # Guest)
  /\ ~Rejected(account.sent)
  /\ signed < MaxTokens
  /\ signed' = signed + 1
  /\ good' = good \cup {signed'}
  /\ stored' = signed'
  /\ account' = NoCommand

\* A 401: the token that was sent is refused, or the password is wrong, or a
\* guest asks for a check.  Whatever is stored by now is forgotten.
Denied ==
  /\ \/ Rejected(account.sent)
     \/ account.pc = "login"
     \/ account.pc = "check" /\ account.sent = Guest
  /\ stored' = Guest
  /\ account' = NoCommand
  /\ UNCHANGED <<good, signed>>

\* Mutant of Nothing: any error is taken for the end of the session.
Nothing_LogsOut ==
  /\ account # NoCommand
  /\ stored' = Guest
  /\ account' = NoCommand
  /\ UNCHANGED <<good, signed>>

\* Another error, or a check that found no renewal to be due.
Nothing ==
  /\ account # NoCommand
  /\ account' = NoCommand
  /\ UNCHANGED <<stored, good, signed>>

\* The application logs out; requests under way go on.
Logout ==
  /\ stored # Guest
  /\ stored' = Guest
  /\ UNCHANGED <<good, signed, account>>

\* The server stops accepting a token.
End(t) ==
  /\ t \in good
  /\ good' = good \ {t}
  /\ UNCHANGED <<stored, signed, account>>

SessionNext ==
  \/ Ask("login") \/ Ask("check")
  \/ Receive \/ Denied \/ Nothing
  \/ Logout \/ (\E t \in Tokens : End(t))

SessionTypeOK ==
  /\ signed \in Tokens
  /\ stored \in 0..signed
  /\ good \subseteq 1..signed
  /\ account \in [pc : {"idle", "login", "check"}, sent : 0..signed]
=============================================================================
