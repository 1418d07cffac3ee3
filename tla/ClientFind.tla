----------------------------- MODULE ClientFind -----------------------------
(***************************************************************************)
(* The client's find (findIds, cmdL): one call for the application, pages  *)
(* for the server, which returns no more than its own limit at a time.     *)
(* Other clients create and remove entities between two pages; the session *)
(* may end between two pages, and the call go on as a guest's.             *)
(***************************************************************************)
EXTENDS Naturals, FiniteSets, Sequences

CONSTANTS
  Limits,       \* options.limit: 0 when not given
  Offsets,      \* options.offset
  ServerLimit,  \* limitQuery, for the caller's role
  GuestLimit,   \* limitQuery, for a guest
  Stored,       \* entities in the collection at first; bounds a run of TLC
  MaxMade,      \* bound: no more entities are created during the call
  MaxRemoved    \* bound: no more entities are removed during the call

ClientFindAssumption ==
  /\ 0 \in Limits /\ Limits \subseteq Nat
  /\ Offsets \subseteq Nat
  /\ {ServerLimit, GuestLimit} \subseteq Nat \ {0}
  /\ {Stored, MaxMade, MaxRemoved} \subseteq Nat

VARIABLES
  stored,   \* the token in the client's storage, see ClientSession
  good,     \* the tokens the server would accept
  items,    \* the entities that match, in the database's order
  call,     \* the call: where it is, what it asked for
  data,     \* res.data
  made,     \* history: entities created so far, the first ones included
  removed,  \* history: entities removed during the call
  there,    \* history: entities that were there all the time
  even      \* history: every page was served with the limit of the first

vars == <<items, call, data, made, removed, there, even>>

Pcs == { "idle",    \* not called yet
         "first",   \* the first page is asked for
         "paging",  \* the page at `offset` is asked for
         "done",    \* the application got the data
         "failed" } \* the application got an error

\* limit, skip: the options   sent: the token the request under way carries
\* page: res.limit   offset, total: as in the code
Call == [pc : Pcs, limit : Limits, skip : Offsets, sent : Nat, page : Nat,
         offset : Nat, total : Nat]

Guest == 0

Least(a, b) == IF a < b THEN a ELSE b

\* limitQuery, with the limit that was asked for.
Served(limit) ==
  LET max == IF call.sent = Guest THEN GuestLimit ELSE ServerLimit
  IN  IF limit = 0 \/ limit > max THEN max ELSE limit

\* What the database returns.
Page(limit, offset) == SubSeq(items, offset + 1, Least(offset + limit, Len(items)))

Init ==
  /\ items = [n \in 1..Stored |-> n]
  /\ call \in [pc : {"idle"}, limit : Limits, skip : Offsets, sent : {Guest},
               page : {0}, offset : {0}, total : {0}]
  /\ data = <<>>
  /\ made = Stored
  /\ removed = 0
  /\ there = {}
  /\ even = TRUE

-----------------------------------------------------------------------------
(***************************************************************************)
(* _doLimitQuery and _tryOrLogout.                                         *)
(***************************************************************************)

\* How many entities the loop is after: as many as were asked for, or as the
\* first answer says there are.
Total == IF call.limit = 0 THEN Len(items) ELSE call.limit

\* More pages are asked for when the server's limit is what stopped this one.
NeedsMore(page) == (call.limit = 0 \/ page < call.limit) /\ Len(items) > page

\* offset += res.limit, where res is the first answer.
NextOffset(offset) == offset + call.page

Start ==
  /\ call.pc = "idle"
  /\ call' = [call EXCEPT !.pc = "first", !.sent = stored]
  /\ UNCHANGED <<stored, good, items, data, made, removed, there, even>>

Rejected == call.sent # Guest /\ call.sent \notin good

\* The first page, with the options as they were given.
Fetch ==
  LET page == Served(call.limit) IN
  /\ call.pc = "first" /\ ~Rejected
  /\ data' = Page(page, call.skip)
  /\ call' = [call EXCEPT
                !.page = page, !.offset = page, !.total = Total, !.sent = stored,
                !.pc = IF NeedsMore(page) THEN "paging" ELSE "done"]
  /\ there' = {items[n] : n \in DOMAIN items}
  /\ UNCHANGED <<stored, good, items, made, removed, even>>

\* Mutant of FetchMore: the offset advances twice.
FetchMore_Rest ==
  /\ call.pc = "paging" /\ ~Rejected
  /\ data' = data \o Page(Served(call.page), call.offset)
  /\ even' = (even /\ Served(call.page) = call.page)
  /\ call' = [call EXCEPT
                !.offset = @ + 2 * call.page, !.sent = stored,
                !.pc = IF call.offset + 2 * call.page < call.total THEN "paging" ELSE "done"]
  /\ UNCHANGED <<stored, good, items, made, removed, there>>

\* The next page: of the first page's limit, at an offset counted in them.
FetchMore ==
  /\ call.pc = "paging" /\ ~Rejected
  /\ data' = data \o Page(Served(call.page), call.offset)
  /\ even' = (even /\ Served(call.page) = call.page)
  /\ call' = [call EXCEPT
                !.offset = NextOffset(@), !.sent = stored,
                !.pc = IF NextOffset(call.offset) < call.total THEN "paging" ELSE "done"]
  /\ UNCHANGED <<stored, good, items, made, removed, there>>

\* A 401: the token that is stored by now is forgotten, and the request sent
\* again without one.
Unauthorized ==
  /\ call.pc \in {"first", "paging"} /\ Rejected
  /\ stored' = Guest
  /\ call' = [call EXCEPT !.sent = Guest]
  /\ UNCHANGED <<good, items, data, made, removed, there, even>>

\* Any other error: the application gets it, and none of the pages.
Fail ==
  /\ call.pc \in {"first", "paging"}
  /\ call' = [call EXCEPT !.pc = "failed"]
  /\ data' = <<>>
  /\ UNCHANGED <<stored, good, items, made, removed, there, even>>

-----------------------------------------------------------------------------
(***************************************************************************)
(* Everybody else, while the call goes on.                                 *)
(***************************************************************************)

\* New entities come last in the database's order.
Create ==
  /\ call.pc = "paging" /\ made < Stored + MaxMade
  /\ made' = made + 1
  /\ items' = Append(items, made + 1)
  /\ UNCHANGED <<stored, good, call, data, removed, there, even>>

Remove(n) ==
  /\ call.pc = "paging" /\ removed < MaxRemoved
  /\ items' = SubSeq(items, 1, n - 1) \o SubSeq(items, n + 1, Len(items))
  /\ there' = there \ {items[n]}
  /\ removed' = removed + 1
  /\ UNCHANGED <<stored, good, call, data, made, even>>

Next ==
  \/ Start \/ Fetch \/ FetchMore \/ Unauthorized \/ Fail
  \/ Create \/ (\E n \in DOMAIN items : Remove(n))

\* What the client does when it is answered.
Progress == Start \/ Fetch \/ FetchMore \/ Unauthorized

-----------------------------------------------------------------------------
Found == {data[n] : n \in DOMAIN data}

\* Type invariant; the call never asks beyond the last page.
TypeOK ==
  /\ items \in Seq(1..made)
  /\ call \in Call
  /\ call.pc = "paging" => call.offset < call.total
  /\ data \in Seq(1..made)
  /\ made \in Stored..(Stored + MaxMade)
  /\ removed \in 0..MaxRemoved
  /\ there \subseteq 1..Stored
  /\ even \in BOOLEAN

\* A find without an offset returns nothing twice, whatever is created, removed
\* or logged out meanwhile.  Entities removed while it goes on make it miss
\* others, never more than were removed; without removals it misses none.
MissedAtMostRemoved ==
  call.skip = 0 =>
    /\ Cardinality(Found) = Len(data)
    /\ call.pc = "done" /\ call.limit = 0 /\ even =>
         Cardinality(there \ Found) <= removed

Returned == call.pc \in {"done", "failed"}

\* The loop sends no more requests than this: each page, with a token and without.
Left == 2 * (call.total - call.offset) + (IF call.sent = Guest THEN 0 ELSE 1)

\* docs/services/options.md:49 and :52: limit and offset correspond to those of
\* MikroORM: the entities after the first `offset`, at most `limit` of them.
OptionsAreKept ==
  call.pc = "done" /\ even /\ made = Stored /\ removed = 0 /\ call.skip < Len(items) =>
    data = LET rest == Len(items) - call.skip
           IN  Page(IF call.limit = 0 THEN rest ELSE call.limit, call.skip)
=============================================================================
