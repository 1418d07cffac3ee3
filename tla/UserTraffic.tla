---------------------------- MODULE UserTraffic ----------------------------
(***************************************************************************)
(* userTrafficProtection: the guard counts the requests of a signed-in     *)
(* user and, above a threshold, records an incident in the user's document *)
(* and, after some incidents, a time-out; moderators set time-outs too.    *)
(*                                                                         *)
(* Counting runs beside the request it is done for, and the guard judges   *)
(* later requests by a copy of the user: from the database, or from the    *)
(* user cache.  One user; other users have other counters.                 *)
(***************************************************************************)
EXTENDS Naturals, FiniteSets

CONSTANTS
  Requests,        \* slots for requests and moderators' commands
  NoEntry,         \* the cache has nothing for the user
  Threshold,       \* userRequestsThreshold times the role's multiplier
  TotalThreshold,  \* totalTimeoutThreshold
  Duration,        \* timeoutDurationMinutes, in ticks
  Sentences,       \* durations moderators use, in ticks; may be empty
  MaxTime,         \* bound: the clock stops there
  MaxTotal         \* bound: no more incidents, bursts or sentences than this

UserTrafficAssumption ==
  /\ IsFiniteSet(Requests)
  /\ Threshold \in Nat \ {0}
  /\ {TotalThreshold, Duration, MaxTime, MaxTotal} \subseteq Nat
  /\ Sentences \subseteq Nat

VARIABLES
  now,       \* the clock
  traffic,   \* requests in the user's counter
  db,        \* the user in the database
  cache,     \* the user in the user cache, or NoEntry
  req,       \* what each slot is doing
  total,     \* history: incidents decided so far
  bursts     \* history: how often the counter reached the threshold

vars == <<now, traffic, db, cache, req, total, bursts>>

\* high: highTrafficCount; times: timeoutCount, 0 when unset; until: timeout
User == [high : Nat, times : Nat, until : Nat]

NewUser == [high |-> 0, times |-> 0, until |-> 0]

\* A slot:
\*   pc     where counting, or a moderator's command, is
\*   on     the request is still being served
\*   copy   its ctx.user
\*   fresh  the user as counting read it, then as counting changed it
\*   basic  basic authentication: the guard has just read the user itself
\*   inc    the increment of an incident
\*   out    the incident comes with a time-out
Pcs == {"idle", "peek", "inc", "load", "flag", "write", "sentence"}

Slot == [pc : Pcs, on : BOOLEAN, copy : User, fresh : User, basic : BOOLEAN,
         inc : Nat, out : BOOLEAN]

Idle == [pc |-> "idle", on |-> FALSE, copy |-> NewUser, fresh |-> NewUser,
         basic |-> FALSE, inc |-> 0, out |-> FALSE]

\* What is left of a slot when counting is over.
Counted(s) == IF s.on THEN [Idle EXCEPT !.on = TRUE, !.copy = s.copy] ELSE Idle

Become(r, next) == req' = [req EXCEPT ![r] = next]

\* addTimeoutToUser
AddTimeout(u, d) ==
  LET n == IF u.times = 0 THEN 1 ELSE u.times
  IN  [u EXCEPT !.until = now + d * n, !.times = n + 1]

\* Math.round(traffic / threshold)
Incidents(t) == (2 * t + Threshold) \div (2 * Threshold)

Init ==
  /\ now = 0
  /\ traffic = 0
  /\ db = NewUser
  /\ cache = NoEntry
  /\ req = [r \in Requests |-> Idle]
  /\ total = 0
  /\ bursts = 0

-----------------------------------------------------------------------------
(***************************************************************************)
(* Requests of the user.                                                   *)
(***************************************************************************)

\* The guard takes the user from the cache unless the method is POST, and
\* lets the request in unless that copy is timed out.
Enter(r, cached) ==
  LET u == IF cached /\ cache # NoEntry THEN cache ELSE db IN
  /\ req[r] = Idle
  /\ u.until <= now
  /\ Become(r, [Idle EXCEPT !.pc = "peek", !.on = TRUE, !.copy = u])
  /\ cache' = IF cached THEN u ELSE cache
  /\ UNCHANGED <<now, traffic, db, total, bursts>>

\* Basic authentication logs the user in.
EnterBasic(r) ==
  /\ req[r] = Idle
  /\ db.until <= now
  /\ Become(r, [Idle EXCEPT !.pc = "peek", !.on = TRUE, !.copy = db,
                            !.fresh = db, !.basic = TRUE])
  /\ UNCHANGED <<now, traffic, db, cache, total, bursts>>

\* The request ends; after an error its copy goes back in the cache.
Leave(r) ==
  /\ req[r].on
  /\ cache' \in {cache, req[r].copy}
  /\ Become(r, IF req[r].pc = "idle" THEN Idle ELSE [req[r] EXCEPT !.on = FALSE])
  /\ UNCHANGED <<now, traffic, db, total, bursts>>

-----------------------------------------------------------------------------
(***************************************************************************)
(* addTrafficToUserTrafficMap.                                             *)
(***************************************************************************)

\* Mutant of Below: one more request than the threshold.
Below_OffByOne == traffic <= Threshold

Below == traffic < Threshold

\* The counter is read: below the threshold it will be incremented, above
\* this request is an incident.
Peek(r) ==
  /\ req[r].pc = "peek"
  /\ IF Below
     THEN Become(r, [req[r] EXCEPT !.pc = "inc"])
     ELSE Become(r, [req[r] EXCEPT !.inc = Incidents(traffic),
                       !.pc = IF req[r].basic THEN "flag" ELSE "load"])
  /\ UNCHANGED <<now, traffic, db, cache, total, bursts>>

Inc(r) ==
  /\ req[r].pc = "inc"
  /\ bursts < MaxTotal
  /\ traffic' = traffic + 1
  /\ bursts' = IF traffic + 1 = Threshold THEN bursts + 1 ELSE bursts
  /\ Become(r, Counted(req[r]))
  /\ UNCHANGED <<now, db, cache, total>>

\* An incident is judged by the user in the database.
Load(r) ==
  /\ req[r].pc = "load"
  /\ Become(r, [req[r] EXCEPT !.pc = "flag", !.fresh = db])
  /\ UNCHANGED <<now, traffic, db, cache, total, bursts>>

TimeOutIsDue(r) == req[r].fresh.high >= TotalThreshold

\* Mutant of Reset: an incident does not start the counter again.
Reset_Never == traffic' = traffic

Reset == traffic' = 0

\* The time-out is decided, the changed copy goes in the cache, the counter
\* starts again and the patch is on its way.
Flag(r) ==
  LET f == IF TimeOutIsDue(r) THEN AddTimeout(req[r].fresh, Duration) ELSE req[r].fresh
      u == [f EXCEPT !.high = @ + req[r].inc]
  IN
  /\ req[r].pc = "flag"
  /\ total + req[r].inc <= MaxTotal
  /\ Become(r, [req[r] EXCEPT !.pc = "write", !.fresh = u, !.out = TimeOutIsDue(r)])
  /\ cache' = u
  /\ Reset
  /\ total' = total + req[r].inc
  /\ UNCHANGED <<now, db, bursts>>

\* Mutant of Write: the count of the copy is written.
Write_Copy(r) ==
  /\ req[r].pc = "write"
  /\ db' = IF req[r].out THEN req[r].fresh ELSE [db EXCEPT !.high = req[r].fresh.high]
  /\ Become(r, Counted(req[r]))
  /\ UNCHANGED <<now, traffic, cache, total, bursts>>

\* The patch: incidents are added atomically, a time-out is written as the
\* copy has it.
Write(r) ==
  LET u == req[r].fresh IN
  /\ req[r].pc = "write"
  /\ db' = [db EXCEPT !.high = @ + req[r].inc,
                      !.times = IF req[r].out THEN u.times ELSE @,
                      !.until = IF req[r].out THEN u.until ELSE @]
  /\ Become(r, Counted(req[r]))
  /\ UNCHANGED <<now, traffic, cache, total, bursts>>

-----------------------------------------------------------------------------
(***************************************************************************)
(* Moderators, and what time brings.                                       *)
(***************************************************************************)

\* timeout_user looks the user up and computes the time-out ...
Judge(r, d) ==
  /\ req[r] = Idle
  /\ db.times < MaxTotal
  /\ Become(r, [Idle EXCEPT !.pc = "sentence", !.fresh = AddTimeout(db, d)])
  /\ UNCHANGED <<now, traffic, db, cache, total, bursts>>

\* ... and writes it; no field revokes, so the cached user stays as it is.
Sentence(r) ==
  /\ req[r].pc = "sentence"
  /\ db' = [db EXCEPT !.times = req[r].fresh.times, !.until = req[r].fresh.until]
  /\ Become(r, Idle)
  /\ UNCHANGED <<now, traffic, cache, total, bursts>>

\* handleCron, or the entry is pushed out of the traffic cache.
Clear ==
  /\ traffic > 0
  /\ traffic' = 0
  /\ UNCHANGED <<now, db, cache, req, total, bursts>>

\* The cached user expires, is pushed out, or is deleted by a revocation.
Evict ==
  /\ cache # NoEntry
  /\ cache' = NoEntry
  /\ UNCHANGED <<now, traffic, db, req, total, bursts>>

Tick ==
  /\ now < MaxTime
  /\ now' = now + 1
  /\ UNCHANGED <<traffic, db, cache, req, total, bursts>>

Next ==
  \/ \E r \in Requests :
       \/ \E cached \in BOOLEAN : Enter(r, cached)
       \/ EnterBasic(r) \/ Leave(r)
       \/ Peek(r) \/ Inc(r) \/ Load(r) \/ Flag(r) \/ Write(r)
       \/ \E d \in Sentences : Judge(r, d)
       \/ Sentence(r)
  \/ Clear \/ Evict \/ Tick

Spec == Init /\ [][Next]_vars

-----------------------------------------------------------------------------
\* Type invariant; increments that race can take the counter above the
\* threshold only as far as there are requests to race.
TypeOK ==
  /\ now \in 0..MaxTime
  /\ traffic \in 0..(Threshold + Cardinality(Requests) - 1)
  /\ db \in User
  /\ cache = NoEntry \/ cache \in User
  /\ req \in [Requests -> Slot]
  /\ total \in Nat
  /\ bursts \in Nat

\* Incidents add up: none is lost or counted twice on the way to the database,
\* and no cached copy accuses the user of more than was decided.
IncidentsAddUp ==
  /\ (\A r \in Requests : req[r].pc # "write") => db.high = total
  /\ db.high <= total
  /\ cache # NoEntry => cache.high <= total

\* One burst of traffic, however concurrent, is not recorded as more
\* incidents than there are requests under way when it is noticed (times two,
\* when increments that raced push the counter up to one and a half thresholds).
IncidentsPerBurst ==
  total <= bursts * Cardinality(Requests) * Incidents(Threshold + Cardinality(Requests) - 1)
=============================================================================
