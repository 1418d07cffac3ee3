----------------------------- MODULE IpTraffic -----------------------------
(***************************************************************************)
(* ddosProtection: the guard counts the requests of every IP and times an  *)
(* IP out that sent too many since the counters were last cleared.         *)
(*                                                                         *)
(* The counters are in a TrafficCache.  The one in memory is an LRU cache; *)
(* a shared one answers later, so that requests interleave between reading *)
(* a counter and acting on it.  Time-outs end at any time.                 *)
(***************************************************************************)
EXTENDS Naturals, Sequences, FiniteSets

CONSTANTS
  Ips,
  Requests,     \* slots for the requests being counted
  Threshold,    \* ipRequestsThreshold
  Capacity,     \* maxTrackedIPs
  Nowhere       \* the IP of a free slot

IpTrafficAssumption ==
  /\ Nowhere \notin Ips
  /\ IsFiniteSet(Requests)
  /\ Threshold \in Nat
  /\ Capacity \in Nat \ {0}

VARIABLES
  order,      \* the tracked IPs, least recently used first
  hits,       \* requests counted of each IP; 0 when it is not tracked
  timedOut,   \* the IPs that are timed out
  req,        \* what each slot is doing
  served      \* history: requests let through since the IP was last
              \* forgotten (cleared, pushed out) or its time-out ended

vars == <<order, hits, timedOut, req, served>>

Pcs == {"idle", "peek", "inc", "block"}

Idle == [pc |-> "idle", ip |-> Nowhere]

Become(r, next) == req' = [req EXCEPT ![r] = next]

Tracked == {order[i] : i \in 1..Len(order)}

\* An entry is taken from its place, which the others close up.
Without(s, ip) ==
  IF \E i \in 1..Len(s) : s[i] = ip
  THEN LET k == CHOOSE i \in 1..Len(s) : s[i] = ip
       IN  [i \in 1..(Len(s) - 1) |-> IF i < k THEN s[i] ELSE s[i + 1]]
  ELSE s

\* Reading an entry of the LRU cache makes it the most recent one.
Touch(ip) == IF ip \in Tracked THEN Append(Without(order, ip), ip) ELSE order

\* Writing one may push the oldest out.
Insert(ip) ==
  LET s == Append(Without(order, ip), ip)
  IN  IF Len(s) > Capacity THEN Tail(s) ELSE s

Forget(ips) ==
  /\ hits'   = [ip \in Ips |-> IF ip \in ips THEN 0 ELSE hits[ip]]
  /\ served' = [ip \in Ips |-> IF ip \in ips THEN 0 ELSE served[ip]]

Init ==
  /\ order = <<>>
  /\ hits = [ip \in Ips |-> 0]
  /\ timedOut = {}
  /\ req = [r \in Requests |-> Idle]
  /\ served = [ip \in Ips |-> 0]

-----------------------------------------------------------------------------
\* A request comes in; it is counted in either case, and refused when its IP
\* is timed out.  Counting is not awaited.
Enter(r, ip) ==
  /\ req[r] = Idle
  /\ Become(r, [pc |-> "peek", ip |-> ip])
  /\ served' = [served EXCEPT ![ip] = IF ip \in timedOut THEN @ ELSE @ + 1]
  /\ UNCHANGED <<order, hits, timedOut>>

\* Mutant of Peek: the comparison starts one threshold later.
Peek_TooLate(r) ==
  /\ req[r].pc = "peek"
  /\ order' = Touch(req[r].ip)
  /\ Become(r, [req[r] EXCEPT !.pc =
       IF hits[req[r].ip] > 2 * Threshold THEN "block" ELSE "inc"])
  /\ UNCHANGED <<hits, timedOut, served>>

\* The counter is read and compared.
Peek(r) ==
  /\ req[r].pc = "peek"
  /\ order' = Touch(req[r].ip)
  /\ Become(r, [req[r] EXCEPT !.pc =
       IF hits[req[r].ip] > Threshold THEN "block" ELSE "inc"])
  /\ UNCHANGED <<hits, timedOut, served>>

\* Mutant of Inc: a new entry does not push an old one out.
Inc_Unbounded(r) ==
  LET ip == req[r].ip IN
  /\ req[r].pc = "inc"
  /\ order' = Append(Without(order, ip), ip)
  /\ hits' = [hits EXCEPT ![ip] = @ + 1]
  /\ Become(r, Idle)
  /\ UNCHANGED <<timedOut, served>>

\* inc adds to the current value, under a mutex.
Inc(r) ==
  LET ip == req[r].ip
      kept == Insert(ip)
      out == {x \in Tracked : ~ \E i \in 1..Len(kept) : kept[i] = x} IN
  /\ req[r].pc = "inc"
  /\ order' = kept
  /\ hits' = [x \in Ips |-> IF x = ip THEN hits[x] + 1
                            ELSE IF x \in out THEN 0 ELSE hits[x]]
  /\ served' = [x \in Ips |-> IF x \in out THEN 0 ELSE served[x]]
  /\ Become(r, Idle)
  /\ UNCHANGED timedOut

\* Too many: the IP is timed out, from now; this request is not counted.
Block(r) ==
  /\ req[r].pc = "block"
  /\ timedOut' = timedOut \cup {req[r].ip}
  /\ Become(r, Idle)
  /\ UNCHANGED <<order, hits, served>>

\* A time-out passes.  The counter is as high as it was.
Expire(ip) ==
  /\ ip \in timedOut
  /\ timedOut' = timedOut \ {ip}
  /\ served' = [served EXCEPT ![ip] = 0]
  /\ UNCHANGED <<order, hits, req>>

\* Every five minutes: the counters are cleared, the time-outs are not.
Clear ==
  /\ order # <<>>
  /\ order' = <<>>
  /\ Forget(Ips)
  /\ UNCHANGED <<timedOut, req>>

Next ==
  \/ \E r \in Requests :
       \/ \E ip \in Ips : Enter(r, ip)
       \/ Peek(r) \/ Inc(r) \/ Block(r)
  \/ \E ip \in Ips : Expire(ip)
  \/ Clear

Spec == Init /\ [][Next]_vars

-----------------------------------------------------------------------------
\* Type invariant; no more IPs are tracked than the cache holds, each once.
TypeOK ==
  /\ order \in Seq(Ips) /\ Len(order) <= Capacity
  /\ \A i, j \in 1..Len(order) : order[i] = order[j] => i = j
  /\ hits \in [Ips -> Nat]
  /\ timedOut \subseteq Ips
  /\ req \in [Requests -> [pc : Pcs, ip : Ips \cup {Nowhere}]]
  /\ served \in [Ips -> Nat]

\* Between two moments at which an IP is forgotten or forgiven it gets no more
\* requests through than the threshold and two for each that can be under way:
\* one that found the counter at the threshold, one that waits for the
\* time-out to be set.  Requests one after the other: two above the threshold.
ServedBound ==
  \A ip \in Ips : served[ip] <= Threshold + 2 * Cardinality(Requests)
=============================================================================
