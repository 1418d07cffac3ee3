---------------------------- MODULE TrafficGuard ----------------------------
(***************************************************************************)
(* The guard's two protections: by IP (ddosProtection, before the user is  *)
(* known) and by user (userTrafficProtection, after).  Each is an option.  *)
(* They share no state and neither waits for the other, so a behaviour     *)
(* with both on is one of each side by side; here one is on.               *)
(***************************************************************************)
EXTENDS Naturals

CONSTANTS
  Ips, Nowhere, IpRequests, IpThreshold, Capacity,                \* IpTraffic
  Requests, NoEntry, UserThreshold, TotalThreshold, Duration,     \* UserTraffic
  Sentences, MaxTime, MaxTotal

VARIABLES
  protection,                                         \* the one that is on
  order, hits, timedOut, ipReq, served,               \* IpTraffic
  now, traffic, db, cache, userReq, total, bursts     \* UserTraffic

Ip == INSTANCE IpTraffic WITH
        Requests <- IpRequests, Threshold <- IpThreshold, req <- ipReq

User == INSTANCE UserTraffic WITH Threshold <- UserThreshold, req <- userReq

ASSUME TrafficAssumption == Ip!IpTrafficAssumption /\ User!UserTrafficAssumption

ipVars == <<order, hits, timedOut, ipReq, served>>
userVars == <<now, traffic, db, cache, userReq, total, bursts>>

vars == <<protection, ipVars, userVars>>

Init ==
  /\ protection \in {"ddosProtection", "userTrafficProtection"}
  /\ Ip!Init
  /\ User!Init

ByIp ==
  /\ protection = "ddosProtection"
  /\ Ip!Next
  /\ UNCHANGED <<protection, userVars>>

ByUser ==
  /\ protection = "userTrafficProtection"
  /\ User!Next
  /\ UNCHANGED <<protection, ipVars>>

Next == ByIp \/ ByUser

Spec == Init /\ [][Next]_vars

-----------------------------------------------------------------------------
\* Type invariant of both protections: no more IPs are tracked than the cache
\* holds, and racing increments take a user's counter only so far.
TypeOK == Ip!TypeOK /\ User!TypeOK

\* IpTraffic: how many requests an IP gets through before it is timed out.
ServedBound == Ip!ServedBound

\* UserTraffic: no incident is lost or counted twice.
IncidentsAddUp == User!IncidentsAddUp

\* UserTraffic: how many incidents one burst of traffic may be recorded as.
IncidentsPerBurst == User!IncidentsPerBurst
=============================================================================
