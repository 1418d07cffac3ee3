---------------------------- MODULE MsLinkProofs ----------------------------
(***************************************************************************)
(* Proofs about MsLink, for any processes, deployments and bounds.         *)
(*                                                                         *)
(* Basic is what is always true of each call: where it is, what has become *)
(* of it and who made it.  It is enough for the refinement.  Awaited adds, *)
(* for code that awaits its calls, that the calls which share a context    *)
(* are a chain whose last one only goes on, which is why the copy of the   *)
(* cookies that comes back may take the place of the caller's.             *)
(***************************************************************************)
EXTENDS MsLink, TLAPS, WellFoundedInduction

\* Who made c, where it is and whose context it has.
Lineage(c) ==
  /\ call[c].from < c
  /\ call[c].from = Root \/ call[c].from \in Made
  /\ call[c].by = ProcOf(call[c].from)
  /\ call[c].at = ProcOf(call[c].ctx)
  /\ CtxOf(call[c].ctx) = call[c].ctx
  /\ \/ IsRemote(c) /\ ~call[c].early
     \/ call[c].ctx = CtxOf(call[c].from) /\ call[c].ctx < c /\ call[c].at = call[c].by
  /\ call[c].ctx \in Calls \ {c} => call[call[c].ctx].did # "no"

\* The processes that may run it.
MayRun(c) ==
  IF call[c].early \/ Matches(call[c].service) = {}
  THEN {call[c].by} ELSE Matches(call[c].service)

\* What its stage says.
Staged(c) ==
  /\ call[c].stage # "none"
  /\ ~IsRemote(c) => call[c].stage \in {"method", "over"}
  /\ ~IsRemote(c) => (call[c].stage = "method" <=> call[c].got = "waiting")
  /\ call[c].stage \in {"sent", "before"} => call[c].did = "no"
  /\ call[c].stage = "method" => call[c].did = "begun"
  /\ call[c].stage \in {"before", "method"} => state[call[c].at] # "down"
  /\ call[c].stage \in {"after", "answered"} => call[c].did = "done"
  /\ call[c].got = "ok" => call[c].stage = "over"

CallOK(c) ==
  /\ call[c] \in Call
  /\ call[c].got # "no"
  /\ call[c].at \in MayRun(c)
  /\ Lineage(c)
  /\ Staged(c)

Routed ==
  \A s \in Services : (\E p \in Procs : Elsewhere(p, s)) => route[s] \in Matches(s)

Basic ==
  /\ TypeOK
  /\ call \in [Calls -> Call \cup {NoCall}]
  /\ \A c \in Made : CallOK(c)
  /\ root = "none" => Made = {}
  /\ root # "none" => home \in Procs
  /\ root = "live" => state[home] # "down"
  /\ Routed

-----------------------------------------------------------------------------
(***************************************************************************)
(* The cookies.  Parent is the context that a remote call copied, and that *)
(* its cookies go back to; From(x) are the cookies that were set in x or   *)
(* came to it with results.                                                *)
(***************************************************************************)
Parent(c) == CtxOf(call[c].from)
Waiting(c) == c \in Made /\ call[c].got = "waiting"
Actor(x) == (x = Root \/ x \in Made) /\ Active(x)

\* Where the pairs of E lead from x.
Leads(E, x) ==
  {y \in 0..MaxCalls : \A S \in SUBSET (0..MaxCalls) :
     x \in S /\ (\A e \in E : e[1] \in S => e[2] \in S) => y \in S}

Returned == {c \in Made : IsRemote(c) /\ call[c].got = "ok"}
Results == {<<Parent(c), c>> : c \in Returned}
Into(x) == Leads(Results, x)
From(x) == {c \in Made : call[c].set /\ call[c].ctx \in Into(x)}

\* Of those that share a context, each waits for a next one, up to the last.
Chain ==
  \A a \in 0..MaxCalls, b \in Calls :
    Actor(a) /\ Actor(b) /\ a < b /\ CtxOf(a) = CtxOf(b) =>
      \E c \in Made : /\ Waiting(c) /\ call[c].from = a /\ c <= b
                      /\ call[c].ctx = CtxOf(a)

Linear ==
  /\ \A c \in Made : Waiting(c) => Active(call[c].from)
  /\ \A b, c \in Made : Waiting(b) /\ Waiting(c) /\ call[b].from = call[c].from => b = c
  /\ \A c \in Made : Active(c) => Active(call[c].ctx)
  /\ Chain

Kept ==
  /\ cookies[Root] = From(Root)
  /\ \A c \in Made : Waiting(c) /\ IsRemote(c) => cookies[c] = cookies[Parent(c)] \cup From(c)

Awaited == ahead = 0 => Linear /\ Kept

-----------------------------------------------------------------------------
(***************************************************************************)
(* Lemmas about one call changing.                                         *)
(***************************************************************************)

LEMMA Bounds == MaxCalls \in Nat /\ MaxAhead \in Nat /\ MaxStops \in Nat /\ NoProc \notin Procs
  BY MsLinkAssumption DEF MsLinkAssumption

\* The same call, but for what becomes of it.
Same(c, next) ==
  /\ next \in Call
  /\ next.service = call[c].service /\ next.early = call[c].early
  /\ next.from = call[c].from /\ next.by = call[c].by
  /\ next.at = call[c].at /\ next.ctx = call[c].ctx

\* When a call changes, no call's place or lineage does.
LEMMA ChangeEffect ==
  ASSUME Basic, NEW c \in Made, NEW next, Same(c, next), Become(c, next),
         next.got # "no", UNCHANGED home
  PROVE  /\ call' \in [Calls -> Call \cup {NoCall}]
         /\ Made' = Made
         /\ call'[c] = next
         /\ \A b \in Calls : b # c => call'[b] = call[b]
         /\ \A b \in Made : /\ call'[b].service = call[b].service
                            /\ call'[b].early = call[b].early
                            /\ call'[b].from = call[b].from
                            /\ call'[b].by = call[b].by
                            /\ call'[b].at = call[b].at
                            /\ call'[b].ctx = call[b].ctx
         /\ \A x \in 0..MaxCalls : x = Root \/ x \in Made =>
              CtxOf(x)' = CtxOf(x) /\ ProcOf(x)' = ProcOf(x)
<1>1. call' \in [Calls -> Call \cup {NoCall}] /\ call'[c] = next
  BY DEF Basic, Become, Same, Made
<1>2. \A b \in Calls : b # c => call'[b] = call[b]
  BY DEF Basic, Become, Made
<1>3. next # NoCall
  BY DEF NoCall
<1>4. Made' = Made
  BY <1>1, <1>2, <1>3 DEF Made
<1>5. \A b \in Made : /\ call'[b].service = call[b].service
                      /\ call'[b].early = call[b].early
                      /\ call'[b].from = call[b].from
                      /\ call'[b].by = call[b].by
                      /\ call'[b].at = call[b].at
                      /\ call'[b].ctx = call[b].ctx
  BY <1>1, <1>2 DEF Same, Made
<1> QED
  BY <1>1, <1>2, <1>4, <1>5 DEF CtxOf, ProcOf

\* A call that changes keeps Basic when its stage fits the rest of it.
LEMMA ChangeKeepsBasic ==
  ASSUME Basic, NEW c \in Made, NEW next, Same(c, next), Become(c, next),
         next.got # "no", next.did = "no" => call[c].did = "no",
         UNCHANGED <<deployment, route, state, root, home, stops>>,
         ahead' \in 0..MaxAhead, cookies' \in [0..MaxCalls -> SUBSET Calls],
         Staged(c)'
  PROVE  Basic'
<1>1. UNCHANGED home
  OBVIOUS
<1>2. /\ call' \in [Calls -> Call \cup {NoCall}]
      /\ Made' = Made
      /\ call'[c] = next
      /\ \A b \in Calls : b # c => call'[b] = call[b]
  BY <1>1, ChangeEffect
<1>3. \A b \in Made : /\ call'[b].service = call[b].service
                      /\ call'[b].early = call[b].early
                      /\ call'[b].from = call[b].from
                      /\ call'[b].by = call[b].by
                      /\ call'[b].at = call[b].at
                      /\ call'[b].ctx = call[b].ctx
  BY <1>1, ChangeEffect
<1>4. \A x \in 0..MaxCalls : x = Root \/ x \in Made =>
              CtxOf(x)' = CtxOf(x) /\ ProcOf(x)' = ProcOf(x)
  BY <1>1, ChangeEffect
<1>5. ASSUME NEW b \in Made PROVE CallOK(b)'
  <2>1. CallOK(b) /\ b \in Calls
    BY DEF Basic, Made
  <2>2. call'[b] \in Call /\ call'[b].got # "no"
    BY <1>2, <2>1 DEF CallOK, Same
  <2>3. call'[b].at \in MayRun(b)'
    BY <1>3, <2>1 DEF CallOK, MayRun, Matches
  <2>4. Staged(b)'
    <3>1. CASE b = c
      BY <3>1
    <3>2. CASE b # c
      BY <3>2, <1>2, <2>1 DEF CallOK, Staged, IsRemote
    <3> QED
      BY <3>1, <3>2
  <2>5. Lineage(b)'
    <3>1. Lineage(b) /\ call[b] \in Call
      BY <2>1 DEF CallOK
    <3>2. call[b].from \in 0..MaxCalls /\ call[b].ctx \in 0..MaxCalls
      BY <3>1 DEF Call
    <3>3. call[b].ctx = Root \/ call[b].ctx \in Made
      <4>1. CASE IsRemote(b)
        BY <4>1 DEF IsRemote
      <4>2. CASE call[b].ctx \in Calls \ {b}
        BY <4>2, <3>1 DEF Lineage, Made, NoCall
      <4> QED
        BY <4>1, <4>2, <3>2, Bounds DEF IsRemote, Calls, Root
    <3>4. call[b].ctx \in Calls \ {b} => call'[call[b].ctx].did # "no"
      BY <3>1, <1>2, <3>3 DEF Lineage
    <3> QED
      BY <3>1, <3>2, <3>3, <3>4, <1>3, <1>4, <1>2 DEF Lineage, IsRemote
  <2> QED
    BY <2>2, <2>3, <2>4, <2>5 DEF CallOK
<1>6. Routed'
  BY DEF Basic, Routed, Elsewhere, Matches
<1>7. \A b \in Calls : Active(b)' => state'[call'[b].at] # "down"
  <2> SUFFICES ASSUME NEW b \in Calls, Active(b)' PROVE state'[call'[b].at] # "down"
    OBVIOUS
  <2>1. call'[b].stage = "method" /\ b \in Made
    BY Bounds, <1>2 DEF Active, Calls, Root, Made, NoCall
  <2> QED
    BY <2>1, <1>2, <1>5 DEF CallOK, Staged
<1> QED
  BY <1>2, <1>5, <1>6, <1>7 DEF Basic, TypeOK

-----------------------------------------------------------------------------
(***************************************************************************)
(* A new call.                                                             *)
(***************************************************************************)

\* An actor runs in a process that is not down, in a context no younger than
\* itself.
LEMMA ActorFacts ==
  ASSUME Basic, NEW x \in 0..MaxCalls, Active(x)
  PROVE  /\ x = Root \/ x \in Made
         /\ ProcOf(x) \in Procs /\ state[ProcOf(x)] \in {"starting", "up"}
         /\ CtxOf(x) \in 0..x
         /\ ProcOf(x) = ProcOf(CtxOf(x)) /\ CtxOf(CtxOf(x)) = CtxOf(x)
         /\ CtxOf(x) = Root \/ CtxOf(x) \in Made
         /\ root # "none"
<1>1. CASE x = Root
  BY <1>1 DEF Basic, TypeOK, Active, ProcOf, CtxOf, Root
<1>2. CASE x # Root
  <2>1. x \in Calls /\ call[x].stage = "method"
    BY <1>2, Bounds DEF Active, Calls, Root
  <2>2. x \in Made
    BY <2>1 DEF Made, NoCall
  <2>3. CallOK(x)
    BY <2>2 DEF Basic
  <2>4. call[x] \in Call /\ Lineage(x) /\ Staged(x)
    BY <2>3 DEF CallOK
  <2>5. call[x].at \in Procs /\ call[x].ctx \in 0..MaxCalls
    BY <2>4 DEF Call
  <2>6. state[call[x].at] \in {"starting", "up"}
    BY <2>4, <2>5, <2>1 DEF Staged, Basic, TypeOK
  <2>7. call[x].ctx \in 0..x
    BY <2>4, <2>5, <2>1, Bounds DEF Lineage, IsRemote, Calls
  <2>8. call[x].ctx = Root \/ call[x].ctx \in Made
    <3>1. CASE IsRemote(x)
      BY <3>1, <2>2 DEF IsRemote
    <3>2. CASE call[x].ctx \in Calls \ {x}
      BY <3>2, <2>4 DEF Lineage, Made, NoCall
    <3> QED
      BY <3>1, <3>2, <2>5, Bounds DEF IsRemote, Calls, Root
  <2> QED
    BY <1>2, <2>2, <2>4, <2>5, <2>6, <2>7, <2>8 DEF ProcOf, CtxOf, Lineage, Basic
<1> QED
  BY <1>1, <1>2

\* A new call leaves the others as they are.
LEMMA CreateEffect ==
  ASSUME Basic, NEW c \in Calls, NEW next \in Call, Become(c, next),
         Made = 1..(c - 1), next.got # "no", UNCHANGED home
  PROVE  /\ call' \in [Calls -> Call \cup {NoCall}]
         /\ c \notin Made /\ Made' = Made \cup {c}
         /\ call'[c] = next
         /\ \A b \in Calls : b # c => call'[b] = call[b]
         /\ \A b \in Made : b # c /\ b < c
         /\ \A x \in 0..MaxCalls : x = Root \/ x \in Made =>
              CtxOf(x)' = CtxOf(x) /\ ProcOf(x)' = ProcOf(x)
<1>1. c \notin Made /\ \A b \in Made : b # c /\ b < c
  BY Bounds DEF Calls
<1>2. next # NoCall
  BY DEF NoCall
<1>3. /\ call' \in [Calls -> Call \cup {NoCall}]
      /\ call'[c] = next
      /\ \A b \in Calls : b # c => call'[b] = call[b]
  BY DEF Basic, Become
<1>4. Made' = Made \cup {c}
  BY <1>1, <1>2, <1>3 DEF Made
<1> QED
  BY <1>1, <1>3, <1>4 DEF CtxOf, ProcOf, Made

LEMMA CreateKeepsBasic ==
  ASSUME Basic, NEW x \in 0..MaxCalls, Active(x), NEW c \in Calls,
         NEW next \in Call, Become(c, next), Made = 1..(c - 1),
         next.got = "waiting",
         next.from = x, next.by = ProcOf(x),
         next.at \in (IF next.early \/ Matches(next.service) = {}
                      THEN {next.by} ELSE Matches(next.service)),
         \/ next.ctx = c /\ ~next.early /\ next.stage = "sent" /\ next.did = "no"
         \/ /\ next.ctx = CtxOf(x) /\ next.at = next.by
            /\ next.stage = "method" /\ next.did = "begun",
         UNCHANGED <<deployment, route, state, root, home, stops>>,
         ahead' \in 0..MaxAhead, cookies' \in [0..MaxCalls -> SUBSET Calls]
  PROVE  Basic'
<1>1. /\ call' \in [Calls -> Call \cup {NoCall}]
      /\ c \notin Made /\ Made' = Made \cup {c}
      /\ call'[c] = next
      /\ \A b \in Calls : b # c => call'[b] = call[b]
      /\ \A b \in Made : b # c /\ b < c
  BY CreateEffect
<1>2. \A y \in 0..MaxCalls : y = Root \/ y \in Made =>
              CtxOf(y)' = CtxOf(y) /\ ProcOf(y)' = ProcOf(y)
  BY CreateEffect
<1>3. /\ x = Root \/ x \in Made
      /\ ProcOf(x) \in Procs /\ state[ProcOf(x)] \in {"starting", "up"}
      /\ CtxOf(x) \in 0..x
      /\ ProcOf(x) = ProcOf(CtxOf(x)) /\ CtxOf(CtxOf(x)) = CtxOf(x)
      /\ CtxOf(x) = Root \/ CtxOf(x) \in Made
      /\ root # "none"
  BY ActorFacts
<1>4. x < c /\ CtxOf(x) < c /\ CtxOf(x) \in 0..MaxCalls
  BY <1>1, <1>3, Bounds DEF Root, Calls
<1>5. ASSUME NEW b \in Made PROVE CallOK(b)'
  <2>1. CallOK(b) /\ b \in Calls /\ b # c
    BY <1>1 DEF Basic, Made
  <2>2. call'[b] = call[b]
    BY <2>1, <1>1
  <2>3. call[b] \in Call /\ Lineage(b)
    BY <2>1 DEF CallOK
  <2>4. call[b].from \in 0..MaxCalls /\ call[b].ctx \in 0..MaxCalls
    BY <2>3 DEF Call
  <2>5. call[b].ctx = Root \/ call[b].ctx \in Made
    <3>1. CASE IsRemote(b)
      BY <3>1 DEF IsRemote
    <3>2. CASE call[b].ctx \in Calls \ {b}
      BY <3>2, <2>3 DEF Lineage, Made, NoCall
    <3> QED
      BY <3>1, <3>2, <2>4, Bounds DEF IsRemote, Calls, Root
  <2>6. call[b].ctx \in Calls \ {b} => call'[call[b].ctx].did # "no"
    BY <2>3, <1>1, <2>5 DEF Lineage, Root, Calls
  <2>7. Lineage(b)'
    BY <2>2, <2>3, <2>4, <2>5, <2>6, <1>1, <1>2 DEF Lineage, IsRemote
  <2> QED
    BY <2>1, <2>2, <2>7 DEF CallOK, MayRun, Matches, Staged, IsRemote
<1>6. CallOK(c)'
  <2>1. call'[c].at \in MayRun(c)'
    BY <1>1 DEF MayRun, Matches
  <2>2. Staged(c)'
    BY <1>1, <1>3, <1>4 DEF Staged, IsRemote
  <2>3. /\ ProcOf(x)' = ProcOf(x) /\ CtxOf(x)' = CtxOf(x)
        /\ ProcOf(CtxOf(x))' = ProcOf(CtxOf(x))
        /\ CtxOf(CtxOf(x))' = CtxOf(CtxOf(x))
    BY <1>2, <1>3, <1>4
  <2>6. /\ call'[c].from = x /\ call'[c].by = ProcOf(x)
        /\ ProcOf(call[c].from)' = ProcOf(x)
        /\ CtxOf(call[c].from)' = CtxOf(x)
    BY <2>3, <1>1 DEF ProcOf, CtxOf
  <2>4. CASE next.ctx = c /\ ~next.early
    <3>1. call'[c].at = ProcOf(call[c].ctx)' /\ CtxOf(call[c].ctx)' = call'[c].ctx
      BY <2>4, <1>1, Bounds DEF ProcOf, CtxOf, Calls, Root
    <3> QED
      BY <2>1, <2>2, <2>4, <2>6, <3>1, <1>1, <1>3, <1>4, Bounds DEF CallOK, Lineage, IsRemote
  <2>5. CASE next.ctx = CtxOf(x) /\ next.at = next.by
    <3>1. call'[c].at = ProcOf(call[c].ctx)' /\ CtxOf(call[c].ctx)' = call'[c].ctx
      BY <2>5, <2>3, <1>1, <1>3 DEF ProcOf, CtxOf
    <3>2. ASSUME next.ctx \in Calls \ {c} PROVE call'[next.ctx].did # "no"
      <4>1. next.ctx \in Made
        BY <3>2, <2>5, <1>3, Bounds DEF Calls, Root
      <4>2. CASE x = next.ctx
        <5>1. CallOK(x) /\ call[x].stage = "method"
          BY <4>1, <4>2, Bounds DEF Basic, Active, Made, Calls, Root
        <5> QED
          BY <5>1, <4>2, <3>2, <1>1, <4>1 DEF CallOK, Staged
      <4>3. CASE x # next.ctx
        <5>1. x \in Made /\ next.ctx = call[x].ctx
          BY <4>3, <3>2, <2>5, <1>3, Bounds DEF CtxOf, Root, Calls
        <5>2. call[next.ctx].did # "no"
          BY <5>1, <4>1, <4>3 DEF Basic, CallOK, Lineage, Made
        <5> QED
          BY <5>2, <3>2, <1>1
      <4> QED
        BY <4>2, <4>3
    <3> QED
      BY <2>1, <2>2, <3>1, <3>2, <2>5, <2>6, <1>1, <1>3, <1>4 DEF CallOK, Lineage
  <2> QED
    BY <2>4, <2>5
<1>7. Routed'
  BY DEF Basic, Routed, Elsewhere, Matches
<1>8. \A b \in Made' : CallOK(b)'
  BY <1>1, <1>5, <1>6
<1>9. \A b \in Calls : Active(b)' => state'[call'[b].at] # "down"
  <2> SUFFICES ASSUME NEW b \in Calls, Active(b)' PROVE state'[call'[b].at] # "down"
    OBVIOUS
  <2>1. call'[b].stage = "method"
    BY Bounds DEF Active, Calls, Root
  <2>2. b \in Made'
    BY <2>1 DEF Made, NoCall
  <2> QED
    BY <2>1, <2>2, <1>8 DEF CallOK, Staged
<1>10. root' # "none"
  BY <1>3
<1> QED
  BY <1>1, <1>7, <1>8, <1>9, <1>10 DEF Basic, TypeOK

-----------------------------------------------------------------------------
(***************************************************************************)
(* Every step keeps Basic.                                                 *)
(***************************************************************************)

LEMMA GoesOnWithinBound ==
  ASSUME ahead \in 0..MaxAhead, NEW x, GoesOn(x)
  PROVE  ahead' \in 0..MaxAhead /\ ahead <= ahead'
  BY Bounds DEF GoesOn

LEMMA InitKeepsBasic == Init => Basic
<1> SUFFICES ASSUME Init PROVE Basic
  OBVIOUS
<1>1. Made = {}
  BY DEF Init, Made
<1>2. Routed
  BY DEF Init, Routed, Targets
<1>3. \A c \in Calls : ~Active(c)
  BY Bounds DEF Init, Active, Calls, Root, NoCall
<1> QED
  BY <1>1, <1>2, <1>3, Bounds DEF Init, Basic, TypeOK

LEMMA CallLocalKeepsBasic ==
  ASSUME Basic, NEW x \in 0..MaxCalls, NEW c \in Calls, NEW s \in Services,
         CallLocal(x, c, s)
  PROVE  Basic'
<1> DEFINE next == NewCall(x, c, s)
<1>1. /\ Active(x) /\ ~Remote(ProcOf(x), s)
      /\ Made = 1..(c - 1)
      /\ Become(c, next)
      /\ GoesOn(x)
      /\ UNCHANGED <<deployment, route, state, root, home, cookies, stops>>
  BY DEF CallLocal
<1>2. /\ ProcOf(x) \in Procs /\ state[ProcOf(x)] \in {"starting", "up"}
      /\ CtxOf(x) \in 0..x
  BY <1>1, ActorFacts
<1>3. /\ next \in Call /\ next.got = "waiting" /\ next.from = x
      /\ next.by = ProcOf(x) /\ next.at = next.by /\ next.ctx = CtxOf(x)
      /\ next.stage = "method" /\ next.did = "begun"
      /\ next.early = (state[ProcOf(x)] = "starting") /\ next.service = s
  BY <1>2, Bounds DEF NewCall, Call, Stages
<1>4. next.early \/ Matches(s) = {} \/ ProcOf(x) \in Matches(s)
  BY <1>1, <1>2, <1>3 DEF Remote, Elsewhere
<1>5. ahead' \in 0..MaxAhead
  BY <1>1, GoesOnWithinBound DEF Basic, TypeOK
<1>6. cookies' \in [0..MaxCalls -> SUBSET Calls]
  BY <1>1 DEF Basic, TypeOK
<1> HIDE DEF next
<1> QED
  BY <1>1, <1>3, <1>4, <1>5, <1>6, CreateKeepsBasic

LEMMA CallRemoteKeepsBasic ==
  ASSUME Basic, NEW x \in 0..MaxCalls, NEW c \in Calls, NEW s \in Services,
         CallRemote(x, c, s)
  PROVE  Basic'
<1> DEFINE next == [NewCall(x, c, s) EXCEPT
                      !.at = route[s], !.ctx = c, !.stage = "sent", !.did = "no"]
<1>1. /\ Active(x) /\ Remote(ProcOf(x), s)
      /\ Made = 1..(c - 1)
      /\ Become(c, next)
      /\ cookies' = [cookies EXCEPT ![c] = cookies[CtxOf(x)]]
      /\ GoesOn(x)
      /\ UNCHANGED <<deployment, route, state, root, home, stops>>
  BY DEF CallRemote
<1>2. /\ ProcOf(x) \in Procs /\ CtxOf(x) \in 0..x
  BY <1>1, ActorFacts
<1>3. route[s] \in Matches(s) /\ route[s] \in Procs
  BY <1>1, <1>2 DEF Basic, Routed, Remote, Matches
<1>4. /\ next \in Call /\ next.got = "waiting" /\ next.from = x
      /\ next.by = ProcOf(x) /\ next.at = route[s] /\ next.ctx = c
      /\ next.stage = "sent" /\ next.did = "no"
      /\ ~next.early /\ next.service = s
  <2> DEFINE new == NewCall(x, c, s)
  <2>1. state[ProcOf(x)] # "starting" /\ ProcOf(x) \in Procs /\ CtxOf(x) \in 0..MaxCalls
    BY <1>1, <1>2, Bounds DEF Remote
  <2>2. /\ new \in Call /\ new.got = "waiting" /\ new.from = x
        /\ new.by = ProcOf(x) /\ ~new.early /\ new.service = s
    BY <2>1 DEF NewCall, Call, Stages
  <2>3. c \in 0..MaxCalls
    BY Bounds DEF Calls
  <2>4. next = [new EXCEPT !.at = route[s], !.ctx = c, !.stage = "sent", !.did = "no"]
    OBVIOUS
  <2> HIDE DEF new, next
  <2> QED
    BY <2>2, <2>3, <2>4, <1>3 DEF Call, Stages
<1>5. ahead' \in 0..MaxAhead
  BY <1>1, GoesOnWithinBound DEF Basic, TypeOK
<1>6. cookies' \in [0..MaxCalls -> SUBSET Calls]
  <2>1. cookies \in [0..MaxCalls -> SUBSET Calls]
    BY DEF Basic, TypeOK
  <2>2. cookies[CtxOf(x)] \in SUBSET Calls
    BY <2>1, <1>2, Bounds
  <2> QED
    BY <2>1, <2>2, <1>1
<1> HIDE DEF next
<1> QED
  BY <1>1, <1>3, <1>4, <1>5, <1>6, CreateKeepsBasic

\* How a call may go on: the fields that may change.
Turns(c, stage, got, did, set) ==
  Become(c, [call[c] EXCEPT !.stage = stage, !.got = got, !.did = did, !.set = set])

\* A step of one call keeps Basic if what it has become fits.
LEMMA StepKeepsBasic ==
  ASSUME Basic, NEW c \in Made, NEW stage \in Stages \ {"none"},
         NEW got \in {"waiting", "ok", "error", "gone"},
         NEW did \in {"no", "begun", "done", "threw", "cut"}, NEW set \in BOOLEAN,
         Turns(c, stage, got, did, set),
         UNCHANGED <<deployment, route, state, root, home, stops>>,
         ahead' \in 0..MaxAhead, cookies' \in [0..MaxCalls -> SUBSET Calls],
         did = "no" => call[c].did = "no",
         ~IsRemote(c) => stage \in {"method", "over"},
         ~IsRemote(c) => (stage = "method" <=> got = "waiting"),
         stage \in {"sent", "before"} => did = "no",
         stage = "method" => did = "begun",
         stage \in {"before", "method"} => state[call[c].at] # "down",
         stage \in {"after", "answered"} => did = "done",
         got = "ok" => stage = "over"
  PROVE  Basic'
<1> DEFINE next == [call[c] EXCEPT !.stage = stage, !.got = got, !.did = did, !.set = set]
<1>1. /\ Same(c, next) /\ next.got # "no"
      /\ next.stage = stage /\ next.got = got /\ next.did = did /\ next.set = set
  <2>1. call[c] \in Call
    BY DEF Basic, CallOK
  <2> QED
    BY <2>1 DEF Same, Call
<1>2. Become(c, next) /\ UNCHANGED home
  BY DEF Turns
<1> HIDE DEF next
<1>3. call'[c] = next
  BY <1>1, <1>2, ChangeEffect
<1>4. Staged(c)'
  BY <1>1, <1>3 DEF Staged, IsRemote, Same
<1> QED
  BY <1>1, <1>2, <1>4, ChangeKeepsBasic

\* The fields of a call, each with its values.
LEMMA Fields ==
  ASSUME Basic, NEW c \in Made
  PROVE  /\ call[c].stage \in Stages \ {"none"}
         /\ call[c].got \in {"waiting", "ok", "error", "gone"}
         /\ call[c].did \in {"no", "begun", "done", "threw", "cut"}
         /\ call[c].set \in BOOLEAN
         /\ call[c].service \in Services /\ call[c].early \in BOOLEAN
         /\ call[c].from \in 0..MaxCalls /\ call[c].ctx \in 0..MaxCalls
         /\ call[c].by \in Procs /\ call[c].at \in Procs
         /\ c \in Calls /\ c \in 0..MaxCalls /\ c # Root
         /\ Staged(c) /\ Lineage(c)
         /\ Active(c) <=> call[c].stage = "method"
         /\ ahead \in 0..MaxAhead /\ cookies \in [0..MaxCalls -> SUBSET Calls]
<1>1. call[c] \in Call /\ call[c].got # "no" /\ Staged(c) /\ Lineage(c) /\ c \in Calls
  BY DEF Basic, CallOK, Made
<1>2. call[c].got \in {"no", "waiting", "ok", "error", "gone"}
  BY <1>1 DEF Call
<1>3. c \in 0..MaxCalls /\ c # Root
  BY <1>1, Bounds DEF Calls, Root
<1> QED
  BY <1>1, <1>2, <1>3 DEF Call, Active, Basic, TypeOK, Staged

\* A step that says some of the fields says them all.
LEMMA TurnsAs ==
  ASSUME Basic, NEW c \in Made
  PROVE  /\ \A stage : Become(c, [call[c] EXCEPT !.stage = stage])
              => Turns(c, stage, call[c].got, call[c].did, call[c].set)
         /\ \A got : Become(c, [call[c] EXCEPT !.got = got])
              => Turns(c, call[c].stage, got, call[c].did, call[c].set)
         /\ \A stage, got : Become(c, [call[c] EXCEPT !.stage = stage, !.got = got])
              => Turns(c, stage, got, call[c].did, call[c].set)
         /\ \A stage, did : Become(c, [call[c] EXCEPT !.stage = stage, !.did = did])
              => Turns(c, stage, call[c].got, did, call[c].set)
         /\ \A stage, got, did :
              Become(c, [call[c] EXCEPT !.did = did, !.stage = stage, !.got = got])
              => Turns(c, stage, got, did, call[c].set)
         /\ \A set : Become(c, [call[c] EXCEPT !.set = set])
              => Turns(c, call[c].stage, call[c].got, call[c].did, set)
<1> DEFINE r == call[c]
<1>1. r \in Call
  BY DEF Basic, CallOK
<1> HIDE DEF r
<1>2. \A stage : [r EXCEPT !.stage = stage]
              = [r EXCEPT !.stage = stage, !.got = r.got, !.did = r.did, !.set = r.set]
  BY <1>1 DEF Call
<1>3. \A got : [r EXCEPT !.got = got]
              = [r EXCEPT !.stage = r.stage, !.got = got, !.did = r.did, !.set = r.set]
  BY <1>1 DEF Call
<1>4. \A stage, got : [r EXCEPT !.stage = stage, !.got = got]
              = [r EXCEPT !.stage = stage, !.got = got, !.did = r.did, !.set = r.set]
  BY <1>1 DEF Call
<1>5. \A stage, did : [r EXCEPT !.stage = stage, !.did = did]
              = [r EXCEPT !.stage = stage, !.got = r.got, !.did = did, !.set = r.set]
  BY <1>1 DEF Call
<1>6. \A stage, got, did : [r EXCEPT !.did = did, !.stage = stage, !.got = got]
              = [r EXCEPT !.stage = stage, !.got = got, !.did = did, !.set = r.set]
  BY <1>1 DEF Call
<1>7. \A set : [r EXCEPT !.set = set]
              = [r EXCEPT !.stage = r.stage, !.got = r.got, !.did = r.did, !.set = set]
  BY <1>1 DEF Call
<1> QED
  BY <1>2, <1>3, <1>4, <1>5, <1>6, <1>7 DEF r, Turns, Become

\* A call that some guard speaks of has been made.
LEMMA GuardMeansMade ==
  ASSUME NEW c \in Calls, call[c].got # "no" \/ call[c].stage # "none"
  PROVE  c \in Made
  BY DEF Made, NoCall

LEMMA SetCookieKeepsBasic ==
  ASSUME Basic, NEW c \in Calls, SetCookie(c) PROVE Basic'
<1>1. c \in Made /\ Active(c) /\ GoesOn(c)
  BY GuardMeansMade, Bounds DEF SetCookie, Active, Calls, Root
<1>2. /\ call[c].stage = "method" /\ Staged(c) /\ call[c].ctx \in 0..MaxCalls
      /\ ahead \in 0..MaxAhead /\ cookies \in [0..MaxCalls -> SUBSET Calls]
  BY <1>1, Fields
<1>3. Turns(c, call[c].stage, call[c].got, call[c].did, TRUE)
  BY <1>1, TurnsAs DEF SetCookie
<1>4. ahead' \in 0..MaxAhead
  BY <1>1, <1>2, GoesOnWithinBound
<1>5. cookies' \in [0..MaxCalls -> SUBSET Calls]
  BY <1>1, <1>2 DEF SetCookie, Made
<1>6. UNCHANGED <<deployment, route, state, root, home, stops>>
  BY DEF SetCookie
<1>7. /\ call[c].stage \in Stages \ {"none"} /\ call[c].stage = "method"
      /\ call[c].got \in {"waiting", "ok", "error", "gone"}
      /\ call[c].did \in {"no", "begun", "done", "threw", "cut"}
      /\ ~IsRemote(c) => call[c].got = "waiting"
      /\ call[c].did = "begun" /\ state[call[c].at] # "down"
      /\ call[c].got # "ok"
  BY <1>1, <1>2, Fields DEF Staged
<1> QED
  BY <1>1, <1>2, <1>3, <1>4, <1>5, <1>6, <1>7, StepKeepsBasic

LEMMA FinishKeepsBasic ==
  ASSUME Basic, NEW c \in Calls, Finish(c) PROVE Basic'
<1>1. c \in Made /\ Active(c) /\ GoesOn(c)
  BY GuardMeansMade, Bounds DEF Finish, Active, Calls, Root
<1>2. /\ call[c].stage = "method" /\ Staged(c)
      /\ ahead \in 0..MaxAhead /\ cookies \in [0..MaxCalls -> SUBSET Calls]
  BY <1>1, Fields
<1> DEFINE stage == IF IsRemote(c) THEN "after" ELSE "over"
           got == IF IsRemote(c) THEN call[c].got ELSE "ok"
<1>3. Turns(c, stage, got, "done", call[c].set)
  BY <1>1, TurnsAs DEF Finish
<1>4. ahead' \in 0..MaxAhead
  BY <1>1, <1>2, GoesOnWithinBound
<1>5. cookies' \in [0..MaxCalls -> SUBSET Calls]
  BY <1>2 DEF Finish
<1>6. UNCHANGED <<deployment, route, state, root, home, stops>>
  BY DEF Finish
<1>7. /\ stage \in Stages /\ got \in {"waiting", "ok", "error", "gone"}
      /\ stage \in {"after", "over"} /\ (~IsRemote(c) => stage = "over" /\ got # "waiting")
      /\ got = "ok" => stage = "over"
  BY <1>1, <1>2, Fields DEF Stages, Staged
<1> HIDE DEF stage, got
<1> QED
  BY <1>1, <1>3, <1>4, <1>5, <1>6, <1>7, Fields, StepKeepsBasic

LEMMA ThrowKeepsBasic ==
  ASSUME Basic, NEW c \in Calls, Throw(c) PROVE Basic'
<1>1. c \in Made /\ Active(c) /\ GoesOn(c)
  BY GuardMeansMade, Bounds DEF Throw, Active, Calls, Root
<1>2. /\ call[c].stage = "method" /\ Staged(c)
      /\ ahead \in 0..MaxAhead /\ cookies \in [0..MaxCalls -> SUBSET Calls]
  BY <1>1, Fields
<1> DEFINE stage == IF IsRemote(c) THEN "failed" ELSE "over"
           got == IF IsRemote(c) THEN call[c].got ELSE "error"
<1>3. Turns(c, stage, got, "threw", call[c].set)
  BY <1>1, TurnsAs DEF Throw
<1>4. ahead' \in 0..MaxAhead
  BY <1>1, <1>2, GoesOnWithinBound
<1>5. cookies' \in [0..MaxCalls -> SUBSET Calls]
  BY <1>2 DEF Throw
<1>6. UNCHANGED <<deployment, route, state, root, home, stops>>
  BY DEF Throw
<1>7. /\ stage \in Stages /\ got \in {"waiting", "ok", "error", "gone"}
      /\ stage \in {"failed", "over"} /\ (~IsRemote(c) => stage = "over" /\ got # "waiting")
      /\ got = "ok" => stage = "over"
  BY <1>1, <1>2, Fields DEF Stages, Staged
<1> HIDE DEF stage, got
<1> QED
  BY <1>1, <1>3, <1>4, <1>5, <1>6, <1>7, Fields, StepKeepsBasic

LEMMA BreakKeepsBasic ==
  ASSUME Basic, NEW c \in Calls, Break(c) PROVE Basic'
<1>1. c \in Made /\ IsRemote(c) /\ call[c].got = "waiting"
  BY GuardMeansMade DEF Break, Hears
<1>2. UNCHANGED <<deployment, route, state, root, home, stops>>
  BY DEF Break, Others
<1>3. ahead' \in 0..MaxAhead /\ cookies' \in [0..MaxCalls -> SUBSET Calls]
  BY <1>1, Fields DEF Break, Others
<1>4. PICK stage \in {call[c].stage, "over"} :
        Turns(c, stage, "error", call[c].did, call[c].set)
  BY <1>1, TurnsAs DEF Break
<1>5. "over" \in Stages
  BY DEF Stages
<1> QED
  BY <1>1, <1>2, <1>3, <1>4, <1>5, Fields, StepKeepsBasic DEF Staged

LEMMA ArriveKeepsBasic ==
  ASSUME Basic, NEW c \in Calls, Arrive(c) PROVE Basic'
<1>1. c \in Made /\ call[c].stage = "sent"
  BY GuardMeansMade DEF Arrive
<1>2. UNCHANGED <<deployment, route, state, root, home, stops>>
  BY DEF Arrive, Others
<1>3. ahead' \in 0..MaxAhead /\ cookies' \in [0..MaxCalls -> SUBSET Calls]
  BY <1>1, Fields DEF Arrive, Others
<1>4. PICK stage \in {"failed", "before"} :
        Turns(c, stage, call[c].got, call[c].did, call[c].set)
  BY <1>1, TurnsAs DEF Arrive
<1>6. state[call[c].at] # "down" /\ IsRemote(c) /\ call[c].got # "ok" /\ call[c].did = "no"
  BY <1>1, Fields DEF Arrive, Staged
<1>5. "failed" \in Stages /\ "before" \in Stages
  BY DEF Stages
<1> QED
  BY <1>1, <1>2, <1>3, <1>4, <1>5, <1>6, Fields, StepKeepsBasic

LEMMA BeforeKeepsBasic ==
  ASSUME Basic, NEW c \in Calls, Before(c) PROVE Basic'
<1>1. c \in Made /\ call[c].stage = "before"
  BY GuardMeansMade DEF Before
<1>2. UNCHANGED <<deployment, route, state, root, home, stops>>
  BY DEF Before, Others
<1>3. ahead' \in 0..MaxAhead /\ cookies' \in [0..MaxCalls -> SUBSET Calls]
  BY <1>1, Fields DEF Before, Others
<1>5. "failed" \in Stages /\ "method" \in Stages
  BY DEF Stages
<1>4. state[call[c].at] # "down" /\ IsRemote(c) /\ call[c].got # "ok" /\ call[c].did = "no"
  BY <1>1, Fields DEF Staged
<1>6. CASE Become(c, [call[c] EXCEPT !.stage = "failed"])
  <2>1. Turns(c, "failed", call[c].got, call[c].did, call[c].set)
    BY <1>1, <1>6, TurnsAs
  <2> QED
    BY <1>1, <1>2, <1>3, <1>4, <1>5, <2>1, Fields, StepKeepsBasic
<1>7. CASE Become(c, [call[c] EXCEPT !.stage = "method", !.did = "begun"])
  <2>1. Turns(c, "method", call[c].got, "begun", call[c].set)
    BY <1>1, <1>7, TurnsAs
  <2> QED
    BY <1>1, <1>2, <1>3, <1>4, <1>5, <2>1, Fields, StepKeepsBasic
<1> QED
  BY <1>6, <1>7 DEF Before

LEMMA AfterKeepsBasic ==
  ASSUME Basic, NEW c \in Calls, After(c) PROVE Basic'
<1>1. c \in Made /\ call[c].stage = "after"
  BY GuardMeansMade DEF After
<1>2. UNCHANGED <<deployment, route, state, root, home, stops>>
  BY DEF After, Others
<1>3. ahead' \in 0..MaxAhead /\ cookies' \in [0..MaxCalls -> SUBSET Calls]
  BY <1>1, Fields DEF After, Others
<1>4. PICK stage \in {"answered", "failed"} :
        Turns(c, stage, call[c].got, call[c].did, call[c].set)
  BY <1>1, TurnsAs DEF After
<1>5. "answered" \in Stages /\ "failed" \in Stages
  BY DEF Stages
<1>6. IsRemote(c) /\ call[c].got # "ok" /\ call[c].did = "done"
  BY <1>1, Fields DEF Staged
<1> QED
  BY <1>1, <1>2, <1>3, <1>4, <1>5, <1>6, Fields, StepKeepsBasic

LEMMA DeliverKeepsBasic ==
  ASSUME Basic, NEW c \in Calls, Deliver(c) PROVE Basic'
<1>1. c \in Made /\ IsRemote(c) /\ call[c].got = "waiting"
  BY GuardMeansMade DEF Deliver, Hears
<1>2. UNCHANGED <<deployment, route, state, root, home, stops>>
  BY DEF Deliver, Others
<1>3. ahead' \in 0..MaxAhead
  BY <1>1, Fields DEF Deliver, Others
<1>4. PICK got \in {"ok", "error"} : Turns(c, "over", got, call[c].did, call[c].set)
  BY <1>1, TurnsAs DEF Deliver
<1>5. cookies' \in [0..MaxCalls -> SUBSET Calls]
  <2> DEFINE x == CtxOf(call[c].from)
  <2>1. cookies \in [0..MaxCalls -> SUBSET Calls] /\ c \in 0..MaxCalls
    BY <1>1, Fields
  <2>2. CASE UNCHANGED cookies
    BY <2>1, <2>2
  <2>3. CASE cookies' = [cookies EXCEPT ![x] = Merged(@, cookies[c])]
    <3>1. x \in 0..MaxCalls => Merged(cookies[x], cookies[c]) \in SUBSET Calls
      BY <2>1 DEF Merged
    <3> HIDE DEF x
    <3> QED
      BY <2>1, <2>3, <3>1
  <2> QED
    BY <2>2, <2>3 DEF Deliver
<1>6. "over" \in Stages
  BY DEF Stages
<1> QED
  BY <1>1, <1>2, <1>3, <1>4, <1>5, <1>6, Fields, StepKeepsBasic

LEMMA ResetKeepsBasic ==
  ASSUME Basic, NEW c \in Calls, Reset(c) PROVE Basic'
<1>1. c \in Made /\ IsRemote(c) /\ call[c].stage = "over"
  BY GuardMeansMade DEF Reset, Hears
<1>2. UNCHANGED <<deployment, route, state, root, home, stops>>
  BY DEF Reset, Others
<1>3. ahead' \in 0..MaxAhead /\ cookies' \in [0..MaxCalls -> SUBSET Calls]
  BY <1>1, Fields DEF Reset, Others
<1>4. Turns(c, "over", "error", call[c].did, call[c].set)
  BY <1>1, TurnsAs DEF Reset
<1>5. "over" \in Stages
  BY DEF Stages
<1> QED
  BY <1>1, <1>2, <1>3, <1>4, <1>5, Fields, StepKeepsBasic

LEMMA RefuseKeepsBasic ==
  ASSUME Basic, NEW c \in Calls, Refuse(c) PROVE Basic'
<1>1. c \in Made /\ call[c].stage = "sent"
  BY GuardMeansMade DEF Refuse
<1>2. UNCHANGED <<deployment, route, state, root, home, stops>>
  BY DEF Refuse, Others
<1>3. ahead' \in 0..MaxAhead /\ cookies' \in [0..MaxCalls -> SUBSET Calls]
  BY <1>1, Fields DEF Refuse, Others
<1> DEFINE got == IF call[c].got = "waiting" THEN "error" ELSE call[c].got
<1>4. Turns(c, "over", got, call[c].did, call[c].set)
  BY <1>1, TurnsAs DEF Refuse
<1>5. "over" \in Stages
  BY DEF Stages
<1>6. got \in {"waiting", "ok", "error", "gone"} /\ IsRemote(c) /\ call[c].got # "ok"
  BY <1>1, Fields DEF Staged
<1> HIDE DEF got
<1> QED
  BY <1>1, <1>2, <1>3, <1>4, <1>5, <1>6, Fields, StepKeepsBasic

\* Steps that leave the calls alone.
LEMMA StillCalls ==
  ASSUME Basic, UNCHANGED <<deployment, route, call, cookies, stops>>,
         ahead' \in 0..MaxAhead,
         home' = home \/ Made = {},
         root' \in {"none", "live", "over"}, home' \in Procs \cup {NoProc},
         state' \in [Procs -> {"starting", "up", "down"}],
         \A p \in Procs : state'[p] = "down" => state[p] = "down",
         root' = "none" => Made = {},
         root' # "none" => home' \in Procs,
         root' = "live" => state'[home'] # "down"
  PROVE  Basic'
<1>1. Made' = Made
  BY DEF Made
<1>2. ASSUME NEW c \in Made PROVE CallOK(c)'
  <2>1. CallOK(c) /\ call[c].at \in Procs
    BY Fields DEF Basic
  <2>2. home' = home
    BY <1>2
  <2> QED
    BY <1>1, <2>1, <2>2 DEF CallOK, Lineage, Staged, MayRun, Matches, IsRemote, ProcOf, CtxOf
<1>3. Routed'
  BY DEF Basic, Routed, Elsewhere, Matches
<1>4. \A c \in Calls : Active(c)' => state'[call'[c].at] # "down"
  <2> SUFFICES ASSUME NEW c \in Calls, Active(c)' PROVE state'[call'[c].at] # "down"
    OBVIOUS
  <2>1. call[c].stage = "method"
    BY Bounds DEF Active, Calls, Root
  <2>2. c \in Made
    BY <2>1 DEF Made, NoCall
  <2> QED
    BY <2>1, <2>2, <1>2 DEF CallOK, Staged
<1> QED
  BY <1>1, <1>2, <1>3, <1>4 DEF Basic, TypeOK

LEMMA OthersKeepBasic ==
  ASSUME Basic, NEW p \in Procs,
         \/ \E s \in Services : Request(p, s)
         \/ StartUp(p) \/ Start(p) \/ Started(p) \/ RootEnds
  PROVE  Basic'
<1>1. /\ ahead \in 0..MaxAhead /\ root \in {"none", "live", "over"}
      /\ home \in Procs \cup {NoProc} /\ state \in [Procs -> {"starting", "up", "down"}]
      /\ root = "none" => Made = {}
      /\ root # "none" => home \in Procs
      /\ root = "live" => state[home] # "down"
  BY DEF Basic, TypeOK
<1>2. CASE \E s \in Services : Request(p, s)
  <2> PICK s \in Services : Request(p, s)
    BY <1>2
  <2>1. /\ home' \in Procs /\ root' = "live" /\ root = "none" /\ state[home'] = "up"
        /\ UNCHANGED <<deployment, route, state, call, cookies, ahead, stops>>
    BY DEF Request, Handler
  <2> QED
    BY <1>1, <2>1, StillCalls
<1>3. CASE StartUp(p)
  BY <1>1, <1>3, StillCalls DEF StartUp
<1>4. CASE Start(p)
  <2>1. /\ state' = [state EXCEPT ![p] = "starting"]
        /\ UNCHANGED <<deployment, route, root, home, call, cookies, ahead, stops>>
    BY <1>4 DEF Start
  <2> QED
    BY <1>1, <2>1, StillCalls
<1>5. CASE Started(p)
  <2>1. /\ state' = [state EXCEPT ![p] = "up"]
        /\ UNCHANGED <<deployment, route, root, home, call, cookies, ahead, stops>>
    BY <1>5 DEF Started
  <2> QED
    BY <1>1, <2>1, StillCalls
<1>6. CASE RootEnds
  <2>1. ahead' \in 0..MaxAhead
    BY <1>1, <1>6, GoesOnWithinBound DEF RootEnds
  <2> QED
    BY <1>1, <1>6, <2>1, StillCalls DEF RootEnds
<1> QED
  BY <1>2, <1>3, <1>4, <1>5, <1>6

\* What the end of a process makes of each call.
LEMMA StopEffect ==
  ASSUME Basic, NEW p \in Procs, Stop(p)
  PROVE  /\ call' \in [Calls -> Call \cup {NoCall}]
         /\ Made' = Made
         /\ \A c \in Calls \ Made : call'[c] = NoCall
         /\ \A c \in Made :
              /\ call'[c] \in Call
              /\ call'[c].service = call[c].service /\ call'[c].early = call[c].early
              /\ call'[c].from = call[c].from /\ call'[c].by = call[c].by
              /\ call'[c].at = call[c].at /\ call'[c].ctx = call[c].ctx
              /\ call'[c].set = call[c].set
              /\ call'[c].stage = IF call[c].at = p /\ call[c].stage # "sent"
                                  THEN "over" ELSE call[c].stage
              /\ call'[c].did = IF call[c].at = p /\ call[c].did = "begun"
                                THEN "cut" ELSE call[c].did
              /\ call'[c].got = IF call[c].by = p /\ call[c].got = "waiting"
                                THEN "gone" ELSE call[c].got
         /\ state' = [state EXCEPT ![p] = "down"]
         /\ root' = IF root = "live" /\ home = p THEN "over" ELSE root
         /\ UNCHANGED <<deployment, route, home, cookies, ahead>>
         /\ \A x \in 0..MaxCalls : x = Root \/ x \in Made =>
              CtxOf(x)' = CtxOf(x) /\ ProcOf(x)' = ProcOf(x)
<1> DEFINE Left(r) ==
      [r EXCEPT !.stage = IF r.at = p /\ @ # "sent" THEN "over" ELSE @,
                !.did = IF r.at = p /\ @ = "begun" THEN "cut" ELSE @,
                !.got = IF r.by = p /\ @ = "waiting" THEN "gone" ELSE @]
<1>1. call' = [c \in Calls |-> IF c \notin Made THEN NoCall ELSE Left(call[c])]
  BY DEF Stop
<1>2. ASSUME NEW r \in Call
      PROVE  /\ Left(r) \in Call
             /\ Left(r).service = r.service /\ Left(r).early = r.early
             /\ Left(r).from = r.from /\ Left(r).by = r.by
             /\ Left(r).at = r.at /\ Left(r).ctx = r.ctx /\ Left(r).set = r.set
             /\ Left(r).stage = IF r.at = p /\ r.stage # "sent" THEN "over" ELSE r.stage
             /\ Left(r).did = IF r.at = p /\ r.did = "begun" THEN "cut" ELSE r.did
             /\ Left(r).got = IF r.by = p /\ r.got = "waiting" THEN "gone" ELSE r.got
  BY DEF Call, Stages
<1> HIDE DEF Left
<1>3. \A c \in Made : c \in Calls /\ call[c] \in Call /\ call[c].got # "no"
  BY DEF Basic, CallOK, Made
<1>4. \A c \in Calls \ Made : call'[c] = NoCall
  BY <1>1
<1>5. \A c \in Made : call'[c] = Left(call[c])
  BY <1>1, <1>3
<1>6. \A c \in Made :
              /\ call'[c] \in Call
              /\ call'[c].service = call[c].service /\ call'[c].early = call[c].early
              /\ call'[c].from = call[c].from /\ call'[c].by = call[c].by
              /\ call'[c].at = call[c].at /\ call'[c].ctx = call[c].ctx
              /\ call'[c].set = call[c].set
              /\ call'[c].stage = IF call[c].at = p /\ call[c].stage # "sent"
                                  THEN "over" ELSE call[c].stage
              /\ call'[c].did = IF call[c].at = p /\ call[c].did = "begun"
                                THEN "cut" ELSE call[c].did
              /\ call'[c].got = IF call[c].by = p /\ call[c].got = "waiting"
                                THEN "gone" ELSE call[c].got
  BY <1>2, <1>3, <1>5
<1>7. Made' = Made
  <2>1. \A c \in Made : call'[c] # NoCall
    BY <1>3, <1>6 DEF NoCall
  <2> QED
    BY <2>1, <1>4 DEF Made
<1>8. call' \in [Calls -> Call \cup {NoCall}]
  BY <1>1, <1>4, <1>5, <1>6
<1>9. /\ state' = [state EXCEPT ![p] = "down"]
      /\ root' = IF root = "live" /\ home = p THEN "over" ELSE root
      /\ UNCHANGED <<deployment, route, home, cookies, ahead>>
  BY DEF Stop
<1> QED
  BY <1>4, <1>6, <1>7, <1>8, <1>9 DEF CtxOf, ProcOf

LEMMA StopKeepsBasic ==
  ASSUME Basic, NEW p \in Procs, Stop(p) PROVE Basic'
<1>1. /\ call' \in [Calls -> Call \cup {NoCall}]
      /\ Made' = Made
      /\ state' = [state EXCEPT ![p] = "down"]
      /\ root' = IF root = "live" /\ home = p THEN "over" ELSE root
      /\ UNCHANGED <<deployment, route, home, cookies, ahead>>
  BY StopEffect
<1>2. \A x \in 0..MaxCalls : x = Root \/ x \in Made =>
              CtxOf(x)' = CtxOf(x) /\ ProcOf(x)' = ProcOf(x)
  BY StopEffect
<1>3. stops' \in 0..MaxStops
  <2>1. stops \in 0..MaxStops
    BY DEF Basic, TypeOK
  <2>2. stops < MaxStops /\ stops' = stops + 1
    BY DEF Stop
  <2> QED
    BY <2>1, <2>2, Bounds
<1>4. ASSUME NEW c \in Made PROVE CallOK(c)'
  <2>1. /\ call'[c] \in Call
        /\ call'[c].service = call[c].service /\ call'[c].early = call[c].early
        /\ call'[c].from = call[c].from /\ call'[c].by = call[c].by
        /\ call'[c].at = call[c].at /\ call'[c].ctx = call[c].ctx
        /\ call'[c].stage = IF call[c].at = p /\ call[c].stage # "sent"
                            THEN "over" ELSE call[c].stage
        /\ call'[c].did = IF call[c].at = p /\ call[c].did = "begun"
                          THEN "cut" ELSE call[c].did
        /\ call'[c].got = IF call[c].by = p /\ call[c].got = "waiting"
                          THEN "gone" ELSE call[c].got
    BY StopEffect
  <2>2. /\ call[c] \in Call /\ Lineage(c) /\ Staged(c) /\ call[c].at \in MayRun(c)
        /\ call[c].got # "no"
    BY DEF Basic, CallOK
  <2>3. /\ call[c].from \in 0..MaxCalls /\ call[c].ctx \in 0..MaxCalls
        /\ call[c].at \in Procs
    BY <2>2 DEF Call
  <2>4. call'[c].at \in MayRun(c)'
    BY <1>1, <2>1, <2>2 DEF MayRun, Matches
  <2>5. call[c].ctx = Root \/ call[c].ctx \in Made
    <3>1. CASE IsRemote(c)
      BY <3>1 DEF IsRemote
    <3>2. CASE call[c].ctx \in Calls \ {c}
      BY <3>2, <2>2 DEF Lineage, Made, NoCall
    <3> QED
      BY <3>1, <3>2, <2>3, Bounds DEF IsRemote, Calls, Root
  <2>6. call[c].ctx \in Calls \ {c} => call'[call[c].ctx].did # "no"
    <3> SUFFICES ASSUME call[c].ctx \in Calls \ {c} PROVE call'[call[c].ctx].did # "no"
      OBVIOUS
    <3>1. call[c].ctx \in Made /\ call[call[c].ctx].did # "no"
      BY <2>2, <2>5, Bounds DEF Lineage, Calls, Root
    <3> QED
      BY <3>1, StopEffect
  <2>7. Lineage(c)'
    BY <2>1, <2>2, <2>3, <2>5, <2>6, <1>1, <1>2 DEF Lineage, IsRemote
  <2>8. call'[c].stage \in {"before", "method"} => state'[call[c].at] # "down"
    BY <2>1, <2>2, <2>3, <1>1 DEF Staged, Basic, TypeOK
  <2>9. IsRemote(c)' = IsRemote(c)
    BY <2>1 DEF IsRemote
  <2>10. Staged(c)'
    <3>1. CASE call[c].at = p /\ call[c].stage # "sent"
      <4>1. call'[c].stage = "over"
        BY <2>1, <3>1
      <4>2. ~IsRemote(c) => call[c].by = p
        BY <2>2, <3>1 DEF Lineage
      <4>3. ~IsRemote(c) => call'[c].got # "waiting"
        BY <2>1, <4>2
      <4> QED
        BY <4>1, <4>3, <2>9 DEF Staged
    <3>2. CASE ~(call[c].at = p /\ call[c].stage # "sent")
      <4>1. call'[c].stage = call[c].stage
        BY <2>1, <3>2
      <4>2. call[c].stage = "sent" \/ call[c].at # p
        BY <3>2
      <4>3. call[c].stage = "method" => call'[c].did = "begun"
        BY <2>1, <2>2, <4>2 DEF Staged
      <4>4. ~IsRemote(c) => call[c].at = call[c].by
        BY <2>2 DEF Lineage
      <4>5. ~IsRemote(c) => (call[c].stage = "method" <=> call'[c].got = "waiting")
        BY <2>1, <2>2, <4>2, <4>4 DEF Staged
      <4>6. /\ call[c].did \in {"no", "done"} => call'[c].did = call[c].did
            /\ call'[c].got = "ok" => call[c].got = "ok"
        BY <2>1
      <4> QED
        BY <2>2, <2>8, <2>9, <2>1, <4>1, <4>3, <4>5, <4>6 DEF Staged
    <3> QED
      BY <3>1, <3>2
  <2> QED
    BY <2>1, <2>2, <2>4, <2>7, <2>10 DEF CallOK
<1>5. Routed'
  BY <1>1 DEF Basic, Routed, Elsewhere, Matches
<1>6. \A c \in Calls : Active(c)' => state'[call'[c].at] # "down"
  <2> SUFFICES ASSUME NEW c \in Calls, Active(c)' PROVE state'[call'[c].at] # "down"
    OBVIOUS
  <2>1. call'[c].stage = "method"
    BY Bounds DEF Active, Calls, Root
  <2>2. c \in Made'
    BY <2>1 DEF Made, NoCall
  <2>3. CallOK(c)'
    BY <2>2, <1>1, <1>4
  <2> QED
    BY <2>1, <2>3 DEF CallOK, Staged
<1>7. /\ root' \in {"none", "live", "over"} /\ home' \in Procs \cup {NoProc}
      /\ state' \in [Procs -> {"starting", "up", "down"}]
      /\ root' = "none" => Made' = {}
      /\ root' # "none" => home' \in Procs
      /\ root' = "live" => state'[home'] # "down"
  BY <1>1 DEF Basic, TypeOK
<1> QED
  BY <1>1, <1>3, <1>4, <1>5, <1>6, <1>7 DEF Basic, TypeOK

\* Basic is inductive.
LEMMA NextKeepsBasic == Basic /\ [Next]_vars => Basic'
<1> SUFFICES ASSUME Basic, [Next]_vars PROVE Basic'
  OBVIOUS
<1>1. CASE \E p \in Procs :
             \/ \E s \in Services : Request(p, s)
             \/ StartUp(p) \/ Stop(p) \/ Start(p) \/ Started(p)
  BY <1>1, OthersKeepBasic, StopKeepsBasic
<1>2. CASE \E x \in 0..MaxCalls, c \in Calls, s \in Services :
             CallLocal(x, c, s) \/ CallRemote(x, c, s)
  BY <1>2, CallLocalKeepsBasic, CallRemoteKeepsBasic
<1>3. CASE RootEnds
  <2>1. home \in Procs
    BY <1>3 DEF RootEnds, Basic
  <2> QED
    BY <1>3, <2>1, OthersKeepBasic
<1>4. CASE \E c \in Calls :
             \/ SetCookie(c) \/ Finish(c) \/ Throw(c) \/ Break(c)
             \/ Arrive(c) \/ Refuse(c) \/ Before(c) \/ After(c) \/ Deliver(c) \/ Reset(c)
  BY <1>4, SetCookieKeepsBasic, FinishKeepsBasic, ThrowKeepsBasic, BreakKeepsBasic,
     ArriveKeepsBasic, RefuseKeepsBasic, BeforeKeepsBasic, AfterKeepsBasic,
     DeliverKeepsBasic, ResetKeepsBasic
<1>5. CASE UNCHANGED vars
  <2>1. UNCHANGED <<deployment, route, state, root, home, call, cookies, ahead, stops>>
    BY <1>5 DEF vars
  <2> QED
    BY <2>1, StillCalls DEF Basic, TypeOK
<1> QED
  BY <1>1, <1>2, <1>3, <1>4, <1>5 DEF Next

LEMMA AlwaysBasic == Spec => []Basic
  BY InitKeepsBasic, NextKeepsBasic, PTL DEF Spec

\* Calls, processes and contexts stay what they are meant to be; nothing runs
\* in a process that is down, for any deployment: stop ends what runs there.
THEOREM TypeCorrect == Spec => []TypeOK
<1>1. Basic => TypeOK
  BY DEF Basic
<1> QED
  BY <1>1, AlwaysBasic, PTL

-----------------------------------------------------------------------------
(***************************************************************************)
(* The calls are calls as RemoteCall has them.                             *)
(***************************************************************************)

\* What RemoteCall sees.
AGot == [c \in Calls |-> call[c].got]
ADid == [c \in Calls |-> call[c].did]
AMay == [c \in Calls |-> IF c \notin Made THEN {}
                         ELSE IF call[c].early \/ Matches(call[c].service) = {}
                         THEN {call[c].by} ELSE Matches(call[c].service)]
ARan == [c \in Calls |-> IF call[c].did = "no" THEN NoProc ELSE call[c].at]

\* The abstract step, in these words.
LEMMA AbstractStep ==
  ASSUME \/ \E c \in Calls :
              \/ \E S \in SUBSET Procs :
                   /\ AGot[c] = "no" /\ AGot' = [AGot EXCEPT ![c] = "waiting"]
                   /\ AMay' = [AMay EXCEPT ![c] = S]
                   /\ \/ /\ ADid[c] = "no" /\ ADid' = [ADid EXCEPT ![c] = "begun"]
                         /\ \E p \in S : ARan' = [ARan EXCEPT ![c] = p]
                      \/ ADid' = ADid /\ ARan' = ARan
              \/ /\ AGot[c] # "no" /\ ADid[c] = "no" /\ AGot' = AGot /\ AMay' = AMay
                 /\ ADid' = [ADid EXCEPT ![c] = "begun"]
                 /\ \E p \in AMay[c] : ARan' = [ARan EXCEPT ![c] = p]
              \/ /\ ADid[c] = "begun" /\ AMay' = AMay /\ ARan' = ARan
                 /\ \/ /\ ADid' = [ADid EXCEPT ![c] = "done"]
                       /\ AGot' = AGot \/ (AGot[c] = "waiting" /\ AGot' = [AGot EXCEPT ![c] = "ok"])
                    \/ /\ ADid' = [ADid EXCEPT ![c] = "threw"]
                       /\ \/ AGot' = AGot
                          \/ AGot[c] = "waiting" /\ AGot' = [AGot EXCEPT ![c] = "error"]
              \/ /\ AGot[c] = "waiting" /\ ADid' = ADid /\ AMay' = AMay /\ ARan' = ARan
                 /\ \/ AGot' = [AGot EXCEPT ![c] = "error"]
                    \/ ADid[c] = "done" /\ AGot' = [AGot EXCEPT ![c] = "ok"]
         \/ /\ AMay' = AMay /\ ARan' = ARan
            /\ \E S \in SUBSET {c \in Calls : AGot[c] = "waiting"} :
                 AGot' = [c \in Calls |-> IF c \in S THEN "gone" ELSE AGot[c]]
            /\ \E S \in SUBSET {c \in Calls : ADid[c] = "begun"} :
                 ADid' = [c \in Calls |-> IF c \in S THEN "cut" ELSE ADid[c]]
         \/ AGot' = AGot /\ ADid' = ADid /\ AMay' = AMay /\ ARan' = ARan
  PROVE  [Abstract!Next]_(Abstract!vars)
<1>1. ASSUME NEW c \in Calls,
             ADid[c] = "begun" /\ AMay' = AMay /\ ARan' = ARan,
             \/ /\ ADid' = [ADid EXCEPT ![c] = "done"]
                /\ AGot' = AGot \/ (AGot[c] = "waiting" /\ AGot' = [AGot EXCEPT ![c] = "ok"])
             \/ /\ ADid' = [ADid EXCEPT ![c] = "threw"]
                /\ AGot' = AGot \/ (AGot[c] = "waiting" /\ AGot' = [AGot EXCEPT ![c] = "error"])
      PROVE  Abstract!Next
  BY <1>1 DEF Abstract!Next, Abstract!End, Abstract!Answer, AGot, ADid, AMay, ARan
<1> QED
  BY <1>1 DEF Abstract!Next, Abstract!Ask, Abstract!Begin, Abstract!Answer, Abstract!Stop,
              Abstract!vars, AGot, ADid, AMay, ARan

\* One call changes, and nothing of the others.
LEMMA TurnSeen ==
  ASSUME Basic, NEW c \in Made, NEW stage \in Stages,
         NEW got \in {"waiting", "ok", "error", "gone"},
         NEW did \in {"no", "begun", "done", "threw", "cut"}, NEW set \in BOOLEAN,
         Turns(c, stage, got, did, set), UNCHANGED deployment, UNCHANGED home
  PROVE  /\ AGot' = [AGot EXCEPT ![c] = got]
         /\ ADid' = [ADid EXCEPT ![c] = did]
         /\ AMay' = AMay
         /\ ARan' = [ARan EXCEPT ![c] = IF did = "no" THEN NoProc ELSE call[c].at]
         /\ got = call[c].got => AGot' = AGot
         /\ did = call[c].did => ADid' = ADid
         /\ (did = "no" <=> call[c].did = "no") => ARan' = ARan
<1> DEFINE next == [call[c] EXCEPT !.stage = stage, !.got = got, !.did = did, !.set = set]
<1>1. /\ Same(c, next) /\ next.got # "no" /\ next.got = got /\ next.did = did
  <2>1. call[c] \in Call
    BY DEF Basic, CallOK
  <2> QED
    BY <2>1 DEF Same, Call
<1>2. Become(c, next)
  BY DEF Turns
<1> HIDE DEF next
<1>3. /\ Made' = Made /\ call'[c] = next
      /\ \A b \in Calls : b # c => call'[b] = call[b]
      /\ call'[c].service = call[c].service /\ call'[c].early = call[c].early
      /\ call'[c].by = call[c].by /\ call'[c].at = call[c].at
  BY <1>1, <1>2, ChangeEffect
<1>4. c \in Calls
  BY DEF Made
<1>5. AGot' = [AGot EXCEPT ![c] = got]
  BY <1>1, <1>3, <1>4 DEF AGot
<1>6. ADid' = [ADid EXCEPT ![c] = did]
  BY <1>1, <1>3, <1>4 DEF ADid
<1>7. AMay' = AMay
  BY <1>3, <1>4 DEF AMay, Matches
<1>8. ARan' = [ARan EXCEPT ![c] = IF did = "no" THEN NoProc ELSE call[c].at]
  BY <1>1, <1>3, <1>4 DEF ARan
<1>9. got = call[c].got => AGot' = AGot
  BY <1>4, <1>5 DEF AGot
<1>10. did = call[c].did => ADid' = ADid
  BY <1>4, <1>6 DEF ADid
<1>11. (did = "no" <=> call[c].did = "no") => ARan' = ARan
  BY <1>4, <1>8 DEF ARan
<1> QED
  BY <1>5, <1>6, <1>7, <1>8, <1>9, <1>10, <1>11

\* What is seen of a call.
LEMMA Seen ==
  ASSUME NEW c \in Calls
  PROVE  /\ AGot[c] = call[c].got /\ ADid[c] = call[c].did
         /\ c \in Made => AMay[c] = MayRun(c)
  BY DEF AGot, ADid, AMay, MayRun

\* A call that is made here begins with it.
LEMMA CallLocalIsAsked ==
  ASSUME Basic, NEW x \in 0..MaxCalls, NEW c \in Calls, NEW s \in Services,
         CallLocal(x, c, s)
  PROVE  [Abstract!Next]_(Abstract!vars)
<1> DEFINE next == NewCall(x, c, s)
           S == IF next.early \/ Matches(s) = {} THEN {next.by} ELSE Matches(s)
<1>1. /\ Active(x) /\ ~Remote(ProcOf(x), s)
      /\ Made = 1..(c - 1)
      /\ Become(c, next)
      /\ UNCHANGED <<deployment, route, state, root, home, cookies, stops>>
  BY DEF CallLocal
<1>2. /\ ProcOf(x) \in Procs /\ state[ProcOf(x)] \in {"starting", "up"}
      /\ CtxOf(x) \in 0..MaxCalls
  BY <1>1, ActorFacts, Bounds
<1>3. /\ next \in Call /\ next.got = "waiting"
      /\ next.by = ProcOf(x) /\ next.at = next.by
      /\ next.did = "begun"
      /\ next.early = (state[ProcOf(x)] = "starting") /\ next.service = s
  BY <1>2, Bounds DEF NewCall, Call, Stages
<1>4. next.at \in S /\ S \in SUBSET Procs
  BY <1>1, <1>2, <1>3 DEF Remote, Elsewhere, Matches
<1>5. UNCHANGED home
  BY <1>1
<1> HIDE DEF next
<1>6. /\ c \notin Made /\ Made' = Made \cup {c} /\ call'[c] = next
      /\ \A b \in Calls : b # c => call'[b] = call[b]
  BY <1>1, <1>3, <1>5, CreateEffect
<1>7. call[c].got = "no" /\ call[c].did = "no"
  BY <1>6 DEF Made, NoCall
<1>8. AGot' = [AGot EXCEPT ![c] = "waiting"] /\ ADid' = [ADid EXCEPT ![c] = "begun"]
  BY <1>3, <1>6 DEF AGot, ADid
<1>9. ARan' = [ARan EXCEPT ![c] = next.at]
  BY <1>3, <1>6 DEF ARan
<1>10. AMay' = [AMay EXCEPT ![c] = S]
  <2>1. \A b \in Calls : b # c => AMay'[b] = AMay[b]
    BY <1>1, <1>6 DEF AMay, Matches
  <2>2. AMay'[c] = S
    BY <1>1, <1>3, <1>6 DEF AMay, Matches
  <2> QED
    BY <2>1, <2>2 DEF AMay
<1> HIDE DEF S
<1> QED
  BY <1>4, <1>7, <1>8, <1>9, <1>10, Seen, AbstractStep

\* A call that is sent elsewhere has not begun.
LEMMA CallRemoteIsAsked ==
  ASSUME Basic, NEW x \in 0..MaxCalls, NEW c \in Calls, NEW s \in Services,
         CallRemote(x, c, s)
  PROVE  [Abstract!Next]_(Abstract!vars)
<1> DEFINE new == NewCall(x, c, s)
           next == [new EXCEPT !.at = route[s], !.ctx = c, !.stage = "sent", !.did = "no"]
<1>1. /\ Active(x) /\ Remote(ProcOf(x), s)
      /\ Made = 1..(c - 1)
      /\ Become(c, next)
      /\ UNCHANGED <<deployment, route, state, root, home, stops>>
  BY DEF CallRemote
<1>2. /\ ProcOf(x) \in Procs /\ CtxOf(x) \in 0..MaxCalls /\ c \in 0..MaxCalls
  BY <1>1, ActorFacts, Bounds DEF Calls
<1>3. route[s] \in Matches(s) /\ route[s] \in Procs
  BY <1>1, <1>2 DEF Basic, Routed, Remote, Matches
<1>4. /\ new \in Call /\ new.got = "waiting"
      /\ new.by = ProcOf(x) /\ ~new.early /\ new.service = s
  <2>1. state[ProcOf(x)] # "starting"
    BY <1>1 DEF Remote
  <2> QED
    BY <2>1, <1>2, Bounds DEF NewCall, Call, Stages
<1> HIDE DEF new
<1>5. /\ next \in Call /\ next.got = "waiting" /\ next.did = "no"
      /\ ~next.early /\ next.service = s
  BY <1>2, <1>3, <1>4 DEF Call, Stages
<1>6. UNCHANGED home
  BY <1>1
<1> HIDE DEF next
<1>7. /\ c \notin Made /\ Made' = Made \cup {c} /\ call'[c] = next
      /\ \A b \in Calls : b # c => call'[b] = call[b]
  BY <1>1, <1>5, <1>6, CreateEffect
<1>8. call[c].got = "no" /\ call[c].did = "no"
  BY <1>7 DEF Made, NoCall
<1>9. /\ AGot' = [AGot EXCEPT ![c] = "waiting"] /\ ADid' = ADid /\ ARan' = ARan
  BY <1>5, <1>7, <1>8 DEF AGot, ADid, ARan
<1>10. AMay' = [AMay EXCEPT ![c] = Matches(s)] /\ Matches(s) \in SUBSET Procs
  <2>1. \A b \in Calls : b # c => AMay'[b] = AMay[b]
    BY <1>1, <1>7 DEF AMay, Matches
  <2>2. AMay'[c] = Matches(s)
    BY <1>1, <1>3, <1>5, <1>7 DEF AMay, Matches
  <2> QED
    BY <2>1, <2>2 DEF AMay, Matches
<1> QED
  BY <1>8, <1>9, <1>10, Seen, AbstractStep

\* A method begins once, where it may.
LEMMA BeforeIsBegun ==
  ASSUME Basic, NEW c \in Calls, Before(c)
  PROVE  [Abstract!Next]_(Abstract!vars)
<1>1. c \in Made /\ call[c].stage = "before" /\ UNCHANGED deployment /\ UNCHANGED home
  BY GuardMeansMade DEF Before, Others
<1>2. /\ call[c].did = "no" /\ call[c].got # "no" /\ call[c].at \in MayRun(c)
  BY <1>1 DEF Basic, CallOK, Staged
<1>3. CASE Become(c, [call[c] EXCEPT !.stage = "failed"])
  <2>1. Turns(c, "failed", call[c].got, call[c].did, call[c].set)
    BY <1>1, <1>3, TurnsAs
  <2> QED
    BY <1>1, <2>1, Fields, TurnSeen, AbstractStep DEF Stages
<1>4. CASE Become(c, [call[c] EXCEPT !.stage = "method", !.did = "begun"])
  <2>1. Turns(c, "method", call[c].got, "begun", call[c].set)
    BY <1>1, <1>4, TurnsAs
  <2>2. /\ AGot' = AGot /\ AMay' = AMay /\ ADid' = [ADid EXCEPT ![c] = "begun"]
        /\ ARan' = [ARan EXCEPT ![c] = call[c].at]
    BY <1>1, <2>1, Fields, TurnSeen DEF Stages
  <2> QED
    BY <1>1, <1>2, <2>2, Seen, AbstractStep
<1> QED
  BY <1>3, <1>4 DEF Before

\* A method that returns or throws, here with its answer.
LEMMA FinishIsEnded ==
  ASSUME Basic, NEW c \in Calls, Finish(c)
  PROVE  [Abstract!Next]_(Abstract!vars)
<1>1. c \in Made /\ call[c].stage = "method" /\ UNCHANGED deployment /\ UNCHANGED home
  BY GuardMeansMade, Bounds DEF Finish, Active, Calls, Root
<1>2. call[c].did = "begun" /\ (~IsRemote(c) => call[c].got = "waiting")
  BY <1>1, Fields DEF Staged
<1> DEFINE stage == IF IsRemote(c) THEN "after" ELSE "over"
           got == IF IsRemote(c) THEN call[c].got ELSE "ok"
<1>3. Turns(c, stage, got, "done", call[c].set)
  BY <1>1, TurnsAs DEF Finish
<1>4. stage \in Stages /\ got \in {"waiting", "ok", "error", "gone"}
  BY <1>1, Fields DEF Stages
<1>5. got = call[c].got \/ (call[c].got = "waiting" /\ got = "ok")
  BY <1>2
<1> HIDE DEF stage, got
<1>6. /\ AGot' = [AGot EXCEPT ![c] = got] /\ (got = call[c].got => AGot' = AGot)
      /\ ADid' = [ADid EXCEPT ![c] = "done"] /\ AMay' = AMay /\ ARan' = ARan
  BY <1>1, <1>2, <1>3, <1>4, Fields, TurnSeen
<1> QED
  BY <1>1, <1>2, <1>5, <1>6, Seen, AbstractStep

LEMMA ThrowIsEnded ==
  ASSUME Basic, NEW c \in Calls, Throw(c)
  PROVE  [Abstract!Next]_(Abstract!vars)
<1>1. c \in Made /\ call[c].stage = "method" /\ UNCHANGED deployment /\ UNCHANGED home
  BY GuardMeansMade, Bounds DEF Throw, Active, Calls, Root
<1>2. call[c].did = "begun" /\ (~IsRemote(c) => call[c].got = "waiting")
  BY <1>1, Fields DEF Staged
<1> DEFINE stage == IF IsRemote(c) THEN "failed" ELSE "over"
           got == IF IsRemote(c) THEN call[c].got ELSE "error"
<1>3. Turns(c, stage, got, "threw", call[c].set)
  BY <1>1, TurnsAs DEF Throw
<1>4. stage \in Stages /\ got \in {"waiting", "ok", "error", "gone"}
  BY <1>1, Fields DEF Stages
<1>5. got = call[c].got \/ (call[c].got = "waiting" /\ got = "error")
  BY <1>2
<1> HIDE DEF stage, got
<1>6. /\ AGot' = [AGot EXCEPT ![c] = got] /\ (got = call[c].got => AGot' = AGot)
      /\ ADid' = [ADid EXCEPT ![c] = "threw"] /\ AMay' = AMay /\ ARan' = ARan
  BY <1>1, <1>2, <1>3, <1>4, Fields, TurnSeen
<1> QED
  BY <1>1, <1>2, <1>5, <1>6, Seen, AbstractStep

\* Steps after which the caller has an answer, or only the message has moved.
LEMMA AnswerSeen ==
  ASSUME Basic, NEW c \in Made, NEW stage \in Stages, NEW set \in BOOLEAN,
         NEW got \in {"waiting", "ok", "error", "gone"},
         Turns(c, stage, got, call[c].did, set), UNCHANGED deployment, UNCHANGED home,
         \/ got = call[c].got
         \/ call[c].got = "waiting" /\ got = "error"
         \/ call[c].got = "waiting" /\ got = "ok" /\ call[c].did = "done"
  PROVE  [Abstract!Next]_(Abstract!vars)
<1>1. /\ AGot' = [AGot EXCEPT ![c] = got] /\ (got = call[c].got => AGot' = AGot)
      /\ ADid' = ADid /\ AMay' = AMay /\ ARan' = ARan
  BY Fields, TurnSeen
<1>2. c \in Calls
  BY DEF Made
<1> QED
  BY <1>1, <1>2, Seen, AbstractStep

LEMMA AnswersAreAnswers ==
  ASSUME Basic, NEW c \in Calls,
         SetCookie(c) \/ Break(c) \/ Arrive(c) \/ Refuse(c) \/ After(c) \/ Deliver(c) \/ Reset(c)
  PROVE  [Abstract!Next]_(Abstract!vars)
<1>1. {"failed", "before", "answered", "over", "after"} \subseteq Stages
  BY DEF Stages
<1>2. UNCHANGED deployment /\ UNCHANGED home
  BY DEF SetCookie, Break, Arrive, Refuse, After, Deliver, Reset, Others
<1>3. CASE SetCookie(c)
  <2>1. c \in Made
    BY <1>3, GuardMeansMade, Bounds DEF SetCookie, Active, Calls, Root
  <2>2. Turns(c, call[c].stage, call[c].got, call[c].did, TRUE)
    BY <1>3, <2>1, TurnsAs DEF SetCookie
  <2> QED
    BY <1>2, <2>1, <2>2, Fields, AnswerSeen
<1>4. CASE Break(c)
  <2>1. c \in Made /\ call[c].got = "waiting"
    BY <1>4, GuardMeansMade DEF Break, Hears
  <2>2. PICK stage \in {call[c].stage, "over"} :
          Turns(c, stage, "error", call[c].did, call[c].set)
    BY <1>4, <2>1, TurnsAs DEF Break
  <2> QED
    BY <1>1, <1>2, <2>1, <2>2, Fields, AnswerSeen
<1>5. CASE Arrive(c)
  <2>1. c \in Made
    BY <1>5, GuardMeansMade DEF Arrive
  <2>2. PICK stage \in {"failed", "before"} :
          Turns(c, stage, call[c].got, call[c].did, call[c].set)
    BY <1>5, <2>1, TurnsAs DEF Arrive
  <2> QED
    BY <1>1, <1>2, <2>1, <2>2, Fields, AnswerSeen
<1>6. CASE Refuse(c)
  <2>1. c \in Made
    BY <1>6, GuardMeansMade DEF Refuse
  <2> DEFINE got == IF call[c].got = "waiting" THEN "error" ELSE call[c].got
  <2>2. Turns(c, "over", got, call[c].did, call[c].set)
    BY <1>6, <2>1, TurnsAs DEF Refuse
  <2>3. /\ got \in {"waiting", "ok", "error", "gone"}
        /\ got = call[c].got \/ (call[c].got = "waiting" /\ got = "error")
    BY <2>1, Fields
  <2> HIDE DEF got
  <2> QED
    BY <1>1, <1>2, <2>1, <2>2, <2>3, Fields, AnswerSeen
<1>7. CASE After(c)
  <2>1. c \in Made
    BY <1>7, GuardMeansMade DEF After
  <2>2. PICK stage \in {"answered", "failed"} :
          Turns(c, stage, call[c].got, call[c].did, call[c].set)
    BY <1>7, <2>1, TurnsAs DEF After
  <2> QED
    BY <1>1, <1>2, <2>1, <2>2, Fields, AnswerSeen
<1>8. CASE Deliver(c)
  <2>1. c \in Made /\ call[c].got = "waiting"
    BY <1>8, GuardMeansMade DEF Deliver, Hears
  <2>2. CASE /\ call[c].stage = "answered"
             /\ Become(c, [call[c] EXCEPT !.stage = "over", !.got = "ok"])
    <3>1. call[c].did = "done"
      BY <2>1, <2>2, Fields DEF Staged
    <3>2. Turns(c, "over", "ok", call[c].did, call[c].set)
      BY <2>1, <2>2, TurnsAs
    <3> QED
      BY <1>1, <1>2, <2>1, <3>1, <3>2, Fields, AnswerSeen
  <2>3. CASE Become(c, [call[c] EXCEPT !.stage = "over", !.got = "error"])
    <3>1. Turns(c, "over", "error", call[c].did, call[c].set)
      BY <2>1, <2>3, TurnsAs
    <3> QED
      BY <1>1, <1>2, <2>1, <3>1, Fields, AnswerSeen
  <2> QED
    BY <1>8, <2>2, <2>3 DEF Deliver
<1>9. CASE Reset(c)
  <2>1. c \in Made /\ call[c].got = "waiting" /\ call[c].stage = "over"
    BY <1>9, GuardMeansMade DEF Reset, Hears
  <2>2. Turns(c, "over", "error", call[c].did, call[c].set)
    BY <1>9, <2>1, TurnsAs DEF Reset
  <2> QED
    BY <1>1, <1>2, <2>1, <2>2, Fields, AnswerSeen
<1> QED
  BY <1>3, <1>4, <1>5, <1>6, <1>7, <1>8, <1>9

\* A process that ends cuts its methods, and its callers hear nothing more.
LEMMA StopIsStop ==
  ASSUME Basic, NEW p \in Procs, Stop(p)
  PROVE  [Abstract!Next]_(Abstract!vars)
<1> DEFINE G == {c \in Made : call[c].by = p /\ call[c].got = "waiting"}
           D == {c \in Made : call[c].at = p /\ call[c].did = "begun"}
<1>1. /\ Made' = Made /\ deployment' = deployment
      /\ \A c \in Calls \ Made : call'[c] = NoCall /\ call[c] = NoCall
      /\ \A c \in Made :
           /\ call'[c].service = call[c].service /\ call'[c].early = call[c].early
           /\ call'[c].by = call[c].by /\ call'[c].at = call[c].at
           /\ call'[c].did = IF call[c].at = p /\ call[c].did = "begun"
                             THEN "cut" ELSE call[c].did
           /\ call'[c].got = IF call[c].by = p /\ call[c].got = "waiting"
                             THEN "gone" ELSE call[c].got
  BY StopEffect DEF Made
<1>2. AMay' = AMay
  BY <1>1 DEF AMay, Matches
<1>3. ARan' = ARan
  <2>1. \A c \in Calls : ARan'[c] = ARan[c]
    BY <1>1 DEF ARan, NoCall
  <2> QED
    BY <2>1 DEF ARan
<1>4. /\ G \in SUBSET {c \in Calls : AGot[c] = "waiting"}
      /\ D \in SUBSET {c \in Calls : ADid[c] = "begun"}
  BY DEF Made, AGot, ADid
<1>5. AGot' = [c \in Calls |-> IF c \in G THEN "gone" ELSE AGot[c]]
  <2>1. \A c \in Calls : AGot'[c] = IF c \in G THEN "gone" ELSE AGot[c]
    BY <1>1 DEF AGot
  <2> QED
    BY <2>1 DEF AGot
<1>6. ADid' = [c \in Calls |-> IF c \in D THEN "cut" ELSE ADid[c]]
  <2>1. \A c \in Calls : ADid'[c] = IF c \in D THEN "cut" ELSE ADid[c]
    BY <1>1 DEF ADid
  <2> QED
    BY <2>1 DEF ADid
<1> HIDE DEF G, D
<1> QED
  BY <1>2, <1>3, <1>4, <1>5, <1>6, AbstractStep

\* A step that leaves the calls alone is none.
LEMMA NothingSeen ==
  ASSUME UNCHANGED call, UNCHANGED deployment
  PROVE  [Abstract!Next]_(Abstract!vars)
<1>1. AGot' = AGot /\ ADid' = ADid /\ AMay' = AMay /\ ARan' = ARan
  BY DEF AGot, ADid, AMay, ARan, Made, Matches
<1> QED
  BY <1>1, AbstractStep

LEMMA NextIsAbstract == Basic /\ [Next]_vars => [Abstract!Next]_(Abstract!vars)
<1> SUFFICES ASSUME Basic, [Next]_vars PROVE [Abstract!Next]_(Abstract!vars)
  OBVIOUS
<1>1. CASE \E p \in Procs :
             \/ \E s \in Services : Request(p, s)
             \/ StartUp(p) \/ Start(p) \/ Started(p)
  <2>1. UNCHANGED call /\ UNCHANGED deployment
    BY <1>1 DEF Request, StartUp, Start, Started
  <2> QED
    BY <2>1, NothingSeen
<1>2. CASE \E p \in Procs : Stop(p)
  BY <1>2, StopIsStop
<1>3. CASE \E x \in 0..MaxCalls, c \in Calls, s \in Services :
             CallLocal(x, c, s) \/ CallRemote(x, c, s)
  BY <1>3, CallLocalIsAsked, CallRemoteIsAsked
<1>4. CASE RootEnds \/ UNCHANGED vars
  <2>1. UNCHANGED call /\ UNCHANGED deployment
    BY <1>4 DEF RootEnds, vars
  <2> QED
    BY <2>1, NothingSeen
<1>5. CASE \E c \in Calls :
             \/ SetCookie(c) \/ Finish(c) \/ Throw(c) \/ Break(c)
             \/ Arrive(c) \/ Refuse(c) \/ Before(c) \/ After(c) \/ Deliver(c) \/ Reset(c)
  BY <1>5, BeforeIsBegun, FinishIsEnded, ThrowIsEnded, AnswersAreAnswers
<1> QED
  BY <1>1, <1>2, <1>3, <1>4, <1>5 DEF Next

\* A call of a service that lives in several processes runs its method at most
\* once, where the service is, and has a result only of a method that ran to
\* its end (forwardToMsLink, msLink): whatever is lost, broken off or stopped.
THEOREM CallsAreRemoteCalls == Spec => RemoteCallSpec
<1>1. Init => Abstract!Init
  BY DEF Init, Abstract!Init, Made, NoCall
<1>2. Basic /\ [Next]_vars => [Abstract!Next]_(Abstract!vars)
  BY NextIsAbstract
<1> QED
  BY <1>1, <1>2, AlwaysBasic, PTL DEF Spec, RemoteCallSpec, Abstract!Spec

-----------------------------------------------------------------------------
(***************************************************************************)
(* Where results lead: Leads(E, x) is the least set with x that is closed  *)
(* under the pairs of E.                                                   *)
(***************************************************************************)

LEMMA LeadsToItself ==
  ASSUME NEW E, NEW x \in 0..MaxCalls
  PROVE  x \in Leads(E, x)
  BY DEF Leads

LEMMA LeadsOn ==
  ASSUME NEW E, NEW x, NEW e \in E, e[1] \in Leads(E, x), e[2] \in 0..MaxCalls
  PROVE  e[2] \in Leads(E, x)
  BY DEF Leads

LEMMA LeadsBy ==
  ASSUME NEW E, \A e \in E : e[2] \in 0..MaxCalls,
         NEW x \in 0..MaxCalls, NEW y \in Leads(E, x), y # x
  PROVE  \E e \in E : e[2] = y /\ e[1] \in Leads(E, x)
<1> SUFFICES ASSUME \A e \in E : e[1] \in Leads(E, x) => e[2] # y
             PROVE  FALSE
  OBVIOUS
<1> DEFINE S == {z \in 0..MaxCalls : z \in Leads(E, x) /\ z # y}
<1>1. S \in SUBSET (0..MaxCalls) /\ x \in S
  BY LeadsToItself
<1>2. ASSUME NEW T \in SUBSET (0..MaxCalls), x \in T, \A e \in E : e[1] \in T => e[2] \in T
      PROVE  Leads(E, x) \subseteq T
  BY <1>2 DEF Leads
<1>3. \A e \in E : e[1] \in S => e[2] \in S
  BY LeadsOn
<1>4. y \notin S
  OBVIOUS
<1> HIDE DEF S
<1> QED
  BY <1>1, <1>2, <1>3, <1>4

\* One pair more leads no further from where its first is not reached ...
LEMMA LeadsAside ==
  ASSUME NEW E, NEW p, NEW c, \A e \in E : e[2] \in 0..MaxCalls, c \in 0..MaxCalls,
         NEW x \in 0..MaxCalls, p \notin Leads(E, x)
  PROVE  Leads(E \cup {<<p, c>>}, x) = Leads(E, x)
<1> DEFINE F == E \cup {<<p, c>>}
<1>1. ASSUME NEW y \in Leads(F, x) PROVE y \in Leads(E, x)
  <2>1. Leads(E, x) \in SUBSET (0..MaxCalls) /\ x \in Leads(E, x)
    BY LeadsToItself DEF Leads
  <2>2. \A e \in F : e[1] \in Leads(E, x) => e[2] \in Leads(E, x)
    BY LeadsOn
  <2>3. \A S \in SUBSET (0..MaxCalls) :
          x \in S /\ (\A e \in F : e[1] \in S => e[2] \in S) => y \in S
    BY <1>1 DEF Leads
  <2> QED
    BY <2>1, <2>2, <2>3
<1>2. ASSUME NEW y \in Leads(E, x) PROVE y \in Leads(F, x)
  <2>1. \A S \in SUBSET (0..MaxCalls) :
          x \in S /\ (\A e \in E : e[1] \in S => e[2] \in S) => y \in S
    BY <1>2 DEF Leads
  <2>2. y \in 0..MaxCalls
    BY <1>2 DEF Leads
  <2> QED
    BY <2>1, <2>2 DEF Leads
<1> QED
  BY <1>1, <1>2

\* ... and from its first to where its second leads.
LEMMA LeadsFurther ==
  ASSUME NEW E, NEW p \in 0..MaxCalls, NEW c \in 0..MaxCalls,
         \A e \in E : e[2] \in 0..MaxCalls
  PROVE  Leads(E \cup {<<p, c>>}, p) = Leads(E, p) \cup Leads(E, c)
<1> DEFINE F == E \cup {<<p, c>>}
           U == Leads(E, p) \cup Leads(E, c)
<1>1. ASSUME NEW y \in Leads(F, p) PROVE y \in U
  <2>1. U \in SUBSET (0..MaxCalls) /\ p \in U /\ c \in U
    BY LeadsToItself DEF Leads
  <2>2. \A e \in F : e[1] \in U => e[2] \in U
    BY <2>1, LeadsOn
  <2>3. \A S \in SUBSET (0..MaxCalls) :
          p \in S /\ (\A e \in F : e[1] \in S => e[2] \in S) => y \in S
    BY <1>1 DEF Leads
  <2> HIDE DEF U
  <2> QED
    BY <2>1, <2>2, <2>3
<1>2. ASSUME NEW y \in U PROVE y \in Leads(F, p)
  <2>1. y \in 0..MaxCalls
    BY <1>2 DEF Leads
  <2>2. ASSUME NEW S \in SUBSET (0..MaxCalls), p \in S, \A e \in F : e[1] \in S => e[2] \in S
        PROVE  y \in S
    <3>1. <<p, c>> \in F /\ <<p, c>>[1] = p /\ <<p, c>>[2] = c /\ E \subseteq F
      OBVIOUS
    <3>2. c \in S /\ \A e \in E : e[1] \in S => e[2] \in S
      BY <3>1, <2>2
    <3> QED
      BY <3>2, <2>2, <1>2 DEF Leads
  <2> QED
    BY <2>1, <2>2 DEF Leads
<1> QED
  BY <1>1, <1>2

-----------------------------------------------------------------------------
(***************************************************************************)
(* Contexts.                                                               *)
(***************************************************************************)

\* A context is no younger than those who have it.
LEMMA Contexts ==
  ASSUME Basic, NEW c \in Made
  PROVE  /\ c \in Calls /\ c \in 0..MaxCalls /\ c # Root
         /\ call[c].ctx \in 0..c /\ CtxOf(c) = call[c].ctx
         /\ call[c].from \in 0..MaxCalls /\ call[c].from < c
         /\ call[c].from = Root \/ call[c].from \in Made
         /\ Parent(c) \in 0..MaxCalls /\ Parent(c) < c
         /\ ~IsRemote(c) => call[c].ctx = Parent(c)
         /\ call[c].ctx = Root \/ (call[c].ctx \in Made /\ IsRemote(call[c].ctx))
         /\ Parent(c) = Root \/ (Parent(c) \in Made /\ IsRemote(Parent(c)))
<1>1. ASSUME NEW b \in Made
      PROVE  /\ b \in Calls /\ b \in 0..MaxCalls /\ b # Root
             /\ call[b].ctx \in 0..b /\ CtxOf(b) = call[b].ctx
             /\ call[b].ctx = Root \/ (call[b].ctx \in Made /\ IsRemote(call[b].ctx))
  <2>1. /\ b \in Calls /\ b \in 0..MaxCalls /\ b # Root /\ Lineage(b)
        /\ call[b].ctx \in 0..MaxCalls
    BY Fields
  <2>2. call[b].ctx \in 0..b /\ CtxOf(b) = call[b].ctx
    BY <2>1, Bounds DEF Lineage, IsRemote, CtxOf
  <2>3. call[b].ctx = Root \/ call[b].ctx \in Made
    <3>1. CASE IsRemote(b)
      BY <3>1 DEF IsRemote
    <3>2. CASE call[b].ctx \in Calls \ {b}
      BY <3>2, <2>1 DEF Lineage, Made, NoCall
    <3> QED
      BY <3>1, <3>2, <2>1, Bounds DEF IsRemote, Calls, Root
  <2> QED
    BY <2>1, <2>2, <2>3 DEF Lineage, CtxOf, IsRemote
<1>2. /\ Lineage(c) /\ call[c].from \in 0..MaxCalls
  BY Fields
<1>3. call[c].from < c /\ (call[c].from = Root \/ call[c].from \in Made)
  BY <1>2 DEF Lineage
<1>4. /\ Parent(c) \in 0..MaxCalls /\ Parent(c) < c
      /\ Parent(c) = Root \/ (Parent(c) \in Made /\ IsRemote(Parent(c)))
  <2>1. CASE call[c].from = Root
    BY <2>1, <1>1, Bounds DEF Parent, CtxOf, Root, Calls
  <2>2. CASE call[c].from # Root
    <3>1. call[c].from \in Made /\ Parent(c) = call[call[c].from].ctx
      BY <2>2, <1>3 DEF Parent, CtxOf
    <3> QED
      BY <3>1, <1>1, <1>2, <1>3, Bounds
  <2> QED
    BY <2>1, <2>2
<1>5. ~IsRemote(c) => call[c].ctx = Parent(c)
  BY <1>2 DEF Lineage, Parent
<1> QED
  BY <1>1, <1>2, <1>3, <1>4, <1>5

LEMMA ResultsAreCalls ==
  ASSUME Basic
  PROVE  /\ \A e \in Results : e[2] \in 0..MaxCalls
         /\ \A x, y \in 0..MaxCalls :
              y \in Into(x) /\ y # x => y \in Returned /\ Parent(y) \in Into(x)
         /\ \A x \in 0..MaxCalls : x \in Into(x)
<1>1. \A e \in Results : e[2] \in Returned /\ e[1] = Parent(e[2])
  BY DEF Results
<1>2. \A c \in Returned : c \in 0..MaxCalls
  BY Contexts DEF Returned
<1>3. ASSUME NEW x \in 0..MaxCalls, NEW y \in Into(x), y # x
      PROVE  y \in Returned /\ Parent(y) \in Into(x)
  <2>1. \E e \in Results : e[2] = y /\ e[1] \in Into(x)
    BY <1>1, <1>2, <1>3, LeadsBy DEF Into
  <2> QED
    BY <2>1, <1>1
<1> QED
  BY <1>1, <1>2, <1>3, LeadsToItself DEF Into

-----------------------------------------------------------------------------
(***************************************************************************)
(* The chain of those that share a context.                                *)
(***************************************************************************)

\* Whoever waits for a remote call is the last in its context.
LEMMA LastWaits ==
  ASSUME Basic, Linear, NEW c \in Made, Waiting(c), IsRemote(c),
         NEW b \in 0..MaxCalls, Actor(b), CtxOf(b) = Parent(c)
  PROVE  b <= call[c].from
<1> DEFINE m == call[c].from
<1>1. /\ m \in 0..MaxCalls /\ (m = Root \/ m \in Made)
      /\ Active(m) /\ CtxOf(m) = Parent(c) /\ Parent(c) < c
  BY Contexts DEF Linear, Parent
<1> SUFFICES ASSUME m < b PROVE FALSE
  BY <1>1
<1>2. b \in Calls
  BY <1>1, Bounds DEF Calls
<1>3. PICK w \in Made : Waiting(w) /\ call[w].from = m /\ call[w].ctx = Parent(c)
  BY <1>1, <1>2 DEF Linear, Chain, Actor
<1>4. w = c
  BY <1>3 DEF Linear
<1>5. call[c].ctx = c /\ c \in 0..MaxCalls
  BY Contexts DEF IsRemote
<1> QED
  BY <1>1, <1>3, <1>4, <1>5

\* Two that do not wait do not share a context.
LEMMA OneGoesOn ==
  ASSUME Basic, Linear, NEW k \in 0..MaxCalls, Actor(k), ~Waits(k),
         NEW b \in 0..MaxCalls, Actor(b), CtxOf(b) = CtxOf(k)
  PROVE  b <= k
<1> SUFFICES ASSUME k < b PROVE FALSE
  OBVIOUS
<1>1. b \in Calls
  BY Bounds DEF Calls
<1> QED
  BY <1>1 DEF Linear, Chain, Waits, Waiting

\* While one goes on, no remote call has a copy of its context.
LEMMA NoCopyWaits ==
  ASSUME Basic, Linear, NEW k \in 0..MaxCalls, Actor(k), ~Waits(k),
         NEW c \in Made, Waiting(c), IsRemote(c)
  PROVE  Parent(c) # CtxOf(k)
<1> SUFFICES ASSUME Parent(c) = CtxOf(k) PROVE FALSE
  OBVIOUS
<1> DEFINE m == call[c].from
<1>1. k <= m
  BY LastWaits
<1>2. m \in 0..MaxCalls /\ Actor(m) /\ CtxOf(m) = CtxOf(k)
  BY Contexts DEF Linear, Parent, Actor
<1>3. m <= k
  BY <1>2, OneGoesOn
<1>4. m = k
  BY <1>1, <1>2, <1>3
<1> QED
  BY <1>4 DEF Waits, Waiting

\* Steps that begin nothing keep the chain if those who wait wait on.
LEMMA ChainKept ==
  ASSUME Basic, Linear, Made' = Made,
         \A c \in Made : call'[c].from = call[c].from /\ call'[c].ctx = call[c].ctx,
         \A c \in Made : Waiting(c)' => Waiting(c) /\ Active(call[c].from)',
         \A x \in 0..MaxCalls : Active(x)' => Active(x),
         \A c \in Made : Active(c)' => Active(call[c].ctx)',
         \A c \in Made, b \in Calls :
           Waiting(c) /\ Active(call[c].from)' /\ Actor(b)' /\ c <= b
             /\ ~IsRemote(c) /\ call[c].ctx = CtxOf(b) => Waiting(c)'
  PROVE  Linear'
<1>1. \A x \in 0..MaxCalls : x = Root \/ x \in Made => CtxOf(x)' = CtxOf(x)
  BY DEF CtxOf
<1>2. ASSUME NEW a \in 0..MaxCalls, NEW b \in Calls,
             Actor(a)', Actor(b)', a < b, CtxOf(a)' = CtxOf(b)'
      PROVE  \E c \in Made : /\ Waiting(c)' /\ call'[c].from = a /\ c <= b
                             /\ call'[c].ctx = CtxOf(a)'
  <2>1. b \in 0..MaxCalls
    BY Bounds DEF Calls
  <2>2. Actor(a) /\ Actor(b) /\ CtxOf(a) = CtxOf(b) /\ CtxOf(a)' = CtxOf(a)
    BY <1>1, <1>2, <2>1 DEF Actor
  <2>3. PICK c \in Made : /\ Waiting(c) /\ call[c].from = a /\ c <= b
                          /\ call[c].ctx = CtxOf(a)
    BY <1>2, <2>2 DEF Linear, Chain
  <2>4. ~IsRemote(c)
    BY <2>3, Contexts DEF IsRemote, Parent
  <2>5. Active(call[c].from)'
    BY <1>2, <2>3 DEF Actor
  <2> QED
    BY <2>2, <2>3, <2>4, <2>5, <1>2
<1>3. Chain'
  BY <1>2 DEF Chain
<1>4. \A b, c \in Made : Waiting(b)' /\ Waiting(c)' /\ call'[b].from = call'[c].from => b = c
  BY DEF Linear
<1>5. \A c \in Made : Waiting(c)' => Active(call[c].from)'
  OBVIOUS
<1> QED
  BY <1>3, <1>4, <1>5 DEF Linear

\* What a step of one call changes.
LEMMA TurnEffect ==
  ASSUME Basic, NEW c \in Made, NEW stage \in Stages,
         NEW got \in {"waiting", "ok", "error", "gone"},
         NEW did \in {"no", "begun", "done", "threw", "cut"}, NEW set \in BOOLEAN,
         Turns(c, stage, got, did, set), UNCHANGED home, UNCHANGED root
  PROVE  /\ Made' = Made
         /\ call'[c].stage = stage /\ call'[c].got = got /\ call'[c].set = set
         /\ \A b \in Made : call'[b].from = call[b].from /\ call'[b].ctx = call[b].ctx
         /\ \A b \in Made : b # c => /\ Waiting(b)' <=> Waiting(b)
                                     /\ call'[b].set = call[b].set
                                     /\ call'[b].got = call[b].got
         /\ \A b \in Made : Parent(b)' = Parent(b) /\ (IsRemote(b)' <=> IsRemote(b))
         /\ \A x \in 0..MaxCalls : x # c => (Active(x)' <=> Active(x))
         /\ Active(c)' <=> stage = "method"
         /\ Waiting(c)' <=> got = "waiting"
<1> DEFINE next == [call[c] EXCEPT !.stage = stage, !.got = got, !.did = did, !.set = set]
<1>1. /\ Same(c, next) /\ next.got # "no" /\ next.got = got
      /\ next.stage = stage /\ next.set = set
  <2>1. call[c] \in Call
    BY DEF Basic, CallOK
  <2> QED
    BY <2>1 DEF Same, Call
<1>2. Become(c, next)
  BY DEF Turns
<1> HIDE DEF next
<1>3. /\ Made' = Made /\ call'[c] = next
      /\ \A b \in Calls : b # c => call'[b] = call[b]
      /\ \A b \in Made : call'[b].from = call[b].from /\ call'[b].ctx = call[b].ctx
  BY <1>1, <1>2, ChangeEffect
<1>4. \A x \in 0..MaxCalls : x = Root \/ x \in Made => CtxOf(x)' = CtxOf(x)
  BY <1>1, <1>2, ChangeEffect
<1>5. \A b \in Made : Parent(b)' = Parent(b) /\ (IsRemote(b)' <=> IsRemote(b))
  BY <1>3, <1>4, Contexts DEF Parent, IsRemote
<1>6. \A x \in 0..MaxCalls : x # c => (Active(x)' <=> Active(x))
  BY <1>3, Bounds DEF Active, Calls, Root
<1>7. c # Root
  BY Contexts
<1> QED
  BY <1>1, <1>3, <1>5, <1>6, <1>7 DEF Waiting, Active, Made

\* A step of one call that begins nothing keeps the chain, if who ends does not
\* wait and no one but a remote call's caller stops to wait while it goes on.
LEMMA TurnKeepsLinear ==
  ASSUME Basic, Linear, NEW c \in Made, NEW stage \in Stages,
         NEW got \in {"waiting", "ok", "error", "gone"},
         NEW did \in {"no", "begun", "done", "threw", "cut"}, NEW set \in BOOLEAN,
         Turns(c, stage, got, did, set), UNCHANGED home, UNCHANGED root,
         stage = "method" => call[c].stage = "method",
         got = "waiting" => call[c].got = "waiting",
         call[c].stage = "method" /\ stage # "method" => ~Waits(c),
         ~IsRemote(c) /\ got # call[c].got => call[c].stage = "method" /\ stage # "method"
  PROVE  Linear'
<1>1. /\ Made' = Made
      /\ \A b \in Made : call'[b].from = call[b].from /\ call'[b].ctx = call[b].ctx
      /\ \A b \in Made : b # c => (Waiting(b)' <=> Waiting(b))
      /\ \A x \in 0..MaxCalls : x # c => (Active(x)' <=> Active(x))
      /\ Active(c)' <=> stage = "method"
      /\ Waiting(c)' <=> got = "waiting"
  BY TurnEffect
<1>2. /\ c \in 0..MaxCalls /\ (Active(c) <=> call[c].stage = "method")
      /\ call[c].got \in {"waiting", "ok", "error", "gone"}
  BY Fields
<1>3. \A b \in Made : Waiting(b)' => Waiting(b)
  BY <1>1 DEF Waiting
<1>4. \A x \in 0..MaxCalls : Active(x)' => Active(x)
  BY <1>1, <1>2
<1>5. ASSUME Active(c), ~(Active(c)'), NEW b \in 0..MaxCalls, Actor(b)', CtxOf(b) = CtxOf(c)
      PROVE  b < c
  <2>1. Actor(c) /\ ~Waits(c) /\ Actor(b)
    BY <1>1, <1>2, <1>4, <1>5 DEF Actor
  <2>2. b <= c
    BY <2>1, <1>2, <1>5, OneGoesOn
  <2>3. b # c
    BY <1>5 DEF Actor
  <2> QED
    BY <2>2, <2>3, <1>2
<1>6. ASSUME NEW b \in Made, Waiting(b)' PROVE Active(call[b].from)'
  <2>1. Waiting(b) /\ Active(call[b].from) /\ call[b].from \in 0..MaxCalls
    BY <1>3, <1>6, Contexts DEF Linear
  <2>2. call[b].from = c => Waits(c)
    BY <2>1 DEF Waits, Waiting
  <2> QED
    BY <2>1, <2>2, <1>1, <1>2
<1>7. ASSUME NEW b \in Made, Active(b)' PROVE Active(call[b].ctx)'
  <2>1. /\ b \in 0..MaxCalls /\ call[b].ctx \in 0..b /\ CtxOf(b) = call[b].ctx
        /\ call[b].ctx = Root \/ IsRemote(call[b].ctx)
    BY Contexts
  <2>2. Active(call[b].ctx) /\ call[b].ctx \in 0..MaxCalls
    BY <2>1, <1>4, <1>7, Bounds DEF Linear
  <2>3. ASSUME call[b].ctx = c, ~(Active(c)') PROVE FALSE
    <3>1. IsRemote(c) /\ CtxOf(b) = CtxOf(c)
      BY <2>1, <2>3, Contexts DEF IsRemote
    <3>2. Actor(b)'
      BY <1>1, <1>7 DEF Actor
    <3>3. Active(c)
      BY <2>2, <2>3
    <3>4. b < c
      BY <1>5, <2>1, <2>3, <3>1, <3>2, <3>3
    <3> QED
      BY <3>4, <2>1, <2>3, <1>2
  <2> QED
    BY <2>2, <2>3, <1>1
<1>8. ASSUME NEW w \in Made, NEW b \in Calls, Waiting(w), Actor(b)', w <= b,
             ~IsRemote(w), call[w].ctx = CtxOf(b)
      PROVE  Waiting(w)'
  <2>1. CASE w # c
    BY <2>1, <1>1, <1>8
  <2>2. CASE w = c /\ got = "waiting"
    BY <2>2, <1>1
  <2>3. CASE w = c /\ got # "waiting"
    <3>1. call[c].got = "waiting" /\ ~IsRemote(c) /\ c <= b /\ call[c].ctx = CtxOf(b)
      BY <2>3, <1>8 DEF Waiting
    <3>2. Active(c) /\ ~(Active(c)')
      BY <2>3, <3>1, <1>1, <1>2
    <3>3. CtxOf(b) = CtxOf(c) /\ b \in 0..MaxCalls
      BY <3>1, Contexts, Bounds DEF Calls
    <3>4. b < c
      BY <3>2, <3>3, <1>5, <1>8
    <3> QED
      BY <3>1, <3>4, <1>2, <3>3
  <2> QED
    BY <2>1, <2>2, <2>3
<1> QED
  BY <1>1, <1>3, <1>4, <1>6, <1>7, <1>8, ChainKept

\* Cookies stay where they are told to be if none is set and no result comes.
LEMMA KeptUnchanged ==
  ASSUME Basic, Kept, UNCHANGED cookies,
         Made' = Made, Returned' = Returned,
         \A c \in Made : /\ call'[c].ctx = call[c].ctx /\ call'[c].set = call[c].set
                         /\ Parent(c)' = Parent(c),
         \A c \in Made : Waiting(c)' => Waiting(c)
  PROVE  Kept'
<1>1. Results' = Results
  BY DEF Results, Returned
<1>2. \A x : Into(x)' = Into(x)
  BY <1>1 DEF Into, Leads
<1>3. \A x : From(x)' = From(x)
  BY <1>2 DEF From
<1>4. From(Root)' = From(Root)
  BY <1>3
<1>5. \A c \in Made : From(c)' = From(c)
  BY <1>3
<1> QED
  BY <1>4, <1>5 DEF Kept, IsRemote

LEMMA TurnKeepsKept ==
  ASSUME Basic, Kept, NEW c \in Made, NEW stage \in Stages,
         NEW got \in {"waiting", "ok", "error", "gone"},
         NEW did \in {"no", "begun", "done", "threw", "cut"},
         Turns(c, stage, got, did, call[c].set), UNCHANGED home, UNCHANGED root,
         UNCHANGED cookies,
         got = "waiting" => call[c].got = "waiting",
         IsRemote(c) => (got = "ok" <=> call[c].got = "ok")
  PROVE  Kept'
<1>1. /\ Made' = Made
      /\ call'[c].got = got /\ call'[c].set = call[c].set
      /\ \A b \in Made : call'[b].from = call[b].from /\ call'[b].ctx = call[b].ctx
      /\ \A b \in Made : b # c => /\ Waiting(b)' <=> Waiting(b)
                                  /\ call'[b].set = call[b].set
                                  /\ call'[b].got = call[b].got
      /\ \A b \in Made : Parent(b)' = Parent(b) /\ (IsRemote(b)' <=> IsRemote(b))
      /\ Waiting(c)' <=> got = "waiting"
  BY TurnEffect, Fields
<1>2. Returned' = Returned
  BY <1>1 DEF Returned
<1>3. \A b \in Made : Waiting(b)' => Waiting(b)
  BY <1>1 DEF Waiting
<1> QED
  BY <1>1, <1>2, <1>3, KeptUnchanged

-----------------------------------------------------------------------------
(***************************************************************************)
(* Every step of code that awaits its calls keeps the chain and the        *)
(* cookies.                                                                *)
(***************************************************************************)

\* Code that has not gone ahead, and does not now, waits for nothing.
LEMMA NotAhead ==
  ASSUME NEW x, GoesOn(x), ahead = 0, ahead' = 0
  PROVE  ~Waits(x)
  BY DEF GoesOn

LEMMA FinishAwaited ==
  ASSUME Basic, Linear, Kept, NEW c \in Calls, Finish(c) \/ Throw(c), ahead = 0, ahead' = 0
  PROVE  Linear' /\ Kept'
<1>1. /\ c \in Made /\ call[c].stage = "method" /\ GoesOn(c)
      /\ UNCHANGED home /\ UNCHANGED root /\ UNCHANGED cookies
  BY GuardMeansMade, Bounds DEF Finish, Throw, Active, Calls, Root
<1>2. ~Waits(c)
  BY <1>1, NotAhead
<1> DEFINE f == Finish(c)
           stage == IF IsRemote(c) THEN IF f THEN "after" ELSE "failed" ELSE "over"
           got == IF IsRemote(c) THEN call[c].got ELSE IF f THEN "ok" ELSE "error"
           did == IF f THEN "done" ELSE "threw"
<1>3. Turns(c, stage, got, did, call[c].set)
  <2>1. CASE Finish(c)
    BY <1>1, <2>1, TurnsAs DEF Finish
  <2>2. CASE ~Finish(c)
    BY <1>1, <2>2, TurnsAs DEF Throw
  <2> QED
    BY <2>1, <2>2
<1>4. /\ stage \in Stages /\ stage # "method"
      /\ got \in {"waiting", "ok", "error", "gone"}
      /\ did \in {"no", "begun", "done", "threw", "cut"}
      /\ got = "waiting" => call[c].got = "waiting"
      /\ IsRemote(c) => got = call[c].got
  BY <1>1, Fields DEF Stages
<1> HIDE DEF stage, got, did, f
<1>5. Linear'
  BY <1>1, <1>2, <1>3, <1>4, Fields, TurnKeepsLinear
<1>6. Kept'
  BY <1>1, <1>3, <1>4, TurnKeepsKept
<1> QED
  BY <1>5, <1>6

\* Steps of messages and connections, but for results.
LEMMA MessageAwaited ==
  ASSUME Basic, Linear, Kept, NEW c \in Made, NEW stage \in Stages,
         NEW got \in {"waiting", "ok", "error", "gone"},
         IsRemote(c), Turns(c, stage, got, call[c].did, call[c].set),
         UNCHANGED home, UNCHANGED root, UNCHANGED cookies,
         stage # "method" \/ stage = call[c].stage,
         call[c].stage # "method" \/ stage = call[c].stage,
         got = call[c].got \/ (call[c].got = "waiting" /\ got = "error")
  PROVE  Linear' /\ Kept'
<1>1. Linear'
  BY Fields, TurnKeepsLinear
<1>2. Kept'
  BY Fields, TurnKeepsKept
<1> QED
  BY <1>1, <1>2

LEMMA BreakAwaited ==
  ASSUME Basic, Linear, Kept, NEW c \in Calls, Break(c)
  PROVE  Linear' /\ Kept'
<1>1. /\ c \in Made /\ call[c].got = "waiting" /\ IsRemote(c)
      /\ UNCHANGED home /\ UNCHANGED root /\ UNCHANGED cookies
  BY GuardMeansMade DEF Break, Hears, Others
<1>2. CASE Become(c, [call[c] EXCEPT !.got = "error"])
  <2>1. Turns(c, call[c].stage, "error", call[c].did, call[c].set)
    BY <1>1, <1>2, TurnsAs
  <2> QED
    BY <1>1, <2>1, Fields, MessageAwaited
<1>3. CASE call[c].stage = "sent" /\ Become(c, [call[c] EXCEPT !.got = "error", !.stage = "over"])
  <2>1. Turns(c, "over", "error", call[c].did, call[c].set)
    BY <1>1, <1>3, TurnsAs
  <2> QED
    BY <1>1, <1>3, <2>1, Fields, MessageAwaited DEF Stages
<1> QED
  BY <1>2, <1>3 DEF Break

LEMMA MessagesAwaited ==
  ASSUME Basic, Linear, Kept, NEW c \in Calls,
         Arrive(c) \/ Refuse(c) \/ After(c) \/ Reset(c)
  PROVE  Linear' /\ Kept'
<1>1. /\ UNCHANGED home /\ UNCHANGED root /\ UNCHANGED cookies
  BY DEF Arrive, Refuse, After, Reset, Others
<1>2. {"failed", "before", "answered", "over"} \subseteq Stages
  BY DEF Stages
<1>3. CASE Arrive(c)
  <2>1. c \in Made /\ call[c].stage = "sent"
    BY <1>3, GuardMeansMade DEF Arrive
  <2>2. PICK stage \in {"failed", "before"} :
          Turns(c, stage, call[c].got, call[c].did, call[c].set)
    BY <1>3, <2>1, TurnsAs DEF Arrive
  <2>3. IsRemote(c)
    BY <2>1, Fields DEF Staged
  <2> QED
    BY <1>1, <1>2, <2>1, <2>2, <2>3, Fields, MessageAwaited
<1>4. CASE Refuse(c)
  <2>1. c \in Made /\ call[c].stage = "sent"
    BY <1>4, GuardMeansMade DEF Refuse
  <2> DEFINE got == IF call[c].got = "waiting" THEN "error" ELSE call[c].got
  <2>2. Turns(c, "over", got, call[c].did, call[c].set)
    BY <1>4, <2>1, TurnsAs DEF Refuse
  <2>3. IsRemote(c)
    BY <2>1, Fields DEF Staged
  <2>4. /\ got \in {"waiting", "ok", "error", "gone"}
        /\ got = call[c].got \/ (call[c].got = "waiting" /\ got = "error")
    BY <2>1, Fields
  <2> HIDE DEF got
  <2> QED
    BY <1>1, <1>2, <2>1, <2>2, <2>3, <2>4, MessageAwaited
<1>5. CASE After(c)
  <2>1. c \in Made /\ call[c].stage = "after"
    BY <1>5, GuardMeansMade DEF After
  <2>2. PICK stage \in {"answered", "failed"} :
          Turns(c, stage, call[c].got, call[c].did, call[c].set)
    BY <1>5, <2>1, TurnsAs DEF After
  <2>3. IsRemote(c)
    BY <2>1, Fields DEF Staged
  <2> QED
    BY <1>1, <1>2, <2>1, <2>2, <2>3, Fields, MessageAwaited
<1>6. CASE Reset(c)
  <2>1. /\ c \in Made /\ call[c].stage = "over" /\ IsRemote(c)
        /\ call[c].got = "waiting"
    BY <1>6, GuardMeansMade DEF Reset, Hears
  <2>2. Turns(c, "over", "error", call[c].did, call[c].set)
    BY <1>6, <2>1, TurnsAs DEF Reset
  <2> QED
    BY <1>1, <1>2, <2>1, <2>2, Fields, MessageAwaited
<1> QED
  BY <1>3, <1>4, <1>5, <1>6

\* A remote method that begins is the first in its context.
LEMMA BeforeAwaited ==
  ASSUME Basic, Linear, Kept, NEW c \in Calls, Before(c)
  PROVE  Linear' /\ Kept'
<1>1. /\ c \in Made /\ call[c].stage = "before"
      /\ UNCHANGED home /\ UNCHANGED root /\ UNCHANGED cookies
  BY GuardMeansMade DEF Before, Others
<1>2. IsRemote(c) /\ call[c].did = "no"
  BY <1>1, Fields DEF Staged
<1>3. CASE Become(c, [call[c] EXCEPT !.stage = "failed"])
  <2>1. Turns(c, "failed", call[c].got, call[c].did, call[c].set)
    BY <1>1, <1>3, TurnsAs
  <2> QED
    BY <1>1, <1>2, <2>1, Fields, MessageAwaited DEF Stages
<1>4. CASE Become(c, [call[c] EXCEPT !.stage = "method", !.did = "begun"])
  <2>1. Turns(c, "method", call[c].got, "begun", call[c].set)
    BY <1>1, <1>4, TurnsAs
  <2>2. "method" \in Stages
    BY DEF Stages
  <2>3. Kept'
    BY <1>1, <2>1, <2>2, Fields, TurnKeepsKept
  <2>4. /\ Made' = Made
        /\ \A b \in Made : call'[b].from = call[b].from /\ call'[b].ctx = call[b].ctx
        /\ \A b \in Made : b # c => (Waiting(b)' <=> Waiting(b))
        /\ \A x \in 0..MaxCalls : x # c => (Active(x)' <=> Active(x))
        /\ Active(c)'
        /\ Waiting(c)' <=> call[c].got = "waiting"
    BY <1>1, <2>1, <2>2, Fields, TurnEffect
  <2>5. \A b \in Made : Waiting(b)' <=> Waiting(b)
    BY <1>1, <2>4 DEF Waiting
  <2>6. \A b \in Made : Active(b)' => Active(call[b].ctx)'
    <3> SUFFICES ASSUME NEW b \in Made, Active(b)' PROVE Active(call[b].ctx)'
      OBVIOUS
    <3>1. call[b].ctx \in 0..MaxCalls /\ b \in 0..MaxCalls
      BY Contexts, Bounds
    <3>2. CASE call[b].ctx = c
      BY <3>2, <2>4
    <3>3. CASE b = c
      BY <3>3, <1>2, <2>4 DEF IsRemote
    <3>4. CASE call[b].ctx # c /\ b # c
      BY <3>1, <3>4, <2>4 DEF Linear
    <3> QED
      BY <3>2, <3>3, <3>4
  <2>7. \A b \in Made : b # c => call[b].ctx # c
    BY <1>1, <1>2, Fields DEF Lineage
  <2>8. ASSUME NEW a \in 0..MaxCalls, NEW b \in Calls,
               Actor(a)', Actor(b)', a < b, CtxOf(a)' = CtxOf(b)'
        PROVE  \E w \in Made : /\ Waiting(w) /\ call[w].from = a /\ w <= b
                               /\ call[w].ctx = CtxOf(a)
    <3>1. /\ b \in Made /\ (a = Root \/ a \in Made) /\ b \in 0..MaxCalls
          /\ CtxOf(a)' = CtxOf(a) /\ CtxOf(b)' = CtxOf(b)
      BY <2>4, <2>8, Bounds DEF Actor, CtxOf, Calls, Root
    <3>2. a # c
      <4> SUFFICES ASSUME a = c PROVE FALSE
        OBVIOUS
      <4>1. CtxOf(b) = c /\ b # c
        <5>1. CtxOf(a) = c
          BY <1>1, <1>2, Contexts DEF IsRemote
        <5>2. CtxOf(b) = CtxOf(a)
          BY <2>8, <3>1
        <5>3. b # c
          BY <2>8
        <5> QED
          BY <5>1, <5>2, <5>3
      <4> QED
        BY <4>1, <3>1, <2>7, Contexts
    <3>3. b # c
      <4> SUFFICES ASSUME b = c PROVE FALSE
        OBVIOUS
      <4>1. CtxOf(a) = c
        BY <2>8, <3>1, <1>1, <1>2, Contexts DEF IsRemote
      <4>2. a \in Made
        BY <4>1, <3>1, <1>1, Contexts DEF CtxOf
      <4> QED
        BY <4>1, <4>2, <3>2, <2>7, Contexts
    <3>4. Actor(a) /\ Actor(b) /\ CtxOf(a) = CtxOf(b)
      BY <2>4, <2>8, <3>1, <3>2, <3>3 DEF Actor
    <3> QED
      BY <3>4, <2>8 DEF Linear, Chain
  <2>9. Chain'
    <3>1. \A x \in 0..MaxCalls : x = Root \/ x \in Made => CtxOf(x)' = CtxOf(x)
      BY <2>4 DEF CtxOf
    <3>2. \A x : Actor(x)' => x = Root \/ x \in Made
      BY <2>4 DEF Actor
    <3> QED
      BY <3>1, <3>2, <2>4, <2>5, <2>8 DEF Chain
  <2>10. \A b \in Made : Waiting(b)' => Active(call[b].from)'
    <3> SUFFICES ASSUME NEW b \in Made, Waiting(b) PROVE Active(call[b].from)'
      BY <2>5
    <3>1. Active(call[b].from) /\ call[b].from \in 0..MaxCalls
      BY Contexts DEF Linear
    <3> QED
      BY <3>1, <2>4
  <2>11. \A a, b \in Made : Waiting(a)' /\ Waiting(b)' /\ call'[a].from = call'[b].from => a = b
    BY <2>4, <2>5 DEF Linear
  <2>12. Linear'
    BY <2>4, <2>6, <2>9, <2>10, <2>11 DEF Linear
  <2> QED
    BY <2>3, <2>12
<1> QED
  BY <1>3, <1>4 DEF Before

\* A context whose code runs is not one whose result has come.
LEMMA RunningIsNotReturned ==
  ASSUME Basic, Linear, NEW m \in 0..MaxCalls, Actor(m)
  PROVE  CtxOf(m) \in 0..MaxCalls /\ CtxOf(m) \notin Returned
<1>1. CASE m = Root
  BY <1>1, Contexts DEF CtxOf, Returned
<1>2. CASE m # Root
  <2>1. /\ m \in Made /\ CtxOf(m) = call[m].ctx /\ Active(call[m].ctx)
        /\ call[m].ctx \in 0..MaxCalls
    BY <1>2, Contexts, Fields DEF Actor, Linear
  <2>2. ASSUME call[m].ctx \in Made PROVE call[call[m].ctx].got # "ok"
    <3>1. call[call[m].ctx].stage = "method"
      BY <2>1, <2>2, Fields
    <3> QED
      BY <3>1, <2>2, Fields DEF Staged
  <2> QED
    BY <2>1, <2>2 DEF Returned
<1> QED
  BY <1>1, <1>2

LEMMA SetCookieAwaited ==
  ASSUME Basic, Linear, Kept, NEW c \in Calls, SetCookie(c), ahead = 0, ahead' = 0
  PROVE  Linear' /\ Kept'
<1> DEFINE x == call[c].ctx
<1>1. /\ c \in Made /\ call[c].stage = "method" /\ GoesOn(c) /\ Active(c)
      /\ UNCHANGED home /\ UNCHANGED root
      /\ cookies' = [cookies EXCEPT ![x] = @ \cup {c}]
  BY GuardMeansMade, Bounds DEF SetCookie, Active, Calls, Root
<1>2. ~Waits(c)
  BY <1>1, NotAhead
<1>3. Turns(c, call[c].stage, call[c].got, call[c].did, TRUE)
  BY <1>1, TurnsAs DEF SetCookie
<1>4. Linear'
  <2>1. /\ call[c].stage \in Stages /\ call[c].got \in {"waiting", "ok", "error", "gone"}
        /\ call[c].did \in {"no", "begun", "done", "threw", "cut"} /\ TRUE \in BOOLEAN
    BY <1>1, Fields
  <2> QED
    BY <2>1, <1>1, <1>3, TurnKeepsLinear
<1>5. /\ Made' = Made
      /\ call'[c].set /\ call'[c].got = call[c].got
      /\ \A b \in Made : call'[b].from = call[b].from /\ call'[b].ctx = call[b].ctx
      /\ \A b \in Made : b # c => /\ Waiting(b)' <=> Waiting(b)
                                  /\ call'[b].set = call[b].set
                                  /\ call'[b].got = call[b].got
      /\ \A b \in Made : Parent(b)' = Parent(b) /\ (IsRemote(b)' <=> IsRemote(b))
      /\ Waiting(c)' <=> call[c].got = "waiting"
  <2> DEFINE stage == call[c].stage
             got == call[c].got
             did == call[c].did
             set == TRUE
  <2>1. /\ stage \in Stages /\ got \in {"waiting", "ok", "error", "gone"}
        /\ did \in {"no", "begun", "done", "threw", "cut"} /\ set \in BOOLEAN
        /\ Turns(c, stage, got, did, set)
    BY <1>1, <1>3, Fields
  <2>2. set /\ got = call[c].got
    OBVIOUS
  <2>3. UNCHANGED home /\ UNCHANGED root /\ c \in Made
    BY <1>1
  <2> HIDE DEF stage, got, did, set
  <2>4. /\ Made' = Made
        /\ call'[c].set = set /\ call'[c].got = got
        /\ \A b \in Made : call'[b].from = call[b].from /\ call'[b].ctx = call[b].ctx
        /\ \A b \in Made : b # c => /\ Waiting(b)' <=> Waiting(b)
                                    /\ call'[b].set = call[b].set
                                    /\ call'[b].got = call[b].got
        /\ \A b \in Made : Parent(b)' = Parent(b) /\ (IsRemote(b)' <=> IsRemote(b))
        /\ Waiting(c)' <=> got = "waiting"
    BY <2>1, <2>3, TurnEffect
  <2> QED
    BY <2>2, <2>4
<1>6. \A b \in Made : Waiting(b)' <=> Waiting(b)
  BY <1>1, <1>5 DEF Waiting
<1>7. Returned' = Returned
  BY <1>5 DEF Returned
<1>8. Results' = Results
  BY <1>5, <1>7 DEF Results, Returned
<1>9. \A z : Into(z)' = Into(z)
  BY <1>8 DEF Into, Leads
<1>10. /\ x \in 0..MaxCalls /\ x = CtxOf(c) /\ c \in 0..MaxCalls /\ Actor(c)
       /\ x \notin Returned
  BY <1>1, Contexts, RunningIsNotReturned DEF Actor
<1>11. \A z \in 0..MaxCalls : z # x => x \notin Into(z)
  BY <1>10, ResultsAreCalls
<1>12. x \in Into(x)
  BY <1>10, ResultsAreCalls
<1>13. \A z \in 0..MaxCalls : From(z)' = IF z = x THEN From(z) \cup {c} ELSE From(z)
  <2> SUFFICES ASSUME NEW z \in 0..MaxCalls
               PROVE  From(z)' = IF z = x THEN From(z) \cup {c} ELSE From(z)
    OBVIOUS
  <2>1. From(z)' = {b \in Made : call'[b].set /\ call[b].ctx \in Into(z)}
    BY <1>5, <1>9 DEF From
  <2>2. CASE z = x
    BY <2>1, <2>2, <1>1, <1>5, <1>12 DEF From
  <2>3. CASE z # x
    BY <2>1, <2>3, <1>1, <1>5, <1>11 DEF From
  <2> QED
    BY <2>2, <2>3
<1>14. \A z \in 0..MaxCalls : cookies'[z] = IF z = x THEN cookies[z] \cup {c} ELSE cookies[z]
  BY <1>1, <1>10, Fields
<1>15. Root \in 0..MaxCalls
  BY Bounds DEF Root
<1>16. cookies'[Root] = From(Root)'
  BY <1>13, <1>14, <1>15 DEF Kept
<1>17. ASSUME NEW b \in Made, Waiting(b), IsRemote(b)
       PROVE  cookies'[b] = cookies'[Parent(b)] \cup From(b)'
  <2>1. Parent(b) # x
    BY <1>2, <1>10, <1>17, NoCopyWaits
  <2>2. b \in 0..MaxCalls /\ Parent(b) \in 0..MaxCalls
    BY Contexts
  <2>3. cookies[b] = cookies[Parent(b)] \cup From(b)
    BY <1>17 DEF Kept
  <2>4. cookies'[Parent(b)] = cookies[Parent(b)]
    BY <2>1, <2>2, <1>14
  <2>5. CASE b = x
    BY <2>2, <2>3, <2>4, <2>5, <1>13, <1>14
  <2>6. CASE b # x
    BY <2>2, <2>3, <2>4, <2>6, <1>13, <1>14
  <2> QED
    BY <2>5, <2>6
<1>18. Kept'
  <2>1. \A b \in Made : Waiting(b)' /\ IsRemote(b)'
               => cookies'[b] = (cookies[Parent(b)])' \cup From(b)'
    BY <1>5, <1>6, <1>17
  <2> QED
    BY <2>1, <1>5, <1>16 DEF Kept
<1> QED
  BY <1>4, <1>18

LEMMA DeliverAwaited ==
  ASSUME Basic, Linear, Kept, NEW c \in Calls, Deliver(c)
  PROVE  Linear' /\ Kept'
<1> DEFINE p == Parent(c)
<1>1. /\ c \in Made /\ call[c].got = "waiting" /\ IsRemote(c) /\ Waiting(c)
      /\ UNCHANGED home /\ UNCHANGED root
  BY GuardMeansMade DEF Deliver, Hears, Others, Waiting
<1>2. "over" \in Stages
  BY DEF Stages
<1>3. CASE call[c].stage = "failed" /\ Become(c, [call[c] EXCEPT !.stage = "over", !.got = "error"])
           /\ UNCHANGED cookies
  <2>1. Turns(c, "over", "error", call[c].did, call[c].set)
    BY <1>1, <1>3, TurnsAs
  <2> QED
    BY <1>1, <1>2, <1>3, <2>1, MessageAwaited
<1>4. CASE call[c].stage = "answered" /\ Become(c, [call[c] EXCEPT !.stage = "over", !.got = "ok"])
           /\ cookies' = [cookies EXCEPT ![p] = Merged(@, cookies[c])]
  <2>1. Turns(c, "over", "ok", call[c].did, call[c].set)
    BY <1>1, <1>4, TurnsAs
  <2>2. Linear'
    BY <1>1, <1>2, <1>4, <2>1, Fields, TurnKeepsLinear
  <2>3. /\ Made' = Made
        /\ call'[c].set = call[c].set /\ call'[c].got = "ok"
        /\ \A b \in Made : call'[b].from = call[b].from /\ call'[b].ctx = call[b].ctx
        /\ \A b \in Made : b # c => /\ Waiting(b)' <=> Waiting(b)
                                    /\ call'[b].set = call[b].set
                                    /\ call'[b].got = call[b].got
        /\ \A b \in Made : Parent(b)' = Parent(b) /\ (IsRemote(b)' <=> IsRemote(b))
        /\ ~(Waiting(c)')
    BY <1>1, <1>2, <2>1, Fields, TurnEffect
  <2>4. /\ c \in 0..MaxCalls /\ p \in 0..MaxCalls /\ p < c
        /\ call[c].from \in 0..MaxCalls /\ Actor(call[c].from) /\ CtxOf(call[c].from) = p
    BY <1>1, Contexts DEF Linear, Actor, Parent
  <2>5. p \notin Returned
    BY <2>4, RunningIsNotReturned
  <2>6. Returned' = Returned \cup {c}
    BY <1>1, <2>3 DEF Returned
  <2>7. Results' = Results \cup {<<p, c>>}
    <3>1. Results' = {<<Parent(b), b>> : b \in Returned \cup {c}}
      BY <1>1, <2>3, <2>6 DEF Results, Returned
    <3> QED
      BY <3>1 DEF Results
  <2>8. \A z \in 0..MaxCalls : Into(z)' = IF z = p THEN Into(z) \cup Into(c) ELSE Into(z)
    <3> SUFFICES ASSUME NEW z \in 0..MaxCalls
                 PROVE  Into(z)' = IF z = p THEN Into(z) \cup Into(c) ELSE Into(z)
      OBVIOUS
    <3>1. Into(z)' = Leads(Results \cup {<<p, c>>}, z)
      BY <2>7 DEF Into, Leads
    <3>2. \A e \in Results : e[2] \in 0..MaxCalls
      BY ResultsAreCalls
    <3>3. CASE z = p
      BY <2>4, <3>1, <3>2, <3>3, LeadsFurther DEF Into
    <3>4. CASE z # p
      <4>1. p \notin Leads(Results, z)
        BY <2>4, <2>5, <3>4, ResultsAreCalls DEF Into
      <4> QED
        BY <2>4, <3>1, <3>2, <3>4, <4>1, LeadsAside DEF Into
    <3> QED
      BY <3>3, <3>4
  <2>9. \A z \in 0..MaxCalls : From(z)' = IF z = p THEN From(z) \cup From(c) ELSE From(z)
    <3> SUFFICES ASSUME NEW z \in 0..MaxCalls
                 PROVE  From(z)' = IF z = p THEN From(z) \cup From(c) ELSE From(z)
      OBVIOUS
    <3>1. \A b \in Made : call'[b].set = call[b].set
      BY <2>3
    <3>2. From(z)' = {b \in Made : call[b].set /\ call[b].ctx \in Into(z)'}
      BY <2>3, <3>1 DEF From
    <3>3. CASE z = p
      BY <2>8, <3>2, <3>3 DEF From
    <3>4. CASE z # p
      BY <2>8, <3>2, <3>4 DEF From
    <3> QED
      BY <3>3, <3>4
  <2>10. cookies[c] = cookies[p] \cup From(c)
    BY <1>1 DEF Kept
  <2>11. Merged(cookies[p], cookies[c]) = cookies[p] \cup From(c)
    BY <2>10 DEF Merged
  <2>12. \A z \in 0..MaxCalls :
           cookies'[z] = IF z = p THEN cookies[z] \cup From(c) ELSE cookies[z]
    BY <1>1, <1>4, <2>4, <2>11, Fields
  <2>13. Root \in 0..MaxCalls
    BY Bounds DEF Root
  <2>14. cookies'[Root] = From(Root)'
    BY <2>9, <2>12, <2>13 DEF Kept
  <2>15. ASSUME NEW b \in Made, b # c, Waiting(b), IsRemote(b)
         PROVE  cookies'[b] = cookies'[Parent(b)] \cup From(b)'
    <3>1. Parent(b) # p
      <4> SUFFICES ASSUME Parent(b) = p PROVE FALSE
        OBVIOUS
      <4>1. /\ call[b].from \in 0..MaxCalls /\ Actor(call[b].from)
            /\ CtxOf(call[b].from) = Parent(b)
        BY <2>15, Contexts DEF Linear, Actor, Parent
      <4>2. call[c].from <= call[b].from
        BY <2>4, <2>15, LastWaits
      <4>3. call[b].from <= call[c].from
        BY <1>1, <4>1, LastWaits
      <4>4. call[b].from = call[c].from
        BY <2>4, <4>1, <4>2, <4>3
      <4> QED
        BY <1>1, <2>15, <4>4 DEF Linear
    <3>2. b \in 0..MaxCalls /\ Parent(b) \in 0..MaxCalls
      BY Contexts
    <3>3. cookies[b] = cookies[Parent(b)] \cup From(b)
      BY <2>15 DEF Kept
    <3>4. cookies'[Parent(b)] = cookies[Parent(b)]
      BY <3>1, <3>2, <2>12
    <3>5. CASE b = p
      BY <3>2, <3>3, <3>4, <3>5, <2>9, <2>12
    <3>6. CASE b # p
      BY <3>2, <3>3, <3>4, <3>6, <2>9, <2>12
    <3> QED
      BY <3>5, <3>6
  <2>16. Kept'
    <3>1. \A b \in Made : Waiting(b)' /\ IsRemote(b)'
                 => cookies'[b] = (cookies[Parent(b)])' \cup From(b)'
      BY <2>3, <2>15
    <3> QED
      BY <3>1, <2>3, <2>14 DEF Kept
  <2> QED
    BY <2>2, <2>16
<1> QED
  BY <1>3, <1>4 DEF Deliver, Parent

LEMMA StopAwaited ==
  ASSUME Basic, Linear, Kept, NEW p \in Procs, Stop(p)
  PROVE  Linear' /\ Kept'
<1>1. /\ Made' = Made
      /\ root' = IF root = "live" /\ home = p THEN "over" ELSE root
      /\ UNCHANGED <<home, cookies>>
      /\ \A c \in Made :
           /\ call'[c].from = call[c].from /\ call'[c].by = call[c].by
           /\ call'[c].at = call[c].at /\ call'[c].ctx = call[c].ctx
           /\ call'[c].set = call[c].set
           /\ call'[c].stage = IF call[c].at = p /\ call[c].stage # "sent"
                               THEN "over" ELSE call[c].stage
           /\ call'[c].got = IF call[c].by = p /\ call[c].got = "waiting"
                             THEN "gone" ELSE call[c].got
      /\ \A c \in Calls \ Made : call'[c] = NoCall
  BY StopEffect
<1>2. \A x \in 0..MaxCalls : x = Root \/ x \in Made => CtxOf(x)' = CtxOf(x)
  BY StopEffect
<1>3. \A c \in Made : Waiting(c)' <=> (Waiting(c) /\ call[c].by # p)
  BY <1>1 DEF Waiting
<1>4. \A x \in 0..MaxCalls : x = Root \/ x \in Made => (Active(x)' <=> (Active(x) /\ ProcOf(x) # p))
  <2> SUFFICES ASSUME NEW x \in 0..MaxCalls, x = Root \/ x \in Made
               PROVE  Active(x)' <=> (Active(x) /\ ProcOf(x) # p)
    OBVIOUS
  <2>1. CASE x = Root
    BY <2>1, <1>1 DEF Active, ProcOf
  <2>2. CASE x # Root
    BY <2>2, <1>1 DEF Active, ProcOf
  <2> QED
    BY <2>1, <2>2
<1>5. \A x \in 0..MaxCalls : Active(x)' => Active(x)
  <2> SUFFICES ASSUME NEW x \in 0..MaxCalls, Active(x)' PROVE Active(x)
    OBVIOUS
  <2>1. CASE x = Root \/ x \in Made
    BY <2>1, <1>4
  <2>2. CASE ~(x = Root \/ x \in Made)
    <3>1. call'[x] = NoCall /\ x # Root
      BY <2>2, <1>1, Bounds DEF Calls, Root
    <3> QED
      BY <3>1 DEF Active, NoCall
  <2> QED
    BY <2>1, <2>2
<1>6. \A c \in Made : /\ c \in 0..MaxCalls /\ c # Root
                      /\ call[c].from \in 0..MaxCalls
                      /\ (call[c].from = Root \/ call[c].from \in Made)
                      /\ call[c].ctx \in 0..MaxCalls /\ (call[c].ctx = Root \/ call[c].ctx \in Made)
                      /\ call[c].by = ProcOf(call[c].from) /\ ProcOf(c) = ProcOf(call[c].ctx)
  BY Contexts, Fields DEF Lineage, ProcOf
<1>7. \A c \in Made : Waiting(c)' => Waiting(c) /\ Active(call[c].from)'
  BY <1>1, <1>3, <1>4, <1>6 DEF Linear
<1>8. \A c \in Made : Active(c)' => Active(call[c].ctx)'
  BY <1>1, <1>4, <1>6 DEF Linear
<1>9. ASSUME NEW c \in Made, Waiting(c), Active(call[c].from)' PROVE Waiting(c)'
  BY <1>1, <1>3, <1>4, <1>6, <1>9
<1>10. Linear'
  BY <1>1, <1>5, <1>7, <1>8, <1>9, ChainKept
<1>11. \A c \in Made : Parent(c)' = Parent(c)
  BY <1>1, <1>2, <1>6 DEF Parent
<1>12. Returned' = Returned
  BY <1>1 DEF Returned, IsRemote
<1>13. Kept'
  BY <1>1, <1>7, <1>11, <1>12, KeptUnchanged
<1> QED
  BY <1>10, <1>13

\* Steps of the first code and of processes that start.
LEMMA OthersAwaited ==
  ASSUME Basic, Linear, Kept, ahead = 0, ahead' = 0,
         \/ \E p \in Procs : \/ \E s \in Services : Request(p, s)
                             \/ StartUp(p) \/ Start(p) \/ Started(p)
         \/ RootEnds \/ UNCHANGED vars
  PROVE  Linear' /\ Kept'
<1>1. UNCHANGED call /\ UNCHANGED cookies
  BY DEF Request, StartUp, Start, Started, RootEnds, vars
<1>2. /\ Made' = Made
      /\ \A c \in Made : Waiting(c)' <=> Waiting(c)
      /\ \A x \in 0..MaxCalls : x # Root => (Active(x)' <=> Active(x))
      /\ \A x : CtxOf(x)' = CtxOf(x)
      /\ \A c \in Made : Parent(c)' = Parent(c)
  BY <1>1 DEF Made, Waiting, Active, CtxOf, Parent
<1>3. Returned' = Returned
  BY <1>1, <1>2 DEF Returned, IsRemote
<1>4. Kept'
  BY <1>1, <1>2, <1>3, KeptUnchanged
<1>5. CASE Made = {}
  <2>1. \A b \in Calls : ~(Actor(b)')
    BY <1>2, <1>5, Bounds DEF Actor, Calls, Root
  <2> QED
    BY <1>2, <1>4, <1>5, <2>1 DEF Linear, Chain
<1>6. CASE Made # {}
  <2>1. root' = root \/ (RootEnds /\ root = "live")
    BY <1>6 DEF Request, StartUp, Start, Started, RootEnds, vars, Basic
  <2>2. \A x \in 0..MaxCalls : Active(x)' => Active(x)
    BY <1>2, <2>1 DEF Active, RootEnds
  <2>3. ASSUME Active(Root), ~(Active(Root)') PROVE ~Waits(Root)
    BY <2>1, <2>3, NotAhead DEF RootEnds, Active
  <2>4. \A c \in Made : Waiting(c)' => Waiting(c) /\ Active(call[c].from)'
    <3> SUFFICES ASSUME NEW c \in Made, Waiting(c) PROVE Active(call[c].from)'
      BY <1>2
    <3>1. Active(call[c].from) /\ call[c].from \in 0..MaxCalls
      BY Contexts DEF Linear
    <3>2. call[c].from = Root => Waits(Root)
      BY DEF Waits, Waiting
    <3> QED
      BY <1>1, <1>2, <2>3, <3>1, <3>2
  <2>5. \A c \in Made : Active(c)' => Active(call[c].ctx)'
    <3> SUFFICES ASSUME NEW c \in Made, Active(c)' PROVE Active(call[c].ctx)'
      OBVIOUS
    <3>1. /\ c \in 0..MaxCalls /\ c # Root /\ call[c].ctx \in 0..c /\ CtxOf(c) = call[c].ctx
          /\ call[c].ctx \in 0..MaxCalls
      BY Contexts, Bounds
    <3>2. Active(c) /\ Active(call[c].ctx)
      BY <2>2, <3>1 DEF Linear
    <3>3. ASSUME call[c].ctx = Root, ~(Active(Root)') PROVE FALSE
      <4>1. Active(Root) /\ ~Waits(Root)
        BY <2>3, <3>2, <3>3
      <4>2. Actor(Root) /\ Actor(c) /\ CtxOf(c) = CtxOf(Root) /\ Root \in 0..MaxCalls
        BY <3>1, <3>2, <3>3, <4>1, Bounds DEF Actor, CtxOf, Root
      <4>3. c <= Root
        BY <4>1, <4>2, <3>1, OneGoesOn
      <4> QED
        BY <4>3, <3>1 DEF Root
    <3> QED
      BY <1>1, <1>2, <3>1, <3>2, <3>3
  <2>6. Linear'
    BY <1>1, <1>2, <2>2, <2>4, <2>5, ChainKept
  <2> QED
    BY <1>4, <2>6
<1> QED
  BY <1>5, <1>6

\* What a new call changes.
LEMMA NewSeen ==
  ASSUME Basic, NEW x \in 0..MaxCalls, NEW c \in Calls, NEW next \in Call,
         Become(c, next), Made = 1..(c - 1), next.got = "waiting", next.from = x,
         x = Root \/ x \in Made, ~next.set,
         UNCHANGED home, UNCHANGED root
  PROVE  /\ c \notin Made /\ Made' = Made \cup {c} /\ call'[c] = next
         /\ \A b \in Made : b < c /\ call'[b] = call[b]
         /\ \A b \in Made : Waiting(b)' <=> Waiting(b)
         /\ Waiting(c)'
         /\ \A y \in 0..MaxCalls : y # c => (Active(y)' <=> Active(y))
         /\ Active(c)' <=> next.stage = "method"
         /\ \A y \in 0..MaxCalls : y = Root \/ y \in Made => CtxOf(y)' = CtxOf(y)
         /\ CtxOf(c)' = next.ctx
         /\ \A b \in Made : Parent(b)' = Parent(b) /\ (IsRemote(b)' <=> IsRemote(b))
         /\ Parent(c)' = CtxOf(x)
         /\ Returned' = Returned
         /\ \A z : Into(z)' = Into(z)
         /\ \A z : From(z)' = From(z)
<1>1. /\ c \notin Made /\ Made' = Made \cup {c} /\ call'[c] = next
      /\ \A b \in Calls : b # c => call'[b] = call[b]
      /\ \A b \in Made : b # c /\ b < c
      /\ \A y \in 0..MaxCalls : y = Root \/ y \in Made => CtxOf(y)' = CtxOf(y)
  BY CreateEffect
<1>2. \A b \in Made : b < c /\ call'[b] = call[b]
  BY <1>1, Contexts
<1>3. c # Root /\ c \in 0..MaxCalls
  BY Bounds DEF Calls, Root
<1>4. \A y \in 0..MaxCalls : y # c => (Active(y)' <=> Active(y))
  BY <1>1, Bounds DEF Active, Calls, Root
<1>5. Active(c)' <=> next.stage = "method"
  BY <1>1, <1>3 DEF Active
<1>6. \A b \in Made : Waiting(b)' <=> Waiting(b)
  BY <1>1, <1>2 DEF Waiting
<1>7. Waiting(c)' /\ CtxOf(c)' = next.ctx
  BY <1>1, <1>3 DEF Waiting, CtxOf
<1>8. \A b \in Made : Parent(b)' = Parent(b) /\ (IsRemote(b)' <=> IsRemote(b))
  BY <1>1, <1>2, Contexts DEF Parent, IsRemote
<1>9. Parent(c)' = CtxOf(x)
  BY <1>1 DEF Parent
<1>10. Returned' = Returned
  BY <1>1, <1>2, <1>8 DEF Returned
<1>11. Results' = Results
  BY <1>8, <1>10 DEF Results, Returned
<1>12. \A z : Into(z)' = Into(z)
  BY <1>11 DEF Into, Leads
<1>13. \A z : From(z)' = From(z)
  <2> SUFFICES ASSUME NEW z PROVE From(z)' = From(z)
    OBVIOUS
  <2>1. From(z)' = {b \in Made \cup {c} : call'[b].set /\ call'[b].ctx \in Into(z)}
    BY <1>1, <1>12 DEF From
  <2> QED
    BY <2>1, <1>1, <1>2 DEF From
<1> QED
  BY <1>1, <1>2, <1>4, <1>5, <1>6, <1>7, <1>8, <1>9, <1>10, <1>12, <1>13

\* A new call, of code that waits for none, is the next of the chain.
LEMMA CreateKeepsLinear ==
  ASSUME Basic, Linear, NEW x \in 0..MaxCalls, Actor(x), ~Waits(x),
         NEW c \in Calls, NEW next \in Call,
         Become(c, next), Made = 1..(c - 1), next.got = "waiting", next.from = x,
         ~next.set,
         next.stage = "method" => next.ctx = CtxOf(x),
         UNCHANGED home, UNCHANGED root
  PROVE  Linear'
<1>1. /\ c \notin Made /\ Made' = Made \cup {c} /\ call'[c] = next
      /\ \A b \in Made : b < c /\ call'[b] = call[b]
      /\ \A b \in Made : Waiting(b)' <=> Waiting(b)
      /\ Waiting(c)'
      /\ \A y \in 0..MaxCalls : y # c => (Active(y)' <=> Active(y))
      /\ Active(c)' <=> next.stage = "method"
      /\ \A y \in 0..MaxCalls : y = Root \/ y \in Made => CtxOf(y)' = CtxOf(y)
      /\ CtxOf(c)' = next.ctx
  BY NewSeen DEF Actor
<1>2. c \in 0..MaxCalls /\ c # Root /\ x # c
  BY <1>1, Bounds DEF Calls, Root, Actor
<1>3. \A b \in Made' : Waiting(b)' => Active(call[b].from)'
  <2> SUFFICES ASSUME NEW b \in Made \cup {c}, Waiting(b)' PROVE Active(call[b].from)'
    BY <1>1
  <2>1. CASE b = c
    BY <2>1, <1>1, <1>2 DEF Actor
  <2>2. CASE b \in Made
    <3>1. /\ Active(call[b].from) /\ call[b].from \in 0..MaxCalls /\ call[b].from # c
          /\ call'[b] = call[b]
      BY <2>2, <1>1, <1>2, Contexts DEF Linear
    <3> QED
      BY <3>1, <1>1
  <2> QED
    BY <2>1, <2>2
<1>4. \A a, b \in Made' : Waiting(a)' /\ Waiting(b)' /\ call'[a].from = call'[b].from => a = b
  <2> SUFFICES ASSUME NEW a \in Made \cup {c}, NEW b \in Made \cup {c},
                      Waiting(a)', Waiting(b)', call'[a].from = call'[b].from
               PROVE  a = b
    BY <1>1
  <2>1. \A d \in Made : Waiting(d)' => call'[d].from # x
    BY <1>1 DEF Waits, Waiting
  <2>2. CASE a = c \/ b = c
    BY <2>1, <2>2, <1>1
  <2>3. CASE a \in Made /\ b \in Made
    BY <2>3, <1>1 DEF Linear
  <2> QED
    BY <2>2, <2>3
<1>5. \A b \in Made' : Active(b)' => Active(call[b].ctx)'
  <2> SUFFICES ASSUME NEW b \in Made \cup {c}, Active(b)' PROVE Active(call[b].ctx)'
    BY <1>1
  <2>1. CASE b = c
    <3>1. call'[c].ctx = CtxOf(x)
      BY <2>1, <1>1
    <3>2. Active(CtxOf(x)) /\ CtxOf(x) \in 0..x
      BY ActorFacts DEF Actor, Linear, CtxOf
    <3>3. CtxOf(x) # c /\ CtxOf(x) \in 0..MaxCalls
      BY <3>2, <1>1, <1>2, Bounds DEF Actor, Root
    <3>4. Active(CtxOf(x))'
      <4> DEFINE y == CtxOf(x)
      <4>1. CtxOf(x)' = CtxOf(x)
        BY <1>1 DEF Actor
      <4> QED
        BY <3>2, <3>3, <4>1, <1>1
    <3>5. CtxOf(x)' = call'[c].ctx
      BY <3>1, <1>1 DEF Actor
    <3> QED
      BY <2>1, <3>4, <3>5
  <2>2. CASE b \in Made
    <3>1. b \in 0..MaxCalls /\ b # c /\ call[b].ctx \in 0..b /\ call'[b] = call[b] /\ b < c
      BY <2>2, <1>1, Contexts
    <3>3. Active(b)
      BY <3>1, <1>1
    <3>4. call[b].ctx \in 0..MaxCalls /\ call[b].ctx # c
      BY <3>1, <1>2, Bounds
    <3>2. Active(call[b].ctx) /\ call[b].ctx \in 0..MaxCalls /\ call[b].ctx # c
      BY <2>2, <3>3, <3>4 DEF Linear
    <3> QED
      BY <3>1, <3>2, <1>1
  <2> QED
    BY <2>1, <2>2
<1>6. ASSUME NEW a \in 0..MaxCalls, NEW b \in Calls,
             Actor(a)', Actor(b)', a < b, CtxOf(a)' = CtxOf(b)'
      PROVE  \E w \in Made' : /\ Waiting(w)' /\ call'[w].from = a /\ w <= b
                              /\ call'[w].ctx = CtxOf(a)'
  <2>1. b \in 0..MaxCalls
    BY Bounds DEF Calls
  <2>2. a # c
    <3> SUFFICES ASSUME a = c PROVE FALSE
      OBVIOUS
    <3>1. b \in Made \cup {c} /\ c < b
      BY <1>1, <1>6, <2>1, Bounds DEF Actor, Root
    <3> QED
      BY <3>1, <1>1, <1>2
  <2>3. Actor(a) /\ CtxOf(a)' = CtxOf(a)
    BY <2>2, <1>1, <1>6 DEF Actor
  <2>4. CASE b # c
    <3>1. Actor(b) /\ CtxOf(a) = CtxOf(b)
      BY <2>1, <2>3, <2>4, <1>1, <1>6 DEF Actor
    <3>2. PICK w \in Made : /\ Waiting(w) /\ call[w].from = a /\ w <= b
                            /\ call[w].ctx = CtxOf(a)
      BY <2>3, <3>1, <1>6 DEF Linear, Chain
    <3> QED
      BY <3>2, <2>3, <1>1
  <2>5. CASE b = c
    <3>1. next.ctx = CtxOf(x) /\ CtxOf(a) = CtxOf(x)
      <4>1. Active(c)'
        BY <2>5, <1>6 DEF Actor
      <4>2. CtxOf(c)' = CtxOf(a)'
        BY <2>5, <1>6
      <4> QED
        BY <4>1, <4>2, <2>3, <1>1
    <3>2. CASE a = x
      BY <3>1, <3>2, <2>3, <2>5, <1>1, <1>2
    <3>3. CASE a # x
      <4>1. a <= x
        BY <2>3, <3>1, OneGoesOn
      <4>2. x \in Calls /\ a < x
        BY <3>3, <4>1, Bounds DEF Calls
      <4>3. PICK w \in Made : /\ Waiting(w) /\ call[w].from = a /\ w <= x
                              /\ call[w].ctx = CtxOf(a)
        BY <2>3, <3>1, <4>2 DEF Linear, Chain
      <4>4. w < c
        BY <1>1
      <4> QED
        BY <4>3, <4>4, <2>3, <2>5, <1>1, <1>2, Contexts
    <3> QED
      BY <3>2, <3>3
  <2> QED
    BY <2>4, <2>5
<1>7. Chain'
  BY <1>6 DEF Chain
<1> QED
  BY <1>3, <1>4, <1>5, <1>7 DEF Linear

LEMMA CallLocalAwaited ==
  ASSUME Basic, Linear, Kept, NEW x \in 0..MaxCalls, NEW c \in Calls, NEW s \in Services,
         CallLocal(x, c, s), ahead = 0, ahead' = 0
  PROVE  Linear' /\ Kept'
<1> DEFINE next == NewCall(x, c, s)
<1>1. /\ Active(x) /\ Made = 1..(c - 1) /\ Become(c, next) /\ GoesOn(x)
      /\ UNCHANGED home /\ UNCHANGED root /\ UNCHANGED cookies
  BY DEF CallLocal
<1>2. ~Waits(x)
  BY <1>1, NotAhead
<1>3. /\ x = Root \/ x \in Made
      /\ ProcOf(x) \in Procs /\ CtxOf(x) \in 0..x
  BY <1>1, ActorFacts
<1>4. /\ next \in Call /\ next.got = "waiting" /\ next.from = x
      /\ ~next.set /\ next.ctx = CtxOf(x)
  BY <1>3, Bounds DEF NewCall, Call, Stages
<1>5. Actor(x)
  BY <1>1, <1>3 DEF Actor
<1> HIDE DEF next
<1>6. Linear'
  BY <1>1, <1>2, <1>4, <1>5, CreateKeepsLinear
<1>7. /\ c \notin Made /\ Made' = Made \cup {c} /\ call'[c] = next
      /\ \A b \in Made : b < c /\ call'[b] = call[b]
      /\ \A b \in Made : Waiting(b)' <=> Waiting(b)
      /\ \A b \in Made : Parent(b)' = Parent(b) /\ (IsRemote(b)' <=> IsRemote(b))
      /\ \A z : From(z)' = From(z)
  BY <1>1, <1>3, <1>4, NewSeen
<1>8. From(Root)' = From(Root)
  BY <1>7
<1>9. ~(IsRemote(c)')
  BY <1>3, <1>4, <1>7, Bounds DEF IsRemote, Root, Calls
<1>10. \A b \in Made' : Waiting(b)' /\ IsRemote(b)'
              => cookies'[b] = (cookies[Parent(b)])' \cup From(b)'
  <2> SUFFICES ASSUME NEW b \in Made, Waiting(b), IsRemote(b)
               PROVE  cookies'[b] = (cookies[Parent(b)])' \cup From(b)'
    BY <1>7, <1>9
  <2>1. From(b)' = From(b)
    BY <1>7
  <2>2. cookies[b] = cookies[Parent(b)] \cup From(b)
    BY DEF Kept
  <2> QED
    BY <1>1, <1>7, <2>1, <2>2
<1>11. Kept'
  BY <1>1, <1>8, <1>10 DEF Kept
<1> QED
  BY <1>6, <1>11

LEMMA CallRemoteAwaited ==
  ASSUME Basic, Linear, Kept, NEW x \in 0..MaxCalls, NEW c \in Calls, NEW s \in Services,
         CallRemote(x, c, s), ahead = 0, ahead' = 0
  PROVE  Linear' /\ Kept'
<1> DEFINE new == NewCall(x, c, s)
           next == [new EXCEPT !.at = route[s], !.ctx = c, !.stage = "sent", !.did = "no"]
<1>1. /\ Active(x) /\ Made = 1..(c - 1) /\ Become(c, next) /\ GoesOn(x)
      /\ Remote(ProcOf(x), s)
      /\ UNCHANGED home /\ UNCHANGED root
      /\ cookies' = [cookies EXCEPT ![c] = cookies[CtxOf(x)]]
  BY DEF CallRemote
<1>2. ~Waits(x)
  BY <1>1, NotAhead
<1>3. /\ x = Root \/ x \in Made
      /\ ProcOf(x) \in Procs /\ CtxOf(x) \in 0..x /\ CtxOf(x) \in 0..MaxCalls
      /\ c \in 0..MaxCalls
  BY <1>1, ActorFacts, Bounds DEF Calls
<1>4. route[s] \in Procs
  BY <1>1, <1>3 DEF Basic, Routed, Remote, Matches
<1>5. /\ new \in Call /\ new.got = "waiting" /\ new.from = x /\ ~new.set
  BY <1>3, Bounds DEF NewCall, Call, Stages
<1> HIDE DEF new
<1>6. /\ next \in Call /\ next.got = "waiting" /\ next.from = x
      /\ ~next.set /\ next.ctx = c /\ next.stage = "sent"
  BY <1>3, <1>4, <1>5 DEF Call, Stages
<1>7. Actor(x)
  BY <1>1, <1>3 DEF Actor
<1> HIDE DEF next
<1>8. Linear'
  BY <1>1, <1>2, <1>6, <1>7, CreateKeepsLinear
<1>9. /\ c \notin Made /\ Made' = Made \cup {c} /\ call'[c] = next
      /\ \A b \in Made : b < c /\ call'[b] = call[b]
      /\ \A b \in Made : Waiting(b)' <=> Waiting(b)
      /\ \A b \in Made : Parent(b)' = Parent(b) /\ (IsRemote(b)' <=> IsRemote(b))
      /\ Parent(c)' = CtxOf(x)
      /\ \A z : From(z)' = From(z)
  BY <1>1, <1>3, <1>6, NewSeen
<1>10. From(c) = {}
  <2>1. c \notin Returned
    BY <1>9 DEF Returned
  <2>2. ASSUME NEW y \in 0..MaxCalls, y \in Into(c) PROVE y = c
    <3> DEFINE S == {c}
    <3>1. S \in SUBSET (0..MaxCalls) /\ c \in S
      BY <1>3
    <3>2. \A e \in Results : e[1] \in S => e[2] \in S
      <4> SUFFICES ASSUME NEW b \in Returned, Parent(b) = c PROVE FALSE
        BY DEF Results
      <4>1. b \in Made /\ Parent(b) < b /\ b < c /\ b \in 0..MaxCalls
        BY <1>9, Contexts DEF Returned
      <4> QED
        BY <4>1, <1>3
    <3>3. y \in S
      BY <2>2, <3>1, <3>2 DEF Into, Leads
    <3> QED
      BY <3>3
  <2>3. \A b \in Made : call[b].ctx \in 0..MaxCalls /\ call[b].ctx # c
    BY <1>3, <1>9, Contexts, Bounds
  <2> QED
    BY <2>2, <2>3 DEF From
<1>11. \A z \in 0..MaxCalls : cookies'[z] = IF z = c THEN cookies[CtxOf(x)] ELSE cookies[z]
  <2>1. cookies \in [0..MaxCalls -> SUBSET Calls]
    BY DEF Basic, TypeOK
  <2> QED
    BY <2>1, <1>1, <1>3
<1>12. CtxOf(x) # c /\ Root # c /\ Root \in 0..MaxCalls
  BY <1>3, <1>9, Bounds DEF Calls, Root
<1>13. cookies'[Root] = From(Root)'
  <2>1. From(Root)' = From(Root)
    BY <1>9
  <2> QED
    BY <2>1, <1>11, <1>12 DEF Kept
<1>14. ASSUME NEW b \in Made, Waiting(b), IsRemote(b)
       PROVE  cookies'[b] = cookies'[Parent(b)] \cup From(b)'
  <2>1. From(b)' = From(b)
    BY <1>9
  <2>2. cookies[b] = cookies[Parent(b)] \cup From(b)
    BY <1>14 DEF Kept
  <2>3. b \in 0..MaxCalls /\ b # c /\ Parent(b) \in 0..MaxCalls /\ Parent(b) # c
    BY <1>3, <1>9, Contexts
  <2> QED
    BY <2>1, <2>2, <2>3, <1>11
<1>15. cookies'[c] = cookies'[CtxOf(x)] \cup From(c)'
  <2>1. From(c)' = {}
    BY <1>9, <1>10
  <2>2. cookies'[c] = cookies[CtxOf(x)] /\ cookies'[CtxOf(x)] = cookies[CtxOf(x)]
    BY <1>3, <1>11, <1>12
  <2> QED
    BY <2>1, <2>2
<1>16. \A b \in Made' : Waiting(b)' /\ IsRemote(b)'
              => cookies'[b] = (cookies[Parent(b)])' \cup From(b)'
  <2> SUFFICES ASSUME NEW b \in Made \cup {c}, Waiting(b)', IsRemote(b)'
               PROVE  cookies'[b] = (cookies[Parent(b)])' \cup From(b)'
    BY <1>9
  <2>1. CASE b = c
    <3>1. (cookies[Parent(c)])' = cookies'[CtxOf(x)]
      BY <1>9
    <3> QED
      BY <2>1, <3>1, <1>15
  <2>2. CASE b \in Made
    <3>1. (cookies[Parent(b)])' = cookies'[Parent(b)]
      BY <2>2, <1>9
    <3> QED
      BY <2>2, <3>1, <1>9, <1>14
  <2> QED
    BY <2>1, <2>2
<1>17. Kept'
  BY <1>13, <1>16 DEF Kept
<1> QED
  BY <1>8, <1>17

-----------------------------------------------------------------------------
(***************************************************************************)
(* What was reached, and the theorem.                                      *)
(***************************************************************************)

\* There is a function as Reached is defined: whether results lead from the
\* first context.
LEMMA ReachedIs ==
  ASSUME Basic
  PROVE  \A x \in 0..MaxCalls :
           Reached[x] <=> (x = Root \/ (call[x].got = "ok" /\ Reached[CtxOf(call[x].from)]))
<1> DEFINE Ok == {c \in Made : call[c].got = "ok"}
           E == {<<Parent(c), c>> : c \in Ok}
           L == Leads(E, Root)
           f == [x \in 0..MaxCalls |-> x \in L]
           g == [x \in 0..MaxCalls |->
                   x = Root \/ (call[x].got = "ok" /\ f[CtxOf(call[x].from)])]
           Def(h) == h = [x \in 0..MaxCalls |->
                   x = Root \/ (call[x].got = "ok" /\ h[CtxOf(call[x].from)])]
<1>1. \A c \in Ok : c \in 0..MaxCalls /\ Parent(c) \in 0..MaxCalls /\ c # Root
  BY Contexts
<1>2. \A e \in E : e[2] \in Ok /\ e[1] = Parent(e[2]) /\ e[2] \in 0..MaxCalls
  BY <1>1
<1>3. Root \in 0..MaxCalls
  BY Bounds DEF Root
<1>4. ASSUME NEW x \in 0..MaxCalls
      PROVE  f[x] = g[x]
  <2>1. CASE x = Root
    BY <2>1, <1>3, LeadsToItself
  <2>2. CASE x # Root /\ x \in Ok
    <3>1. <<Parent(x), x>> \in E
      BY <2>2
    <3>2. Parent(x) \in L => x \in L
      <4> DEFINE e == <<Parent(x), x>>
      <4>1. e \in E /\ e[1] = Parent(x) /\ e[2] = x
        BY <3>1
      <4> HIDE DEF e, E
      <4> QED
        BY <4>1, LeadsOn
    <3>3. x \in L => Parent(x) \in L
      <4> SUFFICES ASSUME x \in L PROVE Parent(x) \in L
        OBVIOUS
      <4>1. PICK e \in E : e[2] = x /\ e[1] \in L
        <5> HIDE DEF E
        <5> QED
          BY <1>2, <1>3, <2>2, LeadsBy
      <4> QED
        BY <4>1, <1>2
    <3>4. Parent(x) \in 0..MaxCalls /\ call[x].got = "ok"
      BY <2>2, <1>1
    <3>5. f[x] = (x \in L) /\ f[Parent(x)] = (Parent(x) \in L)
      <4> HIDE DEF L
      <4> QED
        BY <3>4
    <3>6. g[x] = f[Parent(x)]
      <4> HIDE DEF f
      <4>1. g[x] = (x = Root \/ (call[x].got = "ok" /\ f[Parent(x)]))
        BY DEF Parent
      <4>2. f[Parent(x)] \in BOOLEAN
        BY <3>5
      <4> HIDE DEF g
      <4> QED
        BY <4>1, <4>2, <2>2, <3>4
    <3> HIDE DEF L, f, g
    <3> QED
      BY <3>2, <3>3, <3>5, <3>6
  <2>3. CASE x # Root /\ x \notin Ok
    <3>1. x \notin L
      <4> SUFFICES ASSUME x \in L PROVE FALSE
        OBVIOUS
      <4>1. PICK e \in E : e[2] = x /\ e[1] \in L
        <5> HIDE DEF E
        <5> QED
          BY <1>2, <1>3, <2>3, LeadsBy
      <4> QED
        BY <4>1, <1>2, <2>3
    <3>2. call[x].got # "ok"
      BY <2>3, Bounds DEF Made, NoCall, Calls, Root
    <3> QED
      BY <2>3, <3>1, <3>2
  <2> QED
    BY <2>1, <2>2, <2>3
<1>5. f = g
  <2> HIDE DEF L
  <2> QED
    BY <1>4
<1> HIDE DEF f
<1>6. Def(f)
  BY <1>5
<1>7. Def(Reached)
  BY <1>6 DEF Reached
<1> QED
  BY <1>7

Less == {e \in Nat \X Nat : e[1] < e[2]}

LEMMA LessHasLeast ==
  ASSUME NEW T, T \subseteq Nat, T # {}
  PROVE  \E y \in T : \A z \in T : ~(<<z, y>> \in Less)
<1>1. IsWellFoundedOn(Less, Nat)
  BY NatLessThanWellFounded, Zenon DEF Less, OpToRel
<1> QED
  BY <1>1, WFMin

\* On contexts: results lead there from the first one.
LEMMA ReachedIsInto ==
  ASSUME Basic, NEW x \in 0..MaxCalls, x = Root \/ (x \in Made /\ IsRemote(x))
  PROVE  Reached[x] <=> x \in Into(Root)
<1> DEFINE Context(y) == y = Root \/ (y \in Made /\ IsRemote(y))
           T == {y \in 0..MaxCalls : Context(y) /\ ~(Reached[y] <=> y \in Into(Root))}
<1>1. Root \in 0..MaxCalls /\ Root \in Into(Root) /\ Reached[Root]
  BY Bounds, ReachedIs, ResultsAreCalls DEF Root
<1>2. SUFFICES ASSUME T # {} PROVE FALSE
  OBVIOUS
<1>3. T \subseteq Nat
  BY Bounds
<1>4. PICK y \in T : \A z \in T : ~(<<z, y>> \in Less)
  <2> HIDE DEF T
  <2> QED
    BY <1>2, <1>3, LessHasLeast
<1>5. y # Root /\ y \in Made /\ IsRemote(y) /\ y \in Nat
  BY <1>1, <1>3
<1>6. Parent(y) \in 0..MaxCalls /\ Parent(y) < y /\ Context(Parent(y)) /\ Parent(y) \in Nat
  BY <1>5, Contexts, Bounds
<1>7. Parent(y) \notin T
  <2> SUFFICES ASSUME Parent(y) \in T PROVE FALSE
    OBVIOUS
  <2> DEFINE e == <<Parent(y), y>>
  <2>1. e \in Nat \X Nat /\ e[1] < e[2]
    BY <1>5, <1>6
  <2>2. e \in Less
    BY <2>1 DEF Less
  <2> QED
    BY <1>4, <2>2
<1>8. Reached[Parent(y)] <=> Parent(y) \in Into(Root)
  BY <1>6, <1>7
<1>9. Reached[y] <=> (call[y].got = "ok" /\ Reached[Parent(y)])
  BY <1>5, ReachedIs DEF Parent
<1>10. ASSUME y \in Into(Root) PROVE Reached[y]
  <2>1. y \in Returned /\ Parent(y) \in Into(Root)
    BY <1>1, <1>5, <1>10, ResultsAreCalls
  <2> QED
    BY <2>1, <1>8, <1>9 DEF Returned
<1>11. ASSUME Reached[y] PROVE y \in Into(Root)
  <2> DEFINE e == <<Parent(y), y>>
  <2>1. y \in Returned /\ Parent(y) \in Into(Root)
    BY <1>5, <1>8, <1>9, <1>11 DEF Returned
  <2>2. e \in Results /\ e[1] = Parent(y) /\ e[2] = y
    BY <2>1 DEF Results
  <2>3. y \in 0..MaxCalls
    OBVIOUS
  <2> HIDE DEF e
  <2> QED
    BY <2>1, <2>2, <2>3, LeadsOn DEF Into
<1> QED
  BY <1>10, <1>11

LEMMA InitAwaited == Init => Awaited
<1> SUFFICES ASSUME Init PROVE Linear /\ Kept
  BY DEF Awaited
<1>1. Made = {} /\ cookies[Root] = {}
  BY Bounds DEF Init, Made, Root
<1>2. \A b \in Calls : ~Actor(b)
  BY <1>1, Bounds DEF Actor, Calls, Root
<1> QED
  BY <1>1, <1>2 DEF Linear, Chain, Kept, From

\* Steps ahead are counted, and the count only grows.
LEMMA AheadGrows ==
  ASSUME Basic, [Next]_vars, ahead' = 0
  PROVE  ahead = 0
<1>1. ahead \in Nat
  BY DEF Basic, TypeOK
<1>2. ahead' = ahead \/ ahead' = ahead + 1
  BY DEF Next, vars, Request, StartUp, Stop, Start, Started, CallLocal, CallRemote, RootEnds,
         SetCookie, Finish, Throw, Break, Arrive, Refuse, Before, After, Deliver, Reset,
         GoesOn, Others
<1> QED
  BY <1>1, <1>2

LEMMA NextKeepsAwaited == Basic /\ Awaited /\ [Next]_vars => Awaited'
<1> SUFFICES ASSUME Basic, Awaited, [Next]_vars, ahead' = 0 PROVE Linear' /\ Kept'
  BY DEF Awaited
<1>1. ahead = 0 /\ Linear /\ Kept
  BY AheadGrows DEF Awaited
<1>2. CASE \E p \in Procs :
             \/ \E s \in Services : Request(p, s)
             \/ StartUp(p) \/ Stop(p) \/ Start(p) \/ Started(p)
  BY <1>1, <1>2, OthersAwaited, StopAwaited
<1>3. CASE \E x \in 0..MaxCalls, c \in Calls, s \in Services :
             CallLocal(x, c, s) \/ CallRemote(x, c, s)
  BY <1>1, <1>3, CallLocalAwaited, CallRemoteAwaited
<1>4. CASE RootEnds \/ UNCHANGED vars
  BY <1>1, <1>4, OthersAwaited
<1>5. CASE \E c \in Calls :
             \/ SetCookie(c) \/ Finish(c) \/ Throw(c) \/ Break(c)
             \/ Arrive(c) \/ Refuse(c) \/ Before(c) \/ After(c) \/ Deliver(c) \/ Reset(c)
  BY <1>1, <1>5, SetCookieAwaited, FinishAwaited, BreakAwaited, MessagesAwaited,
     BeforeAwaited, DeliverAwaited
<1> QED
  BY <1>2, <1>3, <1>4, <1>5 DEF Next

\* No cookie is lost, and none comes from where nobody had a result: however
\* calls follow calls through however many processes, that stop and start.
THEOREM CookiesAreKept == Spec => []CookiesKept
<1>1. Basic /\ Awaited => CookiesKept
  <2> SUFFICES ASSUME Basic, ahead = 0, Kept
               PROVE  cookies[Root] = {c \in Made : call[c].set /\ Reached[call[c].ctx]}
    BY DEF Awaited, CookiesKept
  <2>1. \A c \in Made : Reached[call[c].ctx] <=> call[c].ctx \in Into(Root)
    BY Contexts, Bounds, ReachedIsInto
  <2> QED
    BY <2>1 DEF Kept, From
<1> QED
  BY <1>1, InitKeepsBasic, NextKeepsBasic, InitAwaited, NextKeepsAwaited, PTL DEF Spec

-----------------------------------------------------------------------------
(***************************************************************************)
(* Nobody is stuck.                                                        *)
(***************************************************************************)
\* A set of calls that is not empty has a last one.
LEMMA LastCall ==
  ASSUME NEW T, T \subseteq Calls, T # {}
  PROVE  \E d \in T : \A e \in T : e <= d
<1> DEFINE U == {n \in Nat : MaxCalls - n \in T}
<1>1. PICK c \in T : TRUE
  OBVIOUS
<1>2. MaxCalls - c \in U
  <2>1. c \in Calls /\ MaxCalls - c \in Nat /\ MaxCalls - (MaxCalls - c) = c
    BY <1>1, Bounds DEF Calls
  <2> QED
    BY <1>1, <2>1
<1>3. U \subseteq Nat /\ U # {}
  BY <1>2
<1>4. PICK n \in U : \A m \in U : ~(<<m, n>> \in Less)
  BY <1>3, LessHasLeast
<1>5. n \in Nat /\ MaxCalls - n \in T
  OBVIOUS
<1>6. ASSUME NEW e \in T, MaxCalls - n < e PROVE FALSE
  <2>1. e \in Calls /\ MaxCalls - e \in Nat /\ MaxCalls - (MaxCalls - e) = e
    BY <1>6, Bounds DEF Calls
  <2>2. MaxCalls - e \in U /\ MaxCalls - e < n
    BY <1>5, <1>6, <2>1, Bounds DEF Calls
  <2> DEFINE p == <<MaxCalls - e, n>>
  <2>3. p \in Nat \X Nat /\ p[1] < p[2]
    BY <1>5, <2>1, <2>2
  <2>4. p \in Less
    BY <2>3 DEF Less
  <2> QED
    BY <1>4, <2>2, <2>4
<1>7. \A e \in T : e <= MaxCalls - n
  BY <1>5, <1>6, Bounds DEF Calls
<1> QED
  BY <1>5, <1>7

LEMMA LastGetsOn == Basic => NobodyIsStuck
<1> SUFFICES ASSUME Basic, NEW c \in Calls, call[c].got = "waiting"
             PROVE  \E d \in c..MaxCalls : call[d].got = "waiting" /\ GetsOn(d)
  BY DEF NobodyIsStuck
<1> DEFINE T == {d \in Calls : call[d].got = "waiting"}
<1>1. PICK d \in T : \A e \in T : e <= d
  <2>1. T \subseteq Calls /\ c \in T
    OBVIOUS
  <2> HIDE DEF T
  <2> QED
    BY <2>1, LastCall
<1>2. d \in Calls /\ call[d].got = "waiting" /\ c <= d
  BY <1>1
<1>3. d \in c..MaxCalls
  BY <1>2, Bounds DEF Calls
<1>4. d \in Made
  BY <1>2 DEF Made, NoCall
<1>5. call[d] \in Call /\ Staged(d)
  BY <1>4 DEF Basic, CallOK
<1>6. call[d].stage \in Stages
  BY <1>5 DEF Call
<1>7. call[d].stage # "none"
  BY <1>5 DEF Staged
<1>8. ~Waits(d)
  <2> SUFFICES ASSUME NEW e \in Made, call[e].from = d, call[e].got = "waiting" PROVE FALSE
    BY DEF Waits
  <2>1. e \in Calls /\ d < e
    BY DEF Basic, CallOK, Lineage, Made
  <2>2. e \in T /\ e <= d
    BY <1>1, <2>1
  <2> QED
    BY <1>2, <2>1, <2>2, Bounds DEF Calls
<1>9. call[d].stage \in {"answered", "failed", "over"} => Hears(d)
  BY <1>2, <1>5 DEF Hears, Staged
<1>10. GetsOn(d)
  BY <1>6, <1>7, <1>8, <1>9 DEF GetsOn, Stages
<1> QED
  BY <1>2, <1>3, <1>10

\* forwardToMsLink sets no time-out, and processes may call each other in circles:
\* still there is always a call that gets on, whatever threw, broke or stopped.
THEOREM SomebodyGetsOn == Spec => []NobodyIsStuck
  BY AlwaysBasic, LastGetsOn, PTL
=============================================================================
