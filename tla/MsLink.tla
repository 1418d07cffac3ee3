------------------------------- MODULE MsLink -------------------------------
(***************************************************************************)
(* Services in several processes.  A `$` method of a service that the      *)
(* process does not have is replaced, when the process has started, by one *)
(* that sends the call to a process that does, and waits: forwardToMsLink  *)
(* there, msLink here.  The context goes along as a copy; of what the      *)
(* method does to it, setCookies comes back.                               *)
(*                                                                         *)
(* One piece of application code, a request's handler or code that runs as *)
(* a process starts, makes calls, awaited or not, and so do the methods it *)
(* calls.  Connections break, methods and hooks throw, processes stop.     *)
(***************************************************************************)
EXTENDS Integers, FiniteSets

CONSTANTS
  Procs,         \* the micro-services, one process each
  Services,
  Deployments,   \* values of microServices
  NoProc,
  MaxCalls,      \* bound: no more calls are made
  MaxAhead,      \* bound: no more steps are taken without awaiting a call
  MaxStops       \* bound: processes stop no more often

\* lists: services   links: openMsLink   controllers: openController
\* proxies: proxyCrudController   own: those with a username of their own
Deployment == [lists : [Procs -> SUBSET Services], links : SUBSET Procs,
               controllers : SUBSET Procs, proxies : SUBSET Procs, own : SUBSET Procs]

ASSUME MsLinkAssumption ==
  /\ IsFiniteSet(Procs) /\ NoProc \notin Procs
  /\ Deployments \subseteq Deployment
  /\ {MaxCalls, MaxAhead, MaxStops} \subseteq Nat

Root == 0   \* the code that nobody called
Calls == 1..MaxCalls

VARIABLES
  deployment,
  route,       \* the process that calls to each service are sent to
  state,       \* of each process: "starting", "up" or "down"
  root,        \* the first code: "none", "live" or "over"
  home,        \* its process
  call,        \* the calls
  cookies,     \* setCookies of each context: whose cookies it has
  ahead,       \* history: steps of code that did not await what it had called
  stops        \* history: processes stopped

vars == <<deployment, route, state, root, home, call, cookies, ahead, stops>>

Stages == { "none",      \* no such call
            "sent",      \* the request is on its way
            "before",    \* msLink has it, the hook before is running
            "method",    \* the method runs
            "after",     \* the hook after is running
            "answered",  \* the result is on its way back
            "failed",    \* an error is on its way back
            "over" }

\* from: who calls   by: in which process   at: where the method runs
\* ctx: the context the method has, the caller's or, if remote, one of the
\* call's own   got: what the caller has   did: what became of the method
\* early: made as its process was starting   set: its cookie was set
Call == [service : Services, from : 0..MaxCalls, by : Procs, at : Procs,
         ctx : 0..MaxCalls, early : BOOLEAN, set : BOOLEAN, stage : Stages,
         got : {"no", "waiting", "ok", "error", "gone"},
         did : {"no", "begun", "done", "threw", "cut"}]

NoCall == [stage |-> "none", got |-> "no", did |-> "no"]

Made == {c \in Calls : call[c] # NoCall}

Become(c, next) == call' = [call EXCEPT ![c] = next]

-----------------------------------------------------------------------------
(***************************************************************************)
(* Which process a call goes to.                                           *)
(***************************************************************************)

\* findCurrentServiceMatches
Matches(s) == {p \in Procs : s \in deployment.lists[p]}

\* Of several the ones without a controller are preferred.
Targets(s) ==
  LET open   == Matches(s) \cap deployment.links
      closed == open \ deployment.controllers
  IN  IF Cardinality(open) > 1 /\ closed # {} THEN closed ELSE open

\* getExternalMsMatches: a service that is listed nowhere is everywhere.
Elsewhere(p, s) == Matches(s) # {} /\ p \notin Matches(s)

\* A process that would find no target does not start, and of several targets
\* the first in the configuration is taken.
Init ==
  /\ deployment \in Deployments
  /\ route \in [Services -> Procs \cup {NoProc}]
  /\ \A s \in Services :
       IF \E p \in Procs : Elsewhere(p, s) THEN route[s] \in Targets(s) ELSE route[s] = NoProc
  /\ state = [p \in Procs |-> "up"]
  /\ root = "none"
  /\ home = NoProc
  /\ call = [c \in Calls |-> NoCall]
  /\ cookies = [x \in 0..MaxCalls |-> {}]
  /\ ahead = 0
  /\ stops = 0

-----------------------------------------------------------------------------
(***************************************************************************)
(* The code that makes calls.                                              *)
(***************************************************************************)

\* A proxy forwards requests for services of others with a controller.
Handler(p, s) ==
  LET others == {q \in Procs \ {p} : s \in deployment.lists[q]} \cap deployment.controllers
  IN  IF p \in deployment.proxies /\ s \notin deployment.lists[p] /\ others # {}
      THEN others ELSE {p}

\* A request is handled in a process whose controller is open.
Request(p, s) ==
  /\ root = "none"
  /\ state[p] = "up"
  /\ \E q \in Handler(p, s) \cap deployment.controllers : state[q] = "up" /\ home' = q
  /\ root' = "live"
  /\ UNCHANGED <<deployment, route, state, call, cookies, ahead, stops>>

\* onModuleInit of the application runs as the process starts.
StartUp(p) ==
  /\ root = "none"
  /\ state[p] = "starting"
  /\ home' = p
  /\ root' = "live"
  /\ UNCHANGED <<deployment, route, state, call, cookies, ahead, stops>>

Active(x) == IF x = Root THEN root = "live" ELSE call[x].stage = "method"
ProcOf(x) == IF x = Root THEN home ELSE call[x].at
CtxOf(x) == IF x = Root THEN Root ELSE call[x].ctx

\* x has called something that has not returned.
Waits(x) == \E c \in Made : call[c].from = x /\ call[c].got = "waiting"

GoesOn(x) ==
  IF Waits(x) THEN ahead < MaxAhead /\ ahead' = ahead + 1 ELSE UNCHANGED ahead

\* Methods are replaced when the process has started: before, all is local.
Remote(p, s) == state[p] = "up" /\ Elsewhere(p, s)

NewCall(x, c, s) ==
  LET here == ProcOf(x) IN
  [service |-> s, from |-> x, by |-> here, at |-> here, ctx |-> CtxOf(x),
   early |-> state[here] = "starting", set |-> FALSE,
   stage |-> "method", got |-> "waiting", did |-> "begun"]

CallLocal(x, c, s) ==
  /\ Active(x) /\ ~Remote(ProcOf(x), s)
  /\ Made = 1..(c - 1)
  /\ Become(c, NewCall(x, c, s))
  /\ GoesOn(x)
  /\ UNCHANGED <<deployment, route, state, root, home, cookies, stops>>

\* The arguments are sent as they are now, the context among them.
CallRemote(x, c, s) ==
  /\ Active(x) /\ Remote(ProcOf(x), s)
  /\ Made = 1..(c - 1)
  /\ Become(c, [NewCall(x, c, s) EXCEPT
                  !.at = route[s], !.ctx = c, !.stage = "sent", !.did = "no"])
  /\ cookies' = [cookies EXCEPT ![c] = cookies[CtxOf(x)]]
  /\ GoesOn(x)
  /\ UNCHANGED <<deployment, route, state, root, home, stops>>

\* A method sets a cookie.
SetCookie(c) ==
  /\ Active(c) /\ ~call[c].set
  /\ Become(c, [call[c] EXCEPT !.set = TRUE])
  /\ cookies' = [cookies EXCEPT ![call[c].ctx] = @ \cup {c}]
  /\ GoesOn(c)
  /\ UNCHANGED <<deployment, route, state, root, home, stops>>

RootEnds ==
  /\ root = "live"
  /\ root' = "over"
  /\ GoesOn(Root)
  /\ UNCHANGED <<deployment, route, state, home, call, cookies, stops>>

-----------------------------------------------------------------------------
(***************************************************************************)
(* The other process: the guard, then msLink.                              *)
(***************************************************************************)

IsRemote(c) == call[c].ctx = c

Others == <<deployment, route, state, root, home, ahead, stops>>

\* Callers give the common username, whatever the process asks for.
Arrive(c) ==
  /\ call[c].stage = "sent" /\ state[call[c].at] = "up"
  /\ Become(c, [call[c] EXCEPT
       !.stage = IF call[c].at \in deployment.own \/ call[c].at \notin deployment.links
                 THEN "failed" ELSE "before"])
  /\ UNCHANGED <<Others, cookies>>

\* The hook before the method lets it run or throws.
Before(c) ==
  /\ call[c].stage = "before"
  /\ \/ Become(c, [call[c] EXCEPT !.stage = "method", !.did = "begun"])
     \/ Become(c, [call[c] EXCEPT !.stage = "failed"])
  /\ UNCHANGED <<Others, cookies>>

\* A result, or an error, goes to the caller, through msLink if it is remote.
Finish(c) ==
  /\ Active(c)
  /\ Become(c, [call[c] EXCEPT
       !.did = "done",
       !.stage = IF IsRemote(c) THEN "after" ELSE "over",
       !.got = IF IsRemote(c) THEN @ ELSE "ok"])
  /\ GoesOn(c)
  /\ UNCHANGED <<deployment, route, state, root, home, cookies, stops>>

Throw(c) ==
  /\ Active(c)
  /\ Become(c, [call[c] EXCEPT
       !.did = "threw",
       !.stage = IF IsRemote(c) THEN "failed" ELSE "over",
       !.got = IF IsRemote(c) THEN @ ELSE "error"])
  /\ GoesOn(c)
  /\ UNCHANGED <<deployment, route, state, root, home, cookies, stops>>

\* The hook after the method may throw as well.
After(c) ==
  /\ call[c].stage = "after"
  /\ \E next \in {"answered", "failed"} : Become(c, [call[c] EXCEPT !.stage = next])
  /\ UNCHANGED <<Others, cookies>>

-----------------------------------------------------------------------------
(***************************************************************************)
(* The answer, or none.                                                    *)
(***************************************************************************)

Hears(c) == call[c].got = "waiting" /\ IsRemote(c)

\* Mutant of Merged: the caller keeps the cookies it has.
Merged_Kept(mine, theirs) == IF mine = {} THEN theirs ELSE mine

\* setCookies that came back takes the place of the caller's.
Merged(mine, theirs) == IF theirs = {} THEN mine ELSE theirs

Deliver(c) ==
  LET x == CtxOf(call[c].from) IN
  /\ Hears(c)
  /\ \/ /\ call[c].stage = "answered"
        /\ Become(c, [call[c] EXCEPT !.stage = "over", !.got = "ok"])
        /\ cookies' = [cookies EXCEPT ![x] = Merged(@, cookies[c])]
     \/ /\ call[c].stage = "failed"
        /\ Become(c, [call[c] EXCEPT !.stage = "over", !.got = "error"])
        /\ UNCHANGED cookies
  /\ UNCHANGED Others

\* Mutant of Break: the request is sent again.
Break_Retry(c) ==
  /\ Hears(c)
  /\ Become(c, [call[c] EXCEPT !.stage = "sent"])
  /\ UNCHANGED <<Others, cookies>>

\* The connection breaks: the request may be lost with it, but what has begun
\* goes on.
Break(c) ==
  /\ Hears(c)
  /\ \/ Become(c, [call[c] EXCEPT !.got = "error"])
     \/ call[c].stage = "sent" /\ Become(c, [call[c] EXCEPT !.got = "error", !.stage = "over"])
  /\ UNCHANGED <<Others, cookies>>

\* Mutant of Reset: only as long as the process is down.
Reset_WhileDown(c) ==
  /\ Hears(c) /\ state[call[c].at] = "down"
  /\ call[c].stage = "over"
  /\ Become(c, [call[c] EXCEPT !.got = "error"])
  /\ UNCHANGED <<Others, cookies>>

\* The process at the other end has stopped with the call.
Reset(c) ==
  /\ Hears(c)
  /\ call[c].stage = "over"
  /\ Become(c, [call[c] EXCEPT !.got = "error"])
  /\ UNCHANGED <<Others, cookies>>

\* Nobody listens there.
Refuse(c) ==
  /\ call[c].stage = "sent" /\ state[call[c].at] # "up"
  /\ Become(c, [call[c] EXCEPT !.stage = "over",
                               !.got = IF @ = "waiting" THEN "error" ELSE @])
  /\ UNCHANGED <<Others, cookies>>

-----------------------------------------------------------------------------
(***************************************************************************)
(* Processes stop and start.                                               *)
(***************************************************************************)

\* Mutant of Stop: methods run to their end.
Stop_Lingering(p) ==
  /\ state[p] = "up" /\ stops < MaxStops
  /\ stops' = stops + 1
  /\ state' = [state EXCEPT ![p] = "down"]
  /\ UNCHANGED <<deployment, route, root, home, call, cookies, ahead>>

Stop(p) ==
  /\ state[p] = "up" /\ stops < MaxStops
  /\ stops' = stops + 1
  /\ state' = [state EXCEPT ![p] = "down"]
  /\ root' = IF root = "live" /\ home = p THEN "over" ELSE root
  /\ call' = [c \in Calls |->
       IF c \notin Made THEN NoCall
       ELSE [call[c] EXCEPT
               !.stage = IF call[c].at = p /\ @ # "sent" THEN "over" ELSE @,
               !.did = IF call[c].at = p /\ @ = "begun" THEN "cut" ELSE @,
               !.got = IF call[c].by = p /\ @ = "waiting" THEN "gone" ELSE @]]
  /\ UNCHANGED <<deployment, route, home, cookies, ahead>>

Start(p) ==
  /\ state[p] = "down"
  /\ state' = [state EXCEPT ![p] = "starting"]
  /\ UNCHANGED <<deployment, route, root, home, call, cookies, ahead, stops>>

\* onApplicationBootstrap, then the process listens.
Started(p) ==
  /\ state[p] = "starting"
  /\ state' = [state EXCEPT ![p] = "up"]
  /\ UNCHANGED <<deployment, route, root, home, call, cookies, ahead, stops>>

\* Methods end once what they await has returned; messages arrive, or
\* connections are reset.
Progress(c) ==
  \/ Arrive(c) \/ Refuse(c) \/ Before(c) \/ After(c) \/ Deliver(c) \/ Reset(c)
  \/ ~Waits(c) /\ (Finish(c) \/ Throw(c))

Next ==
  \/ \E p \in Procs :
       \/ \E s \in Services : Request(p, s)
       \/ StartUp(p) \/ Stop(p) \/ Start(p) \/ Started(p)
  \/ \E x \in 0..MaxCalls, c \in Calls, s \in Services : CallLocal(x, c, s) \/ CallRemote(x, c, s)
  \/ RootEnds
  \/ \E c \in Calls :
       \/ SetCookie(c) \/ Finish(c) \/ Throw(c) \/ Break(c)
       \/ Arrive(c) \/ Refuse(c) \/ Before(c) \/ After(c) \/ Deliver(c) \/ Reset(c)

Spec == Init /\ [][Next]_vars

FairSpec == Spec /\ \A c \in Calls : WF_vars(Progress(c))

-----------------------------------------------------------------------------
\* Type invariant; what stopped with its process does not run on.
TypeOK ==
  /\ deployment \in Deployments
  /\ route \in [Services -> Procs \cup {NoProc}]
  /\ state \in [Procs -> {"starting", "up", "down"}]
  /\ root \in {"none", "live", "over"}
  /\ home \in Procs \cup {NoProc}
  /\ \A c \in Calls : call[c] = NoCall \/ call[c] \in Call
  /\ \A c \in Calls : Active(c) => state[call[c].at] # "down"
  /\ cookies \in [0..MaxCalls -> SUBSET Calls]
  /\ ahead \in 0..MaxAhead
  /\ stops \in 0..MaxStops

\* The calls of services that live elsewhere are calls as RemoteCall has them:
\* at most once, where the service is, a result only of what was done.
Abstract == INSTANCE RemoteCall WITH
  Nowhere <- NoProc,
  got <- [c \in Calls |-> call[c].got],
  did <- [c \in Calls |-> call[c].did],
  mayRun <- [c \in Calls |-> IF c \notin Made THEN {}
                             ELSE IF call[c].early \/ Matches(call[c].service) = {}
                             THEN {call[c].by} ELSE Matches(call[c].service)],
  ranAt <- [c \in Calls |-> IF call[c].did = "no" THEN NoProc ELSE call[c].at]

\* docs/microservices/dollar-functions.md: a call runs the implementation here
\* or, over the network, there, once, and returns its result.
RemoteCallSpec == Abstract!Spec

\* The context of x is the first one's, or its cookies got there: those who
\* called it, one after the other, had results.
Reached[x \in 0..MaxCalls] ==
  x = Root \/ (call[x].got = "ok" /\ Reached[CtxOf(call[x].from)])

\* docs/context.md:57: cookies set in ctx.setCookies "work in microservices
\* configurations": as long as every call is awaited, the first context has all
\* cookies that were set in it or where its calls, and theirs, had results.
CookiesKept ==
  ahead = 0 =>
    cookies[Root] = {c \in Made : call[c].set /\ Reached[call[c].ctx]}

\* c gets on without any other call: its request arrives or is refused, a hook
\* ends, or a method that waits for nothing, or the caller hears what became of it.
GetsOn(c) ==
  \/ call[c].stage \in {"sent", "before", "after"}
  \/ call[c].stage = "method" /\ ~Waits(c)
  \/ call[c].stage \in {"answered", "failed", "over"} /\ Hears(c)

\* Processes may call each other in circles, but calls wait only for later ones:
\* as long as one is waited for, it or one made after it gets on, whatever broke,
\* threw or stopped.
NobodyIsStuck ==
  \A c \in Calls : call[c].got = "waiting" =>
    \E d \in c..MaxCalls : call[d].got = "waiting" /\ GetsOn(d)

\* Nobody waits for ever, though no call has a time-out and processes call each
\* other in circles.
CallsReturn == \A c \in Calls : call[c].got = "waiting" ~> call[c].got # "waiting"
=============================================================================
