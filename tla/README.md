# Eicrud, specified

Eicrud is a TypeScript framework (NestJS, Fastify, MikroORM) that serves CRUD operations and
commands for the entities of an application, with roles, quotas, user sessions, traffic limits,
an optional split into micro-services, and a client library. This directory holds TLA+ modules
that model its protocols, TLC configurations that check them on small instances, and theorems
checked by TLAPS.

Paths below are relative to `src/`.

## 1. The system

| Part | State it keeps | Operations |
| --- | --- | --- |
| **Guard** `core/authentication/auth.guard.ts` | none of its own; reads the user from the database (POST) or the user cache (other methods) | authenticate, compare the token's `rvkd` with the user's, start traffic accounting |
| **User session** `core/config/crud-user.service.ts`, cache in `core/crud/crud.service.ts` and `core/config/crud.config.service.ts` | `rvkd` in the database; per-process LRU cache of users with a time to live | `$login`, `$logout_everywhere`, `$change_password`, `$reset_password`, `$verify_email`, `$patch`, `$patchOne`, `$patchIn`, `$setCached`, `$deleteCached`, `$findOneCached` |
| **Login and second factor** `crud-user.service.ts` `$login`, `$authUser`, `$sendTwoFACode`, `verifyTwoFA` | `failedLoginCount`, `timeout`, last attempt per user (memory), last code and when it was sent | log in, count failures, time out, send and verify a code |
| **E-mail tokens** `crud-user.service.ts` `sendTokenEmail`, `useToken` | a token for the address and one for the password, when each was sent, numbers of attempts | request a mail, use the link, change the password |
| **Quotas** `core/crud/crud.authorization.service.ts`, `crud.controller.ts` | per-user counters `crudUserCountMap`, `cmdUserCountMap`, `cmdUserLastUseMap` | check before, count after |
| **Traffic guard** `auth.guard.ts` | requests per IP and per user (memory), time-outs, `highTrafficCount` | count, flag, time out, clear every few minutes |
| **Trust** `crud-user.service.ts` `$computeTrust` | trust of the user and when it was computed | recompute once a day |
| **Roles** `crud.authorization.service.ts`, `shared/utils.ts` | the inheritance graph (static) | does a role, or one it inherits from, allow this operation |
| **Service operations and hooks** `core/crud/crud.service.ts` | entities in the database | create, createBatch, find, patch, patchBatch, delete, each with before, after and error hooks |
| **Controller** `core/crud/crud.controller.ts` | the request's context | validate, authorize, run hooks, run the operation, count |
| **Micro-service link** `crud.service.ts` `onApplicationBootstrap`, `forwardToMsLink`; `crud.controller.ts` `msLink`, `_initProxyController` | which process has which service (static), the context of each call | send a call to a process that has the service, forward a request to it |
| **Client** `client/CrudClient.ts` | the stored token | retry as guest after a 401, page through results, split batches |
| **Validation and transformation** `core/validation` | none | transform and validate a DTO |
| **Database adapters** `db_mongo`, `db_postgre` | the database | atomic increments, queries by list of ids |
| **Log and notification services** `core/log`, `core/notifications` | log records | not specified |
| **CLI** `cli` | files it generates | not specified |

How they interact: a request goes through the guard (user, token, traffic), then the controller
(validation, quotas, roles, hooks), then the service (hooks, database), then back through the
controller (after hooks, counters). Every `await` on that path is a point where other requests
run, and several writes are started and not awaited: counters, cache entries, time-outs.

What is hard in it: the user object that a request holds is a copy, taken at the guard, written
back to the cache from many places; counts are checked on that copy and changed later; a
revocation is one database write and one cache operation, in two different orders; batches are
loops over single operations; the client retries what may have been done.

What has to be true of each part:

| Part | Correct when |
| --- | --- |
| User session | a revoked token is refused; the cached user agrees with the database again; a revocation never leaves the token it was asked with good |
| Login | failures and mailed codes stay bounded when logins run side by side; a code works once; a right password logs in |
| E-mail tokens | a change of address goes to where its link was mailed; mails are bounded; a new password does not change the role |
| Quotas | what racing requests overshoot is bounded by their number; the counter ends up being the number of entities; calls of a command keep their distance |
| Trust | a limit is not raised by a trust the user had long ago |
| Roles | a request passes exactly when one role, the user's or one it inherits from, allows all of it; all walks over the roles see the same ones |
| Traffic guard | an IP or user above the threshold is stopped after a bounded number of requests; incidents add up |
| Service operations | an answer that says done means done, whatever hooks do; nothing is written after the answer; an id is stored and removed in turn, whoever chose it |
| Client | the result is whole and in order, nothing comes twice, every call returns, a good token is kept |
| Micro-service link | a call runs at most once, in a process that may run it; a result is that of a method that ran; every caller hears something; cookies set on the way arrive |

## 2. Modules

| Module | What it is |
| --- | --- |
| `UserSession` | tokens, their revocation and the cached user (one user, one process) |
| `RevocationLedger` | the abstract specification that `UserSession` implements |
| `UserSessionProofs` | the proofs about `UserSession` |
| `UserQuota` | `maxItemsPerUser` and `maxItemsInDb` |
| `RoleGraph` | the three walks over roles and those they inherit from |
| `RoleGraphProofs` | the proofs about `RoleGraph` |
| `Authorization` | `UserQuota` and `RoleGraph`: what a role, and the limits of a service, let a user do |
| `AuthorizationProofs` | the proofs about `Authorization`: those about `RoleGraph` carried over, and those about `UserQuota` |
| `IpTraffic`, `UserTraffic`, `TrafficGuard` | the two protections of the guard, and the guard that has one or the other on |
| `TrafficGuardProofs` | the proofs about `TrafficGuard` and its two parts |
| `Login` | `$login` with lock and second factor |
| `EmailLinks` | verification of addresses by mailed links |
| `Passwords` | new passwords, by a mailed link or by the old one |
| `CmdLimits` | `maxUsesPerUser` and `minTimeBetweenCmdCallMs` |
| `Trust` | when trust is computed, and how old it is when used |
| `Account` | the last five: what a user's document keeps to limit that user |
| `AccountProofs` | the proofs about `Account` and its five parts |
| `ServiceOps` | the operations of a service between hooks and errors |
| `ServiceOpsProofs` | the proofs about `ServiceOps` |
| `RemoteCall` | the abstract specification of a call to a service that may be in another process |
| `MsLink` | services in several processes: `forwardToMsLink`, `msLink`; implements `RemoteCall` |
| `MsLinkProofs` | the proofs about `MsLink` |
| `ClientSession`, `ClientBatch`, `ClientFind`, `Client` | the client's token, a batch call, a find, and the client that does all three at once |
| `ClientProofs` | the proofs about `Client` and its three parts |
| `MC*` | constants, symmetry, constraints and views for TLC; no behaviour of the system |

Conventions. A *slot* of `Requests` is a request being served; the size of `Requests` is how many
there can be at a time. A slot's `pc` says at which `await` the request is; between two of them
the event loop runs nothing else, so an action is what the code does from one `await` to the
next. A write that the code starts and does not await is a `pc` of its own: the slot stays busy
until the write has reached the database, although the answer has left. Variables marked
*history* in a module are read by properties only. Constants that only bound a run of TLC say so.
An operator whose comment starts with "Mutant of" is no part of the specification: it is a
plausible bug, and the property named with it in `PROJECT.json` fails when it takes the place of
the original.

Three modules compose components: `TrafficGuard`, `Authorization` and `Account`. Their parts
write different fields and never wait for one another, so every behaviour of the whole is one of
each part side by side, and every property here is about one part. In a behaviour of these
modules one part runs, any of them; that is all of what the parts do, without the product of their
states. `Client`, whose parts do share state (the token), runs them side by side.

### UserSession: is a token still good

The database holds `rvkd`; `cache` and `age` are the user's entry in the LRU cache; `req` holds,
for every request being served, where it is, how its user was read, the count in its token and
the count in its copy of the user.

| Action | Code |
| --- | --- |
| `AuthCached`, `AuthDb`, `ReadDb`, `Fill`, `Admit`, `Reject` | `extractUser`, `$findOneCached`, `$findOne` |
| `Lookup`, `Login` | commands that find their target user, `$login` |
| `PatchUser`, `Invalidate`, `LogMeIn` | `$patch` / `$patchOne` of the user service with a field that revokes, then `$deleteCached`, then the `logMeIn` token |
| `LogoutEverywhere`, `Flush` | `$logout_everywhere`: the entry is set before the write leaves the process, because the `$patch` it starts awaits first |
| `BulkPatch` | `$patch` by query, `$patchIn` |
| `Refresh`, `Flag`, `SetFlagged`, `Fail` | the places that put a copy of the user back: trust, batch creation, traffic guard, error hooks |
| `Tick`, `Lapse`, `Evict` | time to live and capacity of the LRU cache |

`causes` records, since the cache was last empty with nobody at work, whether one of three
things happened: another request ran while a revocation was half way ("overlap"), an error struck
between its two halves ("failed"), or a patch by query or by list changed the count without
deleting entries ("bulk"). `IncoherenceHasCause` says that nothing else makes the cached user
disagree with the database: not a fill that arrives late, not trust, not the traffic guard, not
the error hook. `AdmittedIsCurrent` says the same of what the guard lets in.

`RevocationLedger` is a count, its maximum and the counts in signed tokens: a revocation writes
any count up to one above the maximum, a signature carries any count up to the maximum.
`LedgerSpec` says that is all the protocol ever does to them.

Not in the model: other processes with caches of their own (a revocation in one leaves the
entries of the others until they expire, for which `TTL` is the bound); expiry of tokens; renewal
of a token, which signs a count already held; a caller who uses the link of a mailed reset is
`via = "other"`; guests and mock roles.

### UserQuota: how many entities

A request reads the counter with its user at the guard (`Create`, `CreateBatch`), checks the
collection once per entity (`CheckDb`), stores all of them in one flush (`Store`), answers
(`Answer`) and increments the counter by an update nobody awaits (`Count`). Deletions find the
entity and remove it (`Find`, `RemoveOne`) or remove what a query selects (`RemoveMany`), and
decrement in the same way. `Abort` is any error before the answer, `Crash` the end of the process.

`slips` records per user what the code itself does not keep in step: a batch (whose check is
started and not awaited), removals of what somebody else made or removed first, errors and crashes
between the store and the count. `OvershootBound` and `CountAgrees` say what holds without them.
`DbOvershootBound` has no exception.

`MaxPerUser` stands for the limit and all that trust adds to it. Guests are neither limited nor
counted by the code.

### RoleGraph: what a role inherits

The code walks over the roles in three places, each written on its own: `Check`
(`recursCheckRolesAndParents`: does one role allow all of the request), `Measure`
(`getMatchBatchSizeFromCrudRoleAndParents`: the largest `maxBatchSize`) and `Collect`
(`recursGetParentRoles`: all of them, for `skipQueryValidationForRoles`, mock roles and
`doesInheritRole`). `todo` is what the recursion still has to visit, in its order; `Skip` is a role
that was visited, `Fail` a name that `rolesMap` does not have, `Overflow` the stack. `Init` takes
any graph over the roles. What a role allows by itself is `rights`, a set of what a request needs:
abilities are evaluated by CASL, per field, per option.

The reference definition is `Ancestors(r)`, the smallest set that has `r` and is closed under
`inherits`: `GrantedByOneRole` compares the first walk with it, `WalksAgree` the other two.

### IpTraffic, UserTraffic, TrafficGuard: how many requests

`IpTraffic`: `Enter` (a request comes in, is refused if its IP is timed out, and is counted in
either case), `Peek` (the counter is read), `Inc` (incremented in an LRU cache of `maxTrackedIPs`,
under a mutex), `Block` (timed out), `Expire`, `Clear` (every five minutes). With the cache in
memory the event loop runs `Peek` to `Block` almost in one go; a shared `TrafficCache` answers
later, and the model lets requests interleave there, which includes the former.

`UserTraffic`: `Enter`, `EnterBasic`, `Leave` for the request; `Peek`, `Inc`, `Load`, `Flag`,
`Write` for the counting that runs beside it, to the increment of `highTrafficCount` and the
time-out; `Judge`, `Sentence` for `timeout_user`; `Clear`, `Evict`, `Tick` for what time brings.
The fill of the cached user is one step here; its own steps are in `UserSession`.

The two share no state, so `TrafficGuard` has one of them on in a behaviour.

### Login: lock and second factor

`Enter` (an attempt within 600 ms of the last changes nothing), `Read` (the user is read; lock and
code are judged by that copy), `Mail` (`$sendTwoFACode`), `Compare` (the password), `Count` (the
increment nobody awaits), `Grant` (the success patch, which includes the update of an outdated
hash), `ChangeRole`, `NewPassword`, `Forget`, `Tick`. A code is made, written and mailed in one
step. The time-out of a user is in `UserTraffic`.

### EmailLinks: verified addresses

`Ask`, `Send`, `Mail`, `MailFails`, `Refuse` are `send_verification_email` with `sendTokenEmail`;
`Click`, `Use` are `verify_email` with `useToken`. The token, the date, the count and `nextEmail`
are written first (`Send`); only then does the mailer have the link, and it may take as long as it
likes (`Mail`) or throw (`MailFails`), which takes nothing back. `links` says what each link was
made for, `mailed` which ones went out. So the address a user ends up with need not be one that a
link went out to: a change whose mail failed stays pending, and a link to the present address makes
it. What does hold is `ChangeGoesWhereMailed`, about links made for a change. The copy a sender
judges by is the guard's; the look-up of the new address, which another user may have, is one step
with it. The token is never withdrawn, as in the code. Uniqueness of addresses is the database's.

### Passwords: new passwords

`Ask`, `Send`, `Mail`, `MailFails`, `Refuse` are `send_password_reset_email`, with the same
`sendTokenEmail`, but `emailCount` comes from the caller: for a guest it is zero each time. `Click`
and `SetPassword` are `reset_password`, `Change` and `SetPassword` are `change_password`; between
the two the password is hashed for the role of the copy, and the patch has that role. The copy of
`Change` is the guard's, in which a mocked role has replaced the user's (`Seen`). `GiveRole` is
anybody who patches the user's role.

`given` is the role that the user was last given, and `causes` why they may have another one since:
it was given while a password was being hashed ("overlap"), or a password was changed with a role
mocked ("mock"). `RoleStays` says that nothing else takes a role away: no link that is asked for,
mailed, lost or used, and no password that is set, in whatever order their copies were read and
written.

### CmdLimits: how often, how soon

`ReadDb`, `ReadCached` (the guard, for POST and for other methods), `Authorize` or `Refuse`
(`authorize`), `Return` or `Throw` (the command), `Count` (the update that nobody awaits: an
increment, and a date that overwrites). `PutBack`, `Lapse` are the cache; `Crash` loses what was
under way. `since` of a slot and `round` are histories: when the last use that the copy can know
of returned, or the first of the last uses, when they overlapped.

### Trust: how old it is

`Read` (the guard), `Keep` (trust computed less than a day ago), `Compute`, `Use`, `Write`
(`$computeTrust`: computed from the copy, used, and patched without being awaited). `asOf` says
when the user was read whose trust it is. Limits with a bonus are checked for POST only, so the
copy comes from the database. `Patience` is the longest that a request takes from the guard to
the check: the code sets no such bound, and `TrustIsRecent` is relative to it.

### ServiceOps: operations, hooks, errors

| Action | Code |
| --- | --- |
| `Begin`, `Refuse` | the controller's handlers; validation, authorization and its hooks have one of two outcomes |
| `Before`, `After`, `HookThrows`, `ErrorHook` | the service's hooks, each of which may throw; an error hook may give a value in the place of the error |
| `Operate` | `$create`, `$createBatch` (one flush), `$patch`, `$patchIn`, `$delete`, `$deleteIn` (one native query) |
| `Find`, `Flush` | `$patchOne`, `$deleteOne`: look up, then write by id |
| `Land`, `Sink`, `Settle` | `$patchBatch`: updates side by side under `Promise.all` |
| `OperationFails` | the database throws after a part of what it was told; MikroORM opens no transaction on MongoDB |
| `Return`, `Thrown` | `afterHooks`, `errorHooks` of the controller |

A request runs once, and may select any entities. A creation gets new ids or comes with its own,
which `authorize` allows with `allowIdOverride` (`docs/services/options.md:59`), also those of entities
that were removed, or that another request is working on. The database refuses an id that is taken
(`Storable`). `patchOne` and `deleteOne` write by the id of what they found, so they may write to an
entity that was stored under it since. Of the database the model keeps which entities are stored, and
which each request changed; `anew` has those it selects that others stored after it changed them, for
which an answer that says "removed" or "patched" is true and yet they are there, or are not patched.
Reads are left out: they have hooks of the same shape and change nothing.
When an error hook answers for a creation or a deletion that did not happen, the controller counts
it as if it had (`addCountToDataMap`); counters are in `UserQuota`.

### RemoteCall, MsLink: calls to other processes

A deployment says which process lists which services, whose link and controller are open, which
are proxies, and which have a username of their own. `route` is the process that
`onApplicationBootstrap` chose; the choice among several is the first in the configuration, here
any. `root` is the code that nobody called, a request's handler or code that runs as a process
starts; it and the methods it calls make calls (`CallLocal`, `CallRemote`), awaited or not.

| Action | Code |
| --- | --- |
| `Request`, `Handler` | the guard ("Controller is closed"), the proxy of `_initProxyController` |
| `StartUp`, `Started` | `onModuleInit` of the application; `onApplicationBootstrap`, which replaces the methods |
| `CallRemote`, `Deliver`, `Break`, `Refuse`, `Reset` | `forwardToMsLink`: the request, its answer, or an error of the connection |
| `Arrive` | the guard's checks of a link |
| `Before`, `Finish`, `Throw`, `After` | `msLink`: hook, method, hook |
| `SetCookie`, `Merged` | `ctx.setCookies`, which the answer brings back and writes over the caller's |
| `Stop`, `Start` | processes |

A context is numbered by the remote call that sent it, and `cookies` says what each has. `early`
marks calls made before the methods were replaced. In `RemoteCall` a caller has one of "waiting",
"ok", "error" and "gone" (its process stopped), the method one of "no", "begun", "done", "threw"
and "cut"; `mayRun` is the set of processes that may run it.

### ClientSession, ClientBatch, ClientFind, Client

`ClientSession` is the stored token and the commands that replace it (`login`, `check_jwt`,
`logout`). `ClientBatch` is `_doBatch`: chunks in turn; a server that finds a chunk too large
says what it would take and the client starts again. `ClientFind` is `_doLimitQuery`: pages until
the total of the first answer. In both a 401 makes the client forget the token that is stored *by
then* and go on as a guest (`_tryOrLogout`). `Client` runs one of each side by side over one token
storage. Tokens are numbered; `good` is the set the server would accept, and it may shrink at any
step (`End`). Whether tokens are in local or session storage makes no difference here.

## 3. Runs

TLC, two workers. "Violation" runs end with a counterexample to a sentence of the documentation or
of the code; see section 5.

| Run | Instance | Shows | Distinct states |
| --- | --- | --- | --- |
| `session` | 2 requests, counts to 2 (3 for a write), TTL 1 | `IncoherenceHasCause`, `AdmittedIsCurrent`, `FreshMaximumRevokesAll`, refinement of the ledger, `EventuallyCoherent` | 385 000 |
| `logout` | the same, smaller | violation of `LogoutInvalidatesIssuedTokens` | |
| `quota` | 2 requests, a member who creates and a moderator who removes, 6 entities, batches of 2, limits 1 per user and 2 in all; or 3 roles that inherit directly from up to 2 names, one unknown, 2 needs, batch sizes to 2 | `OvershootBound`, `CountAgrees`, `DbOvershootBound`, `GrantedByOneRole`, `WalksAgree` | 2 860 000 |
| `quota_batch` | 1 request, one batch of 2 | violation of `PerUserLimit` | |
| `traffic` | 3 IPs over 2 counters, threshold 2; or a user, threshold 3, up to 3 incidents; 2 requests | `ServedBound`, `IncidentsAddUp`, `IncidentsPerBurst` | 1 970 000 |
| `account` | 2 requests. Logins: lock at 2 failures, 3 codes. Links: 2 addresses, 6 links, mailed or lost. Passwords: 2 roles, one of which may mock the other, 6 links, 2 new passwords. Commands: 1 use and a bonus of 1, or a distance of 2 ticks, 4 uses. Trust: 2 ticks, patience of 1, for 6 ticks | `GuessBound`, `MailBound`, `SpentCodeIsDead`, `MailBurst`, `ChangeGoesWhereMailed`, `RoleStays`, `UsesBound`, `UsesSpaced`, `TrustIsRecent` | 3 230 000 |
| `rehash` | 1 login | violation of `HashIsUpdated` | |
| `address` | 2 commands, 3 links | violation of `LinkVerifiesItsAddress` | |
| `ops` | 3 requests of any kind, 2 entities, 4 selected in all | `DoneOrNot`, `StoredAndRemovedInTurn`, `LateWritesFollowErrors` | 2 430 000 |
| `client` | 2 tokens, a batch of 5 in chunks of 4 with limits 3 and 0 or 1, a find of 3 with limits 2 and 1 | `GoodTokenIsKept`, `ResultIsWhole`, `TwiceOnlyAfterChange`, `MissedAtMostRemoved`, `CallsReturn` | 1 130 000 |
| `mslink` | 3 processes, 2 services in 3 deployments (one service each; a gateway before two; nothing listed), 2 calls nested or side by side, 1 stop | refinement of `RemoteCall`, `CookiesKept`, `CallsReturn` | 288 000 |
| `options` | limits and offsets of a find | violation of `OptionsAreKept` | |

Each passing run also checks its module's `TypeOK`, which says more than types where the code
promises more: an entry is never older than its time to live, no more IPs are tracked than the
cache holds, a chunk is never empty, an element of a batch is written once. Every property of a
passing run has a mutant it refutes (`PROJECT.json`, `mutants`).

**Why these bounds.** The hazards are races between two requests, or between a request and what
surrounds it (cache, clock, crash, moderator), and the runs have two slots that are used again (`ops`
three that are not),
so sequences of any length of such races are explored up to the bounds on counters. The bounds that
depend on the number of requests (`OvershootBound`, `DbOvershootBound`, `ServedBound`, `GuessBound`,
`MailBound`, `MailBurst`, `UsesBound`, `IncidentsPerBurst`) also hold with three slots on smaller
constants; the runs kept here are those with the larger constants that finish in minutes. All but
`IncidentsPerBurst` are attained: with one less, TLC finds a behaviour that passes them. `TTL` 1
lets an entry be fresh, old and gone; `MaxRvkd` 2 lets two revocations race twice. In `quota`
entities are created in the order of their numbers (they are interchangeable, and a symmetry set of
six would be slow), and the view leaves out who made an entity that is gone and that no request
holds, and the counters of moderators, none of which any property or guard reads. In `client` the
sizes are the smallest with which a batch has two chunks before it is split again and a find has
three pages; a guest's limit above the user's is not covered. `CHECK_DEADLOCK FALSE` stands where a
clock or a bound stops the model, or where a walk, a command or a call is over. In `mslink` two
calls are the smallest number with one nested in another and with two at the same time, three
processes the smallest with a caller, a proxy and an owner apart; a cookie that is lost needs calls
that overlap, and `ahead` counts the steps that overlap. In `account` the views leave out the fields
that a command without the limit in question never reads, and which links went out of those whose
token is overwritten; slots and addresses are interchangeable. In `ops` a slot is one request, and three
are the smallest number with which an entity is removed and stored again under the same id while a
third request works on it; `MaxAim` leaves out that all three select both entities. The view takes
operations of one kind for one another once they are over, and so hooks that throw after them.

## 4. Fairness and liveness

- `session`, `EventuallyCoherent`: weak fairness for every request on the steps that an `await`
  resumes (`ReadDb`, `Fill`, `Admit`, `Reject`, `Invalidate`, `Flush`, `Finish`, `SetFlagged`) and
  for the passing of time. The event loop and the database's answers justify them. No request is
  obliged to arrive and no entry to be evicted. The property holds if from some point on no
  revocation starts and no held copy is put back (`CopiesStop`): a process that goes on putting old
  copies back, e.g. on errors, can keep the entry wrong for as long as it does.
- `client`, `CallsReturn`: weak fairness for what the client does when it is answered. That the
  server answers, if only with an error, is assumed; that it answers well is not.

- `mslink`, `CallsReturn`: weak fairness, for each call, on its own steps in the other process and on
  the network: a request arrives or is refused, a method ends once what it awaits has returned, an
  answer is delivered, a connection to a process that stopped is reset. The code sets no time-out
  on these calls, so nothing less would do; that hooks and methods end is the application's part.

The other runs check safety.

## 5. Where code and documentation disagree

Five runs end with a counterexample. Each is a sentence of the documentation or of the code, quoted
in `PROJECT.json`, `findings`.

1. `logout`: two revocations from one copy of the user write the same count, and a token signed in
   between stays good ("will invalidate all issued tokens", `docs/user/service.md:222`).
2. `quota_batch`: the quota check of a batch is started without `await`
   (`crud.authorization.service.ts:120`), so batches are not limited (`docs/configuration/limits.md:29`).
3. `rehash`: the update of an outdated hash throws, so a login with the right password fails.
4. `address`: a link to the user's own address makes another one theirs, which they asked for before,
   whether or not a link to that one was ever mailed.
5. `options`: the client's find neither keeps the offset from the second page on nor stops at the limit.

Noted while modelling and not run:

- `docs/hooks/service-hooks.md:10`, "Any error thrown in a hook cancels the underlying operation":
  not an error of a hook after it. `DoneOrNot` states what is true.
- `docs/services/options.md:40`, a request with `mockRole` performs "as if the logged user has the
  role": `$change_password` writes the role of the guard's copy with the password, so a mocked one
  stays (`Change`, and "mock" in `causes`). For methods other than POST the guard's copy is the cached
  user itself (with the cache in memory), which keeps the mocked role until the entry is replaced; the cache of `UserSession` has
  no roles.
- `docs/configuration/traffic.md:56` says entries with the lowest traffic are removed; the cache in
  memory removes the least recently used (`IpTraffic`, `Insert`).
- `timeout_user` does not touch the cached user, so methods other than POST are served until the
  entry expires (`docs/user/service.md:247`).
- `docs/configuration/limits.md:86`, "Minimum time required between cmd calls (for a specific
  user)": the date of the last call is read from the cached user for PATCH and GET, and calls under
  way are not in it. `UsesSpaced` states what is true of POST.
- `docs/context.md:57` says cookies set in `ctx.setCookies` work in micro-service configurations:
  not those of calls that overlap, whose contexts overwrite each other's (`CookiesKept` is about
  calls that are awaited).
- `MicroServiceConfig` has a username and a password for a process; callers send the common ones, so
  such a process refuses them (`Arrive`).
- The time-out between mails that reset a password does not apply to a guest, whose `emailCount` is
  read from the caller and not from the user (`crud-user.service.ts:574`).
- A role that inherits from itself through others makes `authorizeBatch` recurse without end; the
  other walks over roles end (`WalksAgree`).
- `maxItemsInDb` is overshot by racing requests, and by a batch alone: each entity of a batch is
  checked before any is stored (`DbOvershootBound` says by how much).
- A patch by list or query changes the count of users whose entries stay (`BulkPatch`).
- `docs/client/operations.md:66`: a find of several pages misses entities when others are removed
  meanwhile (`MissedAtMostRemoved` says how many).

## 6. What is proved

Every invariant and every action property that a passing run checks is a theorem, and so are the two
refinements. A run shows a property on one small instance; its theorem, for every value of the
constants that the assumptions of the module allow. What no theorem states is named at the end of
this section.

The proofs share a way of reasoning. The properties are about requests that race, so what a request
*holds* counts as much as what is written, and most invariants bound the two together: a counter
plus the slots that are about to add to it, entities stored plus those that the slots past their check
may store. Neither is bounded alone. Every action is looked at for the slot it moves; what the others
hold is shown to be as good as before.

**`UserSessionProofs`**, for any set of requests, any `MaxRvkd` and any `TTL`, from the assumptions
of `UserSession` on its constants (`NoEntry` is not a number; bounds are natural numbers):

| Theorem | Statement |
| --- | --- |
| `TypeCorrect` | `Spec => []TypeOK` |
| `NothingIsAhead` | `Spec => []NothingAheadOfTop` |
| `FreshMaximumRevokes` | `Spec => FreshMaximumRevokesAll` |
| `CallerIsRevoked` | `Spec => RevokesCaller` |
| `ImplementsLedger` | `Spec => LedgerSpec` |
| `CoherenceUnlessDisturbed` | `Spec => []IncoherenceHasCause` |
| `AdmissionIsCurrent` | `Spec => []AdmittedIsCurrent` |

The inductive invariant is `TypeOK /\ Bounded /\ (causes = {} => Undisturbed)`.

- `Bounded` says, for each `pc`, how far a request's copy may be above the highest count ever
  committed: not at all where the copy came from the database; by one after `logout_everywhere`
  has incremented it and before its write; one *below* it after a patch was written. It also
  ties a caller's copy to the token it came with, which `RevokesCaller` needs. It is inductive
  with `TypeOK` alone, and the first five theorems follow from the two.
- `Undisturbed` says that, while none of the three causes has occurred, every copy is the current
  count, or one off in a revocation that runs alone. Neither `IncoherenceHasCause` nor
  `AdmittedIsCurrent` is inductive: a copy held by a request is put in the cache steps later, so the
  invariant has to speak of every copy held anywhere.

Each step lemma goes action by action (`BoundedGuard`, `BoundedCommand`, `BoundedCopies`; the same
for `Undisturbed`).

**`ServiceOpsProofs`**, for any requests and any entities:

| Theorem | Statement |
| --- | --- |
| `TypeCorrect` | `Spec => []TypeOK` |
| `OperationsAreDoneOrNot` | `Spec => []DoneOrNot` |
| `EntitiesComeAndGo` | `Spec => []StoredAndRemovedInTurn` |
| `AnswersAreFinal` | `Spec => LateWritesFollowErrors` |

The inductive invariant is `TypeOK`, `Stage` of every request, and `Balance` of every entity.
`DoneOrNot` speaks of answered requests only; `Stage` says for every `pc`, and for the place of the
first error, what the request has done so far, in particular that the part of a batch that is not yet
written is under way, and that what it removed is there again only if others stored it (`anew`). What
others store is always noted there: every step is `Tame` to the other requests, which keeps their
stages (`OthersStay`), so each action is looked at for its own request only. `Balance` counts, for one
entity, the requests that stored and those that removed it. It needs `Stage`: that a creation or a
removal has done nothing before its one write is what makes each step add one request to one side
(`TakeBalances`).

**`RoleGraphProofs`**, for any finite set of roles, any unknown names, any inheritance between them
(cycles included), any rights and batch sizes, from `RoleGraphAssumption` (the stack has room for
more calls than there are roles):

| Theorem | Statement |
| --- | --- |
| `TypeCorrect` | `Spec => []TypeOK` |
| `GrantIsByOneRole` | `Spec => []GrantedByOneRole` |
| `WalksAreOverAncestors` | `Spec => []WalksAgree` |

`AuthorizationProofs` carries the last two over to the instance in `Authorization`, where the run
`quota` checks them: the roles there take steps of `RoleGraph` or none (`ImplementsRoleGraph`).

`Ancestors` is a least fixed point, stated as the intersection of all closed sets, so no induction
over the graph is needed: what a walk has visited is shown to be closed when nothing is pending
(`Covered`), and then it holds all ancestors. The walk for the batch size notes nothing, so
`Measured` says instead that every ancestor counts already or is an ancestor of something pending.
`Chained` says that a call of depth *d* ends a chain of *d* names, each inheriting from the one
before and having it as an ancestor; with more calls than roles two of them are the same
(`FS_PigeonHole`), and that is a cycle. `Shallow` bounds the depth of the other two walks by what
they have visited, which is why only the walk for the batch size can overflow.

The inductive invariants were checked by TLC on small instances before they were proved.

**`AuthorizationProofs`, about `UserQuota`**, for any finite set of requests, any users and entities,
limits and batch sizes:

| Theorem | Statement |
| --- | --- |
| `TypeCorrect` | `Spec => []TypeOK` |
| `OvershootBounded` | `Spec => []OvershootBound` |
| `CountsAgree` | `Spec => []CountAgrees` |
| `DbOvershootBounded` | `Spec => []DbOvershootBound` |

`QuotaInv` weighs, for each user, the counter against what it stands for. `Owed` is what the user
has and what was removed but not subtracted yet, `Added` what was stored but not counted yet; unless
the counter has drifted (`slips`), `Owed` is at most the counter and `Added` together, and exactly
that when nothing was taken (`Counted`). `Limited` adds the slots that were let in below the quota.
`DbFits` weighs the collection against the slots that have passed their last check (`Ready`), each
worth `MaxSize`. The sets can be added up because no entity is in the hands of two slots
(`EntitiesFit`, `SlotFits`).

**`TrafficGuardProofs`**, for any finite sets of IPs and requests, any thresholds and durations:

| Theorem | Statement |
| --- | --- |
| `TypeCorrect` | `Spec => []TypeOK` |
| `ServedIsBounded` | `Spec => []ServedBound` |
| `IncidentsAreKept` | `Spec => []IncidentsAddUp` |
| `BurstsAreBounded` | `Spec => []IncidentsPerBurst` |

`IpInv`: until an IP is timed out, what was served to it is at most its hits and the slots still
counting for it, and its hits exceed the threshold by no more than the slots that saw them below it.
`UserInv`: the incidents in the database and those on their way to it are all that were decided
(`HighFits`), and what each burst may still decide is set aside when the counter reaches the threshold
(`BurstsFit`). `TypeOK` needs that no more IPs are tracked than the cache holds, which is about the
order of its list.

**`AccountProofs`**, for any finite set of requests, any limits, times, addresses, roles and
passwords:

| Theorem | Statement |
| --- | --- |
| `TypeCorrect` | `Spec => []TypeOK` |
| `GuessesBounded` | `Spec => []GuessBound` |
| `CodesBounded` | `Spec => []MailBound` |
| `SpentCodesAreDead` | `Spec => SpentCodeIsDead` |
| `ChangesGoWhereMailed` | `Spec => ChangeGoesWhereMailed` |
| `BurstsBounded` | `Spec => []MailBurst` |
| `RolesStay` | `Spec => []RoleStays` |
| `UsesBounded` | `Spec => []UsesBound` |
| `UsesAreApart` | `Spec => UsesSpaced` |
| `TrustStaysRecent` | `Spec => TrustIsRecent` |

Each of the five parts has an invariant of its own (`SignInInv`, `LinkInv`, `ResetInv`,
`CmdInv`, `TrustInv`), and `AccountInv` is all of them. `Guessed` bounds the failed attempts that are
written together with the slots that are still comparing; `CodesMailed` does the same for codes.
`PendingFits` ties `nextEmail` to the token next to it, in the database and in every copy whose link
is being used: if the token is that of a link for a change, it is where that link goes. `RolesFit` says
that, while there is no cause, every password being hashed is for the role that was given: a patch
with it may land steps later. `UsesCounted` weighs the counter with the increments on their way,
`UsesDated` says which dates of last uses a copy can have.

`MailBurst` is the hardest. Attempts are written as *the copy's count plus one*, so a slot with an
old copy sets the counter back, and slots that take turns mail more than `Slots * Free` times: up to
`choose(Slots + Free, Free) - 1` times. The invariant is a potential. A slot's *level* is the count
its next write starts from (`LinkLevel`, `ResetLevel`); `Weighs` assigns to every level a number of
mails that may have been sent from it or one above it, at most what the slots that have passed it
allow by Pascal's triangle; what was mailed is no more than the number of the lowest level, and a
full burst for each time attempts were forgotten (`Explained`). The binomials are those of the
community modules; that they obey Pascal's rule is proved here (`WaysGrow`), with factorials as a
recursive function whose graph is built up to each argument, and induction by a least counterexample
(`LeastNumber`).

**`ClientProofs`**, for any numbers of tokens, elements and entities, any limits of the server and any
chunk sizes:

| Theorem | Statement |
| --- | --- |
| `TypeCorrect` | `Spec => []TypeOK` |
| `ResultsHaveAll` | `Spec => []ResultIsWhole` |
| `TwiceIsTheMost` | `Spec => []TwiceOnlyAfterChange` |
| `FewAreMissed` | `Spec => []MissedAtMostRemoved` |
| `GoodTokensAreKept` | `Spec => GoodTokenIsKept` |
| `CallsAreFinite` | `Spec => CallsGetOn` |

The three parts share only the stored token, which is none or the one signed last (`SessionInv`). A
batch is in one of two rounds: in `FirstRound` nothing was done twice; once it has started again
after some chunks (`SecondRound`) it was seen both as a user's and as a guest's, and its chunks are
small enough for either, so it never starts a third time. For a find the entities stay sorted by
creation, and so do the pages (`PagesFit`): nothing comes twice. A removal moves at most one entity
to a page already read, so what was left behind is no more than was removed (`MissedFits`).
`CallsGetOn` names a number for each call, `Left`, that falls with every answer it goes on after: an
arithmetic fact about splitting again, and about the last page.

**`MsLinkProofs`**, for any finite set of processes, any services and deployments, any number of
calls, nested to any depth, and of stops:

| Theorem | Statement |
| --- | --- |
| `TypeCorrect` | `Spec => []TypeOK` |
| `CallsAreRemoteCalls` | `Spec => RemoteCallSpec` |
| `CookiesAreKept` | `Spec => []CookiesKept` |
| `SomebodyGetsOn` | `Spec => []NobodyIsStuck` |

`Basic` says of each call where it is, what became of it (`Staged`) and who made it (`Lineage`: the
caller is an earlier call, a local call has its caller's process and context). It is enough for the
refinement, where each action is a step of `RemoteCall` or none, and for `NobodyIsStuck`: the last
call that is waited for waits for nothing itself. `CookiesKept` is not inductive, and needs
`Awaited`: as long as every call was awaited, those that share a context form a chain of which only
the last one goes on (`Linear`), so what a copy of the context gets while it is away is what the
caller's would have got (`Kept`: the copy is the caller's cookies and those set by calls below).

**Constants.** The assumptions are those the modules state, and TLC evaluates them in every run. The
proofs that count slots need to know that there are finitely many: `IsFiniteSet(Requests)`, which no
server exceeds.

Four theorems state properties that no run lists: `NothingAheadOfTop`, `RevokesCaller`, `CallsGetOn` and
`NobodyIsStuck`. They hold in the instances of the runs `session`, `client` and `mslink`, as TLC
confirms when they are added to a configuration; the theorems say it of every instance.

**Only model-checked.** Liveness (`EventuallyCoherent`, `CallsReturn` of the client and of the link)
is out of the prover's reach, since it needs fairness and `ENABLED`. Of `CallsReturn` the part that
needs neither is proved: a call of the client has a finite number of answers to wait for
(`CallsGetOn`), and some call between processes can always go on (`NobodyIsStuck`). That the bounds
are attained (all but `IncidentsPerBurst` are) is known from TLC only, on small instances. The
properties of the "violation" runs are false.

## 7. What is not modelled

`PROJECT.json`, `components`, has the list with a reason for each part. In short: validation and
transformation (a walk over one DTO, nothing kept between calls), CASL's rules (a library), the CLI
(generates files and ends), logging and notifications (no behaviour). What `addToComputedTrust`,
hooks and commands do is the application's; here they end or throw. External code (database,
MikroORM, JWT library, mailer, caches) is modelled from how it is called: a `$inc` is atomic, other
updates overwrite, queries return what is stored when they run.

## 8. Plan

The components that carry the program's logic are modelled, and what their runs check is proved as
far as safety goes. What would come next:

1. Several processes in `UserSession`: each with a cache of its own, entries living on for `TTL` after a
   revocation elsewhere; `IncoherenceHasCause` with one more cause, and a bound in time as a property.
2. The parts listed as "partly" in `PROJECT.json`: reads and their hooks in `ServiceOps`, so that the
   limits of a find on the server can be composed with the client's.
3. `timeout_user` and the cached user: the one hazard that no property covers. A property needs the
   sentence's duration and the cache's time to live in one module.
4. Sharper bounds where TLC shows that a proved one is not attained (`IncidentsPerBurst`).
