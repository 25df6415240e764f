# k8sCenter verification

TLA+ models of the stateful parts of k8sCenter, the TLC configurations that
check small instances of them, and TLAPS proofs of theorems about them. Paths
below are relative to `src/`.

To check one run: `tlc -config WsHub_safety.cfg MCWsHub.tla` (the table in
section 3 names the module and the .cfg of each). To check the proofs:
`tlapm X.tla` for each module X whose name ends in `_proofs`.
`PROJECT.json` lists the components, the runs, the mutant of every property,
the source lines each definition stands for, the hazards and the theorems.

## 1. The system

k8sCenter is one Go process (`backend/`) in front of the Kubernetes API and of
PostgreSQL, a Deno/Preact server with a browser client (`frontend/`), and a
Flutter client (`mobile/`). A request is authenticated by a JWT, executed under
Kubernetes impersonation, and audited. Most handlers are one call to Kubernetes
and keep nothing. What follows is the list of parts that keep state, with
their operations, what they interact with, what makes them hard, and what
makes them correct.

### WebSocket hub (`internal/websocket`, `internal/server/handle_ws.go`) - modelled but for CRD kinds
State: the client map, an atomic client counter, the subscription map, five
channels, and per connection a send channel, a subscription counter, and two
goroutines. Operations: upgrade, register, subscribe (with an access check),
unsubscribe, broadcast of an informer event, resync of a slow client, periodic
revalidation of access, unregister, shutdown. The hub goroutine owns the maps;
connections reach it through channels; informers feed `HandleEvent`.
Hard: the order of messages from different channels is free, a removal may be
decided in three places, `Run` has no recover, and a message may be applied for
a client that is gone. Correct when: a channel is closed once, nobody sends on a
closed one, the counter follows the map, a slow client never misses an event
silently, and revoked access ends a subscription.

### ExternalSecrets bulk refresh (`internal/externalsecrets`, `internal/store/eso_bulk_jobs.go`) - modelled
State: a job table with a partial unique index, an in-memory queue, one worker,
a cached inventory. Operations: read a scope, post a job, work on it in
batches, cancel, recover from a panic, complete, reap at boot, retention. Hard:
the row survives the process, the queue does not; objects are replaced between
the confirmation and the patch; every database call may fail. Correct when: one
pending job per scope, every row completed, every target reported once and truly.

### Sign-in, refresh, sign-out (`internal/auth`, `internal/server/handle_auth.go`, `response.go`) - modelled in part
State: an in-memory map of refresh tokens. Operations: login through three
kinds of provider, rotate, restore, revoke, clean up; user removal. Hard: the
token is out of the map while a directory or a database is asked, so a second
refresh, a logout, a failure or a restart may come in between. Correct when: a
login has one token, none is lost to a transient failure or brought back after
a logout or a rejection, and a removed user loses access in bounded time.

### Inventory caches (externalsecrets, certmanager, policy, gitops, servicemesh, gateway, velero, scanning, limits, networking) - modelled
State: a snapshot with a TTL, a generation, a singleflight group; eighteen
caches of one scheme, which differ in details. Operations: get, fetch, store,
invalidate, evict. Hard: where the generation is read, whether it is part of
the flight's key and whose context the flight runs under decide whether a
request made after an invalidation may still get older data, whether an older
snapshot is stored over a cleared one, and whether one client's departure fails
the others. Correct when: an invalidation sticks, what is served has a bounded
age, and nobody fails for somebody else.

### Pollers and checkers (certmanager, externalsecrets, limits) - modelled in part
State: what each object was last notified of, for ExternalSecrets seeded at
boot from stored notifications. Operations: list, check, emit, prune. Hard: the
bucket is recorded before its notification is stored, failures between the two,
objects recreated under a name, restarts. Correct when: a change that was found
is in the feed unless its write failed, and nothing is said twice.

### Notification centre (`internal/notifications`) - modelled in part
State: stored notifications with a deduplication query, a dispatch queue, a
cache of rules and channels, a semaphore, digests. Operations: Emit, dispatch,
rule and channel writes with their refresh, the daily digest. Hard:
check-then-insert by concurrent emitters, a cache refreshed by several
goroutines, a full queue whose loss is then hidden by deduplication, digests
counted from a cached time. Correct when: duplicates are bounded, a deleted
channel gets nothing, the queue drains, and a row that no digest mails was left
out for a reason that can be named.

### Cluster router and prober (`internal/k8s/cluster_router.go`, `cluster_prober.go`) - modelled in part
State: client caches per cluster and user, the readings under way, the recorded
status of each cluster. Operations: RouterFor, EvictCluster, the sweeper;
probes by the loop and on demand, registration, deletion. Hard: readings and
probes in flight while a cluster is deleted or another probe writes; a deletion
that is reported as failed, a test whose client has gone. Correct
when: a client acts for the user who asked, nothing is served for longer than a
bound after a deletion, and the recorded status settles on the cluster's own.

### Alerting (`internal/alerting`) - not modelled
State: active alerts, a bounded history, an e-mail queue with cooldown and an
hourly limit. Each delivery is one critical section. A firing that arrives
after its resolution leaves the alert active (`store.go:205`).

### Audit log (`internal/audit`) - not modelled
State: a bounded queue and its writer. Hard: Close against a late Log.

### Drain tasks (`internal/k8s/resources/tasks.go`, `nodes.go`) - not modelled
State: tasks in memory, expiring. Two hazards, met while reading: the drain
that was accepted runs under the context of its request (`nodes.go:112`), which
ends when the handler returns, so that the drain's next call to Kubernetes is
refused; and two requests may both find no drain of a node before either
creates one (`nodes.go:102`).

### Users, setup, rate limit, OIDC flow state - not modelled
The users table, a window per address, a map of single-use states. Each
operation is one transaction or one critical section; `Sessions` has what the
removal of a user means for his sessions.

### Web and mobile clients (`frontend/lib`, `mobile/lib`) - not modelled
State: tokens, a shared refresh, a socket with reconnection, polling of jobs.
`Sessions`, `WsHub` and `BulkRefresh` take any sequence of requests, hence also
those of the clients; what a client concludes from the answers is not modelled.

### The rest - not modelled
Informers and CRD discovery (client-go's state machine, present in the hub's
model as `InformerEvent`); the access-check cache for anybody but the hub's
clients (`WsHub` has its entries for these); integration handlers, YAML and wizards (stateless
translations); log and flow streams (the pattern of a hub connection);
settings (one row); deployment, documentation and tests. The Helm chart matters
in one respect: its default is one replica of the backend, and all passing runs
have one process; section 6 says what a second one breaks.

### How the parts interact
Pollers, prober and alerting call `Emit` (one atomic, deduplicated insertion in
their models; `Notifications` opens it up). The bulk worker patches what the
ExternalSecrets cache lists, and invalidates it. Watch events reach the hub and
the invalidations of the caches. `EvictCluster` ends in the eviction hooks of
the caches (`Invalidate` of `InventoryCache`). The hub and the handlers ask the
router and the access-check cache for every decision.

## 2. The modules

| module | models | instance | proofs |
| --- | --- | --- | --- |
| `WsHub` | hub, connections, upgrade handler | `MCWsHub` | `WsHub_proofs` |
| `BulkRefresh` | requests, job table, queue, worker, processes, the cluster's ExternalSecrets | `MCBulkRefresh` | `BulkRefresh_proofs` |
| `Sessions` | session map, login, refresh, logout, identity stores, clock | `MCSessions` | `Sessions_proofs` |
| `InventoryCache` | the eighteen caches | `MCInventoryCache` | `InventoryCache_proofs` |
| `BoundedStaleness` | what a cache promises its readers | refined by `InventoryCache` | `InventoryCache_proofs` |
| `Pollers` | certificate poller, ExternalSecret poller, quota checker | `MCPollers` | `Pollers_proofs` |
| `Notifications` | Emit, dispatcher, rule cache and its refreshes, digests | `MCNotifications` | `Notifications_proofs` |
| `ClusterRouter` | client maps, shared readings, eviction | `MCClusterRouter` | `ClusterRouter_proofs` |
| `ClusterProber` | loop, tests on demand, stored status, callback | `MCClusterProber` | `ClusterProber_proofs` |

The MC modules only add symmetry and the values of constants that a .cfg cannot
write. Operators named `MUTANT` in a comment belong to no behaviour of
`Spec`: each is a definition with a plausible bug, and a property is kept only
if such a bug breaks it. Variables marked as history are read by properties and
by no guard.

### WsHub

`hub` is the program counter of `Run`: `select`, or inside one of the handlers
that call out more than once (`fanout`, `resync`, `revalidate`), or `stopped`,
or one of two panics. `clients`, `clientCount` and `subs` are the hub's fields;
`addSub`, `unsubByID`, `events` and `send` its buffered channels; `register`
and `unregister` are unbuffered, so that `HubRegister` and `HubUnregister` are
joint steps of the hub and of the sender. `handler`, `reader` and `writer` are
the program counters of `handleWSResources`, `ReadPump` and `WritePump`; `conn`
is the network connection. `access` is what the API server would answer;
`granted` has the unexpired entries of `AccessChecker.cache` that say yes, and
`reviews` the answers yes whose callers have yet to store them.

| code | actions |
| --- | --- |
| `handleWSResources` | `Upgrade` (reads the counter), `HubRegister`, `StartPumps` |
| `ReadPump`, `waitForAuth` | `Authenticate`, `ReadFails`, the deferred unregister in `HubUnregister` |
| `handleSubscribe` | `ReadSubscribe` (limit, access check from an entry or a review), `SendAddSub` (blocks), `SendSubscribed`; `ReadReject` for every error |
| `handleUnsubscribe` | `ReadUnsubscribe` |
| `WritePump` | `WriterSend`, `WriterExit` |
| `Run`'s select | `HubRegister`, `HubUnregister`, `HubAddSub`, `HubUnsub`, `HubEvent`, `HubTick`, `HubStop` |
| `broadcastEvent`, `sendResync` | `HubEvent`, `FanoutSend` (one turn of the loop), `Resync` |
| `revalidateSubscriptions` | `HubTick`, `CheckPasses`, `CheckDenied`, `Revoke`, `RevalidateEnds` |
| `removeClient` | `RemoveClient`, used by unregister and resync; `HubStop` does it for all |
| `HandleEvent` | `InformerEvent` (drops when the channel is full) |
| `AccessChecker.CanAccess` (`k8s/resources/access.go`) | `Review`, `StoreReview`, `ReviewEnds`, `GrantExpires` |

The fan-out takes its targets in any order, as Go iterates over a map. Between
`FanoutSend` finding a channel full and `Resync` trying again the writer may
make room; that is why they are two actions. A reply of the reader on a
channel the hub has closed panics and is recovered by `ReadPump`; the same in
`Run` is the end of the process (`Panicked`). The access checker is shared with
all requests of a user, so an answer may be obtained and stored by anybody at any
time, also after the access is gone. Access is only ever lost in the model; an
entry that says no is then the same as a review made now, and is not kept. Left
out: bytes, pings (a failed ping is `WriterExit` or `ConnectionLost`), origin
checks, kind aliases, and the identity of the user: access, entries and answers
are of a client and a key. Also left out is that CRD kinds are registered and unregistered while
connections are open (`RegisterAllowedKind`): the model's kinds are fixed.

### BulkRefresh

A request `r` owns at most one row, so rows are indexed by requests. `req`,
`worker` and `alive` are the program counters of a handler, of the worker of a
process, and of the process. A target is a name with an incarnation (`UID`).
`rows` and `audits` are the database: they survive `Crash` and `Exit`, and all
else of a process is reset by `Terminate`.

| code | actions |
| --- | --- |
| `handleRefreshScope`, `handleBulkRefresh` | `GetScope`; `Post`, `CheckActive`, `InsertRow`, `Enqueue`, `CloseRejected`, with `Disconnect` for a cancelled request |
| `run`, `processJob` | `Take`, `StopWorker`, `Start`, `Loop`, `Record`, `Flush`, `Complete`, `Audit`; `Panic`, `PanicOutcome` for its recover |
| `patchForceSyncPinned`, `patchForceSyncOnce` | `GetTarget`, `PatchTarget`, `Retry` |
| `store/eso_bulk_jobs.go` | `NewRow`, `ActiveRows`, `Concat`, `Appended`, `Completed`, `ReapOrphans`, `Cleanup` |
| `cmd/kubecenter/main.go` | `Boot`, `ReapOrphans`, `Sigterm`, `Exit` |
| Kubernetes | `Delete`, `Create`, and the free outcomes of `GetTarget` and `PatchTarget` |

Every database write may fail, and one that failed may have been applied
(`Fails`, counted by `faults`); a panic of the worker is counted apart
(`panics`). A Kubernetes call may fail transiently or for
good without being counted, because the worker handles it. `Concat` keeps the
one conversion that matters: a nil slice becomes JSON `null`, and PostgreSQL's
`||` makes that an array element. Left out: RBAC filtering of targets, the
cluster guard, the throttle, the wording of outcomes.

### Sessions

`sessions` is `SessionStore.sessions`; a token is `<<login, n>>`, the n-th of
its login. A handler is `idle`, has rotated a token out and asks who the user
is (`resolve`), or is about to issue tokens (`mint`).

| code | actions |
| --- | --- |
| `handleLogin`, OIDC callback, mobile exchange | `Login`, then `Mint` or `MintFails` |
| `handleRefresh`, `SessionStore.Rotate` | `Rotate`, then `ResolveLocal`, `ResolveOidc`, or the LDAP actions |
| `revalidateLDAPSession` | `LdapConfirmed`, `LdapRejected`, `LdapGrace`, `LdapUnavailable` |
| `issueTokenPairAt` | `Mint`, `MintFails` |
| `Restore`, `Revoke`, `StartCleanup` | `Restore`, `Logout`, `Cleanup` |
| `handleDeleteUser` and the identity stores | `RemoveUser` |
| process | `Restart` forgets the map |

One tick stands for minutes; a request takes seconds, except that it may wait
for the directory. So `Tick` is not enabled while a handler is past that wait
(`Prompt`): this is an assumption about time, stated there, and without it a
handler stopped for a minute between two statements would add that minute to
every bound. Left out are the rejections of `revalidateLDAPSession` for a session
whose id is malformed or whose provider is not registered or no LDAP provider
(`handle_auth.go:311-340`) and of an entry that is found twice (`ldap.go:411`):
providers are registered at start-up and sessions do not survive the process, and
the search is for one name. They would be `LdapRejected` without its guard.
`access`, `removedAt`, `live`, `revoked`, `rejected` and
`unanswered` are history: no action reads them, only properties do.

### InventoryCache and BoundedStaleness

`h` is the record of one handler, chosen by `Init` among the eighteen: where
the generation is read (`readsGen`: by the caller, inside the flight, by
nobody), whether it is in the flight's key (`keyed`), whether comparison and
store are one critical section (`storesLocked`), whether the flight has a
context of its own (`detached`), what a failed list does to its slice of the
snapshot, which kinds are read through another cache (`behind`: the Cilium
subsystems ask the agent collector, which answers from a cache of its own), and
for which kinds a panic leaves an empty slice and no word of it (`quiet`).
Everything else is one scheme.

| code (of externalsecrets; the others have the same parts) | actions |
| --- | --- |
| `getCached` | `Hit`, `Miss` (reads the generation), `Lead`, `Join` |
| the HTTP client goes away | `Leave`: the leader's context is cancelled |
| `fetchAll`, one goroutine per kind | `List`, `ListFails`, `ListPanics` (where a panic is only logged), `ListEnds` (its context has ended) |
| the end of the flight | `FinishFails`, `Finish` (compare and store under the lock) |
| handlers that compare outside the lock | `FinishUnstored`, `Compare`, `Store` |
| `InvalidateCache` | `Invalidate`; the network handler clears and bumps apart: `Clear`, `Bump` |

A slice carries the instant it was listed at and the number of invalidations
before it; what was listed is left out. `BoundedStaleness` has no cache: a
request is answered, for each kind, with what the cluster held less than the
kind's window before it was made, or told that the kind is missing, or it fails;
only kinds named beforehand may be missing without a word. `Register` in
`InventoryCache` instantiates it with `Window`, which is `TTL + FetchTime` and
twice that for a kind behind another cache, and with `Silenced`, the kinds that
the handler drops (policy, gitops, scanning, the Cilium subsystems, the further
route kinds of gateway) or whose panics it hides (also the service mesh and, for
single nodes, the agents). For these handlers an answer that looks complete may
not be; for the others the refinement says that it is. It is checked and proved.

A list with `resourceVersion=0` and an informer's store are taken as what the
cluster holds at that time; what the discoverers cache of CRDs is not a slice.
Left out: the nil items of the Flux caches, the counts of Cilium's CRDs, and
scanning's cache of details. Policy, gitops, mesh and scanning have no timeout
of their own on a fetch; for these `FetchTime` is an assumption about the API
server.

### Pollers

`p` is the record of one poller, chosen by `Init`: certificates, quotas, or
ExternalSecrets with its four settings. `object` is the cluster, `memory` the
map of buckets, `pending` what a tick has found and not yet emitted, `rowAt`
the notifications stored.

| code | actions |
| --- | --- |
| `Start`, process | `Start` (with the seed of `persist.go`, or without), `Stop` |
| `tick` | `List`, `ListEmptied`, `ListFails`, `End` (which prunes the memory) |
| `check` | `Check`, `PassOver` |
| `dispatchEmits`, `Notifications.Emit` | `Suppress`, `Emit`, `EmitUnchecked` (the search failed), `EmitFails` |
| `runTickWithRecover` | `Panic` |
| the cluster | `Change`, `Create`, `Delete` |

`Emit` is one step here and opened up in `Notifications`. Left out: drift
history and `persistAttempts`, and what runs only on replicas other than the
leader.

### Notifications

`rows` is the table, `queue` the dispatch channel, `cache` the snapshot of rules
and channels, `config` their tables. Each emitter, administrator and the digest
has a program counter. A rule has a set of sources and one of severities;
`Passes` is `ruleMatches` and, with the `Filter` that `sendDigests` collects, the
condition of the query. `passed` records, by the `Reasons` there are, the rows
that a channel's digests did not mail: unwanted by its filter, cut by the limit
of the query, late (between query and mark), older than a first digest looks
back, or in a mail that was refused.

| code | actions |
| --- | --- |
| `Emit` | `Call`, `Check`/`CheckFails`, `Insert`/`InsertFails`, `Enqueue` (drops when full) |
| `runDispatcher`, `dispatchToChannels` | `Take`, `Send` (takes a slot), `Routed`, `SendEnds` |
| rule and channel handlers | `CreateChannel`, `DeleteChannel`, `CreateRule`, `UpdateRule`, `DeleteRule` |
| `RefreshCache` | `ReadRules`, `ReadChannels`, `ReadFails`, `Store` |
| `runDigest`, `sendDigests` | `DigestTime`, `Query`/`QueryFails` (`Since`, `Wanted`, and of these the `Newest` up to `Limit`), `Mark`/`MarkFails`, `Mail`/`MailRefused`, `DigestsDone` |
| `Start`, shutdown | `Start`, `Ready`, `Stop` |

`Tick` waits for a digest under way: a day is longer than a digest. Left out:
renaming and reconfiguring a channel (no property tells its contents apart),
read marks, devices, retention, `last_error`.

### ClusterRouter and ClusterProber

| code (`cluster_router.go`) | actions |
| --- | --- |
| `RouterFor` | `Arrive`, once for each of two maps: `Hit` or `Miss`, then `Store` |
| `remoteConfig` (singleflight) | `Lead`, `Join`, `Cancel` (the caller goes away) |
| `buildRemoteConfig` | `ReadRecord`, `ReadGone`, `ReadFails`; `Resolved`, `Unresolved` after the lookup of the host |
| `handleDeleteCluster`, `EvictCluster` | `DeleteCluster`, then `EvictKey` one key at a time; `DeleteUnevicted` when the deletion is committed and reported as failed |
| `StartCacheSweeper` | `Sweep` |

| code (`cluster_prober.go`) | actions |
| --- | --- |
| the loop | `ListClusters`, `NextCluster`, `SweepEnds` |
| `handleTestCluster` | `Test` |
| `ProbeOne` | `Get`/`GetFails`, `Dial`, `AskVersion`, `AskRights`, `Write`/`WriteFails`, `Emit`, `Reread`; `Abandon` when its context ends |
| `handleCreateCluster`, `handleDeleteCluster` | `CreateCluster`, `Registered` or `RegisteredUnwritten`, `DeleteCluster` |
| `main.go` | `Wire` (the callback is set after the loop has started), `Restart` |

The two share the record of a cluster and nothing else, and are not composed;
`Usable` is written in both, because the code has the rule twice
(`buildRemoteConfig` and `ProbeOne`), and `ConnectedIsUsable` is about the second
following the first. Left out: `UpdateCredentials`, which nothing calls; the
maps of the local cluster, which are the same code without a record; the text of
a status.

## 3. What is checked

Every passing run is exhaustive for its bounds. Deadlock checking is off, except
in `InventoryCache_safety`, because the instances stop by design: connections,
requests, tokens, events and ticks are bounded, and a system in which all are used
up and nobody is waiting has no step left. What must not get stuck is stated as
liveness.

| run | instance | properties |
| --- | --- | --- |
| `WsHub_safety` | 2 connections, 1 kind, buffers of 1, 1 event, limit of 1 client, shutdown at any time | `TypeOK`, `RegisteredMeansOpen`, `CountMatches`, `ServedOrDisconnected` |
| `WsHub_live` | 1 connection, access that may be revoked, cached and belated answers, 1 event, fair scheduling | `RemovedIsDisconnected`, `RevocationSticks`, `LostIsUnregistered` |
| `WsHub_panic` | a violation, section 6 | `NoSendPanic` |
| `BulkRefresh_faults` | 1 process, 2 requests, 2 scopes, 1 name, 2 incarnations, queue and batch of 1, 2 attempts, 1 stop, 1 panic, 1 failed call | `TypeOK`, `ExclusiveScope`, `ActiveIsOwned`, `SuccessMeansPatched` |
| `BulkRefresh_job` | 2 requests of 3 names and of 1, the second's client may leave, queue of 1, batches of 2, 2 attempts, 1 stop, 1 panic, fair processes | `ReportIsExact`, `JobsEnd` |
| `Sessions_safety` | 2 users (directory; database or OIDC), 2 handlers, 3 tokens per login, 3 ticks | `TypeOK`, `OneToken`, `SessionNotLost`, `RemovedLosesAccess`, `RejectedStaysOut` |
| `InventoryCache_safety` | each of 18 handlers, 2 requests, 1 invalidation, TTL of 2, fetches of 1, 3 ticks | `TypeOK`, `InvalidationSticks`, `AnswersFollowInvalidation`, `NobodyFailsForAnother`, `BoundedStaleness` |
| `Pollers_safety` | each of 6 pollers, 1 name created twice, any restarts, 1 fault, 2 ticks | `TypeOK`, `Told`, `NoRepeat` |
| `Notifications_dispatch` | 2 emitters, 2 administrators, 1 chat channel, queue and semaphore of 1, 3 rows, 2 writes, 1 fault, fair dispatcher | `TypeOK`, `FewDuplicates`, `DeletedGetsNothing`, `QueueDrains` |
| `Notifications_digest` | 1 emitter, 1 administrator, 1 mail channel with 2 rules, an event and an audit event, 3 rows, a limit of 2, 1 write, 1 fault, 2 ticks | `NeverSkips` |
| `ClusterRouter_safety` | 1 cluster, 2 requests of 1 or 2 users, TTL of 2, a deletion that succeeds or seems to fail, 4 ticks | `TypeOK`, `OwnIdentity`, `BoundedServing`, `EvictionIsComplete`, `FailureHasCause` |
| `ClusterProber_health` | 1 cluster, the loop and 1 administrator, 2 changes of the cluster, cancelled tests, 2 faults or restarts, fair probes | `TypeOK`, `CallsChain`, `ConnectedIsUsable`, `StatusSettles` |

What they show, beyond the sentence at each property:

* `WsHub_safety`. `removeClient` is reached from an unregister, from inside a
  fan-out (a failed resync), and from shutdown, in any order with respect to the
  reader that unregisters later: the check of the client map in the unregister
  case is what makes the second removal harmless (`CountMatches` fails without
  it). `ServedOrDisconnected` is about the second try in `sendResync`: with
  buffers of one, each of the three outcomes (sent, resync, disconnected)
  occurs, with the writer making room or not in between.
* `WsHub_live`. `RevocationSticks` says that a subscription whose access is
  gone disappears *for good* in the end: the request may have passed its own
  check and be waiting in `addSub` while the revalidation runs, the revalidation
  itself may be told yes by an old entry, and after the hub has removed the
  subscription the client may subscribe again by such an entry, or by an answer
  that was obtained before the revocation and stored after it. All of that ends
  when the entries have expired and no caller has such an answer left.
* `BulkRefresh_faults`. The unique index keeps two *rows* apart; that two
  *jobs* are apart needs that no row ends before its job does, whatever fails.
  `ActiveIsOwned` is the converse: no row outlives its job, also after a panic,
  unless a database write failed or the client went away, when only the next
  boot ends it. A success needs a patch of the name, also when it was replaced.
* `BulkRefresh_job`. A flush at the end, at a full batch and before an exit must
  partition the targets; a target that was retried after a timeout is reported
  once; and each way a job may end early (a crash, a SIGTERM, a panic) leads to
  a completed row, here without failing writes. With a queue of one the second
  request finds it full, and its handler completes the row; a client that leaves
  just then makes the completion fail, and `JobsEnd` excepts that one row
  (`LeftBehind`), which only the next boot completes, if there is one.
* `Sessions_safety`. Two requests with the same or different tokens, while the
  user is removed, the directory is silent, tokens fail to be issued, or the
  process restarts. `RemovedLosesAccess` has the exact bounds: one access token
  for a local user, and the grace window plus one access token for LDAP, however
  the fallbacks chain; a fallback that renewed the window would break it.
* `InventoryCache_safety`. One question asked of eighteen handlers: how old may
  an answer be, and what may it leave out. All have `BoundedStaleness`, whatever
  races they lose, each with its own windows and silences. The
  stronger promises need their conditions: an invalidation sticks where the
  store is guarded under the lock (`InvalidationSticks`), a request never gets
  older data than its own generation where the key has it
  (`AnswersFollowInvalidation`: externalsecrets only), and nobody fails for a
  client that left where the flight is detached (`NobodyFailsForAnother`). The
  eight handlers that run under the first caller's context do not have the last.
* `Pollers_safety`. A change is recorded before its notification is stored. It
  is in the feed all the same (`Told`), also after restarts, recreated objects
  and panics, unless its own emission failed, which is never retried; and no
  bucket is said twice in one process (`NoRepeat`).
* `Notifications_dispatch`. Duplicates within the window are bounded by the
  callers; a deleted channel gets nothing that is routed after its refresh; what
  is queued is dispatched although every sending may fail (`QueueDrains`).
* `Notifications_digest`. A digest counts from a cached time, which may be older
  than the stored one, and so may repeat rows (section 6), but passes none over
  on that account: whatever refreshes, restarts and failures come in between, a
  row before `last_sent_at` was mailed or has one of the `Reasons`, each of which
  occurs in the run and stands for what one digest did with what it saw. Some of
  them lose rows an operator would want (section 6).
* `ClusterRouter_safety`. Clients made of a record read before the deletion may
  be stored after the eviction; `EvictionIsComplete` says that only those are,
  and `BoundedServing` for how long they are handed out. Where the deletion was
  reported as failed nothing is evicted, and the bound is all there is.
* `ClusterProber_health`. Overlapping probes write in any order; still a
  connected cluster is one the router would serve, calls and stored status
  chain where probes do not overlap, and a late or lost write is put right by a
  later sweep (`StatusSettles`).

### The bounds, and why they are enough

* *Connections (2).* No action of the hub relates more than two clients: one is
  served or removed while another is a target, registers or unregisters.
* *Buffers of 1.* Full, empty, and refilled between two looks all occur. A
  larger buffer only delays them.
* *`AlwaysAllow`.* The safety run has the kind without access checks and the
  live run the one with; together they fire every action.
* *Bulk requests (2), scopes (2), queue of 1.* A request meets another one of its
  own scope, or finds the queue full of one of another scope. The proofs cover any
  number of each, any queue, batch and number of attempts.
* *3 names in batches of 2.* One full and one partial batch, with outcomes of
  each kind on both sides of the flush. In this run `AsksFor`, `MayLeave` and
  `Deletable` say which request is for which scope, that only the client of the
  short one may go away, and that nothing is deleted; `BulkRefresh_faults` leaves
  all three free.
* *Stops, panics, failed calls (1 each).* Each occurs at any step and with the
  others, so that the write that records a panic may fail, and the boot after a
  crash too.
* *Sessions: 3 ticks.* `Grace` 1, `AccessTTL` 2 and refresh lifetimes of 2 and 3
  ticks are all crossed. *2 handlers, 3 tokens:* two holders of one token, and a
  token whose grandparent is presented again. The proofs cover any number.
* *Caches: TTL 2, fetches 1, 3 ticks, 1 invalidation.* A snapshot is served
  fresh, at its last moment and expired; an invalidation falls before, within
  and after a fetch. 2 requests lead and join a flight, and are alike in every
  definition (symmetry). The proofs cover any.
* *Pollers: 1 name, 2 births, 2 ticks.* Nothing relates two objects; a name that
  is recreated is the case that matters, and both windows pass. The proofs cover
  any number of names and births.
* *Notifications: 3 rows, queue and semaphore of 1, 2 administrators.* A row
  waits for the queue, for a slot, and is dropped; two refreshes overlap. The
  proofs cover any number.
* *Digests: Day 1, 2 ticks, 1 write, 3 rows, `Limit` 2.* Two digests with rows
  before, between and after, one of them past the limit, and a rule that changes
  in between. The proof covers any limit.
* *Router: 1 cluster, 2 requests, TTL 2, 4 ticks.* Maps are per cluster and
  user; two requests share a reading or not, and an entry stored after the
  eviction lives to its end. The proofs cover any number.
* *Prober: the loop and 1 administrator, 2 changes, 2 faults.* Two probes of one
  cluster overlap at each of their steps; `Absent`, stored and gone occur. A
  cancelled test is no fault and may happen at any time.

### Fairness

`WsHub!Fairness`: the Go scheduler runs every goroutine that can run; Go's
`select` chooses among ready cases at random, so a case that is ready again and
again is taken (strong fairness of the hub's cases and of a sender waiting for
room); a write to the network ends within `writeWait`; an access check that is
repeated does not fail for ever (`SF` of `CheckDenied`); an entry of the access
checker expires after `accessCacheTTL`, and no request keeps an answer for ever
without storing it (`WF` of `GrantExpires` and `ReviewEnds`). Nothing is assumed of
peers, informers, upgrades, or of when access is revoked.

`BulkRefresh!Fairness`: a handler and a worker that can step do (every call
they make has a timeout), and Kubernetes starts the process again after it
ended. Crashes, disconnects, expiry and retention are not fair.

`Notifications!Fairness`: the dispatcher is a goroutine of its own that steps
when it can, and a sending ends (each has a timeout). Nothing is assumed of
emitters and administrators.

`ClusterProber!FairSpec`: the ticker makes the loop go on, a step of a probe
ends and the registration of a cluster comes to its end. The calls of a
cluster have time limits; the loop's database calls have none of their own,
and that the database answers them is an assumption. Failures, restarts and
changes of the cluster are bounded and not fair.

`Sessions`, `InventoryCache`, `Pollers` and `ClusterRouter` state no liveness.
In `Sessions`, `InventoryCache` and `ClusterRouter` each step answers a request,
which ends because its calls have timeouts; in `Pollers` an emission that failed
is not retried, so that nothing obliges a change to be told in the end.

## 4. What is proved

TLAPS proves the following for every value of the constants that satisfies the
module's assumptions, which TLC evaluates in the runs. Each proof goes by an
inductive invariant whose parts were first checked by TLC.

`WsHub_proofs`: `TypeCorrect`, `RegisteredClientsAreOpen`, `ClosedOnce`,
`CountIsExact`, `SubscribersServed`, that is, every property of `WsHub_safety`
and that no channel is closed twice, for any finite set of connections and any
buffer sizes. `IInv` adds to the safety properties

* `NamesStarted`: every client that appears in the subscriptions, in `addSub`,
  among the targets, or as a reader has been registered. Without it a client
  that was closed before it was ever registered could be registered later, and
  `RegisteredMeansOpen` would not be inductive;
* `ResyncOpen`: `sendResync` works on a target whose channel is open, because
  the hub itself is between `FanoutSend` and `Resync` and no other goroutine
  closes channels. `ClosedOnce` needs it;
* `NoLeftovers`: `targets` is empty outside a fan-out, so a step that is not
  part of one cannot drop a target unserved (`SubscribersServed`);
* `HoldsRequest`: a reader at `addSub` has a request to send (typing).

`BulkRefresh_proofs`: `TypeCorrect`, `ActiveRowsAreOwned`, `ScopesAreExclusive`,
`SuccessesWerePatched`, `ReportsAreExact`, that is, every safety property of the
two runs, for any requests, scopes, names, incarnations, queue, batch, attempts
and faults. All but `ScopesAreExclusive` are for any number of processes; that
one assumes `SingleProcess`, and section 6 says what two processes do. The
invariant adds

* `HasJob` and `Down`: a busy worker has a job, and a process that is down or
  booting has neither queue nor worker nor requests, so that the boot completes
  rows of nobody;
* `OneRow`: the unique index;
* `PendingIsActive` (one process): a job that is handed over, queued or worked on
  has an active row, and is in one place only: its request was accepted, the
  queue has it once, and not while the worker has it. With `OneRow` this is
  `ExclusiveScope`: a row stays active for as long as its job is pending;
* `Bounded`: every UID in a cache, a confirmation or a job is of an incarnation
  that has existed; hence the incarnation a patch meets is the confirmed one or
  a later one;
* `Witnesses`: each success in a batch or in a row was patched.

`StepShapes` shows that every step is, for rows, queues and workers, one of a
dozen shapes, so that these parts are proved for the shapes and not for each of
29 actions. The lemmas `QueueGrows`, `QueueShrinks`, `CoveredConcat` and
`CoveredAppend` say what the operations on sequences preserve.

`ReportIsExact` speaks of the arrays of the rows only, and says nothing of the
batch that is about to join them. `Reports` is what is inductive beside `IInv`:

* `OnePlace`: an accepted job is in the queue of the process that served its
  request, once, or with that process's worker; so no two workers write to one
  row. It is what `PendingIsActive` says of one process, without its claim that
  the row is active, which two processes break;
* `RowsReport`: the three arrays of a row name no target twice, neither one by
  one nor together, and those of a job that no worker has taken name nobody
  (the job is worked on once); what the arrays are split over, the targets, are
  UIDs the client confirmed;
* `WorkerReports`: while a worker is at its targets, the row, the batch and what
  is left to do are disjoint, and together they are the targets as long as no
  write has failed (`Splits`); when it completes the row nothing is left and the
  batch is empty. A flush moves the batch to the row, a retry moves nothing, a
  panic loses the batch, which is why the second half of the property is of
  completed jobs only.

`AppendedReports`, `ConcatReports` and `RecordedReports` are the lemmas on the
operators: an append to a column adds what the batch says and nothing else, but
for the outcome of no target that `null` becomes, which names nobody.

`Sessions_proofs`: `TypeCorrect`, `AtMostOneToken`, `FailuresLoseNoSession`,
`AccessIsBounded`, `RejectionIsFinal`: every property of `Sessions_safety`, for
any users, logins and handlers and any lifetimes. Two parts strengthen it:

* `Ours`: a handler works for the login of the session it holds; one that holds
  none serves a login that never had a token; a login that was rejected or is
  live has had one. With `OneToken` this gives that a rejected login's only
  token was in the hands of the handler that learnt of the rejection;
* `Dated`: a revalidation time is not later than now nor than the user's
  removal, a handler about to mint for LDAP is within the grace window of such a
  time, and one about to mint for a local user looked him up in this tick.
  `RemovedLosesAccess` follows by adding `AccessTTL`.

`InventoryCache_proofs`: `TypeCorrect`, `StoresNeverUndoInvalidation`,
`KeyedAnswersAreFresh`, `DetachedFlightsFailForNobodyElse` and the refinement
`ImplementsRegister`: everything `InventoryCache_safety` checks, for any
requests, handlers, times and bounds, with the window of each kind. `Types`,
`Gens` and `Times` are three inductive invariants. `Gens` dates each flight
and slice by generations: a flight whose generation is the current one has
listed nothing older. `Times` dates them by the clock: a flight lists no
earlier than it began, or than the cache behind it promises, and a snapshot
was listed within `FetchTime` of being stored. `RefinesNext` then maps each
step to a step of the register or to a stutter.

`ClusterRouter_proofs`: `TypeCorrect`, `IdentitiesApart`, `ServingIsBounded`,
`EvictionLeavesHeldOnly`, `FailuresHaveCauses`: every property of
`ClusterRouter_safety`. `Identities` says that the leader of a reading has the
reading's key, and that what is in a map or in a hand has its own. `Timely`
dates, from the deletion of the cluster, what is being read, held and cached:
at most `LookupTime` later it is in a hand, and `TTL` more in a map. `Remnants`
says that what is used of a deleted cluster, but for the keys the eviction has
still to visit, stems from the readings held at the deletion, or, where nothing
is evicted, from those and the ones the maps were made of.

`ClusterProber_proofs`: `TypeCorrect`, `ConnectedClustersAreUsable`,
`CallsFollowTheStatus`. `Judged` follows the verdict on a record through the
probe; it holds because a record is never changed, only deleted. `Lonely` says
that a cluster that is not muddled has one probe at most, and `Chained` relates
what that probe has in hand, the stored status and the last call.

`Pollers_proofs`: `TypeCorrect`, `WhatIsFoundIsTold`, `NothingIsRepeated`: every
property of `Pollers_safety`, for any names, incarnations and windows, each kind
of poller and any number of restarts, panics and failed emissions. `Told`
excludes the objects that have a record pending, and so is not inductive. The
invariant adds

* `Owed`: an object whose change was found has its row, or a record for it that
  the cycle has still to emit. `Apart` makes this the only record of the object:
  a list has one object of a name, and a cycle checks it once;
* `Unsaid`: a record is for the bucket that is remembered, and that bucket has
  not been told in this process; `Recalled`: what was told is remembered, but
  for what an emptied list made the poller forget, which is then first seen
  again, without a record. Together they are `NoRepeat`;
* `SeedSpent`: the seed of a name is used at the first check of the name, so a
  later object of that name, or a second check, finds none;
* `Halted` and `Past`: memory does not survive a process, and no time is later
  than now (the window of a row is measured from it).

`Notifications_proofs`: `TypeCorrect`, `DuplicatesAreFew`,
`DeletedChannelsGetNothing`, `DigestsPassNothingOver`: every safety property of
the two runs, for any events, rules, channels and administrators, any finite
set of emitters, and any queue, semaphore, window and day.

* `FewTogether` counts, beside the recent rows of an event, the callers that
  have passed the search and not inserted yet. `FewDuplicates` alone is not
  inductive: each such caller is a row to come. A caller passes the search when
  there is no recent row, and then only the other callers can be inserting; or
  when the search failed, which `unchecked` counts. `SearchesFailed` bounds it;
* `RowsApart`: a row is offered by one caller, or queued once, or in the hands of
  the dispatcher, and a rule is served once for it; with `SlotsHeld` the
  semaphore counts the sendings, which is what `TypeOK` needs to keep it in its
  range when a sending ends;
* `Refreshed`: the database has no deleted channel, the cache none that is gone,
  and a refresh that was alone up to its store has read none that is deleted;
* `AccountedBefore`: the rows before a `last_sent_at` are `Accounted` for,
  that is mailed, in the mail that is about to be sent, or in `passed`,
  whichever copy it is: the database's, the cache's, that of a refresh about
  to store, or that of the digest in progress. `NeverSkips` names the first
  two only; a stale refresh that stores its copy is why the others are needed.

Only model-checked: all liveness (`WsHub_live`, `JobsEnd`, `QueueDrains`,
`StatusSettles`), which is out of the prover's reach. Every safety property and
every action property that a passing run checks is a theorem.

## 5. Hazards and properties

`PROJECT.json` lists the hazards with their lines. Each names the properties
that would catch it going wrong, or says why there are none: either the code
runs into it (section 6), or its part is not modelled.

## 6. Where the code does not do what is said of it

`WsHub_panic` is a run that ends in a violation: `addSub` is applied without a
look at the client map (`NoSendPanic`). A request that is queued when its client
is removed puts a closed client back into the subscriptions, and the next event
for it panics `Run`, which has no recover.

The following are definitions at the end of the modules, and TLC violates each
when it is put in the place of a .cfg's properties.

| definition | where to see it | what the code does |
| --- | --- | --- |
| `OutcomesOfTargets` | `BulkRefresh_job` | A new row stores `null` for empty outcome lists, and the first append turns it into an outcome of no target: every flushed job reports one failure and one skip too many. |
| `PinHonoured` | `BulkRefresh_faults` | The UID is compared before the patch, and the patch names the object; one recreated in between is patched under the old UID. |
| `RejectedIsClosed` | `BulkRefresh_faults`, `BulkRefresh_job` | A client that disconnects while the queue is full leaves an active row, which blocks its scope until the next boot. |
| `ExclusiveScope` | `BulkRefresh_faults` with two processes, one scope, one attempt and incarnation, no stops or faults | The boot of one process completes rows the other works on. The chart calls more replicas safe; a comment in `main.go` does not. |
| `RemovalPropagates` | `Sessions_safety` | Each refresh of an OIDC session starts a new hour, so removal at the provider does not take effect within one. |
| `FailedRefreshRestores` | `Sessions_safety` | A failed query during the refresh of a local user ends the session as if the user did not exist. |
| `RevokedStaysDead` | `Sessions_safety` | A logout during a refresh revokes nothing, and a refresh that fails then puts the token back. |
| `ConnectionLimit` | `WsHub_safety` | Upgrades read the counter before they are counted, so `MaxClients` may be exceeded by the upgrades in flight. |
| `SubCountExact` | `WsHub_safety` | The counter of subscriptions falls for unknown ids, does not fall for revocations, and counts a second subscription under one key twice. |
| `ClearedStaysClear` | `InventoryCache_safety` | A remote fetch of certmanager, and two Cilium handlers that compare before they lock, store an older list after an eviction (`certmanager/handler.go:378` against its comment at line 115). |
| `LifecycleOnlyForNew` | `Pollers_safety`, as PROPERTY | The first cycle ends the start-up phase (`poller.go:434`) also when its list failed or was empty, and the next one announces the whole inventory as new, against the comment at `poller.go:268`. |
| `RecoveredWasIll` | `Pollers_safety`, as PROPERTY | `persist.go:48` says the seed is validated against the creation time; it is not (`poller.go:249` admits it), so a recreated object may recover from what its predecessor had. |
| `MailedOnce` | `Notifications_digest` with `MaxTime = 3`, `Events = {e1}`, `Audit = {}`, `MaxFaults = 0` | A digest counts from the cached `last_sent_at`, which `Mark` does not refresh, and repeats rows. |
| `ChangesTold` | `ClusterProber_health` | Of two overlapping probes, or a probe and a registration, the last call may name a status that is not the stored one. |

Met while modelling and seen in no property:

* Caches. Policy, gitops and scanning, when the leader's client has gone, keep an
  empty or partial list for everyone for the TTL. A comment in gitops says that
  a fetch in flight at an invalidation caches its result; it does not. "Exactly
  one fetchAll call per cacheTTL window" (externalsecrets) is not guaranteed.
* Pollers. An object that fails again within 15 minutes of a recovery is
  suppressed by Emit's deduplication. An ExternalSecret that fails when it is
  first seen is never told. A failed emission is never retried.
* Notifications. Overlapping refreshes may leave an older cache until the next
  write, and a failed one at the start an empty cache. The digest's filter is
  the union of the rules' sources and, apart from it, the union of their
  severities (`service.go:490`): of two rules, one for a source and one for a
  severity, the digest has only what meets both, though dispatch serves what
  meets either. It would include audit events, which `service.go:147` says are
  never dispatched. The query returns the newest 500 rows (`store.go:296`),
  and `last_sent_at` passes the older ones; it also advances before the mail
  is queued, so a mail that is refused is not sent again, and beyond rows
  inserted after the query. Two rules for one channel deliver twice. A
  webhook's payload has an empty ID. The dispatch goroutine has no recover.
* Router. `EvictCluster` runs in the replica that deletes; others serve until
  their TTL. A deletion that is committed and reported as failed skips it
  (`handle_clusters.go:295`), and a second attempt finds no cluster. A caller
  that joins a reading is bound by its leader's deadline.
* Prober. The loop starts (`main.go:454`) before the callback is set (`:738`);
  changes until then are told to nobody. A failed `UpdateStatus` is dropped
  and the event emitted. A test whose client goes away while the cluster is
  asked for its rights announces a healthy cluster as disconnected and writes
  nothing. `ProbeOne` returns neither status nor error when the cluster is
  deleted before the last read, and `handleTestCluster` dereferences the nil.
* Sessions. `jwt.go:33` gives an LDAP user one access token after removal in the
  worst case; the grace window comes on top, as `RemovedLosesAccess` has it.
  With several replicas a refresh reaches the process that has its token only by
  chance. A changed password ends no sessions.
* Users. Two administrators may delete each other (`handle_users.go:201` says so).
* Clients. The web client's second refresh path (`ws.ts:205`) may sign a user
  out. The mobile client forgets its refresh token on a 401 that asks it to
  retry, and a refresh may overtake its logout (`dio_client.dart:323`).

## 7. Not modelled

* *Kinds that come and go* in `WsHub` (`RegisterAllowedKind`): they would add a
  second writer to the set of kinds and nothing to the properties stated.
* *Alerting, audit, drain tasks, accounts, rate limits.* Each is one or two
  critical sections; their hazards are listed with their lines. Two actors each
  would do, and they come next, alerting and drains first.
* *Compositions.* `Pollers` over the opened `Emit` of `Notifications`, and the
  browser's two refresh paths over `Sessions`, exceed what TLC explores in
  minutes; each module has the other's part as one step or as free choice.
* *More abstract specifications.* A job's lifecycle for `BulkRefresh` and a lossy
  but honest event stream for `WsHub` could be stated and refined as
  `BoundedStaleness` is.
* *Stateless parts.* Resource handlers, integration handlers, YAML, wizards,
  settings, topology and the user interfaces translate requests and objects;
  they make up most of the repository's lines and have no state that two actors
  share, which is why the models cover a small share of its lines.
