-------------------------- MODULE InventoryCache ---------------------------
(***************************************************************************)
(* The snapshot cache every integration handler keeps in front of the      *)
(* Kubernetes API: a snapshot of several kinds of resource, served for     *)
(* TTL after it was fetched, refilled through singleflight so that         *)
(* concurrent requests share one fetch, and cleared when a watch event or  *)
(* a write of the dashboard makes it stale.                                *)
(*                                                                         *)
(* The handlers share the scheme and differ in its details: whether the    *)
(* generation that guards the store is read by the request or inside the   *)
(* flight, whether it is part of the flight's key, whose context the       *)
(* flight runs under, and what a failed list does.  A behaviour is one     *)
(* handler's, chosen by Init; the record of each handler below is read     *)
(* from its code.                                                          *)
(*                                                                         *)
(* Data is not modelled; a slice of a snapshot carries the instant it was  *)
(* listed at and the number of invalidations that came before.             *)
(***************************************************************************)
EXTENDS Naturals

CONSTANTS Readers,    \* requests that may be open at the same time
          Systems,    \* the handlers to consider
          TTL,        \* how long a snapshot is served
          FetchTime,  \* how long a fetch may take
          MaxTime,    \* bound on the clock
          MaxGen      \* bound on the number of invalidations

ASSUME TimesAssumption == /\ TTL \in Nat \ {0} /\ FetchTime \in Nat
                          /\ MaxTime \in Nat /\ MaxGen \in Nat

VARIABLES h,          \* the handler this behaviour is about
          clock,      \* the time
          cache,      \* the stored snapshot, or None
          gen,        \* cacheGen; for the remote cache, which has none, the
                      \* number of evictions, which the code does not keep
          clearing,   \* an invalidation has cleared the cache, not yet bumped
          flights,    \* singleflight calls in progress, by key
          reader,     \* what each request is doing
          answer      \* what the last step gave to which requests

vars == <<h, clock, cache, gen, clearing, flights, reader, answer>>

-----------------------------------------------------------------------------
(* The handlers.                                                           *)
(*   readsGen      who reads the generation that guards the store: the     *)
(*                 request before its flight, the flight, or nobody        *)
(*   keyed         the generation is part of the flight's key              *)
(*   detached      the flight outlives its first caller's context          *)
(*   rechecks      a finished flight fails if its context has ended        *)
(*   storesLocked  the generation is compared and the snapshot stored in   *)
(*                 one critical section                                    *)
(*   bumpsLocked   the cache is cleared and the generation bumped in one   *)
(*                 critical section                                        *)
(*   invalidated   some caller of the program clears the cache             *)
(*   core, extra   what a failed list of an essential kind, and of another *)
(*                 kind, does: "fail" the fetch, "keep" the slice of the   *)
(*                 snapshot before and report the kind, "report" it with   *)
(*                 nothing, or "drop" it and tell nobody                   *)
(*   behind        the kinds that are read through another of these        *)
(*                 caches, with a TTL and flights of its own               *)
(*   quiet         the kinds whose list leaves an empty slice and no word  *)
(*                 of it when it panics; elsewhere a panic that is         *)
(*                 recovered passes for an error                           *)

Kinds == {"core", "extra"}

Treatments == {"fail", "keep", "report", "drop"}

ExternalSecrets ==
    [readsGen |-> "caller", keyed |-> TRUE, detached |-> FALSE, rechecks |-> TRUE,
     storesLocked |-> TRUE, bumpsLocked |-> TRUE, invalidated |-> TRUE,
     core |-> "keep", extra |-> "keep",
     behind |-> {}, quiet |-> {}]

CertManager ==
    [readsGen |-> "caller", keyed |-> FALSE, detached |-> FALSE, rechecks |-> FALSE,
     storesLocked |-> TRUE, bumpsLocked |-> TRUE, invalidated |-> TRUE,
     core |-> "fail", extra |-> "fail",
     behind |-> {}, quiet |-> {}]

Velero ==
    [readsGen |-> "caller", keyed |-> FALSE, detached |-> FALSE, rechecks |-> FALSE,
     storesLocked |-> TRUE, bumpsLocked |-> TRUE, invalidated |-> TRUE,
     core |-> "fail", extra |-> "fail",
     behind |-> {}, quiet |-> {}]

Gateway ==
    [readsGen |-> "caller", keyed |-> FALSE, detached |-> FALSE, rechecks |-> FALSE,
     storesLocked |-> TRUE, bumpsLocked |-> TRUE, invalidated |-> FALSE,
     core |-> "fail", extra |-> "drop",
     behind |-> {}, quiet |-> {}]

Policy ==
    [readsGen |-> "flight", keyed |-> FALSE, detached |-> FALSE, rechecks |-> FALSE,
     storesLocked |-> TRUE, bumpsLocked |-> TRUE, invalidated |-> TRUE,
     core |-> "drop", extra |-> "drop",
     behind |-> {}, quiet |-> Kinds]

GitOps ==
    [readsGen |-> "flight", keyed |-> FALSE, detached |-> FALSE, rechecks |-> FALSE,
     storesLocked |-> TRUE, bumpsLocked |-> TRUE, invalidated |-> TRUE,
     core |-> "drop", extra |-> "drop",
     behind |-> {}, quiet |-> Kinds]

AppSets ==
    [readsGen |-> "flight", keyed |-> FALSE, detached |-> FALSE, rechecks |-> FALSE,
     storesLocked |-> TRUE, bumpsLocked |-> TRUE, invalidated |-> TRUE,
     core |-> "fail", extra |-> "fail",
     behind |-> {}, quiet |-> {}]

ServiceMesh ==
    [readsGen |-> "flight", keyed |-> FALSE, detached |-> FALSE, rechecks |-> FALSE,
     storesLocked |-> TRUE, bumpsLocked |-> TRUE, invalidated |-> TRUE,
     core |-> "report", extra |-> "report",
     behind |-> {}, quiet |-> Kinds]

FluxProviders ==
    [readsGen |-> "flight", keyed |-> FALSE, detached |-> TRUE, rechecks |-> FALSE,
     storesLocked |-> TRUE, bumpsLocked |-> TRUE, invalidated |-> TRUE,
     core |-> "fail", extra |-> "fail",
     behind |-> {}, quiet |-> {}]

FluxAlerts ==
    [readsGen |-> "flight", keyed |-> FALSE, detached |-> TRUE, rechecks |-> FALSE,
     storesLocked |-> TRUE, bumpsLocked |-> TRUE, invalidated |-> TRUE,
     core |-> "fail", extra |-> "fail",
     behind |-> {}, quiet |-> {}]

FluxReceivers ==
    [readsGen |-> "flight", keyed |-> FALSE, detached |-> TRUE, rechecks |-> FALSE,
     storesLocked |-> TRUE, bumpsLocked |-> TRUE, invalidated |-> TRUE,
     core |-> "fail", extra |-> "fail",
     behind |-> {}, quiet |-> {}]

CiliumBgp ==
    [readsGen |-> "flight", keyed |-> FALSE, detached |-> TRUE, rechecks |-> FALSE,
     storesLocked |-> FALSE, bumpsLocked |-> FALSE, invalidated |-> TRUE,
     core |-> "fail", extra |-> "fail",
     behind |-> {}, quiet |-> {}]

CiliumIpam ==
    [readsGen |-> "flight", keyed |-> FALSE, detached |-> TRUE, rechecks |-> FALSE,
     storesLocked |-> FALSE, bumpsLocked |-> FALSE, invalidated |-> TRUE,
     core |-> "fail", extra |-> "fail",
     behind |-> {}, quiet |-> {}]

CiliumSubsystems ==
    [readsGen |-> "flight", keyed |-> FALSE, detached |-> TRUE, rechecks |-> FALSE,
     storesLocked |-> FALSE, bumpsLocked |-> FALSE, invalidated |-> TRUE,
     core |-> "drop", extra |-> "drop",
     behind |-> {"extra"}, quiet |-> {}]

CiliumAgents ==
    [readsGen |-> "flight", keyed |-> FALSE, detached |-> TRUE, rechecks |-> FALSE,
     storesLocked |-> FALSE, bumpsLocked |-> TRUE, invalidated |-> TRUE,
     core |-> "fail", extra |-> "report",
     behind |-> {}, quiet |-> {"extra"}]

CertManagerRemote ==
    [readsGen |-> "nobody", keyed |-> FALSE, detached |-> TRUE, rechecks |-> FALSE,
     storesLocked |-> TRUE, bumpsLocked |-> TRUE, invalidated |-> TRUE,
     core |-> "fail", extra |-> "fail",
     behind |-> {}, quiet |-> {}]

Scanning ==
    [readsGen |-> "nobody", keyed |-> FALSE, detached |-> FALSE, rechecks |-> FALSE,
     storesLocked |-> TRUE, bumpsLocked |-> TRUE, invalidated |-> FALSE,
     core |-> "drop", extra |-> "drop",
     behind |-> {}, quiet |-> Kinds]

NamespaceLimits ==
    [readsGen |-> "nobody", keyed |-> FALSE, detached |-> TRUE, rechecks |-> FALSE,
     storesLocked |-> TRUE, bumpsLocked |-> TRUE, invalidated |-> FALSE,
     core |-> "fail", extra |-> "fail",
     behind |-> {}, quiet |-> {}]

Handler ==
    [externalsecrets |-> ExternalSecrets, certmanager |-> CertManager,
     velero |-> Velero, gateway |-> Gateway, policy |-> Policy, gitops |-> GitOps,
     appsets |-> AppSets, servicemesh |-> ServiceMesh,
     fluxproviders |-> FluxProviders, fluxalerts |-> FluxAlerts,
     fluxreceivers |-> FluxReceivers, bgp |-> CiliumBgp, ipam |-> CiliumIpam,
     subsystems |-> CiliumSubsystems, agents |-> CiliumAgents,
     remote |-> CertManagerRemote, scanning |-> Scanning,
     limits |-> NamespaceLimits]

ASSUME SystemsAssumption == Systems \subseteq DOMAIN Handler

-----------------------------------------------------------------------------
(* State.                                                                  *)

\* A slice of a snapshot: its list is pending, it holds what the cluster held
\* at the instant at, after gen invalidations, the same but kept from an older
\* snapshot, it is reported or dropped as not listed, or its list has failed by
\* itself or ended with the context.
Slice(s) == [state |-> s, at |-> 0, gen |-> 0]

Slices == [state: {"pending", "listed", "kept", "reported", "dropped", "failed", "ended"},
           at: 0 .. MaxTime, gen: 0 .. MaxGen]

\* Those that hold data.
Full(s) == s.state \in {"listed", "kept"}

Snapshots == [Kinds -> Slices]

\* Those a fetch returns: nothing in them is pending or failed.
Complete == [Kinds -> {s \in Slices : s.state \in {"listed", "kept", "reported", "dropped"}}]

None == [state |-> "none"]

Keys == 0 .. MaxGen

\* MUTANT of Key: a flight that was in the air before the invalidation may be
\* shared.
KeyConstant(r) == 0

Key(r) == IF h.keyed THEN reader[r].gen ELSE 0

NoSnapshot == [k \in Kinds |-> Slice("pending")]

Resting == [state |-> "idle", asked |-> 0, gen |-> 0]

Given(R, d) == [state |-> "data", to |-> R, data |-> d]

Error(R) == [state |-> "error", to |-> R, data |-> NoSnapshot]

Init ==
    /\ h \in {Handler[s] : s \in Systems}
    /\ clock = 0
    /\ cache = None
    /\ gen = 0
    /\ clearing = FALSE
    /\ flights = [key \in Keys |-> None]
    /\ reader = [r \in Readers |-> Resting]
    /\ answer = None

-----------------------------------------------------------------------------
(* A request.                                                              *)

\* MUTANT of Fresh: a snapshot is served for one unit too long.
FreshTooLong == cache # None /\ clock <= cache.fetchedAt + TTL

Fresh == cache # None /\ clock < cache.fetchedAt + TTL

\* The request finds a snapshot that is young enough.
Hit(r) ==
    /\ reader[r].state = "idle"
    /\ Fresh
    /\ answer' = Given({r}, cache.data)
    /\ UNCHANGED <<h, clock, cache, gen, clearing, flights, reader>>

\* It does not, and goes on to share a flight; where the handler reads the
\* generation outside the flight, it has read it with the cache.
Miss(r) ==
    /\ reader[r].state = "idle"
    /\ ~Fresh
    /\ reader' = [reader EXCEPT
           ![r] = [state |-> "missed", asked |-> clock,
                   gen |-> IF h.readsGen = "caller" THEN gen ELSE 0]]
    /\ answer' = None
    /\ UNCHANGED <<h, clock, cache, gen, clearing, flights>>

\* singleflight.Do: the first caller of a key starts a flight.  The generation
\* its store is guarded by is the caller's or the one of this moment.
Lead(r) ==
    LET g == CASE h.readsGen = "caller" -> reader[r].gen
               [] h.readsGen = "flight" -> gen
               [] h.readsGen = "nobody" -> 0
    IN  /\ reader[r].state = "missed"
        /\ flights[Key(r)] = None
        /\ flights' = [flights EXCEPT ![Key(r)] =
               [state |-> "listing", gen |-> g, began |-> clock, left |-> FALSE,
                data |-> NoSnapshot]]
        /\ reader' = [reader EXCEPT ![r].state = "waiting"]
        /\ answer' = None
        /\ UNCHANGED <<h, clock, cache, gen, clearing>>

\* singleflight.Do: every other one waits for it.
Join(r) ==
    /\ reader[r].state = "missed"
    /\ flights[Key(r)] # None
    /\ reader' = [reader EXCEPT ![r].state = "waiting"]
    /\ answer' = None
    /\ UNCHANGED <<h, clock, cache, gen, clearing, flights>>

\* The client of the request a flight was started for goes away.  Its handler
\* stays in singleflight.Do until the flight is over.
Leave(key) ==
    /\ flights[key] # None
    /\ ~flights[key].left
    /\ flights' = [flights EXCEPT ![key].left = TRUE]
    /\ answer' = None
    /\ UNCHANGED <<h, clock, cache, gen, clearing, reader>>

-----------------------------------------------------------------------------
(* A flight.                                                               *)

Waiters(key) == {r \in Readers : reader[r].state = "waiting" /\ Key(r) = key}

\* MUTANT of Abandoned: the flight runs under its first caller's context
\* whatever the handler.
AbandonedAlways(f) == f.left

\* The request whose context the flight runs under has gone.
Abandoned(f) == ~h.detached /\ f.left

\* The context of a flight ends with its leader's or at the flight's deadline.
Ended(f) == Abandoned(f) \/ clock = f.began + FetchTime

InFlight(key, s) == flights[key] # None /\ flights[key].state = s

\* What an invalidation that has cleared the cache has already seen counts as
\* listed after it.
Now == IF clearing THEN gen + 1 ELSE gen

\* One kind's list comes back, with what the cluster holds at this moment.  A
\* kind behind another cache comes with what that cache promises, listed less
\* than its own TTL and fetch before the flight asked for it; it has been
\* invalidated too, but its own store is not guarded either.
List(key, k) ==
    \E t \in 0 .. clock, g \in 0 .. Now :
        /\ InFlight(key, "listing")
        /\ flights[key].data[k].state = "pending"
        /\ IF k \in h.behind THEN flights[key].began < t + TTL + FetchTime
                             ELSE t = clock /\ g = Now
        /\ flights' = [flights EXCEPT ![key].data[k] =
               [state |-> "listed", at |-> t, gen |-> g]]
        /\ answer' = None
        /\ UNCHANGED <<h, clock, cache, gen, clearing, reader>>

\* The API server refuses it, or the goroutine that lists it panics where that
\* is turned into an error.
ListFails(key, k) ==
    /\ InFlight(key, "listing")
    /\ flights[key].data[k].state = "pending"
    /\ flights' = [flights EXCEPT ![key].data[k] = Slice("failed")]
    /\ answer' = None
    /\ UNCHANGED <<h, clock, cache, gen, clearing, reader>>

\* It panics where that is only logged.
ListPanics(key, k) ==
    /\ k \in h.quiet
    /\ InFlight(key, "listing")
    /\ flights[key].data[k].state = "pending"
    /\ flights' = [flights EXCEPT ![key].data[k] = Slice("dropped")]
    /\ answer' = None
    /\ UNCHANGED <<h, clock, cache, gen, clearing, reader>>

\* It ends with the flight's context.
ListEnds(key, k) ==
    /\ InFlight(key, "listing")
    /\ flights[key].data[k].state = "pending"
    /\ Ended(flights[key])
    /\ flights' = [flights EXCEPT ![key].data[k] = Slice("ended")]
    /\ answer' = None
    /\ UNCHANGED <<h, clock, cache, gen, clearing, reader>>

\* MUTANT of Unlisted: a list that ended with the context passes for one that
\* came back.
UnlistedFailed(s) == s.state = "failed"

Unlisted(s) == s.state \in {"failed", "ended"}

Listed(f) == \A k \in Kinds : f.data[k].state # "pending"

\* The whole fetch is an error.
Fails(f) ==
    \/ \E k \in Kinds : Unlisted(f.data[k]) /\ h[k] = "fail"
    \/ h.rechecks /\ (Abandoned(f) \/ \E k \in Kinds : f.data[k].state = "ended")

\* What the snapshot holds for a kind that could not be listed.
Instead(k) ==
    CASE h[k] = "drop" -> Slice("dropped")
      [] h[k] = "keep" /\ cache # None /\ Full(cache.data[k])
             -> [cache.data[k] EXCEPT !.state = "kept"]
      [] OTHER -> Slice("reported")

Snapshot(f) ==
    [k \in Kinds |-> IF Unlisted(f.data[k]) THEN Instead(k) ELSE f.data[k]]

\* The requests that share a flight return.
Returned(key) ==
    [r \in Readers |-> IF r \in Waiters(key) THEN Resting ELSE reader[r]]

\* A failed fetch fails every one of them.
FinishFails(key) ==
    /\ InFlight(key, "listing")
    /\ Listed(flights[key])
    /\ Fails(flights[key])
    /\ reader' = Returned(key)
    /\ answer' = Error(Waiters(key))
    /\ flights' = [flights EXCEPT ![key] = None]
    /\ UNCHANGED <<h, clock, cache, gen, clearing>>

\* MUTANT of MayStore: the generation is compared with itself.
MayStoreAlways(f) == TRUE

\* The generation has not moved, or there is none to compare.
MayStore(f) == h.readsGen = "nobody" \/ f.gen = gen

Stored(d) == [state |-> "stored", data |-> d, fetchedAt |-> clock]

\* A fetch answers the requests that share it, and stores its snapshot if no
\* invalidation came after its generation was read.
Finish(key) ==
    LET f == flights[key]
        d == Snapshot(f)
    IN  /\ h.storesLocked
        /\ InFlight(key, "listing")
        /\ Listed(f)
        /\ ~Fails(f)
        /\ cache' = IF MayStore(f) THEN Stored(d) ELSE cache
        /\ reader' = Returned(key)
        /\ answer' = Given(Waiters(key), d)
        /\ flights' = [flights EXCEPT ![key] = None]
        /\ UNCHANGED <<h, clock, gen, clearing>>

\* Where the comparison and the store are separate: the generation has moved,
\* and the snapshot is only returned ...
FinishUnstored(key) ==
    LET f == flights[key]
    IN  /\ ~h.storesLocked
        /\ InFlight(key, "listing")
        /\ Listed(f)
        /\ ~Fails(f)
        /\ ~MayStore(f)
        /\ reader' = Returned(key)
        /\ answer' = Given(Waiters(key), Snapshot(f))
        /\ flights' = [flights EXCEPT ![key] = None]
        /\ UNCHANGED <<h, clock, cache, gen, clearing>>

\* ... or it has not, and the snapshot will be stored.
Compare(key) ==
    LET f == flights[key]
    IN  /\ ~h.storesLocked
        /\ InFlight(key, "listing")
        /\ Listed(f)
        /\ ~Fails(f)
        /\ MayStore(f)
        /\ flights' = [flights EXCEPT ![key] =
               [f EXCEPT !.state = "storing", !.data = Snapshot(f)]]
        /\ answer' = None
        /\ UNCHANGED <<h, clock, cache, gen, clearing, reader>>

Store(key) ==
    /\ InFlight(key, "storing")
    /\ cache' = Stored(flights[key].data)
    /\ reader' = Returned(key)
    /\ answer' = Given(Waiters(key), flights[key].data)
    /\ flights' = [flights EXCEPT ![key] = None]
    /\ UNCHANGED <<h, clock, gen, clearing>>

-----------------------------------------------------------------------------
(* Invalidations, and time.                                                *)

Invalidate ==
    /\ h.invalidated
    /\ h.bumpsLocked
    /\ gen < MaxGen
    /\ cache' = None
    /\ gen' = gen + 1
    /\ answer' = None
    /\ UNCHANGED <<h, clock, clearing, flights, reader>>

\* The network handler clears its caches first and bumps the generation last.
Clear ==
    /\ h.invalidated
    /\ ~h.bumpsLocked
    /\ ~clearing
    /\ gen < MaxGen
    /\ cache' = None
    /\ clearing' = TRUE
    /\ answer' = None
    /\ UNCHANGED <<h, clock, gen, flights, reader>>

Bump ==
    /\ clearing
    /\ gen' = gen + 1
    /\ clearing' = FALSE
    /\ answer' = None
    /\ UNCHANGED <<h, clock, cache, flights, reader>>

\* Time passes; a flight is over by its deadline.
Tick ==
    /\ clock < MaxTime
    /\ \A key \in Keys :
           flights[key] # None => clock < flights[key].began + FetchTime
    /\ clock' = clock + 1
    /\ answer' = None
    /\ UNCHANGED <<h, cache, gen, clearing, flights, reader>>

-----------------------------------------------------------------------------

ListStep(key, k) ==
    \/ List(key, k)
    \/ ListFails(key, k)
    \/ ListPanics(key, k)
    \/ ListEnds(key, k)

FinishStep(key) ==
    \/ FinishFails(key)
    \/ Finish(key)
    \/ FinishUnstored(key)
    \/ Compare(key)
    \/ Store(key)

Next ==
    \/ \E r \in Readers : Hit(r) \/ Miss(r) \/ Lead(r) \/ Join(r)
    \/ \E key \in Keys, k \in Kinds : ListStep(key, k)
    \/ \E key \in Keys : FinishStep(key) \/ Leave(key)
    \/ Invalidate
    \/ Clear
    \/ Bump
    \/ Tick

Spec == Init /\ [][Next]_vars

-----------------------------------------------------------------------------
(* Properties.                                                             *)

\* Every variable keeps its type; in particular a snapshot that is stored or
\* given away holds no list that is still pending, has failed or was ended.
TypeOK ==
    /\ h \in {Handler[s] : s \in Systems}
    /\ clock \in 0 .. MaxTime
    /\ cache \in {None} \cup
           [state: {"stored"}, data: Complete, fetchedAt: 0 .. MaxTime]
    /\ gen \in 0 .. MaxGen
    /\ clearing \in BOOLEAN
    /\ flights \in [Keys -> {None} \cup
           [state: {"listing", "storing"}, gen: 0 .. MaxGen, began: 0 .. MaxTime,
            left: BOOLEAN, data: Snapshots]]
    /\ reader \in [Readers ->
           [state: {"idle", "missed", "waiting"}, asked: 0 .. MaxTime, gen: 0 .. MaxGen]]
    /\ answer \in {None} \cup [state: {"data"}, to: SUBSET Readers, data: Complete]
                      \cup [state: {"error"}, to: SUBSET Readers, data: {NoSnapshot}]

\* The store is guarded by a generation, and nothing comes between the
\* comparison and the store, or between the clearing and the bump.
Guarded == h.readsGen # "nobody" /\ h.storesLocked

\* Where the store is guarded, an invalidation is never undone: no flight that
\* listed anything before it can put its snapshot into the cache after it, even
\* if the flight began, or was joined, before.
InvalidationSticks ==
    Guarded => \/ cache = None
               \/ \A k \in Kinds : Full(cache.data[k]) => cache.data[k].gen = gen

\* Where the generation is part of the flight's key, a request made after an
\* invalidation is never answered with anything listed before it, neither
\* from the cache nor by sharing a flight that was already in the air.
AnswersFollowInvalidation ==
    [][\A r \in Readers :
          h.keyed /\ reader[r].state = "waiting" /\ answer'.state = "data"
                  /\ r \in answer'.to
            => \A k \in Kinds : Full(answer'.data[k]) =>
                   answer'.data[k].gen >= reader[r].gen]_vars

\* Where the flight is detached, a request only fails because the cluster did
\* not answer: no client that goes away takes others down with it.
NobodyFailsForAnother ==
    [][\A r \in Readers :
          h.detached /\ answer'.state = "error" /\ r \in answer'.to
            => LET f == flights[Key(r)]
               IN  \/ \E k \in Kinds : f.data[k].state = "failed"
                   \/ clock = f.began + FetchTime]_vars

\* How old what a request is given can be: its own cache's TTL and fetch, and
\* those of the cache behind it as well where there is one.
Window(k) ==
    IF k \in h.behind THEN 2 * (TTL + FetchTime) ELSE TTL + FetchTime

\* The kinds a handler may leave out without a word.
Silenced == {k \in Kinds : h[k] = "drop"} \cup h.quiet

\* What a snapshot tells its reader of a kind.
Told(s) == CASE s.state = "listed"  -> s.at
             [] s.state = "dropped" -> MaxTime + 2
             [] OTHER               -> MaxTime + 1

\* Every handler, with all its races, implements a register of bounded
\* staleness with its own window: see BoundedStaleness.  No kind is left out
\* silently but by the handlers that drop it.
Register == INSTANCE BoundedStaleness WITH
    promise <- [window |-> [k \in Kinds |-> Window(k)], silent |-> Silenced],
    request <- [r \in Readers |->
        IF reader[r].state = "idle" THEN [open |-> FALSE, asked |-> 0]
                                    ELSE [open |-> TRUE, asked |-> reader[r].asked]],
    answer <- IF answer.state # "data" THEN answer
              ELSE [answer EXCEPT !.data = [k \in Kinds |-> Told(answer.data[k])]]

BoundedStaleness == Register!Spec

\* What the code says of every invalidation: what is in the cache after one was
\* listed after it.
ClearedStaysClear ==
    cache = None \/ \A k \in Kinds : Full(cache.data[k]) => cache.data[k].gen >= Now

=============================================================================
