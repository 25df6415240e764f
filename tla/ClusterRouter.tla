--------------------------- MODULE ClusterRouter ---------------------------
(***************************************************************************)
(* The clients of remote clusters.  A request asks RouterFor for a typed   *)
(* and then a dynamic client that act as its user.  Each is kept in a map  *)
(* for a TTL; a missing one is built from the stored record of the         *)
(* cluster, and requests for the same cluster and user share one reading   *)
(* of that record (a singleflight).  Deleting a cluster deletes its record *)
(* and then the clients in both maps, one key at a time, while requests go *)
(* on.  Identifiers are random and never come back, and nothing in the     *)
(* repository calls UpdateCredentials, so a record never changes.          *)
(*                                                                         *)
(* A user stands for a name with its set of groups, which cacheKey sorts   *)
(* before it hashes them.  The maps of the local cluster (ClientFactory)   *)
(* have the same code without the record; the hooks that EvictCluster      *)
(* calls last drop the cluster from the caches of the subsystems           *)
(* (Invalidate of InventoryCache).                                         *)
(***************************************************************************)
EXTENDS Naturals

CONSTANTS Clusters,    \* the remote clusters registered at first
          Setups,      \* what may be stored of a cluster
          Users,       \* identities to impersonate
          Requests,    \* requests; each is made once
          TTL,         \* clientCacheTTL
          BuildTime,   \* the time allowed to a reading when its caller has no deadline
          Budget,      \* RequestTimeout, the deadline of a request that has one
          LookupTime,  \* validateURLLookupTimeout
          MaxTime      \* bound on the clock

ASSUME ClusterRouterAssumption ==
    /\ {TTL, BuildTime, Budget} \subseteq Nat \ {0}
    /\ {LookupTime, MaxTime} \subseteq Nat

VARIABLES clock,     \* the time
          setup,     \* the stored records
          deletedAt, \* when a record was deleted, or Never
          eviction,  \* the keys EvictCluster has still to look at
          cache,     \* remoteCache and remoteDynCache
          flight,    \* configSF: the readings under way
          request,   \* where each request is
          impaired,  \* clusters whose record or address was not to be had in time: history
          holding    \* who had read a record of a cluster at its deletion, of which a client
                     \* was still to be stored, or is in a map nothing empties: history

vars == <<clock, setup, deletedAt, eviction, cache, flight, request, impaired, holding>>

-----------------------------------------------------------------------------

Never == MaxTime + 1

Times == 0 .. MaxTime

Keys == Clusters \X Users

Kinds == {"typed", "dynamic"}

None == [state |-> "none"]

\* A client acts on a cluster as a user.
Clients == [cluster: Clusters, user: Users]

\* What a reading by "leader" gives, and a client made of it.
Configs == [client: Clients, leader: Requests]

Entries == [state: {"cached"}, client: Clients, leader: Requests, expires: Nat]

\* A reading is bound to the deadline of the request that began it, "until".
Flights == [state: {"reading", "checking"}, leader: Requests, until: Nat]

TypeOK ==
    /\ clock \in Times
    /\ setup \in [Clusters -> Setups]
    /\ deletedAt \in [Clusters -> Times \cup {Never}]
    /\ eviction \in [Clusters -> SUBSET (Kinds \X Users)]
    /\ cache \in [Kinds -> [Keys -> {None} \cup Entries]]
    /\ flight \in [Keys -> {None} \cup Flights]
    /\ request \in [Requests ->
           [pc: {"new", "load", "config", "waiting", "store", "served", "failed"},
            key: Keys, kind: Kinds, due: Nat, cancelled: BOOLEAN,
            clients: SUBSET (Clients \X Times), config: {None} \cup Configs]]
    /\ \A r \in Requests : request[r].config # None <=> request[r].pc = "store"
    /\ impaired \in SUBSET Clusters
    /\ holding \in [Clusters -> SUBSET Requests]

Registered(c) == deletedAt[c] = Never

Init ==
    /\ clock = 0
    /\ setup \in [Clusters -> Setups]
    /\ deletedAt = [c \in Clusters |-> Never]
    /\ eviction = [c \in Clusters |-> {}]
    /\ cache = [k \in Kinds |-> [key \in Keys |-> None]]
    /\ flight = [key \in Keys |-> None]
    /\ request \in [Requests ->
           [pc: {"new"}, key: Keys, kind: {"typed"}, due: {0}, cancelled: {FALSE},
            clients: {{}}, config: {None}]]
    /\ impaired = {}
    /\ holding = [c \in Clusters |-> {}]

-----------------------------------------------------------------------------

At(r, pc) == request[r].pc = pc

\* The time since the record of a client's cluster was deleted.
Age(client) == IF Registered(client.cluster) THEN 0 ELSE clock - deletedAt[client.cluster]

\* A client that r asked for, got by reading the record or from a map.
Take(r, client) ==
    request' = [request EXCEPT
        ![r].pc = IF request[r].kind = "typed" THEN "load" ELSE "served",
        ![r].kind = "dynamic",
        ![r].config = None,
        ![r].clients = @ \cup {<<client, Age(client)>>}]

\* A REST request has a deadline from the router's middleware; a check made for
\* a WebSocket connection has none, which is a due of 0.
Arrive(r) ==
    /\ At(r, "new")
    /\ \E due \in {0, clock + Budget} :
           request' = [request EXCEPT ![r].pc = "load", ![r].due = due]
    /\ UNCHANGED <<clock, setup, deletedAt, eviction, cache, flight, impaired, holding>>

Cached(r) == cache[request[r].kind][request[r].key]

\* MUTANT of Fresh: an entry is used until the sweeper finds it.
FreshUntilSwept(entry) == entry # None

Fresh(entry) == entry # None /\ clock < entry.expires

Hit(r) ==
    /\ At(r, "load")
    /\ Fresh(Cached(r))
    /\ Take(r, Cached(r).client)
    /\ UNCHANGED <<clock, setup, deletedAt, eviction, cache, flight, impaired, holding>>

Miss(r) ==
    /\ At(r, "load")
    /\ ~Fresh(Cached(r))
    /\ cache' = [cache EXCEPT ![request[r].kind][request[r].key] = None]
    /\ request' = [request EXCEPT ![r].pc = "config"]
    /\ UNCHANGED <<clock, setup, deletedAt, eviction, flight, impaired, holding>>

\* MUTANT of FlightKey: one reading for all users of a cluster.
FlightKeyByCluster(key) == <<key[1], CHOOSE u \in Users : TRUE>>

FlightKey(key) == key

FlightOf(r) == flight[FlightKey(request[r].key)]

\* The first request for a key reads; the others wait for what it will get.  A
\* wait does not end at a disconnect or at the waiter's own deadline.
Lead(r) ==
    /\ At(r, "config")
    /\ FlightOf(r) = None
    /\ flight' = [flight EXCEPT ![FlightKey(request[r].key)] =
           [state |-> "reading", leader |-> r,
            until |-> IF request[r].due = 0 THEN clock + BuildTime ELSE request[r].due]]
    /\ request' = [request EXCEPT ![r].pc = "waiting"]
    /\ UNCHANGED <<clock, setup, deletedAt, eviction, cache, impaired, holding>>

Join(r) ==
    /\ At(r, "config")
    /\ FlightOf(r) # None
    /\ request' = [request EXCEPT ![r].pc = "waiting"]
    /\ UNCHANGED <<clock, setup, deletedAt, eviction, cache, flight, impaired, holding>>

-----------------------------------------------------------------------------
(* The body of the singleflight.  Everyone who waits gets its result.      *)

Waiting(key) == {r \in Requests : At(r, "waiting") /\ FlightKey(request[r].key) = key}

Deliver(key, pc, config) ==
    /\ flight' = [flight EXCEPT ![key] = None]
    /\ request' = [r \in Requests |->
           IF r \in Waiting(key) THEN [request[r] EXCEPT !.pc = pc, !.config = config]
                                 ELSE request[r]]

\* MUTANT of Fail: the error is dropped.
FailUnchecked(key) == Deliver(key, "store", None)

Fail(key) == Deliver(key, "failed", None)

\* MUTANT of ReadRecord: the body runs under its caller's context.
ReadRecordCancelled(key) ==
    /\ flight[key].state = "reading"
    /\ clock < flight[key].until
    /\ Registered(key[1])
    /\ IF request[flight[key].leader].cancelled
       THEN /\ Fail(key)
            /\ UNCHANGED <<clock, setup, deletedAt, eviction, cache, impaired, holding>>
       ELSE /\ flight' = [flight EXCEPT ![key].state = "checking",
                                        ![key].until = clock + LookupTime]
            /\ UNCHANGED <<clock, setup, deletedAt, eviction, cache, request, impaired,
                           holding>>

\* The record is read; the lookup of its host that follows has a limit of its own.
ReadRecord(key) ==
    /\ flight[key].state = "reading"
    /\ clock < flight[key].until
    /\ Registered(key[1])
    /\ flight' = [flight EXCEPT ![key].state = "checking", ![key].until = clock + LookupTime]
    /\ UNCHANGED <<clock, setup, deletedAt, eviction, cache, request, impaired, holding>>

ReadGone(key) ==
    /\ flight[key].state = "reading"
    /\ ~Registered(key[1])
    /\ Fail(key)
    /\ UNCHANGED <<clock, setup, deletedAt, eviction, cache, impaired, holding>>

\* The database fails, or does not answer in the time there was.
ReadFails(key) ==
    /\ flight[key].state = "reading"
    /\ Fail(key)
    /\ impaired' = impaired \cup {key[1]}
    /\ UNCHANGED <<clock, setup, deletedAt, eviction, cache, holding>>

\* ApplyClusterTLS: without a CA only a cluster that opted in gets a client.
Trusted(s) == s.ca # "none" \/ s.insecure

\* Both secrets must decrypt, and a CA must parse when the client is made.
Usable(s) == s.token /\ s.ca # "broken" /\ Trusted(s)

\* The host must not resolve to a private address.
Resolved(key) ==
    /\ flight[key].state = "checking"
    /\ LET r == flight[key].leader
       IN  IF Usable(setup[key[1]])
           THEN Deliver(key, "store",
                    [client |-> [cluster |-> request[r].key[1], user |-> request[r].key[2]],
                     leader |-> r])
           ELSE Fail(key)
    /\ UNCHANGED <<clock, setup, deletedAt, eviction, cache, impaired, holding>>

Unresolved(key) ==
    /\ flight[key].state = "checking"
    /\ Fail(key)
    /\ impaired' = impaired \cup {key[1]}
    /\ UNCHANGED <<clock, setup, deletedAt, eviction, cache, holding>>

-----------------------------------------------------------------------------

\* The client is stored whatever has happened to the cluster since.
Store(r) ==
    /\ At(r, "store")
    /\ cache' = [cache EXCEPT ![request[r].kind][request[r].key] =
           [state |-> "cached", client |-> request[r].config.client,
            leader |-> request[r].config.leader, expires |-> clock + TTL]]
    /\ Take(r, request[r].config.client)
    /\ UNCHANGED <<clock, setup, deletedAt, eviction, flight, impaired, holding>>

\* The caller goes away.  The handler learns it when it uses its clients; before
\* and after the wait nothing looks.
Cancel(r) ==
    /\ At(r, "waiting")
    /\ ~request[r].cancelled
    /\ request' = [request EXCEPT ![r].cancelled = TRUE]
    /\ UNCHANGED <<clock, setup, deletedAt, eviction, cache, flight, impaired, holding>>

\* The requests that read the record for those that have yet to store a client.
Holders(c) ==
    {flight[<<c, u>>].leader : u \in {v \in Users : flight[<<c, v>>].state = "checking"}}
        \cup {request[r].config.leader : r \in {q \in Requests : At(q, "store")
                                                      /\ request[q].key[1] = c}}

\* handleDeleteCluster deletes the record and begins EvictCluster.
DeleteCluster(c) ==
    /\ Registered(c)
    /\ deletedAt' = [deletedAt EXCEPT ![c] = clock]
    /\ eviction' = [eviction EXCEPT ![c] = Kinds \X Users]
    /\ holding' = [holding EXCEPT ![c] = Holders(c)]
    /\ UNCHANGED <<clock, setup, cache, flight, request, impaired>>

\* The requests whose reading gave what the maps have of a cluster.
Cachers(c) ==
    {r \in Requests : \E k \in Kinds, u \in Users :
         cache[k][<<c, u>>] # None /\ cache[k][<<c, u>>].leader = r}

\* The record is deleted and the caller hears of a failure (the answer of the
\* database is lost, the request cancelled at the commit): the handler returns
\* before EvictCluster, and a second attempt finds no cluster.
DeleteUnevicted(c) ==
    /\ Registered(c)
    /\ deletedAt' = [deletedAt EXCEPT ![c] = clock]
    /\ holding' = [holding EXCEPT ![c] = Holders(c) \cup Cachers(c)]
    /\ UNCHANGED <<clock, setup, eviction, cache, flight, request, impaired>>

\* MUTANT of EvictKey: only the map of typed clients is emptied.
EvictKeyTyped(c) ==
    \E k \in Kinds, u \in Users :
        /\ <<k, u>> \in eviction[c]
        /\ k = "dynamic" => \A v \in Users : <<"typed", v>> \notin eviction[c]
        /\ cache' = [cache EXCEPT !["typed"][<<c, u>>] = None]
        /\ eviction' = [eviction EXCEPT ![c] = @ \ {<<k, u>>}]
        /\ UNCHANGED <<clock, setup, deletedAt, flight, request, impaired, holding>>

\* The map of typed clients comes first; within a map the order is any.
EvictKey(c) ==
    \E k \in Kinds, u \in Users :
        /\ <<k, u>> \in eviction[c]
        /\ k = "dynamic" => \A v \in Users : <<"typed", v>> \notin eviction[c]
        /\ cache' = [cache EXCEPT ![k][<<c, u>>] = None]
        /\ eviction' = [eviction EXCEPT ![c] = @ \ {<<k, u>>}]
        /\ UNCHANGED <<clock, setup, deletedAt, flight, request, impaired, holding>>

\* The sweeper drops an entry once it has expired.
Sweep(k, key) ==
    /\ cache[k][key] # None
    /\ clock > cache[k][key].expires
    /\ cache' = [cache EXCEPT ![k][key] = None]
    /\ UNCHANGED <<clock, setup, deletedAt, eviction, flight, request, impaired, holding>>

\* Computing takes no time; reading and looking up take no more than they may.
Tick ==
    /\ clock < MaxTime
    /\ \A r \in Requests : request[r].pc \notin {"load", "config", "store"}
    /\ \A c \in Clusters : eviction[c] = {}
    /\ \A key \in Keys : flight[key] # None => clock < flight[key].until
    /\ clock' = clock + 1
    /\ UNCHANGED <<setup, deletedAt, eviction, cache, flight, request, impaired, holding>>

RequestStep(r) == Hit(r) \/ Miss(r) \/ Lead(r) \/ Join(r) \/ Store(r)

FlightStep(key) ==
    ReadRecord(key) \/ ReadGone(key) \/ ReadFails(key) \/ Resolved(key) \/ Unresolved(key)

Next ==
    \/ \E r \in Requests : Arrive(r) \/ RequestStep(r) \/ Cancel(r)
    \/ \E key \in Keys : FlightStep(key)
    \/ \E c \in Clusters : DeleteCluster(c) \/ DeleteUnevicted(c) \/ EvictKey(c)
    \/ \E k \in Kinds, key \in Keys : Sweep(k, key)
    \/ Tick

Spec == Init /\ [][Next]_vars

-----------------------------------------------------------------------------
(* Properties.                                                             *)

\* A request never gets clients for another cluster, or of another identity,
\* than its own, however the readings are shared (remoteTypedClient,
\* remoteDynamicClient and remoteConfig with their two keys).
OwnIdentity ==
    \A r \in Requests : \A taken \in request[r].clients :
        taken[1] = [cluster |-> request[r].key[1], user |-> request[r].key[2]]

\* After a cluster is deleted its clients are handed out for no longer than the
\* lookup of a host and the life of a cached client: what bounds the use of a
\* client that remoteTypedClient stores after EvictCluster has passed.
BoundedServing ==
    \A r \in Requests : \A taken \in request[r].clients :
        taken[2] < LookupTime + TTL

\* Once EvictCluster has ended, the only clients of a deleted cluster in either
\* map were made of a record that was read, and not yet used, at the deletion, or,
\* where the deletion was reported as failed, were in it already: nothing else
\* finds its way back.
EvictionIsComplete ==
    \A c \in Clusters : ~Registered(c) /\ eviction[c] = {} =>
        \A k \in Kinds, u \in Users :
            cache[k][<<c, u>>] # None => cache[k][<<c, u>>].leader \in holding[c]

\* A request fails for a reason of the cluster, or because the database or the
\* name service failed, or did not answer a request for that cluster in its time;
\* another caller's disconnect is no reason (remoteConfig severs the reading from
\* its caller's cancellation).
FailureHasCause ==
    \A r \in Requests : At(r, "failed") =>
        LET c == request[r].key[1]
        IN  \/ ~Registered(c)
            \/ ~Usable(setup[c])
            \/ c \in impaired

=============================================================================
