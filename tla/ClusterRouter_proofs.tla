------------------------ MODULE ClusterRouter_proofs -------------------------
(***************************************************************************)
(* Proofs about ClusterRouter: the types, that a request only gets clients *)
(* of its own cluster and identity, how long after a deletion they are     *)
(* handed out, what EvictCluster leaves behind, and that a request fails   *)
(* only for a reason of its own cluster.                                   *)
(***************************************************************************)
EXTENDS ClusterRouter, TLAPS

-----------------------------------------------------------------------------
(* Types.                                                                  *)

\* What TypeOK says of a request.
RequestType ==
    [pc: {"new", "load", "config", "waiting", "store", "served", "failed"},
     key: Keys, kind: Kinds, due: Nat, cancelled: BOOLEAN,
     clients: SUBSET (Clients \X Times), config: {None} \cup Configs]

ConfigWhileStoring == \A r \in Requests : request[r].config # None <=> request[r].pc = "store"

\* None is no record of the other kinds.
LEMMA NoneApart == None \notin Entries /\ None \notin Flights /\ None \notin Configs
  <1>1. None.state = "none"
    BY DEF None
  <1>2. \A e \in Entries : e.state = "cached"
    BY DEF Entries
  <1>3. \A f \in Flights : f.state # "none"
    BY DEF Flights
  <1>4. "state" \in DOMAIN None
    BY DEF None
  <1>5. \A g \in Configs : DOMAIN g = {"client", "leader"}
    BY DEF Configs
  <1>6. QED
    BY <1>1, <1>2, <1>3, <1>4, <1>5

\* The part of time a cluster's clients and readings are dated by.
Since(c) == IF Registered(c) THEN clock ELSE deletedAt[c]

DeletedBefore == \A c \in Clusters : Since(c) <= clock

LEMMA SinceIsTime ==
    ASSUME TypeOK, DeletedBefore, NEW c \in Clusters
    PROVE  Since(c) \in Times /\ Since(c) <= clock
  BY ClusterRouterAssumption DEF TypeOK, DeletedBefore, Since, Registered, Times, Never

LEMMA AgeIsTime ==
    ASSUME TypeOK, DeletedBefore, NEW client \in Clients
    PROVE  Age(client) = clock - Since(client.cluster) /\ Age(client) \in Times
  <1>1. client.cluster \in Clusters
    BY DEF Clients
  <1>2. Age(client) = clock - Since(client.cluster)
    BY <1>1, ClusterRouterAssumption DEF TypeOK, Age, Since, Times
  <1>3. clock - Since(client.cluster) \in Times
    BY <1>1, SinceIsTime, ClusterRouterAssumption DEF TypeOK, Times
  <1>4. QED
    BY <1>2, <1>3

LEMMA ClientOfConfig ==
    ASSUME NEW config \in Configs
    PROVE  config.client \in Clients /\ config.leader \in Requests
  BY DEF Configs

LEMMA TakeTyped ==
    ASSUME TypeOK, DeletedBefore, NEW r \in Requests, NEW client \in Clients, Take(r, client)
    PROVE  request' \in [Requests -> RequestType] /\ ConfigWhileStoring'
  <1>1. request \in [Requests -> RequestType] /\ ConfigWhileStoring
    BY DEF TypeOK, RequestType, ConfigWhileStoring
  <1>2. <<client, Age(client)>> \in Clients \X Times
    BY AgeIsTime
  <1> DEFINE taken == [request[r] EXCEPT
                           !.pc = IF request[r].kind = "typed" THEN "load" ELSE "served",
                           !.kind = "dynamic", !.config = None,
                           !.clients = @ \cup {<<client, Age(client)>>}]
  <1>3. taken \in RequestType /\ taken.config = None /\ taken.pc # "store"
    <2>1. request[r] \in RequestType
      BY <1>1
    <2>2. request[r].clients \cup {<<client, Age(client)>>} \in SUBSET (Clients \X Times)
      BY <1>2, <2>1 DEF RequestType
    <2>3. QED
      BY <2>1, <2>2 DEF RequestType, Kinds
  <1>4. request' = [request EXCEPT ![r] = taken]
    BY <1>1 DEF Take, RequestType
  <1>5. QED
    BY <1>1, <1>3, <1>4 DEF ConfigWhileStoring

LEMMA DeliverTyped ==
    ASSUME TypeOK, NEW key \in Keys, NEW pc \in {"store", "failed"},
           NEW config \in {None} \cup Configs, config # None <=> pc = "store",
           Deliver(key, pc, config)
    PROVE  /\ request' \in [Requests -> RequestType]
           /\ ConfigWhileStoring'
           /\ flight' \in [Keys -> {None} \cup Flights]
  <1>1. request \in [Requests -> RequestType] /\ ConfigWhileStoring
    BY DEF TypeOK, RequestType, ConfigWhileStoring
  <1>2. ASSUME NEW r \in Requests
        PROVE  LET given == [request[r] EXCEPT !.pc = pc, !.config = config]
               IN  given \in RequestType /\ given.pc = pc /\ given.config = config
    BY <1>1 DEF RequestType
  <1>3. request' = [r \in Requests |->
                        IF r \in Waiting(key) THEN [request[r] EXCEPT !.pc = pc, !.config = config]
                                              ELSE request[r]]
    BY DEF Deliver
  <1>4. \A r \in Requests : request'[r] \in RequestType
    BY <1>1, <1>2, <1>3
  <1>5. ConfigWhileStoring'
    BY <1>1, <1>2, <1>3 DEF ConfigWhileStoring
  <1>6. flight' \in [Keys -> {None} \cup Flights]
    BY DEF Deliver, TypeOK
  <1>7. QED
    BY <1>3, <1>4, <1>5, <1>6

\* A request whose program counter, deadline or disconnect changes, and that
\* holds no configuration before or after.
LEMMA RequestMoved ==
    ASSUME TypeOK, NEW r \in Requests, NEW moved \in RequestType,
           moved.config # None <=> moved.pc = "store",
           request' = [request EXCEPT ![r] = moved]
    PROVE  request' \in [Requests -> RequestType] /\ ConfigWhileStoring'
  BY DEF TypeOK, RequestType, ConfigWhileStoring

LEMMA FlightMade ==
    ASSUME TypeOK, NEW r \in Requests, NEW key \in Keys, NEW state \in {"reading", "checking"},
           NEW until \in Nat
    PROVE  /\ [state |-> state, leader |-> r, until |-> until] \in Flights
           /\ [state |-> state, leader |-> r, until |-> until] # None
  <1>1. [state |-> state, leader |-> r, until |-> until] \in Flights
    BY DEF Flights
  <1>2. QED
    BY <1>1, NoneApart

LEMMA UnderWay ==
    ASSUME TypeOK, NEW key \in Keys, flight[key].state \in {"reading", "checking"}
    PROVE  /\ flight[key] \in Flights
           /\ flight[key].leader \in Requests /\ flight[key].until \in Nat
           /\ request[flight[key].leader].key \in Keys
  <1>1. None.state = "none"
    BY DEF None
  <1>2. flight[key] \in Flights
    BY <1>1 DEF TypeOK
  <1>3. QED
    BY <1>2 DEF Flights, TypeOK

LEMMA CachedTyped ==
    ASSUME TypeOK, NEW k \in Kinds, NEW key \in Keys, cache[k][key] # None
    PROVE  /\ cache[k][key] \in Entries
           /\ cache[k][key].client \in Clients /\ cache[k][key].expires \in Nat
  <1>1. cache[k][key] \in Entries
    BY DEF TypeOK
  <1>2. QED
    BY <1>1 DEF Entries

LEMMA CacheSet ==
    ASSUME TypeOK, NEW k \in Kinds, NEW key \in Keys, NEW entry \in {None} \cup Entries,
           cache' = [cache EXCEPT ![k][key] = entry]
    PROVE  /\ cache' \in [Kinds -> [Keys -> {None} \cup Entries]]
           /\ cache'[k][key] = entry
           /\ \A l \in Kinds, other \in Keys :
                  <<l, other>> # <<k, key>> => cache'[l][other] = cache[l][other]
  BY DEF TypeOK

\* Steps that drop an entry, and those that leave the maps alone.
LEMMA Emptied ==
    ASSUME TypeOK, NEW k \in Kinds, NEW key \in Keys, cache' = [cache EXCEPT ![k][key] = None]
    PROVE  /\ cache'[k][key] = None
           /\ \A l \in Kinds, other \in Keys :
                  cache'[l][other] = None \/ cache'[l][other] = cache[l][other]
  <1>0. cache \in [Kinds -> [Keys -> {None} \cup Entries]]
    BY DEF TypeOK
  <1>1. /\ cache'[k][key] = None
        /\ \A l \in Kinds, other \in Keys :
               <<l, other>> # <<k, key>> => cache'[l][other] = cache[l][other]
    BY <1>0
  <1>2. ASSUME NEW l \in Kinds, NEW other \in Keys
        PROVE  cache'[l][other] = None \/ cache'[l][other] = cache[l][other]
    <2>1. CASE l = k /\ other = key
      BY <1>1, <2>1
    <2>2. CASE ~(l = k /\ other = key)
      BY <1>1, <2>2
    <2>3. QED
      BY <2>1, <2>2
  <1>3. QED
    BY <1>1, <1>2

\* The configuration that is given of an examined record.
Config(key) ==
    [client |-> [cluster |-> request[flight[key].leader].key[1],
                 user |-> request[flight[key].leader].key[2]],
     leader |-> flight[key].leader]

LEMMA ConfigMade ==
    ASSUME TypeOK, NEW key \in Keys, flight[key].state = "checking"
    PROVE  Config(key) \in Configs /\ Config(key) # None
  <1>1. flight[key].leader \in Requests /\ request[flight[key].leader].key \in Keys
    BY UnderWay
  <1>2. Config(key) \in Configs
    BY <1>1 DEF Config, Configs, Clients, Keys
  <1>3. QED
    BY <1>2, NoneApart

\* The ways to delete a cluster.
Deletes(c) == DeleteCluster(c) \/ DeleteUnevicted(c)

LEMMA DeleteEffect ==
    ASSUME NEW c \in Clusters, Deletes(c)
    PROVE  /\ Registered(c)
           /\ deletedAt' = [deletedAt EXCEPT ![c] = clock]
           /\ UNCHANGED <<clock, setup, cache, flight, request, impaired>>
  BY DEF Deletes, DeleteCluster, DeleteUnevicted

LEMMA TypeStep ==
    ASSUME TypeOK, DeletedBefore, [Next]_vars
    PROVE  TypeOK'
  <1> USE ClusterRouterAssumption
  <1> DEFINE Others == /\ clock' \in Times
                       /\ setup' \in [Clusters -> Setups]
                       /\ deletedAt' \in [Clusters -> Times \cup {Never}]
                       /\ eviction' \in [Clusters -> SUBSET (Kinds \X Users)]
                       /\ impaired' \in SUBSET Clusters
                       /\ holding' \in [Clusters -> SUBSET Requests]
             Caches == cache' \in [Kinds -> [Keys -> {None} \cup Entries]]
             Readings == flight' \in [Keys -> {None} \cup Flights]
             Asked == request' \in [Requests -> RequestType] /\ ConfigWhileStoring'
  <1>0. /\ request \in [Requests -> RequestType] /\ ConfigWhileStoring
        /\ Others /\ Caches /\ Readings /\ Asked => TypeOK'
    BY DEF TypeOK, RequestType, ConfigWhileStoring
  <1>1. ASSUME NEW r \in Requests, Arrive(r) PROVE TypeOK'
    <2>1. PICK due \in {0, clock + Budget} :
              request' = [request EXCEPT ![r].pc = "load", ![r].due = due]
      BY <1>1 DEF Arrive
    <2> DEFINE moved == [request[r] EXCEPT !.pc = "load", !.due = due]
    <2>2. moved \in RequestType /\ moved.config = None /\ moved.pc = "load"
      <3>1. due \in Nat
        BY DEF TypeOK, Times
      <3>2. request[r].config = None
        BY <1>0, <1>1 DEF Arrive, At, ConfigWhileStoring
      <3>3. request[r] \in RequestType
        BY <1>0
      <3>4. QED
        BY <3>1, <3>2, <3>3 DEF RequestType
    <2>3. request' = [request EXCEPT ![r] = moved]
      BY <1>0, <2>1 DEF RequestType
    <2>4. Asked
      BY <2>2, <2>3, RequestMoved
    <2>5. QED
      BY <1>0, <1>1, <2>4 DEF Arrive, TypeOK
  <1>2. ASSUME NEW r \in Requests, Hit(r) PROVE TypeOK'
    <2>1. request[r].kind \in Kinds /\ request[r].key \in Keys
      BY DEF TypeOK
    <2>2. Cached(r).client \in Clients
      BY <1>2, <2>1, CachedTyped DEF Hit, Fresh, Cached
    <2>3. Asked
      BY <1>2, <2>2, TakeTyped DEF Hit
    <2>4. QED
      BY <1>0, <1>2, <2>3 DEF Hit, TypeOK
  <1>3. ASSUME NEW r \in Requests, Miss(r) PROVE TypeOK'
    <2>1. request[r].kind \in Kinds /\ request[r].key \in Keys
      BY DEF TypeOK
    <2>2. Caches
      BY <1>3, <2>1, CacheSet DEF Miss
    <2> DEFINE moved == [request[r] EXCEPT !.pc = "config"]
    <2>3. moved \in RequestType /\ moved.config = None /\ moved.pc = "config"
      BY <1>0, <1>3 DEF RequestType, Miss, At, ConfigWhileStoring
    <2>4. Asked
      BY <1>0, <1>3, <2>3, RequestMoved DEF Miss, RequestType
    <2>5. QED
      BY <1>0, <1>3, <2>2, <2>4 DEF Miss, TypeOK
  <1>4. ASSUME NEW r \in Requests, Lead(r) \/ Join(r) PROVE TypeOK'
    <2> DEFINE moved == [request[r] EXCEPT !.pc = "waiting"]
    <2>1. moved \in RequestType /\ moved.config = None /\ moved.pc = "waiting"
      BY <1>0, <1>4 DEF RequestType, Lead, Join, At, ConfigWhileStoring
    <2>2. request' = [request EXCEPT ![r] = moved]
      BY <1>0, <1>4 DEF Lead, Join, RequestType
    <2>3. Asked
      BY <2>1, <2>2, RequestMoved
    <2>4. request[r].key \in Keys /\ request[r].due \in Nat /\ clock + BuildTime \in Nat
      BY DEF TypeOK, Times
    <2>5. Readings
      BY <1>4, <2>4, FlightMade DEF Lead, Join, FlightKey, TypeOK
    <2>6. QED
      BY <1>0, <1>4, <2>3, <2>5 DEF Lead, Join, TypeOK
  <1>5. ASSUME NEW r \in Requests, Store(r) PROVE TypeOK'
    <2>1. request[r].kind \in Kinds /\ request[r].key \in Keys
      BY DEF TypeOK
    <2>2. request[r].config \in Configs
      BY <1>5 DEF TypeOK, Store, At
    <2>3. Asked
      BY <1>5, <2>2, TakeTyped, ClientOfConfig DEF Store
    <2> DEFINE entry == [state |-> "cached", client |-> request[r].config.client,
                         leader |-> request[r].config.leader, expires |-> clock + TTL]
    <2>4. entry \in Entries
      BY <2>2, ClientOfConfig DEF Entries, TypeOK, Times
    <2>5. Caches
      BY <1>5, <2>1, <2>4, CacheSet DEF Store
    <2>6. QED
      BY <1>0, <1>5, <2>3, <2>5 DEF Store, TypeOK
  <1>6. ASSUME NEW r \in Requests, Cancel(r) PROVE TypeOK'
    <2> DEFINE moved == [request[r] EXCEPT !.cancelled = TRUE]
    <2>1. moved \in RequestType /\ moved.config = None /\ moved.pc = "waiting"
      BY <1>0, <1>6 DEF RequestType, Cancel, At, ConfigWhileStoring
    <2>2. Asked
      BY <1>0, <1>6, <2>1, RequestMoved DEF Cancel, RequestType
    <2>3. QED
      BY <1>0, <1>6, <2>2 DEF Cancel, TypeOK
  <1>7. ASSUME NEW key \in Keys, ReadRecord(key) PROVE TypeOK'
    <2>1. flight[key] \in Flights /\ clock + LookupTime \in Nat
      BY <1>7, UnderWay DEF ReadRecord, TypeOK, Times
    <2>2. [flight[key] EXCEPT !.state = "checking", !.until = clock + LookupTime] \in Flights
      BY <2>1 DEF Flights
    <2>3. Readings
      BY <1>7, <2>1, <2>2 DEF ReadRecord, TypeOK, Flights
    <2>4. QED
      BY <1>0, <1>7, <2>3 DEF ReadRecord, TypeOK
  <1>8. ASSUME NEW key \in Keys, ReadGone(key) \/ ReadFails(key) \/ Unresolved(key) PROVE TypeOK'
    <2>1. Asked /\ Readings
      BY <1>8, DeliverTyped DEF ReadGone, ReadFails, Unresolved, Fail
    <2>2. key[1] \in Clusters
      BY DEF Keys
    <2>3. QED
      BY <1>0, <1>8, <2>1, <2>2 DEF ReadGone, ReadFails, Unresolved, TypeOK
  <1>9. ASSUME NEW key \in Keys, Resolved(key) PROVE TypeOK'
    <2>1. Config(key) \in Configs /\ Config(key) # None
      BY <1>9, ConfigMade DEF Resolved
    <2>2. Deliver(key, "store", Config(key)) \/ Deliver(key, "failed", None)
      BY <1>9 DEF Resolved, Fail, Config
    <2>3. Asked /\ Readings
      BY <2>1, <2>2, DeliverTyped
    <2>4. QED
      BY <1>0, <1>9, <2>3 DEF Resolved, TypeOK
  <1>10. ASSUME NEW c \in Clusters, Deletes(c) PROVE TypeOK'
    <2>1. ASSUME NEW u \in Users, flight[<<c, u>>].state = "checking"
          PROVE  flight[<<c, u>>].leader \in Requests
      BY <2>1, UnderWay DEF Keys
    <2>2. ASSUME NEW r \in Requests, At(r, "store")
          PROVE  request[r].config.leader \in Requests
      BY <2>2, ClientOfConfig DEF TypeOK, At
    <2>3. Holders(c) \subseteq Requests
      BY <2>1, <2>2 DEF Holders
    <2>4. Cachers(c) \subseteq Requests
      BY DEF Cachers
    <2>5. CASE DeleteCluster(c)
      BY <1>0, <2>3, <2>5 DEF DeleteCluster, TypeOK
    <2>6. CASE DeleteUnevicted(c)
      BY <1>0, <2>3, <2>4, <2>6 DEF DeleteUnevicted, TypeOK
    <2>7. QED
      BY <1>10, <2>5, <2>6 DEF Deletes
  <1>11. ASSUME NEW c \in Clusters, EvictKey(c) PROVE TypeOK'
    <2>1. PICK k \in Kinds, u \in Users :
              /\ cache' = [cache EXCEPT ![k][<<c, u>>] = None]
              /\ eviction' = [eviction EXCEPT ![c] = @ \ {<<k, u>>}]
      BY <1>11 DEF EvictKey
    <2>2. Caches
      BY <2>1, CacheSet DEF Keys
    <2>3. QED
      BY <1>0, <1>11, <2>1, <2>2 DEF EvictKey, TypeOK
  <1>12. ASSUME NEW k \in Kinds, NEW key \in Keys, Sweep(k, key) PROVE TypeOK'
    <2>1. Caches
      BY <1>12, CacheSet DEF Sweep
    <2>2. QED
      BY <1>0, <1>12, <2>1 DEF Sweep, TypeOK
  <1>13. CASE Tick
    BY <1>0, <1>13 DEF Tick, TypeOK, Times
  <1>14. CASE UNCHANGED vars
    BY <1>14 DEF vars, TypeOK
  <1>15. QED
    BY <1>1, <1>2, <1>3, <1>4, <1>5, <1>6, <1>7, <1>8, <1>9, <1>10, <1>11, <1>12, <1>13,
       <1>14 DEF Next, RequestStep, FlightStep, Deletes

-----------------------------------------------------------------------------
(* What the steps do, entry by entry.                                      *)

LEMMA TakeEffect ==
    ASSUME TypeOK, NEW r \in Requests, NEW client, Take(r, client)
    PROVE  /\ request'[r].key = request[r].key
           /\ request'[r].clients = request[r].clients \cup {<<client, Age(client)>>}
           /\ request'[r].config = None
           /\ request'[r].pc \in {"load", "served"}
           /\ \A q \in Requests \ {r} : request'[q] = request[q]
  BY DEF TypeOK, Take

\* A reading ends: those who waited for it have its result.
LEMMA DeliverEffect ==
    ASSUME TypeOK, NEW key \in Keys, NEW pc, NEW config, Deliver(key, pc, config)
    PROVE  /\ \A q \in Requests :
                  /\ request'[q].key = request[q].key
                  /\ request'[q].clients = request[q].clients
                  /\ \/ request'[q] = request[q]
                     \/ /\ request[q].key = key
                        /\ request'[q].pc = pc /\ request'[q].config = config
           /\ flight'[key] = None
           /\ \A other \in Keys \ {key} : flight'[other] = flight[other]
  <1>1. ASSUME NEW q \in Requests
        PROVE  /\ request'[q].key = request[q].key
               /\ request'[q].clients = request[q].clients
               /\ \/ request'[q] = request[q]
                  \/ /\ request[q].key = key
                     /\ request'[q].pc = pc /\ request'[q].config = config
    <2>1. request'[q] = IF q \in Waiting(key)
                        THEN [request[q] EXCEPT !.pc = pc, !.config = config] ELSE request[q]
      BY DEF Deliver
    <2>2. CASE q \in Waiting(key)
      BY <2>1, <2>2 DEF Waiting, FlightKey, TypeOK
    <2>3. QED
      BY <2>1, <2>2
  <1>2. QED
    BY <1>1 DEF Deliver, TypeOK

\* The requests that move without getting a client or a configuration.
Moves(r) == Arrive(r) \/ Miss(r) \/ Lead(r) \/ Join(r) \/ Cancel(r)

LEMMA MoveEffect ==
    ASSUME TypeOK, NEW r \in Requests, Moves(r)
    PROVE  /\ request'[r].pc \in {"load", "config", "waiting"}
           /\ request'[r].key = request[r].key
           /\ request'[r].clients = request[r].clients
           /\ request'[r].config = None
           /\ \A q \in Requests \ {r} : request'[q] = request[q]
           /\ UNCHANGED <<clock, setup, deletedAt, eviction, impaired, holding>>
  <1>1. request[r].config = None
    BY DEF Moves, Arrive, Miss, Lead, Join, Cancel, At, TypeOK
  <1>2. QED
    BY <1>1 DEF Moves, Arrive, Miss, Lead, Join, Cancel, At, TypeOK

\* The readings that fail.
Fails(key) ==
    \/ ReadGone(key) \/ ReadFails(key) \/ Unresolved(key)
    \/ Resolved(key) /\ ~Usable(setup[key[1]])

LEMMA FailEffect ==
    ASSUME NEW key \in Keys, Fails(key)
    PROVE  /\ Deliver(key, "failed", None)
           /\ UNCHANGED <<clock, setup, deletedAt, eviction, cache, holding>>
           /\ impaired \subseteq impaired'
           /\ \/ ~Registered(key[1]) \/ ~Usable(setup[key[1]]) \/ key[1] \in impaired'
  BY DEF Fails, ReadGone, ReadFails, Unresolved, Resolved, Fail

\* The reading that succeeds.
Gives(key) == Resolved(key) /\ Usable(setup[key[1]])

LEMMA GiveEffect ==
    ASSUME NEW key \in Keys, Gives(key)
    PROVE  /\ flight[key].state = "checking"
           /\ Deliver(key, "store", Config(key))
           /\ UNCHANGED <<clock, setup, deletedAt, eviction, cache, impaired, holding>>
  BY DEF Gives, Resolved, Config

\* Every step is one of these.
LEMMA StepShapes ==
    ASSUME Next
    PROVE  \/ \E r \in Requests : Moves(r) \/ Hit(r) \/ Store(r)
           \/ \E key \in Keys : ReadRecord(key) \/ Fails(key) \/ Gives(key)
           \/ \E c \in Clusters : Deletes(c) \/ EvictKey(c)
           \/ \E k \in Kinds, key \in Keys : Sweep(k, key)
           \/ Tick
  BY DEF Next, RequestStep, FlightStep, Moves, Fails, Gives, Deletes

\* Identities and what is stored of a cluster never change; the time that dates a
\* cluster's clients passes until it is deleted.
LEMMA Steady ==
    ASSUME TypeOK, DeletedBefore, [Next]_vars
    PROVE  /\ setup' = setup
           /\ clock <= clock'
           /\ \A r \in Requests : request'[r].key = request[r].key
           /\ \A c \in Clusters : /\ Since(c) <= Since(c)' /\ Since(c)' <= clock'
                                  /\ ~Registered(c) => ~Registered(c)' /\ Since(c)' = Since(c)
  <1>1. CASE UNCHANGED vars
    BY <1>1, SinceIsTime DEF vars, Since, Registered, Times, TypeOK
  <1>2. CASE Next
    <2>0. /\ clock \in Nat /\ \A c \in Clusters : Since(c) \in Nat /\ Since(c) <= clock
          /\ clock < Never
      BY SinceIsTime, ClusterRouterAssumption DEF Times, TypeOK, Never
    <2>1. ASSUME NEW r \in Requests, Moves(r)
          PROVE  /\ UNCHANGED <<clock, setup, deletedAt>>
                 /\ \A q \in Requests : request'[q].key = request[q].key
      BY <2>1, MoveEffect
    <2>2. ASSUME NEW r \in Requests, Hit(r) \/ Store(r)
          PROVE  /\ UNCHANGED <<clock, setup, deletedAt>>
                 /\ \A q \in Requests : request'[q].key = request[q].key
      BY <2>2, TakeEffect DEF Hit, Store
    <2>3. ASSUME NEW key \in Keys, ReadRecord(key) \/ Fails(key) \/ Gives(key)
          PROVE  /\ UNCHANGED <<clock, setup, deletedAt>>
                 /\ \A q \in Requests : request'[q].key = request[q].key
      BY <2>3, FailEffect, GiveEffect, DeliverEffect DEF ReadRecord
    <2>4. ASSUME NEW c \in Clusters, EvictKey(c)
          PROVE  UNCHANGED <<clock, setup, deletedAt, request>>
      BY <2>4 DEF EvictKey
    <2>5. ASSUME NEW k \in Kinds, NEW key \in Keys, Sweep(k, key)
          PROVE  UNCHANGED <<clock, setup, deletedAt, request>>
      BY <2>5 DEF Sweep
    <2>6. ASSUME UNCHANGED <<clock, setup, deletedAt>>,
                 \A q \in Requests : request'[q].key = request[q].key
          PROVE  /\ setup' = setup
                 /\ clock <= clock'
                 /\ \A r \in Requests : request'[r].key = request[r].key
                 /\ \A c \in Clusters : /\ Since(c) <= Since(c)' /\ Since(c)' <= clock'
                                        /\ ~Registered(c) => ~Registered(c)' /\ Since(c)' = Since(c)
      BY <2>0, <2>6 DEF Since, Registered
    <2>7. ASSUME NEW c \in Clusters, Deletes(c)
          PROVE  /\ setup' = setup
                 /\ clock <= clock'
                 /\ \A r \in Requests : request'[r].key = request[r].key
                 /\ \A d \in Clusters : /\ Since(d) <= Since(d)' /\ Since(d)' <= clock'
                                        /\ ~Registered(d) => ~Registered(d)' /\ Since(d)' = Since(d)
      BY <2>0, <2>7, DeleteEffect DEF Since, Registered, TypeOK
    <2>8. ASSUME Tick
          PROVE  /\ setup' = setup
                 /\ clock <= clock'
                 /\ \A r \in Requests : request'[r].key = request[r].key
                 /\ \A d \in Clusters : /\ Since(d) <= Since(d)' /\ Since(d)' <= clock'
                                        /\ ~Registered(d) => ~Registered(d)' /\ Since(d)' = Since(d)
      BY <2>0, <2>8 DEF Tick, Since, Registered
    <2>9. QED
      BY <1>2, <2>1, <2>2, <2>3, <2>4, <2>5, <2>6, <2>7, <2>8, StepShapes
  <1>3. QED
    BY <1>1, <1>2

-----------------------------------------------------------------------------
(* Identities.                                                             *)

Own(key) == [cluster |-> key[1], user |-> key[2]]

\* A reading, an entry and a configuration are of the key they are found under.
Identities ==
    /\ \A key \in Keys : flight[key] # None =>
           /\ flight[key].leader \in Requests
           /\ request[flight[key].leader].key = key
    /\ \A k \in Kinds, key \in Keys : cache[k][key] # None => cache[k][key].client = Own(key)
    /\ \A r \in Requests : At(r, "store") => request[r].config.client = Own(request[r].key)

LEMMA IdentityStep ==
    ASSUME TypeOK, DeletedBefore, Identities, OwnIdentity, [Next]_vars
    PROVE  Identities' /\ OwnIdentity'
  <1> DEFINE InFlight == \A key \in Keys : flight[key] # None =>
                 flight[key].leader \in Requests /\ request[flight[key].leader].key = key
             InMaps == \A k \in Kinds, key \in Keys :
                           cache[k][key] # None => cache[k][key].client = Own(key)
             InHand == \A r \in Requests : At(r, "store") =>
                           request[r].config.client = Own(request[r].key)
  <1>0. \A r \in Requests : request'[r].key = request[r].key /\ request[r].key \in Keys
    BY Steady DEF TypeOK
  <1>1. ASSUME NEW r \in Requests, Moves(r) PROVE Identities' /\ OwnIdentity'
    <2>1. /\ request'[r].pc # "store"
          /\ \A q \in Requests : request'[q].clients = request[q].clients
          /\ \A q \in Requests \ {r} : request'[q] = request[q]
      BY <1>1, MoveEffect
    <2>2. InFlight'
      BY <1>0, <1>1 DEF Moves, Arrive, Miss, Lead, Join, Cancel, FlightKey, Identities, TypeOK
    <2>3. \A k \in Kinds, key \in Keys : cache'[k][key] = None \/ cache'[k][key] = cache[k][key]
      <3>1. CASE Miss(r)
        BY <1>0, <3>1, Emptied DEF Miss, TypeOK
      <3>2. CASE Arrive(r) \/ Lead(r) \/ Join(r) \/ Cancel(r)
        BY <3>2 DEF Arrive, Lead, Join, Cancel
      <3>3. QED
        BY <1>1, <3>1, <3>2 DEF Moves
    <2>4. InMaps' /\ InHand'
      BY <1>0, <2>1, <2>3 DEF Identities, At
    <2>5. QED
      BY <1>0, <2>1, <2>2, <2>4 DEF Identities, OwnIdentity
  <1>2. ASSUME NEW r \in Requests, Hit(r) PROVE Identities' /\ OwnIdentity'
    <2>1. Cached(r).client = Own(request[r].key)
      BY <1>2 DEF Hit, Fresh, Cached, Identities, TypeOK
    <2> DEFINE client == Cached(r).client
    <2>2. /\ request'[r].clients = request[r].clients \cup {<<client, Age(client)>>}
          /\ request'[r].pc # "store"
          /\ \A q \in Requests \ {r} : request'[q] = request[q]
          /\ UNCHANGED <<cache, flight>>
      BY <1>2, TakeEffect DEF Hit
    <2>3. InFlight' /\ InMaps'
      BY <1>0, <2>2 DEF Identities
    <2>4. InHand'
      BY <1>0, <2>2 DEF Identities, At
    <2>5. OwnIdentity'
      BY <1>0, <2>1, <2>2 DEF OwnIdentity, Own
    <2>6. QED
      BY <2>3, <2>4, <2>5 DEF Identities
  <1>3. ASSUME NEW r \in Requests, Store(r) PROVE Identities' /\ OwnIdentity'
    <2> DEFINE client == request[r].config.client
    <2>1. client = Own(request[r].key) /\ request[r].kind \in Kinds
      BY <1>3 DEF Store, Identities, TypeOK
    <2>2. /\ request'[r].clients = request[r].clients \cup {<<client, Age(client)>>}
          /\ request'[r].pc # "store"
          /\ \A q \in Requests \ {r} : request'[q] = request[q]
      BY <1>3, TakeEffect DEF Store
    <2>3. InMaps'
      <3> SUFFICES ASSUME NEW k \in Kinds, NEW key \in Keys, cache'[k][key] # None
                   PROVE  cache'[k][key].client = Own(key)
        OBVIOUS
      <3>1. CASE k = request[r].kind /\ key = request[r].key
        BY <1>0, <1>3, <2>1, <3>1 DEF Store, TypeOK
      <3>2. CASE ~(k = request[r].kind /\ key = request[r].key)
        <4>1. cache'[k][key] = cache[k][key]
          BY <1>0, <1>3, <2>1, <3>2 DEF Store, TypeOK
        <4>2. QED
          BY <4>1 DEF Identities
      <3>3. QED
        BY <3>1, <3>2
    <2>4. InFlight' /\ InHand'
      BY <1>0, <1>3, <2>2 DEF Identities, Store, At
    <2>5. OwnIdentity'
      BY <1>0, <2>1, <2>2 DEF OwnIdentity, Own
    <2>6. QED
      BY <2>3, <2>4, <2>5 DEF Identities
  <1>4. ASSUME NEW key \in Keys, ReadRecord(key) PROVE Identities' /\ OwnIdentity'
    <2>1. flight[key] \in Flights
      BY <1>4, UnderWay DEF ReadRecord
    <2>2. /\ flight'[key].leader = flight[key].leader
          /\ \A other \in Keys \ {key} : flight'[other] = flight[other]
          /\ flight[key] # None
      BY <1>4, <2>1, NoneApart DEF ReadRecord, TypeOK, Flights
    <2>3. UNCHANGED <<cache, request>>
      BY <1>4 DEF ReadRecord
    <2>4. InFlight'
      BY <2>2, <2>3 DEF Identities
    <2>5. QED
      BY <2>3, <2>4 DEF Identities, OwnIdentity, At
  <1>5. ASSUME NEW key \in Keys, Fails(key) PROVE Identities' /\ OwnIdentity'
    <2>1. Deliver(key, "failed", None) /\ cache' = cache
      BY <1>5, FailEffect
    <2>2. QED
      BY <1>0, <2>1, DeliverEffect DEF Identities, OwnIdentity, At
  <1>6. ASSUME NEW key \in Keys, Gives(key) PROVE Identities' /\ OwnIdentity'
    <2>1. Deliver(key, "store", Config(key)) /\ cache' = cache
      BY <1>6, GiveEffect
    <2>2. Config(key).client = Own(key)
      <3>1. flight[key] # None
        BY <1>6, GiveEffect DEF None
      <3>2. QED
        BY <3>1 DEF Identities, Config, Own
    <2>3. \A r \in Requests : \/ request'[r] = request[r]
                              \/ request[r].key = key /\ request'[r].config = Config(key)
      BY <2>1, DeliverEffect
    <2>4. InHand'
      BY <1>0, <2>2, <2>3 DEF Identities, At
    <2>5. InFlight' /\ InMaps' /\ OwnIdentity'
      BY <1>0, <2>1, DeliverEffect DEF Identities, OwnIdentity
    <2>6. QED
      BY <2>4, <2>5 DEF Identities
  <1>7. ASSUME NEW c \in Clusters, Deletes(c) PROVE Identities' /\ OwnIdentity'
    BY <1>7, DeleteEffect DEF Identities, OwnIdentity, At
  <1>8. ASSUME NEW c \in Clusters, EvictKey(c) PROVE Identities' /\ OwnIdentity'
    <2>1. \A k \in Kinds, key \in Keys : cache'[k][key] = None \/ cache'[k][key] = cache[k][key]
      BY <1>8, Emptied DEF EvictKey, Keys
    <2>2. UNCHANGED <<flight, request>>
      BY <1>8 DEF EvictKey
    <2>3. QED
      BY <2>1, <2>2 DEF Identities, OwnIdentity, At
  <1>9. CASE Tick
    BY <1>9 DEF Tick, Identities, OwnIdentity, At
  <1>10. CASE UNCHANGED vars
    BY <1>10 DEF vars, Identities, OwnIdentity, At
  <1>11. ASSUME NEW k \in Kinds, NEW key \in Keys, Sweep(k, key) PROVE Identities' /\ OwnIdentity'
    <2>1. \A l \in Kinds, other \in Keys :
              cache'[l][other] = None \/ cache'[l][other] = cache[l][other]
      BY <1>11, Emptied DEF Sweep
    <2>2. UNCHANGED <<flight, request>>
      BY <1>11 DEF Sweep
    <2>3. QED
      BY <2>1, <2>2 DEF Identities, OwnIdentity, At
  <1>12. QED
    BY <1>1, <1>2, <1>3, <1>4, <1>5, <1>6, <1>7, <1>8, <1>9, <1>10, <1>11, StepShapes

-----------------------------------------------------------------------------
(* Times.                                                                  *)

\* How long after the deletion of a cluster its record is still being used.  A
\* reading may begin when its deadline has passed; it then only fails.
TimelyReading(key) ==
    flight[key].state = "checking" =>
        /\ clock <= flight[key].until
        /\ flight[key].until <= Since(key[1]) + LookupTime

TimelyHand(r) == At(r, "store") => clock <= Since(request[r].key[1]) + LookupTime

TimelyEntry(k, key) ==
    cache[k][key] # None => cache[k][key].expires <= Since(key[1]) + LookupTime + TTL

Timely ==
    /\ \A key \in Keys : TimelyReading(key)
    /\ \A r \in Requests : TimelyHand(r)
    /\ \A k \in Kinds, key \in Keys : TimelyEntry(k, key)

LEMMA Numbers ==
    ASSUME TypeOK, DeletedBefore, [Next]_vars
    PROVE  /\ clock \in Nat
           /\ TTL \in Nat /\ TTL > 0 /\ LookupTime \in Nat
           /\ \A key \in Keys : /\ key[1] \in Clusters
                                /\ Since(key[1]) \in Nat /\ Since(key[1])' \in Nat
                                /\ Since(key[1]) <= Since(key[1])'
                                /\ Since(key[1])' <= clock'
                                /\ flight[key].state = "checking" => flight[key].until \in Nat
           /\ \A k \in Kinds, key \in Keys : cache[k][key] # None => cache[k][key].expires \in Nat
  <1>1. DeletedBefore' /\ TypeOK'
    BY Steady, TypeStep DEF DeletedBefore
  <1>2. \A c \in Clusters : Since(c) \in Nat
    BY SinceIsTime DEF Times
  <1>3. \A c \in Clusters : Since(c)' \in Nat
    BY <1>1, ClusterRouterAssumption DEF TypeOK, DeletedBefore, Since, Registered, Times, Never
  <1>4. \A key \in Keys : flight[key].state = "checking" => flight[key].until \in Nat
    BY UnderWay
  <1>5. \A k \in Kinds, key \in Keys : cache[k][key] # None => cache[k][key].expires \in Nat
    BY CachedTyped
  <1>6. ASSUME NEW key \in Keys
        PROVE  /\ key[1] \in Clusters
               /\ Since(key[1]) \in Nat /\ Since(key[1])' \in Nat
               /\ Since(key[1]) <= Since(key[1])'
               /\ Since(key[1])' <= clock'
    <2>1. key[1] \in Clusters
      BY DEF Keys
    <2>2. QED
      BY <1>2, <1>3, <2>1, Steady
  <1>7. clock \in Nat /\ TTL \in Nat /\ TTL > 0 /\ LookupTime \in Nat
    BY ClusterRouterAssumption DEF TypeOK, Times
  <1>8. QED
    BY <1>4, <1>5, <1>6, <1>7

\* What was timely of a part that no step touches is timely after the step.
LEMMA ReadingKept ==
    ASSUME TypeOK, DeletedBefore, [Next]_vars, clock' = clock,
           NEW key \in Keys, TimelyReading(key),
           flight'[key].state = "checking" => flight'[key] = flight[key]
    PROVE  TimelyReading(key)'
  BY Numbers DEF TimelyReading

LEMMA HandKept ==
    ASSUME TypeOK, DeletedBefore, [Next]_vars, clock' = clock,
           NEW r \in Requests, TimelyHand(r), At(r, "store")' => At(r, "store")
    PROVE  TimelyHand(r)'
  <1>1. request'[r].key = request[r].key /\ request[r].key \in Keys
    BY Steady DEF TypeOK
  <1>2. QED
    BY <1>1, Numbers DEF TimelyHand

LEMMA EntryKept ==
    ASSUME TypeOK, DeletedBefore, [Next]_vars, NEW k \in Kinds, NEW key \in Keys,
           TimelyEntry(k, key), cache'[k][key] \in {None, cache[k][key]}
    PROVE  TimelyEntry(k, key)'
  BY Numbers DEF TimelyEntry

LEMMA TimeStep ==
    ASSUME TypeOK, DeletedBefore, Timely, [Next]_vars
    PROVE  Timely'
  <1>1. ASSUME NEW r \in Requests, Moves(r) PROVE Timely'
    <2>1. /\ clock' = clock /\ request'[r].pc # "store"
          /\ \A q \in Requests \ {r} : request'[q] = request[q]
      BY <1>1, MoveEffect
    <2>2. ASSUME NEW q \in Requests PROVE TimelyHand(q)'
      BY <2>1, HandKept DEF Timely, At
    <2>3. ASSUME NEW k \in Kinds, NEW key \in Keys PROVE TimelyEntry(k, key)'
      <3>1. cache'[k][key] \in {None, cache[k][key]}
        <4>1. CASE Miss(r)
          BY <4>1, Emptied DEF Miss, TypeOK
        <4>2. CASE Arrive(r) \/ Lead(r) \/ Join(r) \/ Cancel(r)
          BY <4>2 DEF Arrive, Lead, Join, Cancel
        <4>3. QED
          BY <1>1, <4>1, <4>2 DEF Moves
      <3>2. QED
        BY <3>1, EntryKept DEF Timely
    <2>4. ASSUME NEW key \in Keys PROVE TimelyReading(key)'
      <3>1. flight'[key].state = "checking" => flight'[key] = flight[key]
        BY <1>1 DEF Moves, Arrive, Miss, Lead, Join, Cancel, TypeOK
      <3>2. QED
        BY <2>1, <3>1, ReadingKept DEF Timely
    <2>5. QED
      BY <2>2, <2>3, <2>4 DEF Timely
  <1>2. ASSUME NEW r \in Requests, Hit(r) PROVE Timely'
    <2>1. /\ request'[r].pc # "store"
          /\ \A q \in Requests \ {r} : request'[q] = request[q]
          /\ UNCHANGED <<clock, cache, flight>>
      BY <1>2, TakeEffect DEF Hit
    <2>2. QED
      BY <2>1, ReadingKept, HandKept, EntryKept DEF Timely, At
  <1>3. ASSUME NEW r \in Requests, Store(r) PROVE Timely'
    <2>1. /\ request'[r].pc # "store"
          /\ \A q \in Requests \ {r} : request'[q] = request[q]
          /\ UNCHANGED <<clock, flight>>
      BY <1>3, TakeEffect DEF Store
    <2>2. ASSUME NEW k \in Kinds, NEW key \in Keys PROVE TimelyEntry(k, key)'
      <3>1. request[r].kind \in Kinds /\ request[r].key \in Keys
        BY DEF TypeOK
      <3>2. CASE <<k, key>> = <<request[r].kind, request[r].key>>
        <4>1. cache'[k][key].expires = clock + TTL
          BY <1>3, <3>1, <3>2 DEF Store, TypeOK
        <4>2. clock <= Since(key[1]) + LookupTime
          BY <1>3, <3>2 DEF Timely, TimelyHand, Store
        <4>3. QED
          BY <4>1, <4>2, Numbers DEF TimelyEntry
      <3>3. CASE <<k, key>> # <<request[r].kind, request[r].key>>
        <4>1. cache'[k][key] = cache[k][key]
          BY <1>3, <3>1, <3>3 DEF Store, TypeOK
        <4>2. QED
          BY <4>1, EntryKept DEF Timely
      <3>4. QED
        BY <3>2, <3>3
    <2>3. QED
      BY <2>1, <2>2, ReadingKept, HandKept DEF Timely, At
  <1>4. ASSUME NEW key \in Keys, ReadRecord(key) PROVE Timely'
    <2>1. UNCHANGED <<clock, deletedAt, cache, request>>
      BY <1>4 DEF ReadRecord
    <2>2. ASSUME NEW other \in Keys PROVE TimelyReading(other)'
      <3>1. CASE other = key
        <4>1. flight'[key].until = clock + LookupTime
          BY <1>4, UnderWay DEF ReadRecord, TypeOK, Flights
        <4>2. Since(key[1])' = clock
          BY <1>4, <2>1 DEF ReadRecord, Since, Registered
        <4>3. QED
          BY <2>1, <3>1, <4>1, <4>2, Numbers DEF TimelyReading
      <3>2. CASE other # key
        <4>1. flight'[other] = flight[other]
          BY <1>4, <3>2 DEF ReadRecord, TypeOK
        <4>2. QED
          BY <2>1, <4>1, ReadingKept DEF Timely
      <3>3. QED
        BY <3>1, <3>2
    <2>3. QED
      BY <2>1, <2>2, HandKept, EntryKept DEF Timely, At
  <1>5. ASSUME NEW key \in Keys, Fails(key) PROVE Timely'
    <2>1. Deliver(key, "failed", None) /\ UNCHANGED <<clock, cache>>
      BY <1>5, FailEffect
    <2>2. /\ \A other \in Keys : flight'[other] = None \/ flight'[other] = flight[other]
          /\ \A r \in Requests : At(r, "store")' => At(r, "store")
      BY <2>1, DeliverEffect DEF At
    <2>3. None.state # "checking"
      BY DEF None
    <2>4. QED
      BY <2>1, <2>2, <2>3, ReadingKept, HandKept, EntryKept DEF Timely
  <1>6. ASSUME NEW key \in Keys, Gives(key) PROVE Timely'
    <2>1. Deliver(key, "store", Config(key)) /\ UNCHANGED <<clock, cache>>
      BY <1>6, GiveEffect
    <2>2. \A other \in Keys : flight'[other] = None \/ flight'[other] = flight[other]
      BY <2>1, DeliverEffect
    <2>3. None.state # "checking"
      BY DEF None
    <2>4. ASSUME NEW r \in Requests PROVE TimelyHand(r)'
      <3>1. CASE request'[r] = request[r]
        BY <2>1, <3>1, HandKept DEF Timely, At
      <3>2. CASE request'[r] # request[r]
        <4>1. request'[r].key = key
          BY <2>1, <3>2, DeliverEffect
        <4>2. clock <= Since(key[1]) + LookupTime
          BY <1>6, GiveEffect, Numbers DEF Timely, TimelyReading
        <4>3. QED
          BY <2>1, <4>1, <4>2, Numbers DEF TimelyHand
      <3>3. QED
        BY <3>1, <3>2
    <2>5. QED
      BY <2>1, <2>2, <2>3, <2>4, ReadingKept, EntryKept DEF Timely
  <1>7. ASSUME NEW c \in Clusters, Deletes(c) PROVE Timely'
    <2>1. UNCHANGED <<clock, cache, flight, request>>
      BY <1>7, DeleteEffect
    <2>2. QED
      BY <2>1, ReadingKept, HandKept, EntryKept DEF Timely, At
  <1>8. ASSUME NEW c \in Clusters, EvictKey(c) PROVE Timely'
    <2>1. \A k \in Kinds, key \in Keys : cache'[k][key] \in {None, cache[k][key]}
      BY <1>8, Emptied DEF EvictKey, Keys
    <2>2. UNCHANGED <<clock, flight, request>>
      BY <1>8 DEF EvictKey
    <2>3. QED
      BY <2>1, <2>2, ReadingKept, HandKept, EntryKept DEF Timely, At
  <1>9. ASSUME NEW k \in Kinds, NEW key \in Keys, Sweep(k, key) PROVE Timely'
    <2>1. \A l \in Kinds, other \in Keys : cache'[l][other] \in {None, cache[l][other]}
      BY <1>9, Emptied DEF Sweep
    <2>2. UNCHANGED <<clock, flight, request>>
      BY <1>9 DEF Sweep
    <2>3. QED
      BY <2>1, <2>2, ReadingKept, HandKept, EntryKept DEF Timely, At
  <1>10. CASE Tick
    <2>1. clock' = clock + 1 /\ UNCHANGED <<cache, flight, request>>
      BY <1>10 DEF Tick
    <2>2. ASSUME NEW r \in Requests PROVE TimelyHand(r)'
      BY <1>10, <2>1 DEF Tick, TimelyHand, At
    <2>3. ASSUME NEW key \in Keys PROVE TimelyReading(key)'
      <3>1. flight[key].state = "checking" => clock < flight[key].until
        BY <1>10 DEF Tick, None
      <3>2. QED
        BY <2>1, <3>1, Numbers DEF Timely, TimelyReading
    <2>4. QED
      BY <2>1, <2>2, <2>3, EntryKept DEF Timely
  <1>11. CASE UNCHANGED vars
    <2>1. UNCHANGED <<clock, cache, flight, request>>
      BY <1>11 DEF vars
    <2>2. QED
      BY <2>1, ReadingKept, HandKept, EntryKept DEF Timely, At
  <1>12. QED
    BY <1>1, <1>2, <1>3, <1>4, <1>5, <1>6, <1>7, <1>8, <1>9, <1>10, <1>11, StepShapes

LEMMA ServingStep ==
    ASSUME TypeOK, DeletedBefore, Timely, Identities, BoundedServing, [Next]_vars
    PROVE  BoundedServing'
  <1>1. ASSUME NEW r \in Requests, NEW client, client = Own(request[r].key), Take(r, client),
               clock < Since(request[r].key[1]) + LookupTime + TTL
        PROVE  BoundedServing'
    <2>1. client \in Clients /\ client.cluster = request[r].key[1]
      BY <1>1 DEF Own, Clients, Keys, TypeOK
    <2>2. Age(client) < LookupTime + TTL
      <3>1. request[r].key \in Keys
        BY DEF TypeOK
      <3>2. QED
        BY <1>1, <2>1, <3>1, AgeIsTime, Numbers
    <2>3. QED
      BY <1>1, <2>2, TakeEffect DEF BoundedServing
  <1>2. ASSUME NEW r \in Requests, Hit(r) PROVE BoundedServing'
    <2>1. request[r].kind \in Kinds /\ request[r].key \in Keys
      BY DEF TypeOK
    <2>2. /\ Cached(r).client = Own(request[r].key)
          /\ clock < Since(request[r].key[1]) + LookupTime + TTL
      BY <1>2, <2>1, Numbers DEF Hit, Fresh, Cached, Identities, Timely, TimelyEntry
    <2>3. QED
      BY <1>1, <1>2, <2>2 DEF Hit
  <1>3. ASSUME NEW r \in Requests, Store(r) PROVE BoundedServing'
    <2>1. /\ request[r].config.client = Own(request[r].key)
          /\ clock <= Since(request[r].key[1]) + LookupTime
      BY <1>3 DEF Store, Identities, Timely, TimelyHand
    <2>2. clock < Since(request[r].key[1]) + LookupTime + TTL
      BY <2>1, Numbers DEF TypeOK
    <2>3. QED
      BY <1>1, <1>3, <2>1, <2>2 DEF Store
  <1>4. ASSUME \A r \in Requests : request'[r].clients = request[r].clients
        PROVE  BoundedServing'
    BY <1>4 DEF BoundedServing
  <1>5. ASSUME NEW r \in Requests, Moves(r) PROVE BoundedServing'
    BY <1>4, <1>5, MoveEffect
  <1>6. ASSUME NEW key \in Keys, ReadRecord(key) \/ Fails(key) \/ Gives(key) PROVE BoundedServing'
    BY <1>4, <1>6, FailEffect, GiveEffect, DeliverEffect DEF ReadRecord
  <1>7. ASSUME NEW c \in Clusters, Deletes(c) \/ EvictKey(c) PROVE BoundedServing'
    BY <1>4, <1>7, DeleteEffect DEF EvictKey
  <1>8. ASSUME NEW k \in Kinds, NEW key \in Keys, Sweep(k, key) PROVE BoundedServing'
    BY <1>4, <1>8 DEF Sweep
  <1>9. CASE Tick \/ UNCHANGED vars
    BY <1>4, <1>9 DEF Tick, vars
  <1>10. QED
    BY <1>2, <1>3, <1>5, <1>6, <1>7, <1>8, <1>9, StepShapes

-----------------------------------------------------------------------------
(* What EvictCluster leaves behind.                                        *)

\* Whatever is used of a deleted cluster was read by one who held it then.
HeldReading(c, u) ==
    flight[<<c, u>>].state = "checking" => flight[<<c, u>>].leader \in holding[c]

HeldHand(r, c) ==
    At(r, "store") /\ request[r].key[1] = c => request[r].config.leader \in holding[c]

HeldEntry(c, k, u) ==
    cache[k][<<c, u>>] # None /\ <<k, u>> \notin eviction[c] =>
        cache[k][<<c, u>>].leader \in holding[c]

Held(c) ==
    /\ \A u \in Users : HeldReading(c, u)
    /\ \A r \in Requests : HeldHand(r, c)
    /\ \A k \in Kinds, u \in Users : HeldEntry(c, k, u)

Remnants == \A c \in Clusters : ~Registered(c) => Held(c)

\* A step that adds nothing to what is used of a cluster.
LEMMA HeldKept ==
    ASSUME NEW c \in Clusters, Held(c), holding'[c] = holding[c],
           \A u \in Users : \/ flight'[<<c, u>>].state # "checking"
                            \/ flight'[<<c, u>>] = flight[<<c, u>>],
           \A r \in Requests : \/ request'[r].pc # "store"
                               \/ request'[r].key[1] # c
                               \/ request'[r] = request[r],
           \A k \in Kinds, u \in Users :
               \/ cache'[k][<<c, u>>] = None
               \/ cache'[k][<<c, u>>] = cache[k][<<c, u>>]
                     /\ (<<k, u>> \in eviction[c] => <<k, u>> \in eviction'[c])
    PROVE  Held(c)'
  <1>1. ASSUME NEW u \in Users PROVE HeldReading(c, u)'
    BY DEF Held, HeldReading
  <1>2. ASSUME NEW r \in Requests PROVE HeldHand(r, c)'
    BY DEF Held, HeldHand, At
  <1>3. ASSUME NEW k \in Kinds, NEW u \in Users PROVE HeldEntry(c, k, u)'
    BY DEF Held, HeldEntry
  <1>4. QED
    BY <1>1, <1>2, <1>3 DEF Held

LEMMA RemnantsStep ==
    ASSUME TypeOK, DeletedBefore, Remnants, [Next]_vars
    PROVE  Remnants'
  <1> SUFFICES ASSUME NEW c \in Clusters, ~Registered(c)'
               PROVE  Held(c)'
    BY DEF Remnants
  <1>0. /\ None.state # "checking"
        /\ \A u \in Users : <<c, u>> \in Keys
        /\ \A r \in Requests : request[r].key \in Keys /\ request[r].kind \in Kinds
    BY DEF None, Keys, TypeOK
  <1>1. ASSUME NEW r \in Requests, Moves(r) PROVE Held(c)'
    <2>1. /\ request'[r].pc # "store" /\ UNCHANGED <<deletedAt, eviction, holding>>
          /\ \A q \in Requests \ {r} : request'[q] = request[q]
      BY <1>1, MoveEffect
    <2>2. \A k \in Kinds, key \in Keys : cache'[k][key] \in {None, cache[k][key]}
      <3>1. CASE Miss(r)
        BY <3>1, Emptied DEF Miss, TypeOK
      <3>2. CASE Arrive(r) \/ Lead(r) \/ Join(r) \/ Cancel(r)
        BY <3>2 DEF Arrive, Lead, Join, Cancel
      <3>3. QED
        BY <1>1, <3>1, <3>2 DEF Moves
    <2>3. \A key \in Keys : flight'[key].state # "checking" \/ flight'[key] = flight[key]
      BY <1>1 DEF Moves, Arrive, Miss, Lead, Join, Cancel, TypeOK
    <2>4. Held(c) /\ holding'[c] = holding[c]
      BY <2>1 DEF Remnants, Registered
    <2>5. QED
      BY <1>0, <2>1, <2>2, <2>3, <2>4, HeldKept
  <1>2. ASSUME NEW r \in Requests, Hit(r) PROVE Held(c)'
    <2>1. /\ request'[r].pc # "store" /\ UNCHANGED <<deletedAt, eviction, holding, cache, flight>>
          /\ \A q \in Requests \ {r} : request'[q] = request[q]
      BY <1>2, TakeEffect DEF Hit
    <2>2. Held(c) /\ holding'[c] = holding[c]
      BY <2>1 DEF Remnants, Registered
    <2>3. QED
      BY <2>1, <2>2, HeldKept
  <1>3. ASSUME NEW r \in Requests, Store(r) PROVE Held(c)'
    <2>1. /\ request'[r].pc # "store" /\ UNCHANGED <<deletedAt, eviction, holding, flight>>
          /\ \A q \in Requests \ {r} : request'[q] = request[q]
      BY <1>3, TakeEffect DEF Store
    <2>2. Held(c)
      BY <2>1 DEF Remnants, Registered
    <2>3. ASSUME NEW k \in Kinds, NEW u \in Users PROVE HeldEntry(c, k, u)'
      <3>1. CASE <<k, <<c, u>>>> = <<request[r].kind, request[r].key>>
        <4>1. cache'[k][<<c, u>>].leader = request[r].config.leader
          BY <1>0, <1>3, <3>1 DEF Store, TypeOK
        <4>2. HeldHand(r, c)
          BY <2>2 DEF Held
        <4>3. QED
          BY <1>3, <2>1, <3>1, <4>1, <4>2 DEF HeldEntry, HeldHand, Store
      <3>2. CASE <<k, <<c, u>>>> # <<request[r].kind, request[r].key>>
        <4>1. cache'[k][<<c, u>>] = cache[k][<<c, u>>]
          BY <1>0, <1>3, <3>2 DEF Store, TypeOK
        <4>2. HeldEntry(c, k, u)
          BY <2>2 DEF Held
        <4>3. QED
          BY <2>1, <4>1, <4>2 DEF HeldEntry
      <3>3. QED
        BY <3>1, <3>2
    <2>4. ASSUME NEW u \in Users PROVE HeldReading(c, u)'
      BY <2>1, <2>2 DEF Held, HeldReading
    <2>5. ASSUME NEW q \in Requests PROVE HeldHand(q, c)'
      BY <2>1, <2>2 DEF Held, HeldHand, At
    <2>6. QED
      BY <2>3, <2>4, <2>5 DEF Held
  <1>4. ASSUME NEW key \in Keys, ReadRecord(key) PROVE Held(c)'
    <2>1. UNCHANGED <<deletedAt, eviction, holding, cache, request>> /\ Registered(key[1])
      BY <1>4 DEF ReadRecord
    <2>2. Held(c) /\ key[1] # c
      BY <2>1 DEF Remnants, Registered
    <2>3. \A u \in Users : flight'[<<c, u>>] = flight[<<c, u>>]
      BY <1>0, <1>4, <2>2 DEF ReadRecord, TypeOK
    <2>4. QED
      BY <2>1, <2>2, <2>3, HeldKept
  <1>5. ASSUME NEW key \in Keys, Fails(key) PROVE Held(c)'
    <2>1. Deliver(key, "failed", None) /\ UNCHANGED <<deletedAt, eviction, holding, cache>>
      BY <1>5, FailEffect
    <2>2. Held(c)
      BY <2>1 DEF Remnants, Registered
    <2>3. /\ \A other \in Keys : flight'[other] = None \/ flight'[other] = flight[other]
          /\ \A r \in Requests : request'[r].pc # "store" \/ request'[r] = request[r]
      BY <2>1, DeliverEffect
    <2>4. QED
      BY <1>0, <2>1, <2>2, <2>3, HeldKept
  <1>6. ASSUME NEW key \in Keys, Gives(key) PROVE Held(c)'
    <2>1. /\ Deliver(key, "store", Config(key)) /\ UNCHANGED <<deletedAt, eviction, holding, cache>>
          /\ flight[key].state = "checking"
      BY <1>6, GiveEffect
    <2>2. Held(c)
      BY <2>1 DEF Remnants, Registered
    <2>3. \A other \in Keys : flight'[other] = None \/ flight'[other] = flight[other]
      BY <2>1, DeliverEffect
    <2>4. ASSUME NEW r \in Requests PROVE HeldHand(r, c)'
      <3>1. CASE request'[r] = request[r]
        BY <2>1, <2>2, <3>1 DEF Held, HeldHand, At
      <3>2. CASE request'[r] # request[r]
        <4>1. /\ request'[r].key = key /\ request'[r].config.leader = flight[key].leader
          BY <2>1, <3>2, DeliverEffect DEF Config
        <4>2. key[1] = c => flight[key].leader \in holding[c]
          BY <2>1, <2>2 DEF Held, HeldReading, Keys
        <4>3. QED
          BY <2>1, <4>1, <4>2 DEF HeldHand
      <3>3. QED
        BY <3>1, <3>2
    <2>5. ASSUME NEW u \in Users PROVE HeldReading(c, u)'
      BY <1>0, <2>1, <2>2, <2>3 DEF Held, HeldReading
    <2>6. ASSUME NEW k \in Kinds, NEW u \in Users PROVE HeldEntry(c, k, u)'
      BY <2>1, <2>2 DEF Held, HeldEntry
    <2>7. QED
      BY <2>4, <2>5, <2>6 DEF Held
  <1>7. ASSUME NEW d \in Clusters, Deletes(d) PROVE Held(c)'
    <2>1. UNCHANGED <<cache, flight, request>>
      BY <1>7, DeleteEffect
    <2>2. CASE c = d
      <3>1. /\ Holders(c) \subseteq holding'[c]
            /\ eviction'[c] = Kinds \X Users \/ Cachers(c) \subseteq holding'[c]
        BY <1>7, <2>2 DEF Deletes, DeleteCluster, DeleteUnevicted, TypeOK
      <3>2. ASSUME NEW u \in Users PROVE HeldReading(c, u)'
        BY <2>1, <3>1 DEF HeldReading, Holders
      <3>3. ASSUME NEW r \in Requests PROVE HeldHand(r, c)'
        BY <2>1, <3>1 DEF HeldHand, Holders, At
      <3>4. ASSUME NEW k \in Kinds, NEW u \in Users PROVE HeldEntry(c, k, u)'
        <4>1. ASSUME cache[k][<<c, u>>] # None
              PROVE  cache[k][<<c, u>>].leader \in Cachers(c)
          <5>1. cache[k][<<c, u>>] \in Entries
            BY <4>1 DEF TypeOK, Keys
          <5>2. cache[k][<<c, u>>].leader \in Requests
            BY <5>1 DEF Entries
          <5>3. QED
            BY <4>1, <5>2 DEF Cachers
        <4>2. QED
          BY <2>1, <3>1, <4>1 DEF HeldEntry
      <3>5. QED
        BY <3>2, <3>3, <3>4 DEF Held
    <2>3. CASE c # d
      <3>1. holding'[c] = holding[c] /\ eviction'[c] = eviction[c] /\ deletedAt'[c] = deletedAt[c]
        BY <1>7, <2>3 DEF Deletes, DeleteCluster, DeleteUnevicted, TypeOK
      <3>2. Held(c)
        BY <3>1 DEF Remnants, Registered
      <3>3. QED
        BY <2>1, <3>1, <3>2, HeldKept
    <2>4. QED
      BY <2>2, <2>3
  <1>8. ASSUME NEW d \in Clusters, EvictKey(d) PROVE Held(c)'
    <2>1. PICK k \in Kinds, u \in Users :
              /\ cache' = [cache EXCEPT ![k][<<d, u>>] = None]
              /\ eviction' = [eviction EXCEPT ![d] = @ \ {<<k, u>>}]
              /\ UNCHANGED <<deletedAt, flight, request, holding>>
      BY <1>8 DEF EvictKey
    <2>2. Held(c) /\ <<d, u>> \in Keys
      BY <2>1 DEF Remnants, Registered, Keys
    <2>3. /\ cache'[k][<<d, u>>] = None
          /\ \A l \in Kinds, other \in Keys : cache'[l][other] \in {None, cache[l][other]}
      BY <2>1, <2>2, Emptied
    <2>4. ASSUME NEW l \in Kinds, NEW v \in Users
          PROVE  \/ cache'[l][<<c, v>>] = None
                 \/ /\ cache'[l][<<c, v>>] = cache[l][<<c, v>>]
                    /\ <<l, v>> \in eviction[c] => <<l, v>> \in eviction'[c]
      <3>1. CASE c = d /\ l = k /\ v = u
        BY <2>3, <3>1
      <3>2. CASE ~(c = d /\ l = k /\ v = u)
        <4>1. <<l, v>> \in eviction[c] => <<l, v>> \in eviction'[c]
          BY <2>1, <3>2 DEF TypeOK
        <4>2. QED
          BY <1>0, <2>3, <4>1
      <3>3. QED
        BY <3>1, <3>2
    <2>5. QED
      BY <2>1, <2>2, <2>4, HeldKept
  <1>9. ASSUME NEW k \in Kinds, NEW key \in Keys, Sweep(k, key) PROVE Held(c)'
    <2>1. /\ \A l \in Kinds, other \in Keys : cache'[l][other] \in {None, cache[l][other]}
          /\ UNCHANGED <<deletedAt, eviction, flight, request, holding>>
      BY <1>9, Emptied DEF Sweep
    <2>2. Held(c)
      BY <2>1 DEF Remnants, Registered
    <2>3. QED
      BY <1>0, <2>1, <2>2, HeldKept
  <1>10. CASE Tick \/ UNCHANGED vars
    <2>1. UNCHANGED <<deletedAt, eviction, cache, flight, request, holding>>
      BY <1>10 DEF Tick, vars
    <2>2. Held(c)
      BY <2>1 DEF Remnants, Registered
    <2>3. QED
      BY <2>1, <2>2, HeldKept
  <1>11. QED
    BY <1>1, <1>2, <1>3, <1>4, <1>5, <1>6, <1>7, <1>8, <1>9, <1>10, StepShapes

-----------------------------------------------------------------------------
(* Why a request fails.                                                    *)

LEMMA FailureStep ==
    ASSUME TypeOK, DeletedBefore, FailureHasCause, [Next]_vars
    PROVE  FailureHasCause'
  <1> DEFINE Cause(c) == ~Registered(c) \/ ~Usable(setup[c]) \/ c \in impaired
  <1>0. /\ \A r \in Requests : request'[r].key = request[r].key /\ request[r].key[1] \in Clusters
        /\ \A c \in Clusters : ~Registered(c) => ~Registered(c)'
        /\ setup' = setup
    BY Steady DEF TypeOK, Keys
  <1>1. ASSUME impaired \subseteq impaired',
               \A r \in Requests, c \in Clusters :
                   At(r, "failed")' /\ request[r].key[1] = c => At(r, "failed") \/ Cause(c)'
        PROVE  FailureHasCause'
    BY <1>0, <1>1 DEF FailureHasCause
  <1>2. ASSUME NEW r \in Requests, Moves(r) PROVE FailureHasCause'
    BY <1>1, <1>2, MoveEffect DEF At
  <1>3. ASSUME NEW r \in Requests, Hit(r) \/ Store(r) PROVE FailureHasCause'
    <2>1. /\ request'[r].pc \in {"load", "served"} /\ impaired' = impaired
          /\ \A q \in Requests \ {r} : request'[q] = request[q]
      BY <1>3, TakeEffect DEF Hit, Store
    <2>2. \A q \in Requests : At(q, "failed")' => At(q, "failed")
      BY <2>1 DEF At
    <2>3. QED
      BY <1>1, <2>1, <2>2
  <1>4. ASSUME NEW key \in Keys, Fails(key) PROVE FailureHasCause'
    <2>1. /\ Deliver(key, "failed", None)
          /\ impaired \subseteq impaired'
          /\ UNCHANGED <<setup, deletedAt>>
          /\ ~Registered(key[1]) \/ ~Usable(setup[key[1]]) \/ key[1] \in impaired'
      BY <1>4, FailEffect
    <2>2. Cause(key[1])'
      BY <2>1 DEF Registered
    <2>3. \A r \in Requests : At(r, "failed")' => At(r, "failed") \/ request[r].key = key
      BY <2>1, DeliverEffect DEF At
    <2>4. QED
      BY <1>1, <2>1, <2>2, <2>3
  <1>5. ASSUME NEW key \in Keys, ReadRecord(key) \/ Gives(key) PROVE FailureHasCause'
    BY <1>1, <1>5, GiveEffect, DeliverEffect DEF ReadRecord, At
  <1>6. ASSUME NEW c \in Clusters, Deletes(c) \/ EvictKey(c) PROVE FailureHasCause'
    BY <1>1, <1>6, DeleteEffect DEF EvictKey, At
  <1>7. ASSUME NEW k \in Kinds, NEW key \in Keys, Sweep(k, key) PROVE FailureHasCause'
    BY <1>1, <1>7 DEF Sweep, At
  <1>8. CASE Tick \/ UNCHANGED vars
    BY <1>1, <1>8 DEF Tick, vars, At
  <1>9. QED
    BY <1>2, <1>3, <1>4, <1>5, <1>6, <1>7, <1>8, StepShapes

-----------------------------------------------------------------------------
(* The theorems.                                                           *)

IInv ==
    /\ TypeOK /\ DeletedBefore
    /\ Identities /\ OwnIdentity
    /\ Timely /\ BoundedServing
    /\ Remnants /\ FailureHasCause

LEMMA Initially == ASSUME Init PROVE IInv
  <1> DEFINE New == [pc: {"new"}, key: Keys, kind: {"typed"}, due: {0}, cancelled: {FALSE},
                     clients: {{}}, config: {None}]
  <1>0. request \in [Requests -> New]
    BY DEF Init
  <1>1. /\ request \in [Requests -> RequestType] /\ ConfigWhileStoring
        /\ \A r \in Requests : request[r].pc = "new" /\ request[r].clients = {}
    <2>1. ASSUME NEW r \in Requests
          PROVE  /\ request[r] \in RequestType
                 /\ request[r].pc = "new" /\ request[r].clients = {} /\ request[r].config = None
      <3>1. request[r] \in New
        BY <1>0
      <3>2. ASSUME NEW new \in New
            PROVE  /\ new \in RequestType
                   /\ new.pc = "new" /\ new.clients = {} /\ new.config = None
        <4>1. /\ new.pc = "new" /\ new.kind = "typed" /\ new.due = 0 /\ new.cancelled = FALSE
              /\ new.clients = {} /\ new.config = None /\ new.key \in Keys
          OBVIOUS
        <4>2. /\ new.cancelled \in BOOLEAN
              /\ new.due \in Nat
              /\ new.clients \in SUBSET (Clients \X Times)
          <5>1. new.cancelled \in BOOLEAN
            BY <4>1, Zenon
          <5>2. new.due \in Nat
            BY <4>1
          <5>3. new.clients \in SUBSET (Clients \X Times)
            BY <4>1
          <5>4. QED
            BY <5>1, <5>2, <5>3
        <4>3. new = [pc |-> new.pc, key |-> new.key, kind |-> new.kind, due |-> new.due,
                     cancelled |-> new.cancelled, clients |-> new.clients,
                     config |-> new.config]
          OBVIOUS
        <4>4. new \in RequestType
          BY <4>1, <4>2, <4>3 DEF RequestType, Kinds
        <4>5. QED
          BY <4>1, <4>4
      <3>3. QED
        BY <3>1, <3>2
    <2>2. QED
      BY <1>0, <2>1 DEF ConfigWhileStoring
  <1>2. TypeOK
    BY <1>1, ClusterRouterAssumption DEF Init, TypeOK, RequestType, ConfigWhileStoring, Times
  <1>3. /\ clock = 0 /\ \A c \in Clusters : Registered(c) /\ Since(c) = clock
        /\ \A key \in Keys : flight[key] = None
        /\ \A k \in Kinds, key \in Keys : cache[k][key] = None
        /\ None.state = "none"
    BY DEF Init, Registered, Since, None
  <1>5. DeletedBefore /\ Identities /\ OwnIdentity
    BY <1>1, <1>3 DEF DeletedBefore, Identities, OwnIdentity, At
  <1>6. Timely /\ BoundedServing
    BY <1>1, <1>3 DEF Timely, TimelyReading, TimelyHand, TimelyEntry, BoundedServing, At
  <1>7. Remnants /\ FailureHasCause
    BY <1>1, <1>3 DEF Remnants, FailureHasCause, At
  <1>8. QED
    BY <1>2, <1>5, <1>6, <1>7 DEF IInv

LEMMA Inductive == ASSUME IInv, [Next]_vars PROVE IInv'
  <1>1. TypeOK' /\ DeletedBefore'
    BY TypeStep, Steady DEF IInv, DeletedBefore
  <1>2. Identities' /\ OwnIdentity'
    BY IdentityStep DEF IInv
  <1>3. Timely' /\ BoundedServing'
    BY TimeStep, ServingStep DEF IInv
  <1>4. Remnants' /\ FailureHasCause'
    BY RemnantsStep, FailureStep DEF IInv
  <1>5. QED
    BY <1>1, <1>2, <1>3, <1>4 DEF IInv

LEMMA Invariant == Spec => []IInv
  BY Initially, Inductive, PTL DEF Spec

\* Every variable of the router keeps its type, for any clusters, users, requests,
\* stored records, lifetimes and deadlines.
THEOREM TypeCorrect == Spec => []TypeOK
  <1>1. IInv => TypeOK
    BY DEF IInv
  <1>2. QED
    BY <1>1, Invariant, PTL

\* No sharing of readings or maps by any number of requests gives one of them a
\* client of another cluster or identity.
THEOREM IdentitiesApart == Spec => []OwnIdentity
  <1>1. IInv => OwnIdentity
    BY DEF IInv
  <1>2. QED
    BY <1>1, Invariant, PTL

\* Clients of a deleted cluster are handed out for less than LookupTime + TTL after
\* the deletion, whatever was under way then.
THEOREM ServingIsBounded == Spec => []BoundedServing
  <1>1. IInv => BoundedServing
    BY DEF IInv
  <1>2. QED
    BY <1>1, Invariant, PTL

\* After EvictCluster the maps hold of a deleted cluster at most what was made of a
\* record read before the deletion and used after it; after a deletion reported as
\* failed, of that and of what they had.
THEOREM EvictionLeavesHeldOnly == Spec => []EvictionIsComplete
  <1>1. IInv => EvictionIsComplete
    BY DEF IInv, Remnants, Held, HeldEntry, EvictionIsComplete
  <1>2. QED
    BY <1>1, Invariant, PTL

\* No request fails because another caller went away.
THEOREM FailuresHaveCauses == Spec => []FailureHasCause
  <1>1. IInv => FailureHasCause
    BY DEF IInv
  <1>2. QED
    BY <1>1, Invariant, PTL

=============================================================================
