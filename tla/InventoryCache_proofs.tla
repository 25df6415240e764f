----------------------- MODULE InventoryCache_proofs ------------------------
(***************************************************************************)
(* Proofs about InventoryCache: the types, that a guarded store never      *)
(* undoes an invalidation, that a keyed flight never answers with anything *)
(* older than the request's generation, that a detached flight fails for   *)
(* nobody else, and that every handler implements BoundedStaleness.        *)
(***************************************************************************)
EXTENDS InventoryCache, TLAPS

-----------------------------------------------------------------------------
(* The handlers' records.                                                  *)

Traits ==
    [readsGen: {"caller", "flight", "nobody"}, keyed: BOOLEAN, detached: BOOLEAN,
     rechecks: BOOLEAN, storesLocked: BOOLEAN, bumpsLocked: BOOLEAN,
     invalidated: BOOLEAN, core: Treatments, extra: Treatments,
     behind: SUBSET Kinds, quiet: SUBSET Kinds]

\* What the records have in common: a flight keyed by the generation has it from
\* its callers, and a handler that compares and stores under one lock also
\* clears and bumps under one and reads nothing through another cache.
Sound(t) ==
    /\ t \in Traits
    /\ t.keyed => t.readsGen = "caller" /\ t.storesLocked
    /\ t.storesLocked => t.bumpsLocked /\ t.behind = {}

Names ==
    {"externalsecrets", "certmanager", "velero", "gateway", "policy", "gitops",
     "appsets", "servicemesh", "fluxproviders", "fluxalerts", "fluxreceivers",
     "bgp", "ipam", "subsystems", "agents", "remote", "scanning", "limits"}

LEMMA HandlersSound == \A s \in Systems : Sound(Handler[s])
  <1>1. /\ Sound(ExternalSecrets) /\ Sound(CertManager) /\ Sound(Velero)
        /\ Sound(Gateway) /\ Sound(Policy) /\ Sound(GitOps)
    BY DEF Sound, Traits, Treatments, Kinds, ExternalSecrets, CertManager, Velero,
           Gateway, Policy, GitOps
  <1>2. /\ Sound(AppSets) /\ Sound(ServiceMesh) /\ Sound(FluxProviders)
        /\ Sound(FluxAlerts) /\ Sound(FluxReceivers) /\ Sound(CiliumBgp)
    BY DEF Sound, Traits, Treatments, Kinds, AppSets, ServiceMesh, FluxProviders,
           FluxAlerts, FluxReceivers, CiliumBgp
  <1>3. /\ Sound(CiliumIpam) /\ Sound(CiliumSubsystems) /\ Sound(CiliumAgents)
        /\ Sound(CertManagerRemote) /\ Sound(Scanning) /\ Sound(NamespaceLimits)
    BY DEF Sound, Traits, Treatments, Kinds, CiliumIpam, CiliumSubsystems,
           CiliumAgents, CertManagerRemote, Scanning, NamespaceLimits
  <1>4. DOMAIN Handler = Names
    BY DEF Handler, Names
  <1>5. \A s \in Names : Sound(Handler[s])
    BY <1>1, <1>2, <1>3 DEF Handler, Names
  <1>6. QED
    BY <1>4, <1>5, SystemsAssumption

-----------------------------------------------------------------------------
(* Types.                                                                  *)

Flight ==
    [state: {"listing", "storing"}, gen: 0 .. MaxGen, began: 0 .. MaxTime,
     left: BOOLEAN, data: Snapshots]

Entry == [state: {"stored"}, data: Complete, fetchedAt: 0 .. MaxTime]

Request == [state: {"idle", "missed", "waiting"}, asked: 0 .. MaxTime, gen: 0 .. MaxGen]

CompleteSlices == {s \in Slices : s.state \in {"listed", "kept", "reported", "dropped"}}

\* A flight that is about to store holds a finished snapshot, and a cache is
\* only cleared without its bump while there is a generation left.
Pending ==
    /\ \A key \in Keys : InFlight(key, "storing") => flights[key].data \in Complete
    /\ clearing => gen < MaxGen /\ ~h.bumpsLocked

Types == TypeOK /\ Pending

LEMMA SnapshotComplete ==
  ASSUME TypeOK, NEW f \in Flight, Listed(f)
  PROVE  Snapshot(f) \in Complete
  <1>1. SUFFICES ASSUME NEW k \in Kinds
                 PROVE  (IF Unlisted(f.data[k]) THEN Instead(k) ELSE f.data[k])
                            \in CompleteSlices
    BY DEF Snapshot, Complete, CompleteSlices
  <1>2. f.data[k] \in Slices /\ f.data[k].state # "pending"
    BY DEF Flight, Snapshots, Listed
  <1>3. CASE ~Unlisted(f.data[k])
    BY <1>2, <1>3 DEF Unlisted, Slices, CompleteSlices
  <1>4. CASE Unlisted(f.data[k])
    <2>1. Slice("dropped") \in CompleteSlices /\ Slice("reported") \in CompleteSlices
      BY TimesAssumption DEF Slice, Slices, CompleteSlices
    <2>2. cache # None => [cache.data[k] EXCEPT !.state = "kept"] \in CompleteSlices
      <3>1. cache # None => cache.data[k] \in Slices
        BY DEF TypeOK, None, Complete, Entry
      <3>2. QED
        BY <3>1 DEF Slices, CompleteSlices
    <2>3. QED
      BY <1>4, <2>1, <2>2 DEF Instead
  <1>5. QED
    BY <1>3, <1>4

LEMMA ReturnedType ==
  ASSUME TypeOK, NEW key
  PROVE  Returned(key) \in [Readers -> Request]
  BY TimesAssumption DEF TypeOK, Returned, Resting, Request

LEMMA GivenType ==
  ASSUME NEW R \in SUBSET Readers, NEW d \in Complete
  PROVE  Given(R, d) \in [state: {"data"}, to: SUBSET Readers, data: Complete]
  BY DEF Given

THEOREM TypesInit == Init => Types
  <1> SUFFICES ASSUME Init PROVE Types
    OBVIOUS
  <1>2. 0 \in 0 .. MaxTime /\ 0 \in 0 .. MaxGen
    BY TimesAssumption
  <1>3. flights \in [Keys -> {None}]
    BY DEF Init
  <1>4. reader \in [Readers -> Request]
    BY <1>2 DEF Init, Resting, Request
  <1>5. TypeOK
    BY <1>2, <1>3, <1>4 DEF Init, TypeOK, Request
  <1>6. Pending
    BY <1>3 DEF Init, Pending, InFlight, None
  <1>7. QED
    BY <1>5, <1>6 DEF Types

\* What a step has to keep of Types, with the sets above.
LEMMA TypesFolded ==
  TypeOK <=> /\ h \in {Handler[s] : s \in Systems}
             /\ clock \in 0 .. MaxTime
             /\ cache \in {None} \cup Entry
             /\ gen \in 0 .. MaxGen
             /\ clearing \in BOOLEAN
             /\ flights \in [Keys -> {None} \cup Flight]
             /\ reader \in [Readers -> Request]
             /\ answer \in {None}
                    \cup [state: {"data"}, to: SUBSET Readers, data: Complete]
                    \cup [state: {"error"}, to: SUBSET Readers, data: {NoSnapshot}]
  BY DEF TypeOK, Entry, Flight, Request

LEMMA KeyType == ASSUME TypeOK, NEW r \in Readers PROVE Key(r) \in Keys
  BY TimesAssumption DEF TypeOK, Key, Keys

LEMMA FlightType ==
  ASSUME TypeOK, NEW key \in Keys, flights[key] # None
  PROVE  flights[key] \in Flight
  BY TypesFolded

LEMMA SliceType == Slice("pending") \in Slices /\ Slice("failed") \in Slices
                       /\ Slice("ended") \in Slices /\ Slice("dropped") \in Slices
  BY TimesAssumption DEF Slice, Slices

\* A request that starts, joins or leaves a flight.
LEMMA TypesReader ==
  ASSUME Types, NEW r \in Readers, Hit(r) \/ Miss(r) \/ Lead(r) \/ Join(r)
  PROVE  Types'
  <1> USE TypesFolded, TimesAssumption
  <1>1. CASE Hit(r)
    <2>1. cache \in Entry
      BY <1>1 DEF Types, Hit, Fresh
    <2>2. answer' \in [state: {"data"}, to: SUBSET Readers, data: Complete]
      BY <1>1, <2>1, GivenType DEF Hit, Entry
    <2>3. TypeOK'
      BY <1>1, <2>2 DEF Types, Hit, TypeOK
    <2>4. QED
      BY <1>1, <2>3 DEF Types, Hit, Pending, InFlight
  <1>2. CASE Miss(r)
    <2>1. (IF h.readsGen = "caller" THEN gen ELSE 0) \in 0 .. MaxGen
      BY DEF Types
    <2>2. reader' \in [Readers -> Request]
      BY <1>2, <2>1 DEF Types, Miss, Request
    <2>3. TypeOK'
      BY <1>2, <2>2 DEF Types, Miss, TypeOK, Request
    <2>4. QED
      BY <1>2, <2>3 DEF Types, Miss, Pending, InFlight
  <1>3. CASE Lead(r)
    <2> DEFINE g == CASE h.readsGen = "caller" -> reader[r].gen
                      [] h.readsGen = "flight" -> gen
                      [] h.readsGen = "nobody" -> 0
               f == [state |-> "listing", gen |-> g, began |-> clock, left |-> FALSE,
                     data |-> NoSnapshot]
    <2>1. h.readsGen \in {"caller", "flight", "nobody"}
      BY HandlersSound DEF Types, Sound, Traits
    <2>2. g \in 0 .. MaxGen
      BY <2>1 DEF Types, Request
    <2>3. NoSnapshot \in Snapshots
      BY SliceType DEF NoSnapshot, Snapshots
    <2>4. f \in Flight
      BY <2>2, <2>3 DEF Types, Flight
    <2>5. /\ flights' = [flights EXCEPT ![Key(r)] = f]
          /\ reader' = [reader EXCEPT ![r].state = "waiting"]
          /\ answer' = None
          /\ UNCHANGED <<h, clock, cache, gen, clearing>>
      BY <1>3 DEF Lead
    <2> HIDE DEF f
    <2>6. flights' \in [Keys -> {None} \cup Flight]
      BY <2>4, <2>5 DEF Types
    <2>7. reader' \in [Readers -> Request]
      BY <2>5 DEF Types, Request
    <2>8. TypeOK'
      BY <2>5, <2>6, <2>7 DEF Types, TypeOK, Request, Flight
    <2>9. f.state = "listing"
      BY DEF f
    <2>10. Pending'
      BY <2>5, <2>9 DEF Types, Pending, InFlight, None
    <2>11. QED
      BY <2>8, <2>10 DEF Types
  <1>4. CASE Join(r)
    <2>1. reader' \in [Readers -> Request]
      BY <1>4 DEF Types, Join, Request
    <2>2. TypeOK'
      BY <1>4, <2>1 DEF Types, Join, TypeOK, Request
    <2>3. QED
      BY <1>4, <2>2 DEF Types, Join, Pending, InFlight
  <1>5. QED
    BY <1>1, <1>2, <1>3, <1>4

\* A step that only replaces one listing flight by a flight, or by none.
LEMMA TypesOneFlight ==
  ASSUME Types, NEW key \in Keys, NEW f \in {None} \cup Flight,
         f.state = "storing" => f.data \in Complete,
         flights' = [flights EXCEPT ![key] = f]
  PROVE  /\ flights' \in [Keys -> {None} \cup Flight]
         /\ \A l \in Keys : InFlight(l, "storing")' => flights'[l].data \in Complete
  <1>1. flights \in [Keys -> {None} \cup Flight]
    BY TypesFolded DEF Types
  <1>2. QED
    BY <1>1 DEF Types, Pending, InFlight

\* The list of one kind comes back, fails or is ended.
LEMMA TypesList ==
  ASSUME Types, NEW key \in Keys, NEW k \in Kinds, ListStep(key, k)
  PROVE  Types'
  <1> USE TimesAssumption
  <1>1. PICK s \in Slices : flights' = [flights EXCEPT ![key].data[k] = s]
    <2>1. CASE List(key, k)
      <3>1. Now \in 0 .. MaxGen
        BY TypesFolded DEF Types, Pending, Now
      <3>2. \A t \in 0 .. clock, g \in 0 .. Now :
                [state |-> "listed", at |-> t, gen |-> g] \in Slices
        BY <3>1, TypesFolded DEF Types, Slices
      <3>3. QED
        BY <2>1, <3>2 DEF List
    <2>2. CASE ListFails(key, k)
      BY <2>2, SliceType DEF ListFails
    <2>3. CASE ListEnds(key, k)
      BY <2>3, SliceType DEF ListEnds
    <2>4. CASE ListPanics(key, k)
      BY <2>4, SliceType DEF ListPanics
    <2>5. QED
      BY <2>1, <2>2, <2>3, <2>4 DEF ListStep
  <1>2. /\ InFlight(key, "listing")
        /\ answer' = None
        /\ UNCHANGED <<h, clock, cache, gen, clearing, reader>>
    BY DEF ListStep, List, ListFails, ListPanics, ListEnds
  <1>3. flights[key] \in Flight /\ flights[key].state = "listing"
    BY <1>2, FlightType DEF Types, InFlight
  <1> DEFINE f == [flights[key] EXCEPT !.data[k] = s]
  <1>4. f \in Flight /\ f.state = "listing"
    BY <1>3 DEF Flight, Snapshots
  <1>5. flights' = [flights EXCEPT ![key] = f]
    BY <1>1, <1>3, TypesFolded DEF Types
  <1> HIDE DEF f
  <1>6. /\ flights' \in [Keys -> {None} \cup Flight]
        /\ \A l \in Keys : InFlight(l, "storing")' => flights'[l].data \in Complete
    BY <1>4, <1>5, TypesOneFlight
  <1>7. TypeOK'
    BY <1>2, <1>6 DEF Types, TypeOK, Flight
  <1>8. QED
    BY <1>2, <1>6, <1>7 DEF Types, Pending

LEMMA TypesLeave ==
  ASSUME Types, NEW key \in Keys, Leave(key)
  PROVE  Types'
  <1> DEFINE f == [flights[key] EXCEPT !.left = TRUE]
  <1>1. flights[key] \in Flight
    BY FlightType DEF Types, Leave
  <1>2. f \in Flight /\ f.state = flights[key].state /\ f.data = flights[key].data
    BY <1>1 DEF Flight
  <1>3. flights' = [flights EXCEPT ![key] = f]
    BY <1>1, TypesFolded DEF Leave, Types
  <1> HIDE DEF f
  <1>4. f.state = "storing" => f.data \in Complete
    BY <1>1, <1>2 DEF Types, Pending, InFlight, Leave
  <1>5. /\ flights' \in [Keys -> {None} \cup Flight]
        /\ \A l \in Keys : InFlight(l, "storing")' => flights'[l].data \in Complete
    BY <1>2, <1>3, <1>4, TypesOneFlight
  <1>6. TypeOK'
    BY <1>5 DEF Types, TypeOK, Flight, Leave
  <1>7. QED
    BY <1>5, <1>6 DEF Types, Pending, Leave

\* A listing flight ends, or goes on to its store.
LEMMA TypesFinish ==
  ASSUME Types, NEW key \in Keys, FinishStep(key)
  PROVE  Types'
  <1> USE TimesAssumption
  <1>1. flights[key] \in Flight
    <2>1. flights[key] # None
      BY DEF FinishStep, FinishFails, Finish, FinishUnstored, Compare, Store, InFlight
    <2>2. QED
      BY <2>1, FlightType DEF Types
  <1>2. Waiters(key) \in SUBSET Readers
    BY DEF Waiters
  <1>3. Returned(key) \in [Readers -> Request]
    BY ReturnedType DEF Types
  <1>4. Listed(flights[key]) => Snapshot(flights[key]) \in Complete
    BY <1>1, SnapshotComplete DEF Types
  <1>5. None \in {None} \cup Flight /\ None.state # "storing"
    BY DEF None
  <1>6. \A d \in Complete : Stored(d) \in Entry
    BY TypesFolded DEF Types, Stored, Entry
  <1>7. CASE FinishFails(key)
    <2>1. /\ flights' \in [Keys -> {None} \cup Flight]
          /\ \A l \in Keys : InFlight(l, "storing")' => flights'[l].data \in Complete
      BY <1>5, <1>7, TypesOneFlight DEF FinishFails
    <2>2. answer' \in [state: {"error"}, to: SUBSET Readers, data: {NoSnapshot}]
      BY <1>2, <1>7 DEF FinishFails, Error
    <2>3. TypeOK'
      BY <1>3, <1>7, <2>1, <2>2 DEF Types, TypeOK, Flight, Request, FinishFails
    <2>4. QED
      BY <1>7, <2>1, <2>3 DEF Types, Pending, FinishFails
  <1>8. CASE Finish(key) \/ FinishUnstored(key)
    <2>1. /\ flights' = [flights EXCEPT ![key] = None]
          /\ reader' = Returned(key)
          /\ Listed(flights[key])
          /\ answer' = Given(Waiters(key), Snapshot(flights[key]))
          /\ cache' \in {cache, Stored(Snapshot(flights[key]))}
          /\ UNCHANGED <<h, clock, gen, clearing>>
      BY <1>8 DEF Finish, FinishUnstored
    <2>2. /\ flights' \in [Keys -> {None} \cup Flight]
          /\ \A l \in Keys : InFlight(l, "storing")' => flights'[l].data \in Complete
      BY <1>5, <2>1, TypesOneFlight
    <2>3. answer' \in [state: {"data"}, to: SUBSET Readers, data: Complete]
      BY <1>2, <1>4, <2>1, GivenType
    <2>4. cache' \in {None} \cup Entry
      BY <1>4, <1>6, <2>1, TypesFolded DEF Types
    <2>5. TypeOK'
      BY <1>3, <2>1, <2>2, <2>3, <2>4 DEF Types, TypeOK, Flight, Request, Entry
    <2>6. QED
      BY <2>1, <2>2, <2>5 DEF Types, Pending
  <1>9. CASE Compare(key)
    <2> DEFINE f == [flights[key] EXCEPT !.state = "storing", !.data = Snapshot(flights[key])]
    <2>1. /\ flights' = [flights EXCEPT ![key] = f]
          /\ Listed(flights[key])
          /\ answer' = None
          /\ UNCHANGED <<h, clock, cache, gen, clearing, reader>>
      BY <1>9 DEF Compare
    <2>2. Complete \subseteq Snapshots
      BY DEF Complete, Snapshots
    <2>3. f \in Flight /\ f.data \in Complete
      BY <1>1, <1>4, <2>1, <2>2 DEF Flight
    <2> HIDE DEF f
    <2>4. /\ flights' \in [Keys -> {None} \cup Flight]
          /\ \A l \in Keys : InFlight(l, "storing")' => flights'[l].data \in Complete
      BY <2>1, <2>3, TypesOneFlight
    <2>5. TypeOK'
      BY <2>1, <2>4 DEF Types, TypeOK, Flight
    <2>6. QED
      BY <2>1, <2>4, <2>5 DEF Types, Pending
  <1>10. CASE Store(key)
    <2>1. flights[key].data \in Complete
      BY <1>10 DEF Types, Pending, Store
    <2>2. /\ flights' \in [Keys -> {None} \cup Flight]
          /\ \A l \in Keys : InFlight(l, "storing")' => flights'[l].data \in Complete
      BY <1>5, <1>10, TypesOneFlight DEF Store
    <2>3. answer' \in [state: {"data"}, to: SUBSET Readers, data: Complete]
      BY <1>2, <1>10, <2>1, GivenType DEF Store
    <2>4. cache' \in {None} \cup Entry
      BY <1>6, <1>10, <2>1 DEF Store
    <2>5. TypeOK'
      BY <1>3, <1>10, <2>2, <2>3, <2>4 DEF Types, TypeOK, Flight, Request, Entry, Store
    <2>6. QED
      BY <1>10, <2>2, <2>5 DEF Types, Pending, Store
  <1>11. QED
    BY <1>7, <1>8, <1>9, <1>10 DEF FinishStep

LEMMA TypesRest ==
  ASSUME Types, Invalidate \/ Clear \/ Bump \/ Tick \/ UNCHANGED vars
  PROVE  Types'
  <1> USE TimesAssumption
  <1>1. CASE Invalidate
    <2>1. gen' \in 0 .. MaxGen
      BY <1>1, TypesFolded DEF Types, Invalidate
    <2>2. ~clearing
      BY <1>1 DEF Types, Pending, Invalidate
    <2>3. QED
      BY <1>1, <2>1, <2>2 DEF Types, TypeOK, Pending, InFlight, Invalidate
  <1>2. CASE Clear
    BY <1>2 DEF Types, TypeOK, Pending, InFlight, Clear
  <1>3. CASE Bump
    <2>1. gen' \in 0 .. MaxGen
      BY <1>3, TypesFolded DEF Types, Pending, Bump
    <2>2. QED
      BY <1>3, <2>1 DEF Types, TypeOK, Pending, InFlight, Bump
  <1>4. CASE Tick
    <2>1. clock' \in 0 .. MaxTime
      BY <1>4, TypesFolded DEF Types, Tick
    <2>2. QED
      BY <1>4, <2>1 DEF Types, TypeOK, Pending, InFlight, Tick
  <1>5. CASE UNCHANGED vars
    BY <1>5 DEF Types, TypeOK, Pending, InFlight, vars
  <1>6. QED
    BY <1>1, <1>2, <1>3, <1>4, <1>5

THEOREM TypesNext == Types /\ [Next]_vars => Types'
  BY TypesReader, TypesList, TypesLeave, TypesFinish, TypesRest DEF Next

\* Every variable keeps its type; a snapshot that is stored or given away holds
\* no list that is pending, has failed or was ended.
THEOREM TypeCorrect == Spec => []TypeOK
  <1>1. Init => Types
    BY TypesInit
  <1>2. Types /\ [Next]_vars => Types'
    BY TypesNext
  <1>3. Types => TypeOK
    BY DEF Types
  <1>4. QED
    BY <1>1, <1>2, <1>3, PTL DEF Spec

-----------------------------------------------------------------------------
(* Generations.  InvalidationSticks is about the cache alone; to preserve   *)
(* it, what the flights carry must be known too: nothing in a flight was    *)
(* listed before the generation that will guard its store.                  *)

Ordered ==
    /\ \A r \in Readers : reader[r].state # "idle" => reader[r].gen <= gen
    /\ \A key \in Keys : flights[key] # None =>
           /\ flights[key].gen <= gen
           /\ h.keyed => flights[key].gen = key
           /\ flights[key].state = "storing" => ~h.storesLocked

Since(f) ==
    \A k \in Kinds : Full(f.data[k]) => f.gen <= f.data[k].gen /\ f.data[k].gen <= gen

Gens ==
    /\ Types
    /\ Ordered
    /\ Guarded => \A key \in Keys : flights[key] # None => Since(flights[key])
    /\ InvalidationSticks

LEMMA HSound == ASSUME TypeOK PROVE Sound(h)
  BY HandlersSound DEF TypeOK

LEMMA GuardedFacts ==
  ASSUME Types, Guarded
  PROVE  /\ h.bumpsLocked /\ h.storesLocked /\ h.behind = {}
         /\ clearing = FALSE /\ Now = gen
  BY HSound DEF Types, TypeOK, Guarded, Sound, Pending, Now

LEMMA KeyedGuarded == ASSUME Types, h.keyed PROVE Guarded /\ h.readsGen = "caller"
  BY HSound DEF Types, Guarded, Sound

\* A finished snapshot of a guarded handler holds nothing older than the flight's
\* generation, the slices it keeps included.
LEMMA SnapshotSince ==
  ASSUME Gens, Guarded, NEW key \in Keys, flights[key] # None, NEW k \in Kinds,
         Full(Snapshot(flights[key])[k])
  PROVE  /\ flights[key].gen <= Snapshot(flights[key])[k].gen
         /\ Snapshot(flights[key])[k].gen <= gen
  <1> DEFINE f == flights[key]
  <1>1. f \in Flight /\ gen \in Nat /\ f.gen \in Nat /\ f.gen <= gen
    BY FlightType, TypesFolded, TimesAssumption DEF Gens, Types, Flight, Ordered
  <1>2. CASE ~Unlisted(f.data[k])
    BY <1>2 DEF Gens, Since, Snapshot
  <1>3. CASE Unlisted(f.data[k])
    <2>1. Snapshot(f)[k] = Instead(k)
      BY <1>3 DEF Snapshot
    <2>2. ~Full(Slice("dropped")) /\ ~Full(Slice("reported"))
      BY DEF Full, Slice
    <2>3. /\ cache # None /\ Full(cache.data[k])
          /\ Instead(k) = [cache.data[k] EXCEPT !.state = "kept"]
      BY <2>1, <2>2 DEF Instead
    <2>4. cache.data[k].gen = gen
      BY <2>3 DEF Gens, InvalidationSticks
    <2>5. cache.data[k] \in Slices
      BY <2>3, TypesFolded DEF Gens, Types, Entry, Complete
    <2>6. Instead(k).gen = gen
      BY <2>3, <2>4, <2>5 DEF Slices
    <2>7. QED
      BY <1>1, <2>1, <2>6
  <1>4. QED
    BY <1>2, <1>3

LEMMA GensInit == Init => Gens
  <1> SUFFICES ASSUME Init PROVE Gens
    OBVIOUS
  <1>1. Types
    BY TypesInit
  <1>2. \A key \in Keys : flights[key] = None
    BY DEF Init
  <1>3. \A r \in Readers : reader[r].state = "idle"
    BY DEF Init, Resting
  <1>4. InvalidationSticks
    BY DEF Init, InvalidationSticks
  <1>5. QED
    BY <1>1, <1>2, <1>3, <1>4 DEF Gens, Ordered

\* A request reads the generation of the moment, and its flight is guarded by
\* that one or by the generation of the flight's own beginning.
LEMMA GensReader ==
  ASSUME Gens, NEW r \in Readers, Hit(r) \/ Miss(r) \/ Lead(r) \/ Join(r)
  PROVE  Gens'
  <1> USE TimesAssumption
  <1>1. Types /\ Types'
    BY TypesReader DEF Gens
  <1>2. UNCHANGED <<h, cache, gen>>
    BY DEF Hit, Miss, Lead, Join
  <1>3. InvalidationSticks'
    BY <1>2 DEF Gens, InvalidationSticks, Guarded
  <1>4. reader \in [Readers -> Request] /\ gen \in 0 .. MaxGen
        /\ flights \in [Keys -> {None} \cup Flight]
    BY <1>1, TypesFolded DEF Types
  <1>5. CASE Hit(r)
    BY <1>1, <1>3, <1>5 DEF Gens, Ordered, Since, Hit, Guarded
  <1>6. CASE Join(r)
    <2>1. /\ reader' = [reader EXCEPT ![r].state = "waiting"]
          /\ reader[r].state = "missed"
          /\ UNCHANGED <<h, cache, gen, flights>>
      BY <1>6 DEF Join
    <2>2. \A q \in Readers : reader'[q].state # "idle" => reader'[q].gen <= gen
      BY <1>4, <2>1 DEF Gens, Ordered, Request
    <2>3. QED
      BY <1>1, <1>3, <2>1, <2>2 DEF Gens, Ordered, Since, Guarded
  <1>7. CASE Miss(r)
    <2>1. /\ reader' = [reader EXCEPT ![r] = [state |-> "missed", asked |-> clock,
                            gen |-> IF h.readsGen = "caller" THEN gen ELSE 0]]
          /\ UNCHANGED <<h, cache, gen, flights>>
      BY <1>7 DEF Miss
    <2>2. \A q \in Readers : reader'[q].state # "idle" => reader'[q].gen <= gen
      BY <1>4, <2>1 DEF Gens, Ordered, Request
    <2>3. QED
      BY <1>1, <1>3, <2>1, <2>2 DEF Gens, Ordered, Since, Guarded
  <1>8. CASE Lead(r)
    <2>1. /\ reader' = [reader EXCEPT ![r].state = "waiting"]
          /\ reader[r].state = "missed"
          /\ UNCHANGED <<h, cache, gen>>
      BY <1>8 DEF Lead
    <2>2. Key(r) \in Keys
      BY <1>1, KeyType DEF Types
    <2>3. \A q \in Readers : reader'[q].state # "idle" => reader'[q].gen <= gen
      BY <1>4, <2>1 DEF Gens, Ordered, Request
    <2>4. PICK f : /\ flights' = [flights EXCEPT ![Key(r)] = f]
                   /\ f.state = "listing"
                   /\ f.data = NoSnapshot
                   /\ h.readsGen = "caller" => f.gen = reader[r].gen
                   /\ h.readsGen = "flight" => f.gen = gen
                   /\ h.readsGen = "nobody" => f.gen = 0
      <3> DEFINE g == CASE h.readsGen = "caller" -> reader[r].gen
                        [] h.readsGen = "flight" -> gen
                        [] h.readsGen = "nobody" -> 0
                 f == [state |-> "listing", gen |-> g, began |-> clock,
                       left |-> FALSE, data |-> NoSnapshot]
      <3>1. flights' = [flights EXCEPT ![Key(r)] = f]
        BY <1>8 DEF Lead
      <3>2. /\ h.readsGen = "caller" => g = reader[r].gen
            /\ h.readsGen = "flight" => g = gen
            /\ h.readsGen = "nobody" => g = 0
        OBVIOUS
      <3> HIDE DEF g
      <3>3. f.state = "listing" /\ f.data = NoSnapshot /\ f.gen = g
        OBVIOUS
      <3> HIDE DEF f
      <3>4. QED
        BY <3>1, <3>2, <3>3
    <2>5. /\ flights'[Key(r)] = f
          /\ \A key \in Keys : key # Key(r) => flights'[key] = flights[key]
      BY <1>4, <2>2, <2>4
    <2>6. h.readsGen \in {"caller", "flight", "nobody"}
      BY <1>1, HSound DEF Types, Sound, Traits
    <2>7. f.gen <= gen
      BY <1>4, <2>1, <2>4, <2>6 DEF Gens, Ordered, Request
    <2>8. h.keyed => f.gen = Key(r)
      BY <1>1, <2>4, KeyedGuarded DEF Key
    <2>9. Ordered'
      BY <2>1, <2>3, <2>4, <2>5, <2>7, <2>8 DEF Gens, Ordered
    <2>10. \A k \in Kinds : ~Full(f.data[k])
      BY <2>4 DEF NoSnapshot, Full, Slice
    <2>11. Guarded' => \A key \in Keys : flights'[key] # None => Since(flights[key])'
      BY <2>1, <2>5, <2>10 DEF Gens, Since, Guarded
    <2>12. QED
      BY <1>1, <1>3, <2>9, <2>11 DEF Gens
  <1>9. QED
    BY <1>5, <1>6, <1>7, <1>8

\* A step of one flight that stays in the air: what it carries is still bounded.
LEMMA GensOneFlight ==
  ASSUME Gens, Types', NEW key \in Keys, flights[key] # None, NEW f \in Flight,
         flights' = [flights EXCEPT ![key] = f],
         UNCHANGED <<h, cache, gen, reader>>,
         f.gen = flights[key].gen,
         f.state = flights[key].state \/ ~h.storesLocked,
         Guarded => Since(f)
  PROVE  Gens'
  <1>1. flights \in [Keys -> {None} \cup Flight]
    BY TypesFolded DEF Gens, Types
  <1>2. flights'[key] = f /\ \A l \in Keys : l # key => flights'[l] = flights[l]
    BY <1>1
  <1>3. Ordered'
    BY <1>2 DEF Gens, Ordered
  <1>4. InvalidationSticks'
    BY DEF Gens, InvalidationSticks, Guarded
  <1>5. Guarded' => \A l \in Keys : flights'[l] # None => Since(flights[l])'
    BY <1>2 DEF Gens, Since, Guarded
  <1>6. QED
    BY <1>3, <1>4, <1>5 DEF Gens

LEMMA GensFlight ==
  ASSUME Gens, NEW key \in Keys, (\E k \in Kinds : ListStep(key, k)) \/ Leave(key)
  PROVE  Gens'
  <1> USE TimesAssumption
  <1>1. Types /\ Types'
    BY TypesList, TypesLeave DEF Gens
  <1>2. /\ flights[key] # None
        /\ UNCHANGED <<h, cache, gen, reader>>
    BY DEF ListStep, List, ListFails, ListPanics, ListEnds, Leave, InFlight
  <1>3. flights \in [Keys -> {None} \cup Flight] /\ flights[key] \in Flight
        /\ gen \in 0 .. MaxGen
    BY <1>1, <1>2, TypesFolded DEF Types
  <1>4. CASE Leave(key)
    <2> DEFINE f == [flights[key] EXCEPT !.left = TRUE]
    <2>1. flights' = [flights EXCEPT ![key] = f]
      BY <1>3, <1>4 DEF Leave
    <2>2. f \in Flight /\ f.gen = flights[key].gen /\ f.state = flights[key].state
          /\ f.data = flights[key].data
      BY <1>3 DEF Flight
    <2>3. Guarded => Since(f)
      BY <1>2, <2>2 DEF Gens, Since
    <2> HIDE DEF f
    <2>4. QED
      BY <1>1, <1>2, <2>1, <2>2, <2>3, GensOneFlight
  <1>5. ASSUME NEW k \in Kinds, ListStep(key, k) PROVE Gens'
    <2>1. PICK s : /\ flights' = [flights EXCEPT ![key].data[k] = s]
                   /\ Guarded /\ Full(s) => s.gen = Now
      <3> DEFINE Brought(s) == flights' = [flights EXCEPT ![key].data[k] = s]
                 Fits(s) == Guarded /\ Full(s) => s.gen = Now
      <3>1. Guarded => k \notin h.behind
        BY <1>1, GuardedFacts
      <3>2. CASE List(key, k)
        <4>1. PICK t \in 0 .. clock, g \in 0 .. Now :
                /\ k \notin h.behind => g = Now
                /\ Brought([state |-> "listed", at |-> t, gen |-> g])
          BY <3>2 DEF List
        <4>2. Fits([state |-> "listed", at |-> t, gen |-> g])
          BY <3>1, <4>1
        <4>3. QED
          BY <4>1, <4>2
      <3>3. CASE ListFails(key, k)
        <4>1. Brought(Slice("failed")) /\ Fits(Slice("failed"))
          BY <3>3 DEF ListFails, Full, Slice
        <4>2. QED
          BY <4>1
      <3>4. CASE ListPanics(key, k)
        <4>1. Brought(Slice("dropped")) /\ Fits(Slice("dropped"))
          BY <3>4 DEF ListPanics, Full, Slice
        <4>2. QED
          BY <4>1
      <3>5. CASE ListEnds(key, k)
        <4>1. Brought(Slice("ended")) /\ Fits(Slice("ended"))
          BY <3>5 DEF ListEnds, Full, Slice
        <4>2. QED
          BY <4>1
      <3>6. QED
        BY <1>5, <3>2, <3>3, <3>4, <3>5 DEF ListStep
    <2> DEFINE f == [flights[key] EXCEPT !.data[k] = s]
    <2>2. flights' = [flights EXCEPT ![key] = f]
      BY <1>3, <2>1
    <2>3. f \in Flight
      <3>1. f = flights'[key]
        BY <1>3, <2>2
      <3>2. f # None
        BY <1>3 DEF Flight, None
      <3>3. flights' \in [Keys -> {None} \cup Flight]
        BY <1>1, TypesFolded DEF Types, TypeOK, Flight
      <3>4. QED
        BY <3>1, <3>2, <3>3
    <2>4. /\ f.gen = flights[key].gen /\ f.state = flights[key].state
          /\ f.data = [flights[key].data EXCEPT ![k] = s]
      BY <1>3 DEF Flight
    <2>5. f.data[k] = s /\ \A l \in Kinds : l # k => f.data[l] = flights[key].data[l]
      BY <1>3, <2>4 DEF Flight, Snapshots
    <2> HIDE DEF f
    <2>6. ASSUME Guarded PROVE Since(f)
      <3>1. Now = gen
        BY <1>1, <2>6, GuardedFacts
      <3>2. Since(flights[key]) /\ flights[key].gen <= gen
        BY <1>2, <2>6 DEF Gens, Ordered
      <3>3. gen <= gen
        BY <1>3
      <3>4. QED
        BY <2>1, <2>4, <2>5, <2>6, <3>1, <3>2, <3>3 DEF Since
    <2>7. QED
      BY <1>1, <1>2, <2>2, <2>3, <2>4, <2>6, GensOneFlight
  <1>6. QED
    BY <1>4, <1>5

LEMMA GensFinish ==
  ASSUME Gens, NEW key \in Keys, FinishStep(key)
  PROVE  Gens'
  <1> USE TimesAssumption
  <1>1. Types /\ Types'
    BY TypesFinish DEF Gens
  <1>2. /\ flights[key] # None
        /\ UNCHANGED <<h, gen>>
    BY DEF FinishStep, FinishFails, Finish, FinishUnstored, Compare, Store, InFlight
  <1>3. /\ flights \in [Keys -> {None} \cup Flight]
        /\ flights[key] \in Flight
        /\ reader \in [Readers -> Request]
        /\ gen \in 0 .. MaxGen
    BY <1>1, <1>2, TypesFolded DEF Types
  <1>4. CASE Compare(key)
    <2> DEFINE f == [flights[key] EXCEPT !.state = "storing", !.data = Snapshot(flights[key])]
    <2>1. /\ flights' = [flights EXCEPT ![key] = f]
          /\ ~h.storesLocked
          /\ UNCHANGED <<h, cache, gen, reader>>
      BY <1>4 DEF Compare
    <2>2. f.gen = flights[key].gen /\ f.state = "storing"
      BY <1>3 DEF Flight
    <2>3. f \in Flight
      <3>1. f = flights'[key]
        BY <1>3, <2>1
      <3>2. flights' \in [Keys -> {None} \cup Flight]
        BY <1>1, TypesFolded DEF Types, TypeOK, Flight
      <3>3. f # None
        BY <2>2 DEF None
      <3> HIDE DEF f
      <3>4. QED
        BY <3>1, <3>2, <3>3
    <2>4. ~Guarded
      BY <2>1 DEF Guarded
    <2> HIDE DEF f
    <2>5. QED
      BY <1>1, <1>2, <2>1, <2>2, <2>3, <2>4, GensOneFlight
  <1>5. CASE ~Compare(key)
    <2>1. /\ flights' = [flights EXCEPT ![key] = None]
          /\ reader' = Returned(key)
      BY <1>5 DEF FinishStep, FinishFails, Finish, FinishUnstored, Store
    <2>2. \A r \in Readers : reader'[r].state # "idle" => reader'[r] = reader[r]
      BY <2>1 DEF Returned, Resting
    <2>3. \A l \in Keys : flights'[l] # None => flights'[l] = flights[l]
      BY <1>3, <2>1
    <2>4. Ordered'
      BY <1>2, <2>2, <2>3 DEF Gens, Ordered
    <2>5. Guarded' => \A l \in Keys : flights'[l] # None => Since(flights[l])'
      BY <1>2, <2>3 DEF Gens, Since, Guarded
    <2>6. InvalidationSticks'
      <3>1. CASE UNCHANGED cache
        BY <1>2, <3>1 DEF Gens, InvalidationSticks, Guarded
      <3>2. CASE ~Guarded
        BY <1>2, <3>2 DEF InvalidationSticks, Guarded
      <3>3. ASSUME Guarded, cache' # cache PROVE InvalidationSticks'
        <4>1. ~Store(key)
          BY <1>1, <1>2, <3>3, GuardedFacts DEF Gens, Ordered, Store, InFlight
        <4>2. Finish(key)
          BY <1>5, <3>3, <4>1 DEF FinishStep, FinishFails, FinishUnstored
        <4>3. /\ cache' = Stored(Snapshot(flights[key]))
              /\ MayStore(flights[key])
          BY <3>3, <4>2 DEF Finish
        <4>4. flights[key].gen = gen
          BY <3>3, <4>3 DEF MayStore, Guarded
        <4>5. \A k \in Kinds : Full(cache'.data[k]) => cache'.data[k].gen = gen
          <5>1. cache'.data = Snapshot(flights[key])
            BY <4>3 DEF Stored
          <5>2. \A k \in Kinds : Snapshot(flights[key])[k] \in Slices
            <6>1. Snapshot(flights[key]) \in Complete
              BY <1>1, <1>3, <4>2, SnapshotComplete DEF Types, Finish
            <6>2. QED
              BY <6>1 DEF Complete
          <5>3. QED
            BY <1>2, <1>3, <3>3, <4>4, <5>1, <5>2, SnapshotSince DEF Slices
        <4>6. QED
          BY <1>2, <4>5 DEF InvalidationSticks, Full
      <3>4. QED
        BY <3>1, <3>2, <3>3
    <2>7. QED
      BY <1>1, <2>4, <2>5, <2>6 DEF Gens
  <1>6. QED
    BY <1>4, <1>5

LEMMA GensRest ==
  ASSUME Gens, Invalidate \/ Clear \/ Bump \/ Tick \/ UNCHANGED vars
  PROVE  Gens'
  <1> USE TimesAssumption
  <1>1. Types /\ Types'
    BY TypesRest DEF Gens
  <1>2. UNCHANGED <<h, flights, reader>>
    BY DEF Invalidate, Clear, Bump, Tick, vars
  <1>3. gen \in 0 .. MaxGen /\ gen' \in {gen, gen + 1}
    BY <1>1, TypesFolded DEF Types, Invalidate, Clear, Bump, Tick, vars
  <1>4. flights \in [Keys -> {None} \cup Flight] /\ reader \in [Readers -> Request]
    BY <1>1, TypesFolded DEF Types
  <1>5. \A key \in Keys : flights[key] # None =>
            flights[key].gen \in Nat /\ \A k \in Kinds : flights[key].data[k].gen \in Nat
    <2>1. \A key \in Keys : flights[key] # None => flights[key] \in Flight
      BY <1>4
    <2>2. QED
      BY <2>1 DEF Flight, Snapshots, Slices
  <1>6. \A r \in Readers : reader[r].gen \in Nat
    BY <1>4 DEF Request
  <1>7. Ordered'
    BY <1>2, <1>3, <1>5, <1>6 DEF Gens, Ordered
  <1>8. Guarded' => \A key \in Keys : flights'[key] # None => Since(flights[key])'
    BY <1>2, <1>3, <1>5 DEF Gens, Since, Guarded
  <1>9. InvalidationSticks'
    <2>1. CASE Invalidate \/ Clear
      BY <2>1 DEF Invalidate, Clear, InvalidationSticks
    <2>2. CASE Bump
      BY <1>1, <2>2, GuardedFacts DEF Bump, InvalidationSticks, Guarded
    <2>3. CASE UNCHANGED <<h, cache, gen>>
      BY <2>3 DEF Gens, InvalidationSticks, Guarded
    <2>4. QED
      BY <2>1, <2>2, <2>3 DEF Tick, vars
  <1>10. QED
    BY <1>1, <1>7, <1>8, <1>9 DEF Gens

THEOREM GensNext == Gens /\ [Next]_vars => Gens'
  BY GensReader, GensFlight, GensFinish, GensRest DEF Next

THEOREM GensInvariant == Spec => []Gens
  BY GensInit, GensNext, PTL DEF Spec

\* No guarded store puts anything into the cache that was listed before the last
\* invalidation, for any number of requests, flights and invalidations.
THEOREM StoresNeverUndoInvalidation == Spec => []InvalidationSticks
  <1>1. Gens => InvalidationSticks
    BY DEF Gens
  <1>2. QED
    BY <1>1, GensInvariant, PTL

\* A request is answered by nothing listed before the generation it read, where
\* the flights are keyed by it.
THEOREM KeyedAnswersAreFresh == Spec => AnswersFollowInvalidation
  <1> DEFINE A == \A r \in Readers :
                    h.keyed /\ reader[r].state = "waiting" /\ answer'.state = "data"
                            /\ r \in answer'.to
                      => \A k \in Kinds : Full(answer'.data[k]) =>
                             answer'.data[k].gen >= reader[r].gen
  <1>1. Gens /\ [Next]_vars => [A]_vars
    <2> SUFFICES ASSUME Gens, Next, NEW r \in Readers, h.keyed,
                        reader[r].state = "waiting", answer'.state = "data",
                        r \in answer'.to, NEW k \in Kinds, Full(answer'.data[k])
                 PROVE  answer'.data[k].gen >= reader[r].gen
      OBVIOUS
    <2> USE TimesAssumption
    <2>1. Types /\ Guarded /\ h.readsGen = "caller" /\ h.storesLocked
      BY KeyedGuarded DEF Gens, Guarded
    <2>2. \A q \in Readers : ~Hit(q)
      <3>1. ASSUME NEW q \in Readers, Hit(q) PROVE FALSE
        BY <3>1 DEF Hit, Given
      <3>2. QED
        BY <3>1
    <2>3. PICK key \in Keys : Finish(key) \/ FinishUnstored(key) \/ Store(key)
      <3>1. answer' # None /\ \A R : answer' # Error(R)
        BY DEF None, Error
      <3>2. \A q \in Readers : ~(Miss(q) \/ Lead(q) \/ Join(q))
        BY <3>1 DEF Miss, Lead, Join
      <3>3. \A l \in Keys, j \in Kinds : ~ListStep(l, j)
        BY <3>1 DEF ListStep, List, ListFails, ListPanics, ListEnds
      <3>4. \A l \in Keys : ~(FinishFails(l) \/ Compare(l) \/ Leave(l))
        BY <3>1 DEF FinishFails, Compare, Leave
      <3>5. ~(Invalidate \/ Clear \/ Bump \/ Tick)
        BY <3>1 DEF Invalidate, Clear, Bump, Tick
      <3>6. QED
        BY <2>2, <3>2, <3>3, <3>4, <3>5 DEF Next, FinishStep
    <2>4. Finish(key)
      BY <2>1, <2>3 DEF Gens, Ordered, FinishUnstored, Store, InFlight, None
    <2>5. flights[key] # None /\ answer' = Given(Waiters(key), Snapshot(flights[key]))
      BY <2>4 DEF Finish, InFlight
    <2>6. Key(r) = key /\ answer'.data = Snapshot(flights[key])
      BY <2>5 DEF Given, Waiters
    <2>7. flights[key].gen = reader[r].gen
      BY <2>5, <2>6 DEF Gens, Ordered, Key
    <2>8. flights[key].gen <= answer'.data[k].gen
      BY <2>1, <2>5, <2>6, SnapshotSince
    <2>9. reader[r].gen \in Nat /\ answer'.data[k].gen \in Nat
      <3>1. Snapshot(flights[key]) \in Complete
        BY <2>1, <2>4, <2>5, FlightType, SnapshotComplete DEF Types, Finish
      <3>2. QED
        BY <2>1, <2>6, <3>1, TypesFolded DEF Types, Request, Complete, Slices
    <2>10. QED
      BY <2>7, <2>8, <2>9
  <1>2. QED
    BY <1>1, GensInvariant, PTL DEF Spec, AnswersFollowInvalidation

-----------------------------------------------------------------------------
(* Times.  A flight is over by its deadline, so what it listed is no older  *)
(* than the deadline allows; a list only ends with its context; and only a  *)
(* kind its handler may leave out silently is dropped.                      *)

\* How old a list may be when it comes back: what the cache behind allows.
Slack(k) == IF k \in h.behind THEN TTL + FetchTime ELSE 0

Recorded(f) ==
    /\ f.began <= clock /\ clock <= f.began + FetchTime
    /\ \A k \in Kinds :
           /\ f.data[k].state = "listed" =>
                  f.began <= f.data[k].at + Slack(k) /\ f.data[k].at <= clock
           /\ f.data[k].state = "ended" => Ended(f)
           /\ f.data[k].state = "dropped" => k \in Silenced

Dated ==
    /\ cache.fetchedAt <= clock
    /\ \A k \in Kinds :
           /\ cache.data[k].state = "listed" =>
                  /\ cache.data[k].at <= cache.fetchedAt
                  /\ cache.fetchedAt <= cache.data[k].at + Slack(k) + FetchTime
           /\ cache.data[k].state = "dropped" => k \in Silenced

Times ==
    /\ Types
    /\ \A r \in Readers : reader[r].state # "idle" => reader[r].asked <= clock
    /\ \A key \in Keys : flights[key] # None => Recorded(flights[key])
    /\ cache # None => Dated

LEMMA SlackType == \A k : Slack(k) \in Nat
  BY TimesAssumption DEF Slack

\* What depends on the handler alone does not change.
LEMMA SameHandler ==
  ASSUME UNCHANGED h
  PROVE  \A k : Slack(k)' = Slack(k) /\ (k \in Silenced' <=> k \in Silenced)
  BY DEF Slack, Silenced

\* What a finished snapshot says was listed, its flight has listed.
LEMMA SnapshotDated ==
  ASSUME Times, NEW key \in Keys, flights[key] # None, NEW k \in Kinds,
         Snapshot(flights[key])[k].state = "listed"
  PROVE  /\ flights[key].began <= Snapshot(flights[key])[k].at + Slack(k)
         /\ Snapshot(flights[key])[k].at <= clock
  <1>1. ~Unlisted(flights[key].data[k])
    <2>1. ASSUME Unlisted(flights[key].data[k]) PROVE FALSE
      <3>1. Snapshot(flights[key])[k] = Instead(k)
        BY <2>1 DEF Snapshot
      <3>2. Slice("dropped").state # "listed" /\ Slice("reported").state # "listed"
        BY DEF Slice
      <3>3. /\ cache # None
            /\ Instead(k) = [cache.data[k] EXCEPT !.state = "kept"]
        BY <3>1, <3>2 DEF Instead
      <3>4. cache.data[k] \in Slices
        BY <3>3, TypesFolded DEF Times, Types, Entry, Complete
      <3>5. Instead(k).state = "kept"
        BY <3>3, <3>4 DEF Slices
      <3>6. QED
        BY <3>1, <3>5
    <2>2. QED
      BY <2>1
  <1>2. Snapshot(flights[key])[k] = flights[key].data[k]
    BY <1>1 DEF Snapshot
  <1>3. QED
    BY <1>2 DEF Times, Recorded

\* What it leaves out silently, its handler may.
LEMMA SnapshotSilent ==
  ASSUME Times, NEW key \in Keys, flights[key] # None, NEW k \in Kinds,
         Snapshot(flights[key])[k].state = "dropped"
  PROVE  k \in Silenced
  <1>1. CASE ~Unlisted(flights[key].data[k])
    BY <1>1 DEF Times, Recorded, Snapshot
  <1>2. CASE Unlisted(flights[key].data[k])
    <2>1. Instead(k).state = "dropped"
      BY <1>2 DEF Snapshot
    <2>2. CASE h[k] = "drop"
      BY <2>2 DEF Silenced
    <2>3. CASE h[k] # "drop"
      <3>1. Slice("reported").state # "dropped"
        BY DEF Slice
      <3>2. cache # None /\ Instead(k) = [cache.data[k] EXCEPT !.state = "kept"]
        BY <2>1, <2>3, <3>1 DEF Instead
      <3>3. cache.data[k] \in Slices
        BY <3>2, TypesFolded DEF Times, Types, Entry, Complete
      <3>4. Instead(k).state = "kept"
        BY <3>2, <3>3 DEF Slices
      <3>5. QED
        BY <2>1, <3>4
    <2>4. QED
      BY <2>2, <2>3
  <1>3. QED
    BY <1>1, <1>2

LEMMA TimesInit == Init => Times
  <1> SUFFICES ASSUME Init PROVE Times
    OBVIOUS
  <1>1. Types
    BY TypesInit
  <1>2. QED
    BY <1>1 DEF Init, Times, Resting

LEMMA TimesReader ==
  ASSUME Times, NEW r \in Readers, Hit(r) \/ Miss(r) \/ Lead(r) \/ Join(r)
  PROVE  Times'
  <1> USE TimesAssumption
  <1>1. Types /\ Types'
    BY TypesReader DEF Times
  <1>2. UNCHANGED <<h, clock, cache>>
    BY DEF Hit, Miss, Lead, Join
  <1> USE SameHandler
  <1>3. reader \in [Readers -> Request] /\ clock \in 0 .. MaxTime
        /\ flights \in [Keys -> {None} \cup Flight]
    BY <1>1, TypesFolded DEF Types
  <1>4. cache' # None => Dated'
    BY <1>2 DEF Times, Dated
  <1>5. \A q \in Readers : reader'[q].state # "idle" => reader'[q].asked <= clock
    BY <1>3 DEF Times, Request, Hit, Miss, Lead, Join
  <1>6. \A key \in Keys : flights'[key] # None => Recorded(flights[key])'
    <2>1. CASE UNCHANGED flights
      BY <1>2, <2>1 DEF Times, Recorded, Ended, Abandoned
    <2>2. CASE Lead(r)
      <3>1. PICK key \in Keys : key = Key(r)
        BY <1>1, KeyType DEF Types
      <3>2. PICK g : flights' = [flights EXCEPT ![key] =
                        [state |-> "listing", gen |-> g, began |-> clock,
                         left |-> FALSE, data |-> NoSnapshot]]
        BY <2>2, <3>1 DEF Lead
      <3> DEFINE f == [state |-> "listing", gen |-> g, began |-> clock,
                       left |-> FALSE, data |-> NoSnapshot]
      <3>3. f.began = clock /\ \A k \in Kinds : f.data[k].state = "pending"
        BY DEF NoSnapshot, Slice
      <3>4. /\ flights'[key] = f
            /\ \A l \in Keys : l # key => flights'[l] = flights[l]
        BY <1>3, <3>2
      <3> HIDE DEF f
      <3>5. Recorded(flights[key])'
        BY <1>2, <1>3, <3>3, <3>4 DEF Recorded
      <3>6. QED
        BY <1>2, <3>4, <3>5 DEF Times, Recorded, Ended, Abandoned
    <2>3. QED
      BY <2>1, <2>2 DEF Hit, Miss, Join
  <1>7. QED
    BY <1>1, <1>2, <1>4, <1>5, <1>6 DEF Times

LEMMA TimesOneFlight ==
  ASSUME Times, Types', NEW key \in Keys, flights[key] # None, NEW f \in Flight,
         flights' = [flights EXCEPT ![key] = f],
         UNCHANGED <<h, clock, cache, reader>>,
         Recorded(f)
  PROVE  Times'
  <1> USE SameHandler
  <1>1. flights \in [Keys -> {None} \cup Flight]
    BY TypesFolded DEF Times, Types
  <1>2. flights'[key] = f /\ \A l \in Keys : l # key => flights'[l] = flights[l]
    BY <1>1
  <1>3. \A l \in Keys : flights'[l] # None => Recorded(flights[l])'
    BY <1>2 DEF Times, Recorded, Ended, Abandoned
  <1>4. cache' # None => Dated'
    BY DEF Times, Dated
  <1>5. QED
    BY <1>3, <1>4 DEF Times

LEMMA TimesFlight ==
  ASSUME Times, NEW key \in Keys, (\E k \in Kinds : ListStep(key, k)) \/ Leave(key)
  PROVE  Times'
  <1> USE TimesAssumption
  <1>1. Types /\ Types'
    BY TypesList, TypesLeave DEF Times
  <1>2. /\ flights[key] # None
        /\ UNCHANGED <<h, clock, cache, reader>>
    BY DEF ListStep, List, ListFails, ListPanics, ListEnds, Leave, InFlight
  <1>3. flights \in [Keys -> {None} \cup Flight] /\ flights[key] \in Flight
        /\ clock \in 0 .. MaxTime
    BY <1>1, <1>2, TypesFolded DEF Types
  <1>4. Recorded(flights[key])
    BY <1>2 DEF Times
  <1>5. CASE Leave(key)
    <2> DEFINE f == [flights[key] EXCEPT !.left = TRUE]
    <2>1. flights' = [flights EXCEPT ![key] = f]
      BY <1>3, <1>5 DEF Leave
    <2>2. f \in Flight /\ f.began = flights[key].began /\ f.data = flights[key].data
          /\ f.left = TRUE
      BY <1>3 DEF Flight
    <2> HIDE DEF f
    <2>3. Recorded(f)
      BY <1>4, <2>2 DEF Recorded, Ended, Abandoned
    <2>4. QED
      BY <1>1, <1>2, <2>1, <2>2, <2>3, TimesOneFlight
  <1>6. ASSUME NEW k \in Kinds, ListStep(key, k) PROVE Times'
    <2>1. PICK s : /\ flights' = [flights EXCEPT ![key].data[k] = s]
                   /\ s.state = "listed" =>
                          s.at <= clock /\ flights[key].began <= s.at + Slack(k)
                   /\ s.state = "ended" => Ended(flights[key])
                   /\ s.state = "dropped" => k \in Silenced
      <3> DEFINE Brought(s) == flights' = [flights EXCEPT ![key].data[k] = s]
                 Fits(s) == /\ s.state = "listed" =>
                                   s.at <= clock /\ flights[key].began <= s.at + Slack(k)
                            /\ s.state = "ended" => Ended(flights[key])
                            /\ s.state = "dropped" => k \in Silenced
      <3>1. CASE List(key, k)
        <4>1. PICK t \in 0 .. clock, g \in 0 .. Now :
                /\ IF k \in h.behind THEN flights[key].began < t + TTL + FetchTime
                                     ELSE t = clock /\ g = Now
                /\ Brought([state |-> "listed", at |-> t, gen |-> g])
          BY <3>1 DEF List
        <4>2. flights[key].began <= t + Slack(k) /\ t <= clock
          BY <1>3, <1>4, <4>1 DEF Slack, Recorded, Flight
        <4>3. Fits([state |-> "listed", at |-> t, gen |-> g])
          BY <4>2
        <4>4. QED
          BY <4>1, <4>3
      <3>2. CASE ListFails(key, k)
        <4>1. Brought(Slice("failed")) /\ Fits(Slice("failed"))
          BY <3>2 DEF ListFails, Slice
        <4>2. QED
          BY <4>1
      <3>3. CASE ListPanics(key, k)
        <4>1. Brought(Slice("dropped")) /\ Fits(Slice("dropped"))
          BY <3>3 DEF ListPanics, Slice, Silenced
        <4>2. QED
          BY <4>1
      <3>4. CASE ListEnds(key, k)
        <4>1. Brought(Slice("ended")) /\ Fits(Slice("ended"))
          BY <3>4 DEF ListEnds, Slice
        <4>2. QED
          BY <4>1
      <3>5. QED
        BY <1>6, <3>1, <3>2, <3>3, <3>4 DEF ListStep
    <2> DEFINE f == [flights[key] EXCEPT !.data[k] = s]
    <2>2. flights' = [flights EXCEPT ![key] = f]
      BY <1>3, <2>1
    <2>3. f \in Flight
      <3>1. f = flights'[key]
        BY <1>3, <2>2
      <3>2. f # None
        BY <1>3 DEF Flight, None
      <3>3. flights' \in [Keys -> {None} \cup Flight]
        BY <1>1, TypesFolded DEF Types, TypeOK, Flight
      <3>4. QED
        BY <3>1, <3>2, <3>3
    <2>4. /\ f.began = flights[key].began /\ f.left = flights[key].left
          /\ f.data = [flights[key].data EXCEPT ![k] = s]
      BY <1>3 DEF Flight
    <2>5. f.data[k] = s /\ \A l \in Kinds : l # k => f.data[l] = flights[key].data[l]
      BY <1>3, <2>4 DEF Flight, Snapshots
    <2> HIDE DEF f
    <2>6. Ended(f) <=> Ended(flights[key])
      BY <2>4 DEF Ended, Abandoned
    <2>7. Recorded(f)
      BY <1>4, <2>1, <2>4, <2>5, <2>6 DEF Recorded
    <2>8. QED
      BY <1>1, <1>2, <2>2, <2>3, <2>7, TimesOneFlight
  <1>7. QED
    BY <1>5, <1>6

\* The slices a stored snapshot listed are younger than its flight.
LEMMA DatedStored ==
  ASSUME Times, NEW key \in Keys, flights[key] # None, NEW d \in Complete,
         \A k \in Kinds : d[k].state = "listed" =>
             flights[key].began <= d[k].at + Slack(k) /\ d[k].at <= clock
  PROVE  /\ Stored(d).fetchedAt <= clock
         /\ \A k \in Kinds : d[k].state = "listed" =>
               /\ d[k].at <= Stored(d).fetchedAt
               /\ Stored(d).fetchedAt <= d[k].at + Slack(k) + FetchTime
  <1>1. Stored(d).fetchedAt = clock
    BY DEF Stored
  <1>2. flights[key] \in Flight /\ clock \in 0 .. MaxTime
    BY FlightType, TypesFolded DEF Times, Types
  <1>3. \A k \in Kinds : d[k].at \in 0 .. MaxTime
    BY DEF Complete, Slices
  <1>4. clock <= flights[key].began + FetchTime
    BY DEF Times, Recorded
  <1>5. QED
    BY <1>1, <1>2, <1>3, <1>4, SlackType, TimesAssumption DEF Flight

LEMMA TimesFinish ==
  ASSUME Times, NEW key \in Keys, FinishStep(key)
  PROVE  Times'
  <1> USE TimesAssumption
  <1>1. Types /\ Types'
    BY TypesFinish DEF Times
  <1>2. /\ flights[key] # None
        /\ UNCHANGED <<h, clock>>
    BY DEF FinishStep, FinishFails, Finish, FinishUnstored, Compare, Store, InFlight
  <1> USE SameHandler
  <1>3. /\ flights \in [Keys -> {None} \cup Flight]
        /\ flights[key] \in Flight
        /\ clock \in 0 .. MaxTime
    BY <1>1, <1>2, TypesFolded DEF Types
  <1>4. Recorded(flights[key])
    BY <1>2 DEF Times
  <1>5. Listed(flights[key]) => Snapshot(flights[key]) \in Complete
    BY <1>1, <1>3, SnapshotComplete DEF Types
  <1>6. CASE Compare(key)
    <2> DEFINE f == [flights[key] EXCEPT !.state = "storing", !.data = Snapshot(flights[key])]
    <2>1. /\ flights' = [flights EXCEPT ![key] = f]
          /\ UNCHANGED <<h, clock, cache, reader>>
          /\ Listed(flights[key])
      BY <1>6 DEF Compare
    <2>2. f.began = flights[key].began /\ f.data = Snapshot(flights[key])
      BY <1>3 DEF Flight
    <2>3. f \in Flight
      <3>1. Complete \subseteq Snapshots
        BY DEF Complete, Snapshots
      <3>2. QED
        BY <1>3, <1>5, <2>1, <3>1 DEF Flight
    <2> HIDE DEF f
    <2>4. \A k \in Kinds : f.data[k].state # "ended"
      BY <1>5, <2>1, <2>2 DEF Complete
    <2>5. Recorded(f)
      BY <1>2, <1>4, <2>2, <2>4, SnapshotDated, SnapshotSilent DEF Recorded
    <2>6. QED
      BY <1>1, <1>2, <2>1, <2>3, <2>5, TimesOneFlight
  <1>7. CASE ~Compare(key)
    <2>1. /\ flights' = [flights EXCEPT ![key] = None]
          /\ reader' = Returned(key)
      BY <1>7 DEF FinishStep, FinishFails, Finish, FinishUnstored, Store
    <2>2. \A r \in Readers : reader'[r].state # "idle" => reader'[r].asked <= clock
      BY <2>1 DEF Times, Returned, Resting
    <2>3. \A l \in Keys : flights'[l] # None => flights'[l] = flights[l]
      BY <1>3, <2>1
    <2>4. \A l \in Keys : flights'[l] # None => Recorded(flights[l])'
      BY <1>2, <2>3 DEF Times, Recorded, Ended, Abandoned
    <2>5. cache' # None => Dated'
      <3>1. CASE UNCHANGED cache
        BY <1>2, <3>1 DEF Times, Dated
      <3>2. CASE Finish(key) /\ cache' # cache
        <4>1. cache' = Stored(Snapshot(flights[key])) /\ Listed(flights[key])
          BY <3>2 DEF Finish
        <4>2. cache'.data = Snapshot(flights[key])
          BY <4>1 DEF Stored
        <4>3. QED
          BY <1>2, <1>5, <4>1, <4>2, SnapshotDated, SnapshotSilent, DatedStored DEF Dated
      <3>3. CASE Store(key)
        <4>1. cache' = Stored(flights[key].data)
          BY <3>3 DEF Store
        <4>2. cache'.data = flights[key].data
          BY <4>1 DEF Stored
        <4>3. flights[key].data \in Complete
          BY <1>1, <3>3 DEF Types, Pending, Store
        <4>4. QED
          BY <1>2, <1>4, <4>1, <4>2, <4>3, DatedStored DEF Dated, Recorded
      <3>4. QED
        BY <1>7, <3>1, <3>2, <3>3 DEF FinishStep, FinishFails, FinishUnstored
    <2>6. QED
      BY <1>1, <1>2, <2>2, <2>4, <2>5 DEF Times
  <1>8. QED
    BY <1>6, <1>7

LEMMA TimesRest ==
  ASSUME Times, Invalidate \/ Clear \/ Bump \/ Tick \/ UNCHANGED vars
  PROVE  Times'
  <1> USE TimesAssumption
  <1>1. Types /\ Types'
    BY TypesRest DEF Times
  <1>2. UNCHANGED <<h, flights, reader>> /\ cache' \in {cache, None}
    BY DEF Invalidate, Clear, Bump, Tick, vars
  <1> USE SameHandler
  <1>3. /\ flights \in [Keys -> {None} \cup Flight]
        /\ reader \in [Readers -> Request]
        /\ cache \in {None} \cup Entry
        /\ clock \in 0 .. MaxTime
    BY <1>1, TypesFolded DEF Types
  <1>4. CASE UNCHANGED clock
    BY <1>1, <1>2, <1>4 DEF Times, Recorded, Dated, Ended, Abandoned
  <1>5. CASE Tick
    <2>1. clock' = clock + 1 /\ UNCHANGED cache
      BY <1>5 DEF Tick
    <2>2. \A r \in Readers : reader'[r].state # "idle" => reader'[r].asked <= clock'
      BY <1>2, <1>3, <2>1 DEF Times, Request
    <2>3. ASSUME NEW key \in Keys, flights[key] # None PROVE Recorded(flights[key])'
      <3>1. flights[key] \in Flight /\ flights'[key] = flights[key]
        BY <1>2, <1>3, <2>3
      <3>2. clock < flights[key].began + FetchTime
        BY <1>5, <2>3 DEF Tick
      <3>3. Recorded(flights[key])
        BY <2>3 DEF Times
      <3>4. \A k \in Kinds : flights[key].data[k].at \in Nat
        BY <3>1 DEF Flight, Snapshots, Slices
      <3>5. flights[key].began \in Nat
        BY <3>1 DEF Flight
      <3>6. /\ flights[key].began <= clock'
            /\ clock' <= flights[key].began + FetchTime
            /\ \A k \in Kinds : flights[key].data[k].state = "listed" =>
                  /\ flights[key].began <= flights[key].data[k].at + Slack(k)
                  /\ flights[key].data[k].at <= clock'
        BY <1>3, <2>1, <3>2, <3>3, <3>4, <3>5 DEF Recorded
      <3>7. clock # flights[key].began + FetchTime
        BY <1>3, <3>2, <3>5
      <3>8. \A k \in Kinds : flights[key].data[k].state = "ended" => Abandoned(flights[key])
        BY <3>3, <3>7 DEF Recorded, Ended
      <3>9. QED
        BY <1>2, <3>1, <3>3, <3>6, <3>8 DEF Recorded, Ended, Abandoned
    <2>4. cache' # None => Dated'
      <3>1. cache # None => cache.fetchedAt \in Nat
                            /\ \A k \in Kinds : cache.data[k].at \in Nat
        BY <1>3 DEF Entry, Complete, Slices
      <3>2. QED
        BY <1>2, <1>3, <2>1, <3>1 DEF Times, Dated
    <2>5. QED
      BY <1>1, <1>2, <2>2, <2>3, <2>4 DEF Times
  <1>6. QED
    BY <1>4, <1>5 DEF Invalidate, Clear, Bump, vars

THEOREM TimesNext == Times /\ [Next]_vars => Times'
  BY TimesReader, TimesFlight, TimesFinish, TimesRest DEF Next

THEOREM TimesInvariant == Spec => []Times
  BY TimesInit, TimesNext, PTL DEF Spec

\* Where flights are detached, a client that leaves fails nobody: a request fails
\* only because a list failed by itself or the flight's own deadline came.
THEOREM DetachedFlightsFailForNobodyElse == Spec => NobodyFailsForAnother
  <1> DEFINE A == \A r \in Readers :
                    h.detached /\ answer'.state = "error" /\ r \in answer'.to
                      => LET f == flights[Key(r)]
                         IN  \/ \E k \in Kinds : f.data[k].state = "failed"
                             \/ clock = f.began + FetchTime
  <1>1. Times /\ [Next]_vars => [A]_vars
    <2> SUFFICES ASSUME Times, Next, NEW r \in Readers, h.detached,
                        answer'.state = "error", r \in answer'.to
                 PROVE  \/ \E k \in Kinds : flights[Key(r)].data[k].state = "failed"
                        \/ clock = flights[Key(r)].began + FetchTime
      OBVIOUS
    <2>1. PICK key \in Keys : FinishFails(key)
      <3>1. answer' # None /\ \A R, d : answer' # Given(R, d)
        BY DEF None, Given
      <3>2. \A q \in Readers : ~(Hit(q) \/ Miss(q) \/ Lead(q) \/ Join(q))
        BY <3>1 DEF Hit, Miss, Lead, Join
      <3>3. \A l \in Keys, j \in Kinds : ~ListStep(l, j)
        BY <3>1 DEF ListStep, List, ListFails, ListPanics, ListEnds
      <3>4. \A l \in Keys : ~(Compare(l) \/ Leave(l))
        BY <3>1 DEF Compare, Leave
      <3>5. \A l \in Keys : ~(Finish(l) \/ FinishUnstored(l) \/ Store(l))
        BY <3>1 DEF Finish, FinishUnstored, Store
      <3>6. ~(Invalidate \/ Clear \/ Bump \/ Tick)
        BY <3>1 DEF Invalidate, Clear, Bump, Tick
      <3>7. QED
        BY <3>2, <3>3, <3>4, <3>5, <3>6 DEF Next, FinishStep
    <2>2. flights[key] # None /\ Key(r) = key /\ Fails(flights[key])
      BY <2>1 DEF FinishFails, InFlight, Error, Waiters
    <2>3. ~Abandoned(flights[key])
      BY DEF Abandoned
    <2>4. PICK k \in Kinds : Unlisted(flights[key].data[k])
      BY <2>2, <2>3 DEF Fails, Unlisted
    <2>5. CASE flights[key].data[k].state = "failed"
      BY <2>2, <2>5
    <2>6. CASE flights[key].data[k].state = "ended"
      BY <2>2, <2>3, <2>6 DEF Times, Recorded, Ended
    <2>7. QED
      BY <2>4, <2>5, <2>6 DEF Unlisted
  <1>2. QED
    BY <1>1, TimesInvariant, PTL DEF Spec, NobodyFailsForAnother

-----------------------------------------------------------------------------
(* The refinement.                                                         *)

Requests == [r \in Readers |->
    IF reader[r].state = "idle" THEN [open |-> FALSE, asked |-> 0]
                                ELSE [open |-> TRUE, asked |-> reader[r].asked]]

Listing(d) == [k \in Kinds |-> Told(d[k])]

Promise == [window |-> [k \in Kinds |-> Window(k)], silent |-> Silenced]

Answered == IF answer.state # "data" THEN answer
            ELSE [answer EXCEPT !.data = Listing(answer.data)]

LEMMA PromiseKept == ASSUME UNCHANGED h PROVE UNCHANGED Promise
  BY DEF Promise, Window, Silenced

\* A step that gives nothing away and keeps the requests is work.
LEMMA WorkStep ==
  ASSUME answer' = None, UNCHANGED <<h, clock>>, UNCHANGED Requests
  PROVE  Register!Next
  <1>1. Answered' = None
    BY DEF Answered, None
  <1>2. Register!Work
    BY <1>1, PromiseKept DEF Register!Work, Register!None, None, Answered, Listing,
       Requests, Promise
  <1>3. QED
    BY <1>2 DEF Register!Next

LEMMA ListingType == ASSUME NEW d \in Complete PROVE Listing(d) \in Register!Answers
  <1>1. \A k \in Kinds : d[k].at \in 0 .. MaxTime
    BY DEF Complete, Slices
  <1>2. \A k \in Kinds : Told(d[k]) \in 0 .. MaxTime \cup {MaxTime + 1, MaxTime + 2}
    BY <1>1 DEF Told
  <1>3. QED
    BY <1>2 DEF Listing, Register!Answers, Register!Times, Register!Missing,
       Register!Silent

LEMMA AnsweredGiven ==
  ASSUME NEW R, NEW d, answer' = Given(R, d)
  PROVE  /\ Answered'.state = "data"
         /\ Answered'.to = R
         /\ Answered'.data = Listing(d)
  <1>1. answer'.state = "data" /\ answer'.data = d
    BY DEF Given
  <1>2. [answer' EXCEPT !.data = Listing(d)] =
            [state |-> "data", to |-> R, data |-> Listing(d)]
    BY DEF Given
  <1>3. Answered' = [answer' EXCEPT !.data = Listing(d)]
    BY <1>1 DEF Answered, Listing
  <1>4. QED
    BY <1>2, <1>3

\* Data whose listed slices are younger than the window, and which drops nothing
\* but what it may, is recent.
LEMMA RecentListing ==
  ASSUME Times, NEW d \in Complete, NEW asked \in 0 .. MaxTime,
         \A k \in Kinds :
             /\ d[k].state = "listed" => d[k].at <= clock /\ asked < d[k].at + Window(k)
             /\ d[k].state = "dropped" => k \in Silenced
  PROVE  Register!Recent(asked, Listing(d))
  <1> SUFFICES ASSUME NEW k \in Kinds
               PROVE  /\ Told(d[k]) = MaxTime + 2 => k \in Promise.silent
                      /\ Told(d[k]) \in 0 .. MaxTime =>
                             /\ Told(d[k]) <= clock
                             /\ asked < Told(d[k]) + Promise.window[k]
    BY DEF Register!Recent, Register!Silent, Register!Times, Listing, Promise
  <1>1. d[k].at \in 0 .. MaxTime
    BY DEF Complete, Slices
  <1>2. Promise.silent = Silenced /\ Promise.window[k] = Window(k)
    BY DEF Promise
  <1>3. QED
    BY <1>1, <1>2, TimesAssumption DEF Told

LEMMA WindowSlack == \A k : Window(k) = Slack(k) + TTL + FetchTime
  BY TimesAssumption DEF Window, Slack

LEMMA RefineHit == ASSUME Times, NEW r \in Readers, Hit(r) PROVE Register!Next
  <1> USE TimesAssumption
  <1>1. cache \in Entry /\ clock \in 0 .. MaxTime /\ clock < cache.fetchedAt + TTL
    BY TypesFolded DEF Times, Types, Hit, Fresh
  <1>2. cache.data \in Complete
    BY <1>1 DEF Entry
  <1>3. \A k \in Kinds : cache.data[k].at \in 0 .. MaxTime
    BY <1>2 DEF Complete, Slices
  <1>4. \A k \in Kinds :
            /\ cache.data[k].state = "listed" =>
                   cache.data[k].at <= clock /\ clock < cache.data[k].at + Window(k)
            /\ cache.data[k].state = "dropped" => k \in Silenced
    BY <1>1, <1>3, WindowSlack, SlackType DEF Times, Dated, Hit, Fresh, Entry
  <1>5. Register!Recent(clock, Listing(cache.data))
    BY <1>1, <1>2, <1>4, RecentListing
  <1>6. /\ Answered'.state = "data"
        /\ Answered'.to = {r}
        /\ Answered'.data = Listing(cache.data)
    BY AnsweredGiven DEF Hit
  <1>7. Listing(cache.data) \in Register!Answers
    BY <1>2, ListingType
  <1>8. ~Requests[r].open
    BY DEF Requests, Hit
  <1>9. UNCHANGED <<Promise, clock, Requests>>
    BY PromiseKept DEF Hit, Requests
  <1>10. Register!AskAnswered
    BY <1>5, <1>6, <1>7, <1>8, <1>9
       DEF Register!AskAnswered, Answered, Listing, Requests, Promise
  <1>11. QED
    BY <1>10 DEF Register!Next

LEMMA RefineMiss == ASSUME Times, NEW r \in Readers, Miss(r) PROVE Register!Next
  <1>1. reader \in [Readers -> Request]
    BY TypesFolded DEF Times, Types
  <1>2. Requests' = [Requests EXCEPT ![r] = [open |-> TRUE, asked |-> clock]]
    BY <1>1 DEF Miss, Requests
  <1>3. ~Requests[r].open
    BY DEF Requests, Miss
  <1>4. Answered' = None
    BY DEF Answered, Miss, None
  <1>5. UNCHANGED <<Promise, clock>>
    BY PromiseKept DEF Miss
  <1>6. Register!Ask(r)
    BY <1>2, <1>3, <1>4, <1>5
       DEF Register!Ask, Register!None, None, Requests, Answered, Listing, Promise
  <1>7. QED
    BY <1>6 DEF Register!Next

LEMMA RefineWork ==
  ASSUME Times,
         \/ \E r \in Readers : Lead(r) \/ Join(r)
         \/ \E key \in Keys : Leave(key) \/ Compare(key)
         \/ \E key \in Keys, k \in Kinds : ListStep(key, k)
         \/ Invalidate \/ Clear \/ Bump
  PROVE  Register!Next
  <1>1. answer' = None /\ UNCHANGED <<h, clock>>
    BY DEF Lead, Join, Leave, Compare, ListStep, List, ListFails, ListPanics, ListEnds,
           Invalidate, Clear, Bump
  <1>2. UNCHANGED Requests
    <2>1. CASE UNCHANGED reader
      BY <2>1 DEF Requests
    <2>2. ASSUME NEW r \in Readers, Lead(r) \/ Join(r) PROVE UNCHANGED Requests
      <3>1. reader \in [Readers -> Request]
        BY TypesFolded DEF Times, Types
      <3>2. /\ reader' = [reader EXCEPT ![r].state = "waiting"]
            /\ reader[r].state = "missed"
        BY <2>2 DEF Lead, Join
      <3>3. \A q \in Readers : /\ reader'[q].asked = reader[q].asked
                               /\ reader'[q].state = "idle" <=> reader[q].state = "idle"
        BY <3>1, <3>2 DEF Request
      <3>4. QED
        BY <3>3 DEF Requests
    <2>3. CASE \E key \in Keys : Leave(key) \/ Compare(key)
      BY <2>1, <2>3 DEF Leave, Compare
    <2>4. CASE \E key \in Keys, k \in Kinds : ListStep(key, k)
      BY <2>1, <2>4 DEF ListStep, List, ListFails, ListPanics, ListEnds
    <2>5. CASE Invalidate \/ Clear \/ Bump
      BY <2>1, <2>5 DEF Invalidate, Clear, Bump
    <2>6. QED
      BY <2>2, <2>3, <2>4, <2>5
  <1>3. QED
    BY <1>1, <1>2, WorkStep

\* The requests that share a flight are closed together.
LEMMA ClosedTogether ==
  ASSUME Times, NEW key \in Keys, reader' = Returned(key)
  PROVE  /\ Waiters(key) \subseteq Readers
         /\ \A r \in Waiters(key) : Requests[r].open
         /\ \A r \in Readers :
                Requests'[r] = IF r \in Waiters(key)
                               THEN [open |-> FALSE, asked |-> 0] ELSE Requests[r]
  <1>1. \A r \in Waiters(key) : r \in Readers /\ reader[r].state = "waiting"
    BY DEF Waiters
  <1>2. \A r \in Readers : reader'[r] = IF r \in Waiters(key) THEN Resting ELSE reader[r]
    BY DEF Returned
  <1>3. \A r \in Readers :
            Requests'[r] = IF r \in Waiters(key)
                           THEN [open |-> FALSE, asked |-> 0] ELSE Requests[r]
    <2> SUFFICES ASSUME NEW r \in Readers
                 PROVE  Requests'[r] = IF r \in Waiters(key)
                            THEN [open |-> FALSE, asked |-> 0] ELSE Requests[r]
      OBVIOUS
    <2>1. CASE r \in Waiters(key)
      <3>1. reader'[r].state = "idle"
        BY <1>2, <2>1 DEF Resting
      <3>2. QED
        BY <2>1, <3>1 DEF Requests
    <2>2. CASE r \notin Waiters(key)
      <3>1. reader'[r] = reader[r]
        BY <1>2, <2>2
      <3>2. QED
        BY <2>2, <3>1 DEF Requests
    <2>3. QED
      BY <2>1, <2>2
  <1>4. QED
    BY <1>1, <1>3 DEF Requests

LEMMA Closing ==
  ASSUME Times, NEW key \in Keys, reader' = Returned(key), UNCHANGED <<h, clock>>,
         Answered'.to = Waiters(key)
  PROVE  /\ Answered'.to \subseteq Readers
         /\ Register!Close(Answered'.to)
  <1>1. /\ Answered'.to \subseteq Readers
        /\ \A r \in Answered'.to : Requests[r].open
        /\ \A r \in Readers : Requests'[r] = IF r \in Answered'.to
               THEN [open |-> FALSE, asked |-> 0] ELSE Requests[r]
    BY ClosedTogether
  <1>2. Requests' = [r \in Readers |-> IF r \in Answered'.to
            THEN [open |-> FALSE, asked |-> 0] ELSE Requests[r]]
    BY <1>1 DEF Requests
  <1>3. QED
    BY <1>1, <1>2, PromiseKept DEF Register!Close, Register!Closed, Requests, Promise

LEMMA RefineFails ==
  ASSUME Times, NEW key \in Keys, FinishFails(key)
  PROVE  Register!Next
  <1>1. reader' = Returned(key) /\ answer' = Error(Waiters(key))
        /\ UNCHANGED <<h, clock>>
    BY DEF FinishFails
  <1>2. Answered'.state = "error" /\ Answered'.to = Waiters(key)
    BY <1>1 DEF Answered, Error
  <1>3. Register!Fail
    BY <1>1, <1>2, Closing DEF Register!Fail, Answered, Listing, Promise
  <1>4. QED
    BY <1>3 DEF Register!Next

\* A finished fetch answers those who share it: they asked before it ended, and it
\* ended within FetchTime of its first list.
LEMMA RefineAnswer ==
  ASSUME Times, NEW key \in Keys, Finish(key) \/ FinishUnstored(key) \/ Store(key)
  PROVE  Register!Next
  <1> USE TimesAssumption
  <1>1. PICK d \in Complete :
            /\ answer' = Given(Waiters(key), d)
            /\ \A k \in Kinds :
                   /\ d[k].state = "listed" =>
                          flights[key].began <= d[k].at + Slack(k) /\ d[k].at <= clock
                   /\ d[k].state = "dropped" => k \in Silenced
    <2>1. flights[key] # None /\ flights[key] \in Flight
      BY FlightType DEF Times, Types, Finish, FinishUnstored, Store, InFlight
    <2>2. CASE Store(key)
      BY <2>1, <2>2 DEF Times, Types, Pending, Recorded, Store
    <2>3. CASE Finish(key) \/ FinishUnstored(key)
      <3>1. Snapshot(flights[key]) \in Complete
        BY <2>1, <2>3, SnapshotComplete DEF Times, Types, Finish, FinishUnstored
      <3>2. answer' = Given(Waiters(key), Snapshot(flights[key]))
        BY <2>3 DEF Finish, FinishUnstored
      <3>3. QED
        BY <2>1, <3>1, <3>2, SnapshotDated, SnapshotSilent
    <2>4. QED
      BY <2>2, <2>3
  <1>2. reader' = Returned(key) /\ UNCHANGED <<h, clock>> /\ flights[key] # None
    BY DEF Finish, FinishUnstored, Store, InFlight
  <1>3. /\ Answered'.state = "data"
        /\ Answered'.to = Waiters(key)
        /\ Answered'.data = Listing(d)
    BY <1>1, AnsweredGiven
  <1>5. ASSUME NEW r \in Waiters(key)
        PROVE  Register!Recent(Requests[r].asked, Listing(d))
    <2>1. /\ r \in Readers /\ reader[r].state = "waiting"
          /\ Requests[r].asked = reader[r].asked
      BY <1>5 DEF Waiters, Requests
    <2>2. reader[r].asked \in 0 .. MaxTime /\ clock \in 0 .. MaxTime
          /\ flights[key] \in Flight
      BY <1>2, <2>1, TypesFolded DEF Times, Types, Request
    <2>3. reader[r].asked <= clock /\ clock <= flights[key].began + FetchTime
      BY <1>2, <2>1 DEF Times, Recorded
    <2>4. \A k \in Kinds : d[k].at \in 0 .. MaxTime
      BY DEF Complete, Slices
    <2>5. flights[key].began \in Nat
      BY <2>2 DEF Flight
    <2>6. \A k \in Kinds :
              /\ d[k].state = "listed" =>
                     d[k].at <= clock /\ reader[r].asked < d[k].at + Window(k)
              /\ d[k].state = "dropped" => k \in Silenced
      BY <1>1, <2>2, <2>3, <2>4, <2>5, WindowSlack, SlackType
    <2>7. QED
      BY <2>1, <2>2, <2>6, RecentListing
  <1>6. Listing(d) \in Register!Answers
    BY ListingType
  <1>7. Register!Answer
    BY <1>2, <1>3, <1>5, <1>6, Closing DEF Register!Answer, Answered, Listing,
       Requests, Promise
  <1>8. QED
    BY <1>7 DEF Register!Next

LEMMA RefineTick == ASSUME Times, Tick PROVE Register!Next
  <1>1. Answered' = None
    BY DEF Tick, Answered, None
  <1>2. UNCHANGED Requests
    BY DEF Tick, Requests
  <1>3. clock < MaxTime /\ clock' = clock + 1 /\ UNCHANGED Promise
    BY PromiseKept DEF Tick
  <1>4. Register!Tick
    BY <1>1, <1>2, <1>3
       DEF Register!Tick, Register!None, None, Requests, Answered, Listing, Promise
  <1>5. QED
    BY <1>4 DEF Register!Next

THEOREM RefinesNext == Times /\ [Next]_vars => [Register!Next]_Register!vars
  <1> SUFFICES ASSUME Times, [Next]_vars PROVE [Register!Next]_Register!vars
    OBVIOUS
  <1>1. CASE UNCHANGED vars
    BY <1>1 DEF vars, Register!vars, Window, Silenced
  <1>2. CASE \E r \in Readers : Hit(r) \/ Miss(r) \/ Lead(r) \/ Join(r)
    BY <1>2, RefineHit, RefineMiss, RefineWork
  <1>3. CASE \E key \in Keys, k \in Kinds : ListStep(key, k)
    BY <1>3, RefineWork
  <1>4. CASE \E key \in Keys : FinishStep(key) \/ Leave(key)
    BY <1>4, RefineFails, RefineAnswer, RefineWork DEF FinishStep
  <1>5. CASE Invalidate \/ Clear \/ Bump \/ Tick
    BY <1>5, RefineWork, RefineTick
  <1>6. QED
    BY <1>1, <1>2, <1>3, <1>4, <1>5 DEF Next

\* Every handler implements the register of bounded staleness: whatever the races
\* of its cache and of the one behind it, a request is given, for each kind, what
\* the cluster held less than the kind's window before the request, or told that
\* it could not be listed; only the kinds of Silenced may be missing unsaid.
THEOREM ImplementsRegister == Spec => BoundedStaleness
  <1>1. Init => Register!Init
    <2> SUFFICES ASSUME Init PROVE Register!Init
      OBVIOUS
    <2>1. Requests = [r \in Readers |-> [open |-> FALSE, asked |-> 0]]
      BY DEF Init, Requests, Resting
    <2>2. Answered = None
      BY DEF Init, Answered, None
    <2>3. Promise \in [window: [Kinds -> Nat], silent: SUBSET Kinds]
      <3>1. \A k \in Kinds : Window(k) \in Nat
        BY TimesAssumption DEF Window
      <3>2. Silenced \in SUBSET Kinds
        BY TypesInit, HSound DEF Types, Sound, Traits, Silenced
      <3>3. QED
        BY <3>1, <3>2 DEF Promise
    <2>4. QED
      BY <2>1, <2>2, <2>3 DEF Init, Register!Init, Register!Closed, Register!None,
         None, Requests, Answered, Listing, Promise
  <1>2. QED
    BY <1>1, RefinesNext, TimesInvariant, PTL DEF Spec, BoundedStaleness, Register!Spec

=============================================================================
