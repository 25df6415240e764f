--------------------------- MODULE Pollers_proofs ----------------------------
(***************************************************************************)
(* Proofs about Pollers: the types, that a change which was found and not  *)
(* failed to be reported is in the feed, and that a process reports it     *)
(* once.                                                                   *)
(***************************************************************************)
EXTENDS Pollers, TLAPS

-----------------------------------------------------------------------------
(* The inductive invariant.                                                *)

IdsOf(L) == {Id(o) : o \in L}

\* A process that is down remembers nothing, and one between two cycles has
\* nothing in hand.
Halted ==
    /\ phase = "down" => memory = Forgotten /\ told = Forgotten
    /\ phase # "polling" => listed = {} /\ pending = {}

\* A list has one object of a name, and a cycle one record of an object it has
\* checked.
Apart ==
    /\ \A o, q \in listed : o.name = q.name => o = q
    /\ \A rec \in pending : rec.id[1] = rec.name /\ rec.id \in IdsOf(listed \ todo)
    /\ \A rec, q \in pending : rec.id = q.id => rec = q

\* Nothing happened later than now.
Past ==
    /\ \A nt \in Names \X Titles : rowAt[nt] <= clock
    /\ \A i \in Ids : since[i] <= clock

\* The row that tells of the bucket that is remembered, as Told has it.
InFeed(i) == \E t \in Failures : Bucket(t) = memory[i] /\ rowAt[<<i[1], t>>] + Window > since[i]

\* Who is owed a notification has a row or a record for it.
Owed ==
    \A i \in Ids : since[i] # 0 =>
        InFeed(i) \/ \E rec \in pending : rec.id = i /\ rec.title \in Failures

\* A record is for the bucket that is remembered, which was not told yet.
Unsaid ==
    \A rec \in pending : rec.title \in Failures =>
        Bucket(rec.title) = memory[rec.id] /\ told[rec.id] # memory[rec.id]

\* The seed of a name is used up by the first check of an object of the name.
SeedSpent ==
    /\ \A i \in Ids : memory[i] # "absent" \/ told[i] # "absent" => seed[i[1]] = "absent"
    /\ \A rec \in pending : seed[rec.name] = "absent"

\* A failure that was told is remembered.  Only an object that an emptied list
\* left out is forgotten, by a poller whose first sight of it is no event.
Recalled ==
    /\ \A i \in Ids : told[i] \in Bad =>
           memory[i] = told[i] \/ (memory[i] = "absent" /\ p.baseline)
    /\ phase = "polling" /\ ~p.emptied =>
           \A i \in Ids : told[i] \in Bad => i \in IdsOf(listed)

IInv ==
    /\ TypeOK
    /\ Halted
    /\ Apart
    /\ Past
    /\ Owed
    /\ Unsaid
    /\ SeedSpent
    /\ Recalled

-----------------------------------------------------------------------------
(* The operators of the model.                                             *)

LEMMA PollerShape ==
    ASSUME NEW q \in Pollers
    PROVE  q.baseline \in BOOLEAN /\ (q.emptied => q.baseline)
  <1>1. CASE q = CertManager \/ q = Limits
    <2>1. q.baseline = FALSE /\ q.emptied = FALSE
      BY <1>1 DEF CertManager, Limits
    <2>2. QED
      BY <2>1
  <1>2. CASE \E a, b \in BOOLEAN : q = ExternalSecrets(a, b)
    <2>1. q.baseline = TRUE
      BY <1>2 DEF ExternalSecrets
    <2>2. QED
      BY <2>1
  <1>3. QED
    BY <1>1, <1>2 DEF Pollers

LEMMA BucketOf ==
    /\ \A r \in Readings \ {"unset"} : Bucket(r) \in Buckets
    /\ \A t \in Failures : Bucket(t) \in Bad /\ BucketOfTitle(t) = Bucket(t)
    /\ \A t \in Titles : BucketOfTitle(t) \in Buckets
    /\ \A t \in Titles : BucketOfTitle(t) \in Bad => t \in Failures
  <1>1. \A r \in Readings \ {"unset"} : Bucket(r) \in Buckets
    BY DEF Bucket, Buckets, Bad, Readings, Failures
  <1>2. \A t \in Failures : Bucket(t) \in Bad /\ BucketOfTitle(t) = Bucket(t)
    BY DEF Bucket, BucketOfTitle, Bad, Failures
  <1>3. \A t \in Titles \ Failures : BucketOfTitle(t) = "ok"
    BY DEF BucketOfTitle, Titles
  <1>4. Bad \subseteq Buckets /\ "ok" \in Buckets /\ "ok" \notin Bad
    BY DEF Buckets, Bad
  <1>5. QED
    BY <1>1, <1>2, <1>3, <1>4

LEMMA IdOfTyped ==
    ASSUME TypeOK, NEW n \in Names, NEW b \in Births
    PROVE  IdOf(n, b) \in Ids /\ IdOf(n, b)[1] = n
  <1>1. 0 \in Births
    BY BoundsAssumption DEF Births
  <1>2. QED
    BY <1>1 DEF IdOf, Ids

LEMMA IdTyped ==
    ASSUME TypeOK, NEW o \in Objects
    PROVE  Id(o) \in Ids /\ Id(o)[1] = o.name
  BY IdOfTyped DEF Id, Objects

LEMMA IdsKept ==
    ASSUME p' = p
    PROVE  /\ \A o : Id(o)' = Id(o)
           /\ IdsOf(listed)' = IdsOf(listed') /\ IdsOf(listed \ todo)' = IdsOf(listed' \ todo')
  BY DEF IdsOf, Id, IdOf

\* Checking an object calls for one title at most, and for a failure only when
\* it is not the bucket that is remembered.
LEMMA TitleOf ==
    ASSUME TypeOK, NEW o \in Objects, o.reading # "unset", NEW t \in TitleFor(o)
    PROVE  /\ t \in Titles
           /\ \A u \in TitleFor(o) : u = t
           /\ t \in Failures => /\ Bucket(t) = Bucket(o.reading)
                                /\ Bucket(o.reading) \in Bad
                                /\ Previous(o) # Bucket(o.reading)
                                /\ ~(Previous(o) = "absent" /\ p.baseline)
  <1> DEFINE prev == Previous(o)
             now  == Bucket(o.reading)
  <1>1. o.reading \in Readings \ {"unset"}
    BY DEF Objects
  <1>2. now \in Buckets /\ "absent" \notin Buckets /\ "ok" \notin Bad
    BY <1>1, BucketOf DEF Buckets, Bad
  <1>3. now \in Bad => /\ Failure(o) \in Failures /\ Bucket(Failure(o)) = now
    BY <1>1 DEF Failure, Failures, Bad, Bucket, Readings
  <1>4. CASE prev = "absent" /\ p.baseline
    <2>1. prev # now \/ prev = "absent"
      BY <1>4
    <2>2. TitleFor(o) = IF ~p.lifecycle \/ ~initialized THEN {}
                        ELSE IF now = "ok" THEN {"first"} ELSE {"created"}
      BY <1>2, <1>4 DEF TitleFor, Bad
    <2>3. t \in {"first", "created"} /\ \A u \in TitleFor(o) : u = t
      BY <2>2
    <2>4. QED
      BY <2>3 DEF Titles, Failures, Bad
  <1>5. CASE ~(prev = "absent" /\ p.baseline) /\ prev # now /\ now \in Bad
    <2>1. TitleFor(o) = {Failure(o)}
      BY <1>2, <1>5, PollerShape DEF TitleFor, TypeOK
    <2>2. QED
      BY <1>3, <1>5, <2>1 DEF Titles
  <1>6. CASE ~(prev = "absent" /\ p.baseline) /\ ~(prev # now /\ now \in Bad)
    <2>1. TitleFor(o) \subseteq {"recovered"}
      BY <1>2, <1>6 DEF TitleFor
    <2>2. QED
      BY <2>1 DEF Titles, Failures, Bad
  <1>7. QED
    BY <1>4, <1>5, <1>6

-----------------------------------------------------------------------------
(* The steps, by what they leave alone.                                    *)

Remakes == \E n \in Names, r \in Readings : Change(n, r) \/ Create(n, r)

ClusterStep == Remakes \/ (\E n \in Names : Delete(n)) \/ Tick

CycleOver == End \/ Panic

LEMMA BoundTypes ==
    /\ MaxTime \in Nat /\ Window \in Nat \ {0} /\ SeedWindow \in Nat
    /\ Times \subseteq Nat /\ 0 \in Times /\ 0 \in Births /\ Births \subseteq Nat
    /\ MaxFaults \in Nat
  BY BoundsAssumption DEF Times, Births

LEMMA ClusterFrame ==
    ASSUME TypeOK, ClusterStep
    PROVE  /\ UNCHANGED Outside /\ said' = Nothing
           /\ clock' \in Times \ {0} /\ clock' >= clock
           /\ object' \in [Names -> [exists: BOOLEAN, birth: Births, reading: Readings]]
           /\ ailing' \subseteq Ids
  <1>0. clock \in Times \ {0} /\ ailing \subseteq Ids /\ Times \subseteq Nat
        /\ object \in [Names -> [exists: BOOLEAN, birth: Births, reading: Readings]]
    BY BoundTypes DEF TypeOK
  <1>1. ASSUME NEW n \in Names, NEW b \in Births, NEW r \in Readings, Becomes(n, b, r)
        PROVE  /\ UNCHANGED Outside /\ said' = Nothing /\ clock' = clock
               /\ object' \in [Names -> [exists: BOOLEAN, birth: Births, reading: Readings]]
               /\ ailing' \subseteq Ids
    <2>1. IdOf(n, b) \in Ids
      BY IdOfTyped
    <2>2. object' = [object EXCEPT ![n] = [exists |-> TRUE, birth |-> b, reading |-> r]]
      BY <1>1 DEF Becomes
    <2>3. ailing' \subseteq ailing \cup {IdOf(n, b)}
      BY <1>1 DEF Becomes
    <2>4. [exists |-> TRUE, birth |-> b, reading |-> r]
              \in [exists: BOOLEAN, birth: Births, reading: Readings]
      OBVIOUS
    <2>5. QED
      BY <1>0, <1>1, <2>1, <2>2, <2>3, <2>4 DEF Becomes
  <1>2. CASE Remakes
    <2>1. PICK n \in Names, r \in Readings : Change(n, r) \/ Create(n, r)
      BY <1>2 DEF Remakes
    <2>2. object[n].birth \in Births
      BY <1>0
    <2>3. CASE Change(n, r)
      BY <1>0, <1>1, <2>2, <2>3 DEF Change
    <2>4. CASE Create(n, r)
      <3>1. object[n].birth + 1 \in Births
        BY <2>2, <2>4, BoundsAssumption DEF Create, Births
      <3>2. QED
        BY <1>0, <1>1, <2>4, <3>1 DEF Create
    <2>5. QED
      BY <2>1, <2>3, <2>4
  <1>3. CASE \E n \in Names : Delete(n)
    <2>1. PICK n \in Names : Delete(n)
      BY <1>3
    <2>2. "ok" \in Readings
      BY DEF Readings
    <2>3. object' = [object EXCEPT ![n] = [object[n] EXCEPT !.exists = FALSE, !.reading = "ok"]]
      BY <2>1 DEF Delete
    <2>4. [object[n] EXCEPT !.exists = FALSE, !.reading = "ok"]
              \in [exists: BOOLEAN, birth: Births, reading: Readings]
      BY <1>0, <2>2
    <2>5. QED
      BY <1>0, <2>1, <2>3, <2>4 DEF Delete
  <1>4. CASE Tick
    <2>1. clock' = clock + 1 /\ clock < MaxTime /\ UNCHANGED <<object, ailing>>
      BY <1>4 DEF Tick
    <2>2. clock' \in Times \ {0} /\ clock' >= clock
      BY <1>0, <2>1, BoundsAssumption DEF Times
    <2>3. QED
      BY <1>0, <1>4, <2>1, <2>2 DEF Tick
  <1>5. QED
    BY <1>2, <1>3, <1>4 DEF ClusterStep

LEMMA EmitFrame ==
    ASSUME NEW rec \in pending, EmitStep(rec)
    PROVE  /\ UNCHANGED <<p, clock, object, phase, memory, seed, initialized, listed, todo, lasting>>
           /\ pending' = pending \ {rec}
           /\ \/ UNCHANGED <<rowVars, told>> /\ said' = Nothing
              \/ Insert(rec) /\ UNCHANGED since
  BY DEF EmitStep, Suppress, Emit, EmitUnchecked, EmitFails, Insert, history

-----------------------------------------------------------------------------
(* The types.                                                              *)

LEMMA TypeCluster ==
    ASSUME TypeOK, ClusterStep
    PROVE  TypeOK'
  <1>1. /\ UNCHANGED Outside /\ said' = Nothing
        /\ clock' \in Times \ {0}
        /\ object' \in [Names -> [exists: BOOLEAN, birth: Births, reading: Readings]]
        /\ ailing' \subseteq Ids
    BY ClusterFrame
  <1>2. QED
    BY <1>1 DEF TypeOK, Outside, rowVars, procVars

LEMMA TypeStart ==
    ASSUME TypeOK, Start
    PROVE  TypeOK'
  <1>1. seed' \in [Names -> Buckets \cup {"absent"}]
    <2>1. Unseeded \in [Names -> Buckets \cup {"absent"}]
      BY DEF Unseeded
    <2>2. Seeded \in [Names -> Buckets \cup {"absent"}]
      <3>1. \A n \in Names : latest[n] \in Titles \cup {"none"}
        BY DEF TypeOK
      <3>2. \A n \in Names : latest[n] # "none" => BucketOfTitle(latest[n]) \in Buckets
        BY <3>1, BucketOf
      <3>3. QED
        BY <3>2 DEF Seeded
    <2>3. QED
      BY <2>1, <2>2 DEF Start
  <1>2. inventory' \subseteq Ids
    <2>1. \A n \in Names : object[n].birth \in Births
      BY DEF TypeOK
    <2>2. QED
      BY <2>1, IdOfTyped DEF Start
  <1>3. faults' \in 0 .. MaxFaults
    BY BoundTypes DEF Start, TypeOK
  <1>4. phase' \in {"down", "idle", "polling"} /\ said' = Nothing
    BY DEF Start
  <1>5. QED
    BY <1>1, <1>2, <1>3, <1>4 DEF TypeOK, Start, rowVars

LEMMA TypeStop ==
    ASSUME TypeOK, Stop
    PROVE  TypeOK'
  <1>1. /\ Forgotten \in [Ids -> Buckets \cup {"absent"}]
        /\ Unseeded \in [Names -> Buckets \cup {"absent"}]
        /\ [i \in Ids |-> 0] \in [Ids -> Times]
    BY BoundTypes DEF Forgotten, Unseeded
  <1>2. QED
    BY <1>1 DEF TypeOK, Stop, rowVars

LEMMA TypeBegin ==
    ASSUME TypeOK, List \/ ListEmptied \/ ListFails
    PROVE  TypeOK'
  <1>1. Present \subseteq Objects
    BY DEF Present, Objects, TypeOK
  <1>2. Pruned(Present, told, "absent") \in [Ids -> Buckets \cup {"absent"}]
    BY DEF Pruned, TypeOK
  <1>3. CASE List
    BY <1>1, <1>2, <1>3 DEF List, Begin, TypeOK, rowVars, lasting
  <1>4. faults' \in 0 .. MaxFaults
    BY BoundTypes DEF TypeOK, List, ListEmptied, ListFails
  <1>5. CASE ListEmptied
    BY <1>4, <1>5 DEF ListEmptied, Begin, TypeOK, rowVars, lasting
  <1>6. CASE ListFails
    BY <1>4, <1>6 DEF ListFails, TypeOK, rowVars, history, lasting
  <1>7. QED
    BY <1>3, <1>5, <1>6

LEMMA TypeEnd ==
    ASSUME TypeOK, CycleOver
    PROVE  TypeOK'
  <1>1. /\ Pruned(listed, memory, "absent") \in [Ids -> Buckets \cup {"absent"}]
        /\ Pruned(listed, since, 0) \in [Ids -> Times]
    BY BoundTypes DEF Pruned, TypeOK
  <1>2. CASE End
    BY <1>1, <1>2 DEF End, TypeOK, rowVars, lasting
  <1>3. CASE Panic
    <2>1. since' \in [Ids -> Times] /\ faults' \in 0 .. MaxFaults
      BY <1>3, BoundTypes DEF Panic, TypeOK
    <2>2. QED
      BY <1>3, <2>1 DEF Panic, TypeOK, rowVars, lasting
  <1>4. QED
    BY <1>2, <1>3 DEF CycleOver


\* What a check reads and writes.
LEMMA CheckFrame ==
    ASSUME TypeOK, NEW o \in todo, Check(o)
    PROVE  /\ o \in Objects /\ o \in listed /\ o.name \in Names /\ o.reading # "unset"
           /\ Id(o) \in Ids /\ Id(o)[1] = o.name
           /\ Bucket(o.reading) \in Buckets
           /\ memory' = [memory EXCEPT ![Id(o)] = Bucket(o.reading)]
           /\ seed' = IF memory[Id(o)] = "absent" THEN [seed EXCEPT ![o.name] = "absent"] ELSE seed
           /\ pending' = pending \cup {[name |-> o.name, id |-> Id(o), title |-> t] : t \in TitleFor(o)}
           /\ since' = [since EXCEPT ![Id(o)] =
                            IF TitleFor(o) \cap Failures # {} THEN clock
                            ELSE IF memory[Id(o)] = Bucket(o.reading) THEN since[Id(o)] ELSE 0]
           /\ told' = IF told[Id(o)] # Bucket(o.reading)
                      THEN [told EXCEPT ![Id(o)] = "absent"] ELSE told
           /\ todo' = todo \ {o} /\ phase = "polling" /\ said' = Nothing
           /\ UNCHANGED <<p, clock, object, rowVars, phase, initialized, listed, faults, lasting>>
  <1>1. o \in listed /\ listed \subseteq Objects
    BY DEF TypeOK
  <1>2. o.name \in Names /\ o.reading \in Readings /\ o.reading # "unset"
    BY <1>1 DEF Objects, Check
  <1>3. QED
    BY <1>1, <1>2, IdTyped, BucketOf DEF Check, Remembered

LEMMA TypeCheck ==
    ASSUME TypeOK, NEW o \in todo, Check(o)
    PROVE  TypeOK'
  <1>1. /\ o \in Objects /\ o.name \in Names /\ o.reading # "unset" /\ Id(o) \in Ids
        /\ Bucket(o.reading) \in Buckets
    BY CheckFrame
  <1>2. memory' \in [Ids -> Buckets \cup {"absent"}] /\ told' \in [Ids -> Buckets \cup {"absent"}]
    BY <1>1, CheckFrame DEF TypeOK
  <1>3. seed' \in [Names -> Buckets \cup {"absent"}]
    BY <1>1, CheckFrame DEF TypeOK
  <1>4. since' \in [Ids -> Times]
    <2>1. since \in [Ids -> Times] /\ clock \in Times /\ 0 \in Times
      BY BoundTypes DEF TypeOK
    <2>2. QED
      BY <1>1, <2>1, CheckFrame
  <1>5. pending' \subseteq Records
    <2>1. \A t \in TitleFor(o) : t \in Titles
      BY <1>1, TitleOf
    <2>2. {[name |-> o.name, id |-> Id(o), title |-> t] : t \in TitleFor(o)} \subseteq Records
      BY <1>1, <2>1 DEF Records
    <2>3. QED
      BY <2>2, CheckFrame DEF TypeOK
  <1>6. todo' \subseteq listed' /\ UNCHANGED listed
    BY CheckFrame DEF TypeOK
  <1>7. /\ UNCHANGED <<p, clock, object, rowAt, latest, phase, initialized, faults, inventory, ailing>>
        /\ said' = Nothing
    BY CheckFrame DEF rowVars, lasting
  <1>8. QED
    BY <1>2, <1>3, <1>4, <1>5, <1>6, <1>7 DEF TypeOK

LEMMA TypeEmit ==
    ASSUME TypeOK, NEW rec \in pending, EmitStep(rec)
    PROVE  TypeOK'
  <1>1. rec \in Records /\ rec.name \in Names /\ rec.id \in Ids /\ rec.title \in Titles
    BY DEF TypeOK, Records
  <1>2. /\ UNCHANGED <<p, clock, object, phase, memory, seed, initialized, listed, todo, lasting>>
        /\ pending' \subseteq Records
    BY EmitFrame DEF TypeOK
  <1>3. faults' \in 0 .. MaxFaults
    BY BoundTypes DEF EmitStep, Suppress, Emit, EmitUnchecked, EmitFails, TypeOK
  <1>4. since' \in [Ids -> Times]
    <2>1. since' = since \/ since' = [since EXCEPT ![rec.id] = 0]
      BY DEF EmitStep, Suppress, Emit, EmitUnchecked, EmitFails, Insert, history
    <2>2. QED
      BY <2>1, BoundTypes DEF TypeOK
  <1>5. /\ rowAt' \in [Names \X Titles -> Times]
        /\ latest' \in [Names -> Titles \cup {"none"}]
        /\ told' \in [Ids -> Buckets \cup {"absent"}]
        /\ said' \in {Nothing} \cup Records
    <2>1. CASE UNCHANGED <<rowVars, told>> /\ said' = Nothing
      BY <2>1 DEF TypeOK, rowVars
    <2>2. CASE Insert(rec)
      <3>1. BucketOfTitle(rec.title) \in Buckets
        BY <1>1, BucketOf
      <3>2. rowAt' = [rowAt EXCEPT ![<<rec.name, rec.title>>] = clock] /\ clock \in Times
        BY <2>2 DEF Insert, TypeOK
      <3>3. QED
        BY <1>1, <2>2, <3>1, <3>2 DEF Insert, TypeOK
    <2>3. QED
      BY <2>1, <2>2, EmitFrame
  <1>6. QED
    BY <1>2, <1>3, <1>4, <1>5 DEF TypeOK, lasting

LEMMA PassOverFrame ==
    ASSUME NEW o \in todo, PassOver(o)
    PROVE  /\ UNCHANGED <<p, clock, object, rowVars, phase, memory, seed, initialized, listed,
                          pending, faults, history>>
           /\ todo' = todo \ {o} /\ pending = {} /\ said' = Nothing
  BY DEF PassOver

LEMMA TypePassOver ==
    ASSUME TypeOK, NEW o \in todo, PassOver(o)
    PROVE  TypeOK'
  BY PassOverFrame DEF TypeOK, rowVars, history, lasting

LEMMA TypeStep ==
    ASSUME TypeOK, [Next]_vars
    PROVE  TypeOK'
  <1>1. CASE UNCHANGED vars
    BY <1>1 DEF TypeOK, vars, rowVars, procVars, history, lasting
  <1>2. CASE Next
    BY <1>2, TypeCluster, TypeStart, TypeStop, TypeBegin, TypeCheck, TypePassOver, TypeEmit, TypeEnd
       DEF Next, ClusterStep, Remakes, CycleOver
  <1>3. QED
    BY <1>1, <1>2

LEMMA TypeInit == Init => TypeOK
  <1> SUFFICES ASSUME Init
               PROVE  TypeOK
    OBVIOUS
  <1>1. 1 \in Times \ {0} /\ 0 \in Times /\ 0 \in Births /\ 0 \in 0 .. MaxFaults
    BY BoundsAssumption DEF Times, Births
  <1>2. Forgotten \in [Ids -> Buckets \cup {"absent"}] /\ "ok" \in Readings
    BY DEF Forgotten, Readings
  <1>3. QED
    BY <1>1, <1>2 DEF Init, TypeOK

-----------------------------------------------------------------------------
(* The rest of the invariant, step by step.                                *)

Rest == Halted /\ Apart /\ Past /\ Owed /\ Unsaid /\ SeedSpent /\ Recalled

\* What the cluster does, and what only passes an object over, disturbs none of
\* it.
LEMMA RestQuiet ==
    ASSUME TypeOK, Rest, clock' >= clock, clock' \in Nat, todo' \subseteq todo,
           UNCHANGED <<p, rowAt, phase, memory, seed, listed, pending, since, told>>
    PROVE  Rest'
  <1>0. /\ \A nt \in Names \X Titles : rowAt[nt] \in Nat
        /\ \A i \in Ids : since[i] \in Nat
        /\ clock \in Nat
    BY BoundTypes DEF TypeOK
  <1>1. Halted'
    BY DEF Rest, Halted
  <1>2. Apart'
    <2>1. IdsOf(listed \ todo) \subseteq IdsOf(listed' \ todo')
      BY DEF IdsOf
    <2>2. QED
      BY <2>1, IdsKept DEF Rest, Apart
  <1>3. Past'
    BY <1>0 DEF Rest, Past
  <1>4. Owed'
    BY DEF Rest, Owed, InFeed
  <1>5. Unsaid' /\ SeedSpent'
    BY DEF Rest, Unsaid, SeedSpent
  <1>6. Recalled'
    BY IdsKept DEF Rest, Recalled
  <1>7. QED
    BY <1>1, <1>2, <1>3, <1>4, <1>5, <1>6 DEF Rest

LEMMA RestCluster ==
    ASSUME TypeOK, Rest, ClusterStep
    PROVE  Rest'
  <1>1. UNCHANGED Outside /\ clock' \in Times \ {0} /\ clock' >= clock
    BY ClusterFrame
  <1>2. QED
    BY <1>1, RestQuiet, BoundTypes DEF Outside, rowVars, procVars, TypeOK

LEMMA RestPassOver ==
    ASSUME TypeOK, Rest, NEW o \in todo, PassOver(o)
    PROVE  Rest'
  BY PassOverFrame, RestQuiet, BoundTypes DEF TypeOK, rowVars, history

\* A start finds a process that remembers nothing.
LEMMA RestStart ==
    ASSUME TypeOK, Rest, Start
    PROVE  Rest'
  <1>1. /\ UNCHANGED <<p, clock, rowAt, memory, listed, todo, pending, since, told>>
        /\ phase = "down" /\ phase' = "idle"
    BY DEF Start, rowVars
  <1>2. memory = Forgotten /\ told = Forgotten /\ listed = {} /\ pending = {}
    BY <1>1 DEF Rest, Halted
  <1>3. Halted' /\ Past'
    BY <1>1, <1>2 DEF Rest, Halted, Past
  <1>4. Apart' /\ Unsaid'
    BY <1>1, <1>2 DEF Apart, Unsaid
  <1>5. Owed'
    BY <1>1 DEF Rest, Owed, InFeed
  <1>6. SeedSpent' /\ Recalled'
    BY <1>1, <1>2 DEF SeedSpent, Recalled, Forgotten, Bad
  <1>7. QED
    BY <1>3, <1>4, <1>5, <1>6 DEF Rest

LEMMA RestStop ==
    ASSUME TypeOK, Rest, Stop
    PROVE  Rest'
  <1>1. /\ UNCHANGED <<p, clock, rowAt>>
        /\ memory' = Forgotten /\ told' = Forgotten /\ listed' = {} /\ pending' = {}
        /\ since' = [i \in Ids |-> 0] /\ phase' = "down"
    BY DEF Stop, rowVars
  <1>2. Halted'
    BY <1>1 DEF Halted
  <1>3. Past'
    <2>1. 0 <= clock
      BY BoundTypes DEF TypeOK
    <2>2. QED
      BY <1>1, <2>1 DEF Rest, Past
  <1>4. Apart' /\ Unsaid' /\ Owed'
    BY <1>1 DEF Apart, Unsaid, Owed
  <1>5. SeedSpent' /\ Recalled'
    BY <1>1 DEF SeedSpent, Recalled, Forgotten, Bad
  <1>6. QED
    BY <1>2, <1>3, <1>4, <1>5 DEF Rest

LEMMA RestList ==
    ASSUME TypeOK, Rest, List \/ ListEmptied \/ ListFails
    PROVE  Rest'
  <1>0. clock \in Nat
    BY BoundTypes DEF TypeOK
  <1>1. CASE ListFails
    BY <1>0, <1>1, RestQuiet DEF ListFails, rowVars, history
  <1>2. CASE List \/ ListEmptied
    <2>1. /\ UNCHANGED <<p, clock, rowAt, memory, seed, pending, since>>
          /\ phase = "idle" /\ phase' = "polling"
          /\ listed' = Present \/ listed' = {}
      BY <1>2 DEF List, ListEmptied, Begin, rowVars
    <2>2. pending = {}
      BY <2>1 DEF Rest, Halted
    <2>3. \A i \in Ids : told'[i] = told[i] \/ told'[i] = "absent"
      BY <1>2 DEF List, ListEmptied, Pruned
    <2>4. Halted' /\ Past'
      BY <2>1 DEF Rest, Halted, Past
    <2>5. Apart'
      <3>1. \A o, q \in Present : o.name = q.name => o = q
        BY DEF Present
      <3>2. QED
        BY <2>1, <2>2, <3>1 DEF Apart
    <2>6. Unsaid'
      BY <2>1, <2>2 DEF Unsaid
    <2>7. Owed'
      BY <2>1, <2>2 DEF Rest, Owed, InFeed
    <2>8. SeedSpent'
      BY <2>1, <2>2, <2>3 DEF Rest, SeedSpent
    <2>9. Recalled'
      <3>1. \A i \in Ids : told'[i] \in Bad =>
                memory'[i] = told'[i] \/ (memory'[i] = "absent" /\ p'.baseline)
        BY <2>1, <2>3 DEF Rest, Recalled, Bad
      <3>2. CASE ListEmptied
        <4>1. p'.emptied
          BY <2>1, <3>2 DEF ListEmptied
        <4>2. QED
          BY <3>1, <4>1 DEF Recalled
      <3>3. CASE List
        <4>1. ASSUME NEW i \in Ids, told'[i] \in Bad
              PROVE  i \in IdsOf(listed')
          BY <3>3, <4>1 DEF List, Begin, Pruned, IdsOf, Bad
        <4>2. QED
          BY <2>1, <3>1, <4>1, IdsKept DEF Recalled
      <3>4. QED
        BY <1>2, <3>2, <3>3
    <2>10. QED
      BY <2>4, <2>5, <2>6, <2>7, <2>8, <2>9 DEF Rest
  <1>3. QED
    BY <1>1, <1>2


\* A cycle that ends forgets what its list left out; no failure that was told is
\* among that, unless the list was emptied.
LEMMA RestEnd ==
    ASSUME TypeOK, Rest, End
    PROVE  Rest'
  <1>1. /\ UNCHANGED <<p, clock, rowAt, seed, pending, told>>
        /\ pending = {} /\ listed' = {} /\ phase = "polling" /\ phase' = "idle"
    BY DEF End, rowVars
  <1>2. \A i \in Ids :
            IF i \in IdsOf(listed) THEN memory'[i] = memory[i] /\ since'[i] = since[i]
                                   ELSE memory'[i] = "absent" /\ since'[i] = 0
    BY DEF End, Pruned, IdsOf
  <1>3. Halted' /\ Apart' /\ Unsaid'
    BY <1>1 DEF Halted, Apart, Unsaid
  <1>4. Past'
    <2>1. clock \in Nat
      BY BoundTypes DEF TypeOK
    <2>2. \A i \in Ids : since'[i] = since[i] \/ since'[i] = 0
      BY <1>2
    <2>3. QED
      BY <1>1, <2>1, <2>2 DEF Rest, Past
  <1>5. Owed'
    BY <1>1, <1>2 DEF Rest, Owed, InFeed
  <1>6. SeedSpent'
    BY <1>1, <1>2 DEF Rest, SeedSpent
  <1>7. Recalled'
    <2>1. p.emptied => p.baseline
      BY PollerShape DEF TypeOK
    <2>2. ASSUME NEW i \in Ids, told'[i] \in Bad
          PROVE  memory'[i] = told'[i] \/ (memory'[i] = "absent" /\ p'.baseline)
      <3>1. CASE i \in IdsOf(listed)
        BY <1>1, <1>2, <2>2, <3>1 DEF Rest, Recalled
      <3>2. CASE i \notin IdsOf(listed)
        BY <1>1, <1>2, <2>1, <2>2, <3>2 DEF Rest, Recalled
      <3>3. QED
        BY <3>1, <3>2
    <2>3. QED
      BY <1>1, <2>2 DEF Recalled
  <1>8. QED
    BY <1>3, <1>4, <1>5, <1>6, <1>7 DEF Rest

LEMMA RestPanic ==
    ASSUME TypeOK, Rest, Panic
    PROVE  Rest'
  <1>1. /\ UNCHANGED <<p, clock, rowAt, memory, seed, told>>
        /\ pending' = {} /\ listed' = {} /\ phase' = "idle"
        /\ since' = [i \in Ids |-> IF \E rec \in pending : rec.id = i THEN 0 ELSE since[i]]
    BY DEF Panic, rowVars
  <1>2. Halted' /\ Apart' /\ Unsaid'
    BY <1>1 DEF Halted, Apart, Unsaid
  <1>3. Past'
    BY <1>1, BoundTypes DEF Rest, Past, TypeOK
  <1>4. Owed'
    BY <1>1 DEF Rest, Owed, InFeed
  <1>5. SeedSpent' /\ Recalled'
    BY <1>1 DEF Rest, SeedSpent, Recalled
  <1>6. QED
    BY <1>2, <1>3, <1>4, <1>5 DEF Rest

LEMMA RestCheck ==
    ASSUME TypeOK, Rest, NEW o \in todo, Check(o)
    PROVE  Rest'
  <1> DEFINE i   == Id(o)
             now == Bucket(o.reading)
             T   == TitleFor(o)
             new == {[name |-> o.name, id |-> i, title |-> t] : t \in T}
  <1>0. /\ o \in Objects /\ o \in listed /\ o.reading # "unset"
        /\ i \in Ids /\ i[1] = o.name /\ o.name \in Names /\ now \in Buckets
        /\ memory' = [memory EXCEPT ![i] = now]
        /\ seed' = IF memory[i] = "absent" THEN [seed EXCEPT ![o.name] = "absent"] ELSE seed
        /\ pending' = pending \cup new
        /\ since' = [since EXCEPT ![i] = IF T \cap Failures # {} THEN clock
                                         ELSE IF memory[i] = now THEN since[i] ELSE 0]
        /\ told' = IF told[i] # now THEN [told EXCEPT ![i] = "absent"] ELSE told
        /\ todo' = todo \ {o} /\ phase = "polling"
        /\ UNCHANGED <<p, clock, rowAt, phase, listed>>
    BY CheckFrame DEF rowVars
  <1>1. /\ memory \in [Ids -> Buckets \cup {"absent"}]
        /\ told \in [Ids -> Buckets \cup {"absent"}]
        /\ seed \in [Names -> Buckets \cup {"absent"}]
        /\ since \in [Ids -> Times] /\ clock \in Nat /\ 0 <= clock /\ Times \subseteq Nat
        /\ pending \subseteq Records /\ listed \subseteq Objects /\ todo \subseteq listed
    BY BoundTypes DEF TypeOK
  <1>2. "absent" \notin Buckets /\ Bad \subseteq Buckets
    BY DEF Buckets, Bad
  <1>3. Halted /\ Apart /\ Past /\ Owed /\ Unsaid /\ SeedSpent /\ Recalled
    BY DEF Rest
  <1>4. /\ memory'[i] = now
        /\ since'[i] = IF T \cap Failures # {} THEN clock
                       ELSE IF memory[i] = now THEN since[i] ELSE 0
        /\ told'[i] = IF told[i] # now THEN "absent" ELSE told[i]
        /\ \A j \in Ids \ {i} : /\ memory'[j] = memory[j] /\ since'[j] = since[j]
                                /\ told'[j] = told[j]
    BY <1>0, <1>1
  <1>5. \A n \in Names : seed[n] = "absent" => seed'[n] = "absent"
    BY <1>0, <1>1
  <1>6. seed'[o.name] = "absent"
    BY <1>0, <1>1, <1>3 DEF SeedSpent
  <1>7. \A rec \in pending : rec.id # i /\ rec.id \in Ids /\ rec.name \in Names
    <2>1. ASSUME NEW rec \in pending, rec.id = i
          PROVE  FALSE
      <3>1. PICK q \in listed \ todo : rec.id = Id(q)
        BY <1>3 DEF Apart, IdsOf
      <3>2. Id(q)[1] = q.name
        BY <1>1, <3>1, IdTyped
      <3>3. q = o
        BY <1>0, <1>3, <2>1, <3>1, <3>2 DEF Apart
      <3>4. QED
        BY <3>1, <3>3
    <2>2. QED
      BY <1>1, <2>1 DEF Records
  <1>8. Halted'
    BY <1>0 DEF Halted
  <1>9. Apart'
    <2>1. \A rec \in pending' : rec.id[1] = rec.name /\ rec.id \in IdsOf(listed' \ todo')
      <3>1. IdsOf(listed \ todo) \subseteq IdsOf(listed' \ todo') /\ i \in IdsOf(listed' \ todo')
        BY <1>0 DEF IdsOf
      <3>2. \A rec \in new : rec.id = i /\ rec.name = o.name
        OBVIOUS
      <3>3. \A rec \in pending : rec.id[1] = rec.name /\ rec.id \in IdsOf(listed \ todo)
        BY <1>3 DEF Apart
      <3>4. QED
        BY <1>0, <3>1, <3>2, <3>3
    <2>2. \A rec, q \in new : rec = q
      BY <1>0, TitleOf
    <2>3. \A rec, q \in pending' : rec.id = q.id => rec = q
      BY <1>0, <1>3, <1>7, <2>2 DEF Apart
    <2>4. QED
      BY <1>0, <1>3, <2>1, <2>3, IdsKept DEF Apart
  <1>10. Past'
    BY <1>0, <1>1, <1>3, <1>4 DEF Past
  <1>11. Owed'
    <2>1. ASSUME NEW j \in Ids, since'[j] # 0
          PROVE  InFeed(j)' \/ \E rec \in pending' : rec.id = j /\ rec.title \in Failures
      <3>1. CASE j # i
        <4>1. memory'[j] = memory[j] /\ since'[j] = since[j] /\ since[j] # 0
          BY <1>4, <2>1, <3>1
        <4>2. InFeed(j) \/ \E rec \in pending : rec.id = j /\ rec.title \in Failures
          BY <1>3, <4>1 DEF Owed
        <4>3. InFeed(j) => InFeed(j)'
          BY <1>0, <4>1 DEF InFeed
        <4>4. QED
          BY <1>0, <4>2, <4>3
      <3>2. CASE j = i /\ T \cap Failures # {}
        <4>1. PICK t \in T : t \in Failures
          BY <3>2
        <4>2. [name |-> o.name, id |-> i, title |-> t] \in pending'
          BY <1>0
        <4>3. QED
          BY <3>2, <4>1, <4>2
      <3>3. CASE j = i /\ T \cap Failures = {}
        <4>1. memory'[i] = memory[i] /\ since'[i] = since[i] /\ since[i] # 0
          BY <1>4, <2>1, <3>3
        <4>2. InFeed(i)
          BY <1>0, <1>3, <1>7, <4>1 DEF Owed
        <4>3. QED
          BY <1>0, <3>3, <4>1, <4>2 DEF InFeed
      <3>4. QED
        BY <3>1, <3>2, <3>3
    <2>2. QED
      BY <2>1 DEF Owed
  <1>12. Unsaid'
    <2>1. ASSUME NEW rec \in pending, rec.title \in Failures
          PROVE  Bucket(rec.title) = memory'[rec.id] /\ told'[rec.id] # memory'[rec.id]
      BY <1>3, <1>4, <1>7, <2>1 DEF Unsaid
    <2>2. ASSUME NEW t \in T, t \in Failures
          PROVE  Bucket(t) = now /\ told'[i] # now
      <3>1. /\ Bucket(t) = now /\ now \in Bad /\ Previous(o) # now
            /\ ~(Previous(o) = "absent" /\ p.baseline)
        BY <1>0, <2>2, TitleOf
      <3>2. ASSUME told[i] = now
            PROVE  FALSE
        <4>1. seed[o.name] = "absent"
          BY <1>0, <1>2, <1>3, <3>2 DEF SeedSpent
        <4>2. memory[i] = now \/ (memory[i] = "absent" /\ p.baseline)
          BY <1>0, <1>3, <3>1, <3>2 DEF Recalled
        <4>3. QED
          BY <1>0, <1>2, <3>1, <4>1, <4>2 DEF Previous
      <3>3. QED
        BY <1>0, <1>2, <1>4, <3>1, <3>2
    <2>3. ASSUME NEW rec \in new, rec.title \in Failures
          PROVE  Bucket(rec.title) = memory'[rec.id] /\ told'[rec.id] # memory'[rec.id]
      BY <1>4, <2>2, <2>3
    <2>4. QED
      BY <1>0, <2>1, <2>3 DEF Unsaid
  <1>13. SeedSpent'
    <2>1. ASSUME NEW j \in Ids, memory'[j] # "absent" \/ told'[j] # "absent"
          PROVE  seed'[j[1]] = "absent"
      <3>1. CASE j = i
        BY <1>0, <1>6, <3>1
      <3>2. CASE j # i
        <4>1. seed[j[1]] = "absent" /\ j[1] \in Names
          BY <1>3, <1>4, <2>1, <3>2 DEF SeedSpent, Ids
        <4>2. QED
          BY <1>5, <4>1
      <3>3. QED
        BY <3>1, <3>2
    <2>2. \A rec \in pending : seed'[rec.name] = "absent"
      BY <1>3, <1>5, <1>7 DEF SeedSpent
    <2>3. \A rec \in new : seed'[rec.name] = "absent"
      BY <1>6
    <2>4. QED
      BY <1>0, <2>1, <2>2, <2>3 DEF SeedSpent
  <1>14. Recalled'
    <2>1. "absent" \notin Bad
      BY <1>2
    <2>2. \A j \in Ids : told'[j] \in Bad => told[j] \in Bad
      BY <1>4, <2>1
    <2>3. \A j \in Ids : told'[j] \in Bad =>
              memory'[j] = told'[j] \/ (memory'[j] = "absent" /\ p'.baseline)
      BY <1>0, <1>3, <1>4, <2>1 DEF Recalled
    <2>4. QED
      BY <1>0, <1>3, <2>2, <2>3, IdsKept DEF Recalled
  <1>15. QED
    BY <1>8, <1>9, <1>10, <1>11, <1>12, <1>13, <1>14 DEF Rest


\* A record leaves, and either nothing is said or its row is inserted.
LEMMA RestEmit ==
    ASSUME TypeOK, Rest, NEW rec \in pending, EmitStep(rec)
    PROVE  Rest'
  <1>0. /\ UNCHANGED <<p, clock, phase, memory, seed, listed, todo>>
        /\ pending' = pending \ {rec}
    BY EmitFrame
  <1>1. /\ rowAt \in [Names \X Titles -> Times] /\ told \in [Ids -> Buckets \cup {"absent"}]
        /\ since \in [Ids -> Times] /\ clock \in Nat /\ 0 <= clock /\ Times \subseteq Nat
        /\ Window \in Nat \ {0}
        /\ rec.name \in Names /\ rec.id \in Ids /\ rec.title \in Titles
        /\ \A q \in pending : q.id \in Ids
    BY BoundTypes DEF TypeOK, Records
  <1>2. Halted /\ Apart /\ Past /\ Owed /\ Unsaid /\ SeedSpent /\ Recalled
    BY DEF Rest
  <1>3. rec.id[1] = rec.name /\ \A q \in pending' : q \in pending /\ q.id # rec.id
    BY <1>0, <1>2 DEF Apart
  <1>4. /\ \A j \in Ids : since'[j] = since[j] \/ since'[j] = 0
        /\ since'[rec.id] # 0 => Exists(rec) \/ Insert(rec)
    <2>1. CASE EmitFails(rec)
      BY <1>1, <2>1 DEF EmitFails
    <2>2. CASE Suppress(rec)
      BY <2>2 DEF Suppress, history
    <2>3. CASE Emit(rec) \/ EmitUnchecked(rec)
      BY <2>3 DEF Emit, EmitUnchecked, Insert
    <2>4. QED
      BY <2>1, <2>2, <2>3 DEF EmitStep
  <1>5. \/ rowAt' = rowAt
        \/ Insert(rec) /\ rowAt' = [rowAt EXCEPT ![<<rec.name, rec.title>>] = clock]
    BY EmitFrame DEF Insert, rowVars
  <1>6. \A nt \in Names \X Titles : rowAt[nt] <= rowAt'[nt] /\ rowAt'[nt] <= clock
    <2>1. ASSUME NEW nt \in Names \X Titles
          PROVE  /\ rowAt[nt] \in Nat /\ rowAt[nt] <= clock
                 /\ rowAt'[nt] = rowAt[nt] \/ rowAt'[nt] = clock
      BY <1>1, <1>2, <1>5 DEF Past
    <2>2. QED
      BY <1>1, <2>1
  <1>7. /\ \A j \in Ids \ {rec.id} : told'[j] = told[j]
        /\ told'[rec.id] = told[rec.id] \/ told'[rec.id] = BucketOfTitle(rec.title)
    BY <1>1, EmitFrame DEF Insert
  <1>8. Halted'
    BY <1>0, <1>2 DEF Halted
  <1>9. Apart'
    <2>1. IdsOf(listed' \ todo') = IdsOf(listed \ todo)
      BY <1>0
    <2>2. QED
      BY <1>0, <1>2, <2>1, IdsKept DEF Apart
  <1>10. Past'
    BY <1>0, <1>1, <1>2, <1>4, <1>6 DEF Past
  <1>11. Owed'
    <2>1. ASSUME NEW j \in Ids, since'[j] # 0
          PROVE  InFeed(j)' \/ \E q \in pending' : q.id = j /\ q.title \in Failures
      <3>1. since'[j] = since[j] /\ since[j] # 0 /\ since[j] <= clock /\ since[j] \in Nat
        BY <1>1, <1>2, <1>4, <2>1 DEF Past
      <3>2. Failures \subseteq Titles /\ j[1] \in Names
        BY DEF Failures, Titles, Ids
      <3>3. CASE InFeed(j)
        <4>1. PICK t \in Failures : Bucket(t) = memory[j] /\ rowAt[<<j[1], t>>] + Window > since[j]
          BY <3>3 DEF InFeed
        <4>2. /\ rowAt[<<j[1], t>>] \in Nat /\ rowAt'[<<j[1], t>>] \in Nat
              /\ rowAt[<<j[1], t>>] <= rowAt'[<<j[1], t>>]
          <5>1. <<j[1], t>> \in Names \X Titles
            BY <3>2
          <5>2. QED
            BY <1>1, <1>5, <1>6, <5>1
        <4>3. rowAt'[<<j[1], t>>] + Window > since'[j]
          BY <1>1, <3>1, <4>1, <4>2
        <4>4. QED
          BY <1>0, <4>1, <4>3 DEF InFeed
      <3>4. CASE \E q \in pending : q.id = j /\ q.title \in Failures /\ q # rec
        BY <1>0, <3>4
      <3>5. CASE rec.id = j /\ rec.title \in Failures
        <4>1. Bucket(rec.title) = memory'[j]
          BY <1>0, <1>2, <3>5 DEF Unsaid
        <4>2. rowAt'[<<j[1], rec.title>>] + Window > since'[j]
          <5>1. <<rec.name, rec.title>> \in Names \X Titles /\ j[1] = rec.name
            BY <1>1, <1>3, <3>5
          <5>2. rowAt[<<rec.name, rec.title>>] \in Nat /\ rowAt'[<<rec.name, rec.title>>] \in Nat
            BY <1>1, <1>5, <5>1
          <5>3. CASE Exists(rec)
            <6>1. rowAt[<<rec.name, rec.title>>] + Window > clock
              BY <5>3 DEF Exists
            <6>2. QED
              BY <1>1, <1>6, <3>1, <5>1, <5>2, <6>1
          <5>4. CASE Insert(rec)
            <6>1. rowAt'[<<rec.name, rec.title>>] = clock
              BY <1>1, <5>1, <5>4 DEF Insert
            <6>2. QED
              BY <1>1, <3>1, <5>1, <6>1
          <5>5. QED
            BY <1>4, <2>1, <3>5, <5>3, <5>4
        <4>3. QED
          BY <3>5, <4>1, <4>2 DEF InFeed
      <3>6. QED
        BY <1>2, <3>1, <3>3, <3>4, <3>5 DEF Owed
    <2>2. QED
      BY <2>1 DEF Owed
  <1>12. Unsaid'
    <2>1. \A q \in pending' : told'[q.id] = told[q.id]
      BY <1>1, <1>3, <1>7
    <2>2. QED
      BY <1>0, <1>2, <1>3, <2>1 DEF Unsaid
  <1>13. SeedSpent'
    BY <1>0, <1>2, <1>3, <1>7 DEF SeedSpent
  <1>14. Recalled'
    <2>1. told'[rec.id] # told[rec.id] /\ told'[rec.id] \in Bad =>
              told'[rec.id] = memory[rec.id] /\ rec.id \in IdsOf(listed)
      <3>1. rec.id \in IdsOf(listed)
        BY <1>2 DEF Apart, IdsOf
      <3>2. QED
        BY <1>1, <1>2, <1>7, <3>1, BucketOf DEF Unsaid
    <2>2. \A j \in Ids : told'[j] = told[j] \/ (told'[j] \in Bad =>
                             told'[j] = memory[j] /\ j \in IdsOf(listed))
      BY <1>7, <2>1
    <2>3. \A j \in Ids : told'[j] \in Bad =>
              memory'[j] = told'[j] \/ (memory'[j] = "absent" /\ p'.baseline)
      BY <1>0, <1>2, <2>2 DEF Recalled
    <2>4. phase' = "polling" /\ ~p'.emptied =>
              \A j \in Ids : told'[j] \in Bad => j \in IdsOf(listed)
      BY <1>0, <1>2, <2>2 DEF Recalled
    <2>5. QED
      BY <1>0, <2>3, <2>4, IdsKept DEF Recalled
  <1>15. QED
    BY <1>8, <1>9, <1>10, <1>11, <1>12, <1>13, <1>14 DEF Rest

LEMMA RestInit == Init => Rest
  <1> SUFFICES ASSUME Init
               PROVE  Rest
    OBVIOUS
  <1>1. Halted /\ Apart
    BY DEF Init, Halted, Apart
  <1>2. Past
    BY DEF Init, Past
  <1>3. Owed /\ Unsaid /\ SeedSpent /\ Recalled
    BY DEF Init, Owed, Unsaid, SeedSpent, Recalled, Forgotten, Bad
  <1>4. QED
    BY <1>1, <1>2, <1>3 DEF Rest

LEMMA Initially == Init => IInv
  BY TypeInit, RestInit DEF IInv, Rest

LEMMA Inductive == IInv /\ [Next]_vars => IInv'
  <1> SUFFICES ASSUME IInv, [Next]_vars
               PROVE  IInv'
    OBVIOUS
  <1>1. TypeOK /\ Rest
    BY DEF IInv, Rest
  <1>2. TypeOK'
    BY <1>1, TypeStep
  <1>3. CASE UNCHANGED vars
    <2>1. /\ UNCHANGED <<p, rowAt, phase, memory, seed, listed, todo, pending, since, told>>
          /\ clock' >= clock /\ clock' \in Nat /\ todo' \subseteq todo
      BY <1>1, <1>3, BoundTypes DEF vars, rowVars, procVars, history, TypeOK
    <2>2. Rest'
      BY <1>1, <2>1, RestQuiet
    <2>3. QED
      BY <1>2, <2>2 DEF IInv, Rest
  <1>4. CASE Next
    <2>1. Rest'
      BY <1>1, <1>4, RestCluster, RestStart, RestStop, RestList, RestCheck, RestPassOver, RestEmit,
         RestEnd, RestPanic
         DEF Next, ClusterStep, Remakes
    <2>2. QED
      BY <1>2, <2>1 DEF IInv, Rest
  <1>5. QED
    BY <1>3, <1>4

LEMMA Invariant == Spec => []IInv
  BY Initially, Inductive, PTL DEF Spec

-----------------------------------------------------------------------------

\* Every variable of a poller keeps its type; in particular every bucket it
\* remembers, from a reading or from the seed, is one.
THEOREM TypeCorrect == Spec => []TypeOK
  <1>1. IInv => TypeOK
    BY DEF IInv
  <1>2. QED
    BY <1>1, Invariant, PTL

\* A change that a cycle has found and nothing has failed to report is in the
\* feed, with a row no older than the deduplication window.
THEOREM WhatIsFoundIsTold == Spec => []Told
  <1>1. IInv => Told
    BY DEF IInv, Owed, InFeed, Told
  <1>2. QED
    BY <1>1, Invariant, PTL

\* While a process runs and finds an object in the same bucket, it says so once.
THEOREM NothingIsRepeated == Spec => NoRepeat
  <1>1. IInv /\ [Next]_vars =>
            [said' # Nothing /\ said'.title \in Failures =>
                 told[said'.id] # Bucket(said'.title)]_vars
    <2> SUFFICES ASSUME IInv, Next, said' # Nothing, said'.title \in Failures
                 PROVE  told[said'.id] # Bucket(said'.title)
      OBVIOUS
    <2>1. TypeOK /\ Unsaid
      BY DEF IInv
    <2>2. PICK rec \in pending : EmitStep(rec)
      <3>1. ~ClusterStep
        BY <2>1, ClusterFrame
      <3>2. ~Start /\ ~Stop /\ ~List /\ ~ListEmptied /\ ~ListFails /\ ~End /\ ~Panic
        BY DEF Start, Stop, List, ListEmptied, ListFails, Begin, End, Panic
      <3>3. \A o \in todo : ~Check(o) /\ ~PassOver(o)
        BY <2>1, CheckFrame, PassOverFrame
      <3>4. QED
        BY <3>1, <3>2, <3>3 DEF Next, ClusterStep, Remakes
    <2>3. said' = rec
      BY <2>2, EmitFrame DEF Insert
    <2>4. QED
      BY <2>1, <2>3 DEF Unsaid
  <1>2. QED
    BY <1>1, Invariant, PTL DEF Spec, NoRepeat

=============================================================================
