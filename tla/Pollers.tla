------------------------------ MODULE Pollers -------------------------------
(***************************************************************************)
(* The background pollers that turn what the cluster looks like into       *)
(* notifications: the certificate poller, the ExternalSecret poller and    *)
(* the quota checker.  Each lists its objects, compares the bucket every   *)
(* one is in with the bucket it remembers, and emits a notification for a  *)
(* change; what it remembers is in memory, what it emitted is in the       *)
(* database, where Emit looks for a row of the same title before it adds   *)
(* another.  Objects change, disappear and come back in the meantime, the  *)
(* process restarts, lists and database calls fail, and a cycle may panic. *)
(*                                                                         *)
(* The pollers share the scheme and differ in details, which the records   *)
(* below read from their code; a behaviour is one poller's.                *)
(***************************************************************************)
EXTENDS Naturals

CONSTANTS Names,       \* namespace and name of the objects
          Window,      \* dedupWindow: Emit suppresses repetitions for this long
          SeedWindow,  \* recoverySeedWindow: how old a seed may be at a start
          MaxTime,     \* bound on the clock
          MaxBirths,   \* bound on how often a name is created again
          MaxFaults    \* bound on failed database calls, lists and cycles

ASSUME BoundsAssumption == /\ Window \in Nat \ {0} /\ SeedWindow \in Nat
                           /\ MaxTime \in Nat \ {0}
                           /\ MaxBirths \in Nat /\ MaxFaults \in Nat

VARIABLES p,            \* the poller this behaviour is about
          clock,        \* the time
          object,       \* the objects of the cluster
          rowAt,        \* nc_notifications: when a title was last inserted for a name
          latest,       \* the title of a name's newest row
          phase,        \* where the poller is
          memory,       \* dedupe, prevBucket with seen, or lastState
          seed,         \* seedNSName
          initialized,  \* the first cycle of this process is over
          listed,       \* what the cycle's list returned
          todo,         \* what of it the cycle has still to check
          pending,      \* the records the cycle has still to emit
          faults,       \* failed calls, lists and cycles so far
          since,        \* since when an id is owed a notification, or 0: history
          told,         \* the bucket an id was last told to be in: history
          inventory,    \* the ids there were when the process started: history
          ailing,       \* the ids that were ever in a bad bucket: history
          said          \* what the last step inserted

procVars == <<memory, seed, initialized, listed, todo, pending>>
rowVars == <<rowAt, latest>>
lasting == <<inventory, ailing>>
history == <<since, told, lasting>>
vars == <<p, clock, object, rowVars, phase, procVars, faults, history, said>>

-----------------------------------------------------------------------------
(* The pollers.                                                            *)
(*   byUid       what is remembered is remembered by UID, else by name     *)
(*   baseline    the first bucket an object is seen in is not an event     *)
(*   recovery    the way back to health is one (alert-on-recovery)         *)
(*   lifecycle   a new object is one (alert-on-lifecycle)                  *)
(*   seeded      a start reads the buckets back from the newest rows       *)
(*   together    all objects are checked before anything is emitted        *)
(*   perReading  the title names the reading, not just the bucket          *)
(*   optional    a reading may be missing, and is then passed over         *)
(*   emptied     a list may succeed with nothing although it failed        *)

CertManager ==
    [byUid |-> TRUE, baseline |-> FALSE, recovery |-> FALSE, lifecycle |-> FALSE,
     seeded |-> FALSE, together |-> FALSE, perReading |-> FALSE, optional |-> TRUE,
     emptied |-> FALSE]

ExternalSecrets(alertOnRecovery, alertOnLifecycle) ==
    [byUid |-> TRUE, baseline |-> TRUE, recovery |-> alertOnRecovery,
     lifecycle |-> alertOnLifecycle, seeded |-> TRUE, together |-> TRUE,
     perReading |-> FALSE, optional |-> FALSE, emptied |-> TRUE]

Limits ==
    [byUid |-> FALSE, baseline |-> FALSE, recovery |-> FALSE, lifecycle |-> FALSE,
     seeded |-> FALSE, together |-> FALSE, perReading |-> TRUE, optional |-> FALSE,
     emptied |-> FALSE]

Pollers == {CertManager, Limits} \cup
               {ExternalSecrets(a, b) : a \in BOOLEAN, b \in BOOLEAN}

-----------------------------------------------------------------------------
(* What is polled and what is said.                                        *)

Bad == {"warning", "critical"}

Buckets == Bad \cup {"ok"}

\* Two readings may be of one bucket, such as two percentages above a threshold.
Failures == Bad \cup {"warning2"}

\* A certificate that was not issued yet has no expiry to read.
Readings == Failures \cup {"ok", "unset"}

Bucket(reading) == IF reading = "warning2" THEN "warning" ELSE reading

\* The title of a failure is its reading or bucket; the others are these.
Titles == Failures \cup {"recovered", "created", "first"}

Births == 0 .. MaxBirths

Ids == Names \X Births

Objects == [name: Names, birth: Births, reading: Readings]

Records == [name: Names, id: Ids, title: Titles]

Times == 0 .. MaxTime

Nothing == [title |-> "nothing"]

TypeOK ==
    /\ p \in Pollers
    /\ clock \in Times \ {0}
    /\ object \in [Names -> [exists: BOOLEAN, birth: Births, reading: Readings]]
    /\ rowAt \in [Names \X Titles -> Times]
    /\ latest \in [Names -> Titles \cup {"none"}]
    /\ phase \in {"down", "idle", "polling"}
    /\ memory \in [Ids -> Buckets \cup {"absent"}]
    /\ seed \in [Names -> Buckets \cup {"absent"}]
    /\ initialized \in BOOLEAN
    /\ listed \subseteq Objects
    /\ todo \subseteq listed
    /\ pending \subseteq Records
    /\ faults \in 0 .. MaxFaults
    /\ since \in [Ids -> Times]
    /\ told \in [Ids -> Buckets \cup {"absent"}]
    /\ inventory \subseteq Ids
    /\ ailing \subseteq Ids
    /\ said \in {Nothing} \cup Records

Forgotten == [i \in Ids |-> "absent"]

Init ==
    /\ p \in Pollers
    /\ clock = 1
    /\ object = [n \in Names |-> [exists |-> FALSE, birth |-> 0, reading |-> "ok"]]
    /\ rowAt = [nt \in Names \X Titles |-> 0]
    /\ latest = [n \in Names |-> "none"]
    /\ phase = "down"
    /\ memory = Forgotten
    /\ seed = [n \in Names |-> "absent"]
    /\ initialized = FALSE
    /\ listed = {}
    /\ todo = {}
    /\ pending = {}
    /\ faults = 0
    /\ since = [i \in Ids |-> 0]
    /\ told = Forgotten
    /\ inventory = {}
    /\ ailing = {}
    /\ said = Nothing

-----------------------------------------------------------------------------
(* The cluster.                                                            *)

Outside == <<p, rowVars, phase, procVars, faults, since, told, inventory>>

\* The object of a name, as the pollers that go by UID and by name know it.
IdOf(n, birth) == <<n, IF p.byUid THEN birth ELSE 0>>

Id(o) == IdOf(o.name, o.birth)

\* What an object's status, its days left or its quota's use turns into.
Becomes(n, birth, r) ==
    /\ r = "warning2" => p.perReading
    /\ r = "unset" => p.optional
    /\ object' = [object EXCEPT ![n] = [exists |-> TRUE, birth |-> birth, reading |-> r]]
    /\ ailing' = IF Bucket(r) \in Bad THEN ailing \cup {IdOf(n, birth)} ELSE ailing
    /\ said' = Nothing
    /\ UNCHANGED <<Outside, clock>>

Change(n, r) == object[n].exists /\ Becomes(n, object[n].birth, r)

\* Every object has a UID of its own.
Create(n, r) ==
    /\ ~object[n].exists
    /\ object[n].birth < MaxBirths
    /\ Becomes(n, object[n].birth + 1, r)

Delete(n) ==
    /\ object[n].exists
    /\ object' = [object EXCEPT ![n] = [@ EXCEPT !.exists = FALSE, !.reading = "ok"]]
    /\ said' = Nothing
    /\ UNCHANGED <<Outside, clock, ailing>>

Tick ==
    /\ clock < MaxTime
    /\ clock' = clock + 1
    /\ said' = Nothing
    /\ UNCHANGED <<Outside, object, ailing>>

-----------------------------------------------------------------------------
(* The process.                                                            *)

\* MUTANT of BucketOfTitle: the seed's decoder leaves a title out.
BucketOfTitleUndecoded(t) == Bucket(t)

\* The bucket a persisted notification stands for.
BucketOfTitle(t) ==
    IF t \in {"recovered", "created", "first"} THEN "ok" ELSE Bucket(t)

\* The newest row of a name is read back if it is recent enough.
Seeded ==
    [n \in Names |-> IF latest[n] # "none" /\ rowAt[<<n, latest[n]>>] + SeedWindow >= clock
                     THEN BucketOfTitle(latest[n]) ELSE "absent"]

Unseeded == [n \in Names |-> "absent"]

\* The process starts, with or without its seed, and forgets the rest.
Start ==
    /\ phase = "down"
    /\ phase' = "idle"
    /\ \/ /\ seed' = IF p.seeded THEN Seeded ELSE Unseeded
          /\ UNCHANGED faults
       \/ /\ p.seeded
          /\ faults < MaxFaults
          /\ faults' = faults + 1
          /\ seed' = Unseeded
    /\ inventory' = {IdOf(n, object[n].birth) : n \in {m \in Names : object[m].exists}}
    /\ said' = Nothing
    /\ UNCHANGED <<p, clock, object, rowVars, memory, initialized, listed, todo, pending,
                   since, told, ailing>>

\* Whatever the process remembers is gone, in the middle of a cycle too.
Stop ==
    /\ phase # "down"
    /\ phase' = "down"
    /\ memory' = Forgotten
    /\ seed' = Unseeded
    /\ initialized' = FALSE
    /\ listed' = {}
    /\ todo' = {}
    /\ pending' = {}
    /\ since' = [i \in Ids |-> 0]
    /\ told' = Forgotten
    /\ inventory' = {}
    /\ said' = Nothing
    /\ UNCHANGED <<p, clock, object, rowVars, faults, ailing>>

-----------------------------------------------------------------------------
(* A cycle.                                                                *)

Present == {[name |-> n, birth |-> object[n].birth, reading |-> object[n].reading] :
               n \in {m \in Names : object[m].exists}}

\* The list comes back; with a cold cache behind it, a failed list of
\* ExternalSecrets comes back as an empty one.
Begin(L) ==
    /\ phase = "idle"
    /\ phase' = "polling"
    /\ listed' = L
    /\ todo' = L
    /\ said' = Nothing
    /\ UNCHANGED <<p, clock, object, rowVars, memory, seed, initialized, pending,
                   since, lasting>>

\* What the last list did not return is forgotten.
Pruned(L, f, none) ==
    [i \in Ids |-> IF i \in {Id(o) : o \in L} THEN f[i] ELSE none]

List ==
    /\ Begin(Present)
    /\ told' = Pruned(Present, told, "absent")
    /\ UNCHANGED faults

ListEmptied ==
    /\ p.emptied
    /\ faults < MaxFaults
    /\ faults' = faults + 1
    /\ Begin({})
    /\ UNCHANGED told

\* MUTANT of ListFails: a failed list is pruned by, as if it had returned
\* nothing.
ListFailsPruned ==
    /\ phase = "idle"
    /\ faults < MaxFaults
    /\ faults' = faults + 1
    /\ memory' = Forgotten
    /\ initialized' = TRUE
    /\ since' = [i \in Ids |-> 0]
    /\ said' = Nothing
    /\ UNCHANGED <<p, clock, object, rowVars, phase, seed, listed, todo, pending, told,
                   lasting>>

\* There is nothing to poll, or the list fails.  The first cycle is over also
\* when it has seen nothing.
ListFails ==
    /\ phase = "idle"
    /\ faults < MaxFaults
    /\ faults' = faults + 1
    /\ initialized' = TRUE
    /\ said' = Nothing
    /\ UNCHANGED <<p, clock, object, rowVars, phase, memory, seed, listed, todo,
                   pending, history>>

\* The bucket that is remembered for an object: its own or, for one that was
\* never seen, its name's seed.
Previous(o) ==
    IF memory[Id(o)] = "absent" THEN seed[o.name] ELSE memory[Id(o)]

Failure(o) == IF p.perReading THEN o.reading ELSE Bucket(o.reading)

\* The title that checking an object calls for, if any.
TitleFor(o) ==
    LET prev == Previous(o)
        now  == Bucket(o.reading)
    IN  CASE prev = "absent" /\ p.baseline ->
                 IF ~p.lifecycle \/ ~initialized THEN {}
                 ELSE IF now = "ok" THEN {"first"} ELSE {"created"}
          [] prev # now /\ now \in Bad /\ (prev # "absent" \/ ~p.baseline) -> {Failure(o)}
          [] now = "ok" /\ prev \in Bad /\ p.recovery -> {"recovered"}
          [] OTHER -> {}

Remembered(o) == [memory EXCEPT ![Id(o)] = Bucket(o.reading)]

\* check: the bucket is recorded first, and what it calls for is emitted later.
Check(o) ==
    LET T == TitleFor(o)
        i == Id(o)
        now == Bucket(o.reading)
    IN  /\ phase = "polling"
        /\ o \in todo
        /\ p.together \/ pending = {}
        /\ o.reading # "unset"
        /\ todo' = todo \ {o}
        /\ memory' = Remembered(o)
        /\ seed' = IF memory[i] = "absent" THEN [seed EXCEPT ![o.name] = "absent"] ELSE seed
        /\ pending' = pending \cup {[name |-> o.name, id |-> i, title |-> t] : t \in T}
        /\ since' = [since EXCEPT ![i] = IF T \cap Failures # {} THEN clock
                                         ELSE IF memory[i] = now THEN @ ELSE 0]
        /\ told' = IF told[i] # now THEN [told EXCEPT ![i] = "absent"] ELSE told
        /\ said' = Nothing
        /\ UNCHANGED <<p, clock, object, rowVars, phase, initialized, listed, faults, lasting>>

\* There is nothing to check.
PassOver(o) ==
    /\ phase = "polling"
    /\ o \in todo
    /\ pending = {}
    /\ o.reading = "unset"
    /\ todo' = todo \ {o}
    /\ said' = Nothing
    /\ UNCHANGED <<p, clock, object, rowVars, phase, memory, seed, initialized, listed,
                   pending, faults, history>>

\* A record's turn has come.
Due(rec) ==
    /\ phase = "polling"
    /\ rec \in pending
    /\ p.together => todo = {}

\* MUTANT of Exists: a row counts as a duplicate however old it is.
ExistsEver(rec) == rowAt[<<rec.name, rec.title>>] # 0

\* DedupExists: a row of this title is recent.
Exists(rec) ==
    LET at == rowAt[<<rec.name, rec.title>>] IN at # 0 /\ at + Window > clock

Suppress(rec) ==
    /\ Due(rec)
    /\ Exists(rec)
    /\ pending' = pending \ {rec}
    /\ said' = Nothing
    /\ UNCHANGED <<p, clock, object, rowVars, phase, memory, seed, initialized,
                   listed, todo, faults, history>>

Insert(rec) ==
    /\ rowAt' = [rowAt EXCEPT ![<<rec.name, rec.title>>] = clock]
    /\ latest' = [latest EXCEPT ![rec.name] = rec.title]
    /\ pending' = pending \ {rec}
    /\ told' = [told EXCEPT ![rec.id] = BucketOfTitle(rec.title)]
    /\ said' = rec
    /\ UNCHANGED <<p, clock, object, phase, memory, seed, initialized, listed, todo,
                   since, lasting>>

Emit(rec) ==
    /\ Due(rec)
    /\ ~Exists(rec)
    /\ Insert(rec)
    /\ UNCHANGED faults

\* The query for a recent row fails, and the row is inserted all the same.
EmitUnchecked(rec) ==
    /\ Due(rec)
    /\ faults < MaxFaults
    /\ faults' = faults + 1
    /\ Insert(rec)

\* The insertion fails, or the emission panics; nothing remembers the record.
EmitFails(rec) ==
    /\ Due(rec)
    /\ faults < MaxFaults
    /\ faults' = faults + 1
    /\ pending' = pending \ {rec}
    /\ since' = [since EXCEPT ![rec.id] = 0]
    /\ said' = Nothing
    /\ UNCHANGED <<p, clock, object, rowVars, phase, memory, seed, initialized,
                   listed, todo, told, lasting>>

End ==
    /\ phase = "polling"
    /\ todo = {}
    /\ pending = {}
    /\ phase' = "idle"
    /\ memory' = Pruned(listed, memory, "absent")
    /\ since' = Pruned(listed, since, 0)
    /\ initialized' = TRUE
    /\ listed' = {}
    /\ said' = Nothing
    /\ UNCHANGED <<p, clock, object, rowVars, seed, todo, pending, faults, told, lasting>>

\* The cycle panics: it is recovered, and its remainder skipped.
Panic ==
    /\ phase = "polling"
    /\ faults < MaxFaults
    /\ faults' = faults + 1
    /\ phase' = "idle"
    /\ initialized' = TRUE
    /\ listed' = {}
    /\ todo' = {}
    /\ pending' = {}
    /\ since' = [i \in Ids |-> IF \E rec \in pending : rec.id = i THEN 0 ELSE since[i]]
    /\ said' = Nothing
    /\ UNCHANGED <<p, clock, object, rowVars, memory, seed, told, lasting>>

-----------------------------------------------------------------------------

EmitStep(rec) == Suppress(rec) \/ Emit(rec) \/ EmitUnchecked(rec) \/ EmitFails(rec)

Next ==
    \/ \E n \in Names, r \in Readings : Change(n, r) \/ Create(n, r)
    \/ \E n \in Names : Delete(n)
    \/ Tick
    \/ Start
    \/ Stop
    \/ List
    \/ ListEmptied
    \/ ListFails
    \/ \E o \in todo : Check(o) \/ PassOver(o)
    \/ \E rec \in pending : EmitStep(rec)
    \/ End
    \/ Panic

Spec == Init /\ [][Next]_vars

-----------------------------------------------------------------------------
(* Properties.                                                             *)

\* A change that a cycle has found and nothing has failed to report is in the
\* feed: there is a row for the bucket that is remembered, and it is no older
\* than the deduplication window was when the change was found.  What suppresses
\* a notification is never a row the user has long dismissed.
Told ==
    \A i \in Ids :
        since[i] # 0 /\ (\A rec \in pending : rec.id # i) =>
            \E t \in Failures : /\ Bucket(t) = memory[i]
                                /\ rowAt[<<i[1], t>>] + Window > since[i]

\* While a process runs and finds an object in the same bucket in every cycle
\* that lists it, it says so once: not again after a failed list, a panic, an
\* empty list or a write whose deduplication failed.
NoRepeat ==
    [][said' # Nothing /\ said'.title \in Failures =>
           told[said'.id] # Bucket(said'.title)]_vars

\* "operators get one created/first_synced for ESes added AFTER the platform
\* comes up, not for the entire existing inventory at startup": a row that
\* announces a new object is not about one that was there when the process
\* started.
LifecycleOnlyForNew ==
    [][said' # Nothing /\ said'.title \in {"created", "first"} => said'.id \notin inventory]_vars

\* The seed is validated "against the ES's CreationTimestamp before applying
\* it", lest a live object "inherit the deleted ES's bucket state": what is
\* said to have recovered has once been ill itself.
RecoveredWasIll ==
    [][said' # Nothing /\ said'.title = "recovered" => said'.id \in ailing]_vars

=============================================================================
