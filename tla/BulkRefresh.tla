---------------------------- MODULE BulkRefresh ----------------------------
(***************************************************************************)
(* Bulk refresh of ExternalSecrets: internal/externalsecrets/bulk.go,      *)
(* bulk_worker.go and actions.go, store/eso_bulk_jobs.go, migrations 13    *)
(* and 14, and the start-up code of cmd/kubecenter/main.go.                *)
(*                                                                         *)
(* A client asks for the ExternalSecrets of a scope, confirms their UIDs,  *)
(* and posts them.  The handler checks them against a cached inventory,    *)
(* inserts a job row and puts a message on an in-memory queue; the one     *)
(* worker of the process patches the targets in turn, appends the outcomes *)
(* to the row in batches, and completes it.  The rows survive the process, *)
(* the queue and the worker do not: the next process to boot completes     *)
(* every active row it finds.                                              *)
(*                                                                         *)
(* Left out: who may refresh what (every user here may refresh every       *)
(* ExternalSecret), the cluster guard, the wording of outcomes, the throttle. *)
(***************************************************************************)
EXTENDS Integers, Sequences, FiniteSets

CONSTANTS
    Procs,        \* platform processes, started and stopped any number of times
    Requests,     \* POST requests; each becomes at most one job row
    Scopes,       \* scope targets: a store, a cluster store or a namespace
    Names,        \* the ExternalSecrets, numbered in the order they are patched
    InScope,      \* matchScope: the ExternalSecrets of a scope
    QueueDepth,   \* bulk_worker.go queueDepth (32)
    BatchSize,    \* bulk_worker.go outcomeBatchSize (50)
    MaxTargets,   \* bulk.go maxBulkTargets (5000)
    MaxRetries,   \* actions.go maxPatchRetries (3)
    AsksFor,      \* bound: the scopes a request may be for
    MayLeave,     \* bound: the requests whose client may go away
    Deletable,    \* bound: the ExternalSecrets that may be deleted
    MaxGen,       \* bound: how often an ExternalSecret is created
    MaxStops,     \* bound: crashes and SIGTERMs of a behaviour
    MaxPanics,    \* bound: panics of the worker
    MaxFaults     \* bound: failed database calls of a behaviour

\* An ExternalSecret and its incarnation: what a Kubernetes UID tells apart.
UID == Names \X (1..MaxGen)
NoUID == <<>>
NoJob == <<>>

\* The cached inventory, absent or expired.
NoCache == [valid |-> FALSE, uids |-> {}]

ASSUME ParametersOK ==
    /\ Names \subseteq Nat
    /\ InScope \in [Scopes -> SUBSET Names]
    /\ QueueDepth \in Nat \ {0}
    /\ BatchSize \in Nat \ {0}
    /\ MaxTargets \in Nat
    /\ MaxRetries \in Nat \ {0}
    /\ MaxGen \in Nat \ {0}
    /\ MaxStops \in Nat
    /\ MaxPanics \in Nat
    /\ MaxFaults \in Nat

VARIABLES
    present, gen,   \* the cluster: which ExternalSecrets exist, and their incarnation
    patched,        \* UIDs a bulk job has patched
    alive,          \* state of each process
    cache,          \* h.cache of each process
    queue,          \* w.jobs of each process
    worker,         \* where the worker of each process is
    job,            \* the message the worker is processing
    todo,           \* its targets not yet patched
    attempt,        \* patchForceSyncPinned: failed attempts at the current target
    batch,          \* outcomes not yet written to the row
    req,            \* where each request is
    home,           \* the process serving it
    scope,          \* its scope
    pins,           \* the UIDs its client confirmed
    gone,           \* requests whose client has disconnected
    rows,           \* eso_bulk_refresh_jobs, by request
    audits,         \* the audit entry of each job
    stops, panics, faults

clusterVars == <<present, gen, patched>>
workerVars  == <<worker, job, todo, attempt, batch>>
requestVars == <<req, home, scope, pins, gone>>
vars == <<clusterVars, alive, cache, queue, workerVars, requestVars, rows, audits,
          stops, panics, faults>>

\* The requests being served by a handler.
InFlight == {"checked", "inserting", "enqueue", "closing"}

Outcome == [uid : UID \cup {NoUID},
            reason : {"error", "uid_drifted", "already_refreshing", "worker_panic", ""}]

\* A JSONB column: the literal null, or an array of outcomes.
Json == [null : BOOLEAN, items : Seq(Outcome)]

NoRow == [phase |-> "none", targets |-> {}, succeeded |-> <<>>,
          failed |-> [null |-> FALSE, items |-> <<>>],
          skipped |-> [null |-> FALSE, items |-> <<>>]]

EmptyBatch == [succeeded |-> <<>>, failed |-> <<>>, skipped |-> <<>>]

TypeOK ==
    /\ present \subseteq Names
    /\ gen \in [Names -> 1..MaxGen]
    /\ patched \subseteq UID
    /\ alive \in [Procs -> {"down", "booting", "up", "draining"}]
    /\ cache \in [Procs -> [valid : BOOLEAN, uids : SUBSET UID]]
    /\ queue \in [Procs -> Seq(Requests)]
    /\ \A p \in Procs : Len(queue[p]) <= QueueDepth
    /\ worker \in [Procs -> {"idle", "start", "loop", "get", "patch", "flush", "complete",
                             "abort", "panicked", "panicComplete", "audit", "stopped"}]
    /\ job \in [Procs -> Requests \cup {NoJob}]
    /\ todo \in [Procs -> SUBSET UID]
    /\ attempt \in [Procs -> 0..MaxRetries - 1]
    /\ batch \in [Procs -> [succeeded : Seq(UID), failed : Seq(Outcome),
                            skipped : Seq(Outcome)]]
    /\ req \in [Requests -> InFlight \cup
                   {"idle", "confirmed", "accepted", "conflict", "error", "rejected"}]
    /\ home \in [Requests -> Procs]
    /\ scope \in [Requests -> Scopes]
    /\ pins \in [Requests -> SUBSET UID]
    /\ gone \subseteq Requests
    /\ rows \in [Requests ->
           [phase : {"none", "active", "done", "deleted"}, targets : SUBSET UID,
            succeeded : Seq(UID), failed : Json, skipped : Json]]
    /\ audits \in [Requests -> {"none", "success", "failure"}]
    /\ stops \in 0..MaxStops
    /\ panics \in 0..MaxPanics
    /\ faults \in 0..MaxFaults

Init ==
    /\ present = Names
    /\ gen = [n \in Names |-> 1]
    /\ patched = {}
    /\ alive = [p \in Procs |-> "down"]
    /\ cache = [p \in Procs |-> NoCache]
    /\ queue = [p \in Procs |-> <<>>]
    /\ worker = [p \in Procs |-> "idle"]
    /\ job = [p \in Procs |-> NoJob]
    /\ todo = [p \in Procs |-> {}]
    /\ attempt = [p \in Procs |-> 0]
    /\ batch = [p \in Procs |-> EmptyBatch]
    /\ req = [r \in Requests |-> "idle"]
    /\ home \in [Requests -> Procs]
    /\ scope \in {f \in [Requests -> Scopes] : \A r \in Requests : f[r] \in AsksFor[r]}
    /\ pins = [r \in Requests |-> {}]
    /\ gone = {}
    /\ rows = [r \in Requests |-> NoRow]
    /\ audits = [r \in Requests |-> "none"]
    /\ stops = 0
    /\ panics = 0
    /\ faults = 0

(***************************************************************************)
(* Operators                                                               *)
(***************************************************************************)

Live == {u \in UID : u[1] \in present /\ gen[u[1]] = u[2]}

\* getCached: the inventory, listed anew when the cache is gone.
Inventory(p) == IF cache[p].valid THEN cache[p].uids ELSE Live

Refreshed(p) == [cache EXCEPT ![p] = [valid |-> TRUE, uids |-> Inventory(p)]]

\* resolveScope: the targets of a scope in the inventory.
Targets(p, s) == {u \in Inventory(p) : u[1] \in InScope[s]}

Fails == faults < MaxFaults /\ faults' = faults + 1
Works == UNCHANGED faults

\* FindActive, and the partial unique index of migration 14.
ActiveRows(s) == {r \in Requests : rows[r].phase = "active" /\ scope[r] = s}

\* json.Marshal of the nil slices of a new job gives null, not [].
NewRow(targets) ==
    [phase |-> "active", targets |-> targets, succeeded |-> <<>>,
     failed |-> [null |-> TRUE, items |-> <<>>], skipped |-> [null |-> TRUE, items |-> <<>>]]

\* failed || $3::jsonb: PostgreSQL turns a scalar operand into an array of
\* one element, and the element null is read back as the zero outcome.
Concat(column, new) ==
    [null |-> FALSE,
     items |-> (IF column.null THEN <<[uid |-> NoUID, reason |-> ""]>> ELSE column.items) \o new]

Appended(row, b) ==
    [row EXCEPT !.succeeded = @ \o b.succeeded,
                !.failed = Concat(@, b.failed),
                !.skipped = Concat(@, b.skipped)]

Completed(row) == IF row.phase = "active" THEN [row EXCEPT !.phase = "done"] ELSE row

Respond(r, phase) == req' = [req EXCEPT ![r] = phase]

Goto(p, pc) == worker' = [worker EXCEPT ![p] = pc]

(***************************************************************************)
(* The requests: refresh-scope, then handleBulkRefresh                     *)
(***************************************************************************)

\* GET refresh-scope: the client sees the UIDs it is to confirm.
GetScope(r, p) ==
    /\ req[r] = "idle"
    /\ alive[p] = "up"
    /\ Respond(r, "confirmed")
    /\ pins' = [pins EXCEPT ![r] = Targets(p, scope[r])]
    /\ cache' = Refreshed(p)
    /\ UNCHANGED <<clusterVars, alive, queue, workerVars, home, scope, gone, rows, audits,
                   stops, panics, faults>>

\* The handler up to the comparison of the UIDs (compareUIDs).
Post(r, p) ==
    LET now == Targets(p, scope[r])
    IN  /\ req[r] = "confirmed"
        /\ alive[p] = "up"
        /\ \/ /\ now = {} \/ Cardinality(now) > MaxTargets \/ pins[r] = {}
              /\ Respond(r, "error")
           \/ /\ now # {} /\ Cardinality(now) <= MaxTargets /\ pins[r] # {}
              /\ Respond(r, IF pins[r] = now THEN "checked" ELSE "conflict")
        /\ home' = [home EXCEPT ![r] = p]
        /\ cache' = Refreshed(p)
        /\ UNCHANGED <<clusterVars, alive, queue, workerVars, scope, pins, gone, rows, audits,
                       stops, panics, faults>>

CheckActive(r) ==
    /\ req[r] = "checked"
    /\ \/ Fails /\ Respond(r, "error")
       \/ Works /\ r \in gone /\ Respond(r, "error")
       \/ Works /\ r \notin gone
          /\ Respond(r, IF ActiveRows(scope[r]) = {} THEN "inserting" ELSE "conflict")
    /\ UNCHANGED <<clusterVars, alive, cache, queue, workerVars, home, scope, pins, gone,
                   rows, audits, stops, panics>>

\* MUTANT of InsertRow: without the unique index of migration 14.
InsertRowUnindexed(r) ==
    /\ req[r] = "inserting"
    /\ \/ r \in gone /\ Works /\ Respond(r, "error") /\ UNCHANGED rows
       \/ r \notin gone /\ Works /\ Respond(r, "enqueue")
          /\ rows' = [rows EXCEPT ![r] = NewRow(pins[r])]
    /\ UNCHANGED <<clusterVars, alive, cache, queue, workerVars, home, scope, pins, gone,
                   audits, stops, panics>>

\* A failed INSERT may have been committed all the same.
InsertRow(r) ==
    /\ req[r] = "inserting"
    /\ LET inserted == rows' = [rows EXCEPT ![r] = NewRow(pins[r])]
       IN  \/ r \in gone /\ Works /\ Respond(r, "error") /\ UNCHANGED rows
           \/ r \notin gone /\ ActiveRows(scope[r]) # {}
              /\ Works /\ Respond(r, "conflict") /\ UNCHANGED rows
           \/ ActiveRows(scope[r]) = {} /\ Fails /\ Respond(r, "error")
              /\ (inserted \/ UNCHANGED rows)
           \/ r \notin gone /\ ActiveRows(scope[r]) = {}
              /\ Works /\ Respond(r, "enqueue") /\ inserted
    /\ UNCHANGED <<clusterVars, alive, cache, queue, workerVars, home, scope, pins, gone,
                   audits, stops, panics>>

Enqueue(r) ==
    LET p == home[r]
    IN  /\ req[r] = "enqueue"
        /\ \/ /\ Len(queue[p]) < QueueDepth
              /\ queue' = [queue EXCEPT ![p] = Append(@, r)]
              /\ Respond(r, "accepted")
           \/ /\ Len(queue[p]) >= QueueDepth
              /\ UNCHANGED queue
              /\ Respond(r, "closing")
        /\ UNCHANGED <<clusterVars, alive, cache, workerVars, home, scope, pins, gone, rows,
                       audits, stops, panics, faults>>

\* MUTANT of CloseRejected: the row is left as it is.
CloseRejectedForgets(r) ==
    /\ req[r] = "closing"
    /\ Respond(r, "rejected")
    /\ UNCHANGED <<clusterVars, alive, cache, queue, workerVars, home, scope, pins, gone, rows,
                   audits, stops, panics, faults>>

\* Queue full: complete the row, under the context of the request.
CloseRejected(r) ==
    /\ req[r] = "closing"
    /\ Respond(r, "rejected")
    /\ \/ r \in gone /\ Works /\ UNCHANGED rows
       \/ Fails /\ UNCHANGED rows
       \/ r \notin gone /\ Works /\ rows' = [rows EXCEPT ![r] = Completed(@)]
    /\ UNCHANGED <<clusterVars, alive, cache, queue, workerVars, home, scope, pins, gone,
                   audits, stops, panics>>

Disconnect(r) ==
    /\ req[r] \in InFlight
    /\ r \in MayLeave \ gone
    /\ gone' = gone \cup {r}
    /\ UNCHANGED <<clusterVars, alive, cache, queue, workerVars, req, home, scope, pins, rows,
                   audits, stops, panics, faults>>

(***************************************************************************)
(* The worker: run and processJob                                          *)
(***************************************************************************)

\* Its select: a message is taken even when the context is done, if both
\* are ready and the choice falls on it.
Take(p) ==
    /\ worker[p] = "idle"
    /\ queue[p] # <<>>
    /\ job' = [job EXCEPT ![p] = Head(queue[p])]
    /\ queue' = [queue EXCEPT ![p] = Tail(@)]
    /\ Goto(p, "start")
    /\ UNCHANGED <<clusterVars, alive, cache, todo, attempt, batch, requestVars, rows, audits,
                   stops, panics, faults>>

StopWorker(p) ==
    /\ worker[p] = "idle"
    /\ alive[p] = "draining"
    /\ Goto(p, "stopped")
    /\ UNCHANGED <<clusterVars, alive, cache, queue, job, todo, attempt, batch, requestVars,
                   rows, audits, stops, panics, faults>>

\* dynForUser: without an impersonating client the job is completed as it is.
Start(p) ==
    /\ worker[p] = "start"
    /\ todo' = [todo EXCEPT ![p] = pins[job[p]]]
    /\ attempt' = [attempt EXCEPT ![p] = 0]
    /\ batch' = [batch EXCEPT ![p] = EmptyBatch]
    /\ \/ Works /\ Goto(p, "loop")
       \/ Fails /\ Goto(p, "abort")
    /\ UNCHANGED <<clusterVars, alive, cache, queue, job, requestVars, rows, audits, stops, panics>>

\* The head of the loop over the targets.  When the context is done the
\* outcomes are flushed and the row is left active.
Loop(p) ==
    /\ worker[p] = "loop"
    /\ \/ todo[p] = {} /\ Goto(p, IF batch[p] = EmptyBatch THEN "complete" ELSE "flush")
       \/ todo[p] # {} /\ alive[p] # "draining" /\ Goto(p, "get")
       \/ todo[p] # {} /\ alive[p] = "draining"
          /\ Goto(p, IF batch[p] = EmptyBatch THEN "idle" ELSE "flush")
    /\ UNCHANGED <<clusterVars, alive, cache, queue, job, todo, attempt, batch, requestVars,
                   rows, audits, stops, panics, faults>>

\* The targets are sorted by name.
Current(p) == {u \in todo[p] : \A v \in todo[p] : u[1] <= v[1]}

\* One target is done: its outcome joins the batch, flushed when full.
Record(p, u, b) ==
    /\ batch' = [batch EXCEPT ![p] = b]
    /\ todo' = [todo EXCEPT ![p] = @ \ {u}]
    /\ attempt' = [attempt EXCEPT ![p] = 0]
    /\ Goto(p, IF Len(b.succeeded) + Len(b.failed) + Len(b.skipped) >= BatchSize
               THEN "flush" ELSE "loop")

RecordFailed(p, u, why) ==
    Record(p, u, [batch[p] EXCEPT !.failed = Append(@, [uid |-> u, reason |-> why])])
RecordSkipped(p, u) ==
    Record(p, u, [batch[p] EXCEPT !.skipped =
                     Append(@, [uid |-> u, reason |-> "already_refreshing"])])
RecordSucceeded(p, u) ==
    Record(p, u, [batch[p] EXCEPT !.succeeded = Append(@, u)])

\* MUTANT of Retry: one attempt too many.
RetryOnceMore(p, u) ==
    IF attempt[p] = MaxRetries
    THEN RecordFailed(p, u, "error")
    ELSE /\ attempt' = [attempt EXCEPT ![p] = @ + 1]
         /\ Goto(p, "get")
         /\ UNCHANGED <<todo, batch>>

\* A transient error is tried again, from the Get, up to MaxRetries times.
Retry(p, u) ==
    IF attempt[p] + 1 = MaxRetries
    THEN RecordFailed(p, u, "error")
    ELSE /\ attempt' = [attempt EXCEPT ![p] = @ + 1]
         /\ Goto(p, "get")
         /\ UNCHANGED <<todo, batch>>

\* patchForceSyncOnce up to its patch: read the object by name, compare its
\* UID with the pinned one, and look whether it is refreshing already.
GetTarget(p) ==
    /\ worker[p] = "get"
    /\ \E u \in Current(p) :
           \/ Retry(p, u)
           \/ RecordFailed(p, u, "error")
           \/ u[1] \in present /\ gen[u[1]] # u[2] /\ RecordFailed(p, u, "uid_drifted")
           \/ u[1] \in present /\ gen[u[1]] = u[2]
              /\ \/ RecordSkipped(p, u)
                 \/ Goto(p, "patch") /\ UNCHANGED <<todo, batch, attempt>>
    /\ UNCHANGED <<clusterVars, alive, cache, queue, job, requestVars, rows, audits,
                   stops, panics, faults>>

\* MUTANT of PatchTarget: an error taken for success.
PatchTargetIgnoresError(p) ==
    /\ worker[p] = "patch"
    /\ \E u \in Current(p) :
           /\ RecordSucceeded(p, u)
           /\ \/ UNCHANGED patched
              \/ u[1] \in present /\ patched' = patched \cup {<<u[1], gen[u[1]]>>}
    /\ UNCHANGED <<present, gen, alive, cache, queue, job, requestVars, rows, audits,
                   stops, panics, faults>>

\* The patch itself names the object, not its UID.  A patch that timed out
\* may have been applied.
PatchTarget(p) ==
    /\ worker[p] = "patch"
    /\ \E u \in Current(p) :
           LET applied == u[1] \in present /\ patched' = patched \cup {<<u[1], gen[u[1]]>>}
           IN  \/ applied /\ RecordSucceeded(p, u)
               \/ UNCHANGED patched /\ RecordFailed(p, u, "error")
               \/ (applied \/ UNCHANGED patched) /\ Retry(p, u)
    /\ UNCHANGED <<present, gen, alive, cache, queue, job, requestVars, rows, audits,
                   stops, panics, faults>>

\* MUTANT of Flush: the batch is kept after it was written.
FlushKeepsBatch(p) ==
    /\ worker[p] = "flush"
    /\ rows' = [rows EXCEPT ![job[p]] = Appended(@, batch[p])]
    /\ Goto(p, IF todo[p] = {} THEN "complete" ELSE "loop")
    /\ UNCHANGED <<clusterVars, alive, cache, queue, job, todo, attempt, batch, requestVars,
                   audits, stops, panics, faults>>

\* The batch is forgotten also when the write failed; a failed write may
\* have been applied.
Flush(p) ==
    /\ worker[p] = "flush"
    /\ \/ Works /\ rows' = [rows EXCEPT ![job[p]] = Appended(@, batch[p])]
       \/ Fails /\ (UNCHANGED rows \/ rows' = [rows EXCEPT ![job[p]] = Appended(@, batch[p])])
    /\ batch' = [batch EXCEPT ![p] = EmptyBatch]
    /\ Goto(p, "loop")
    /\ UNCHANGED <<clusterVars, alive, cache, queue, job, todo, attempt, requestVars, audits,
                   stops, panics>>

\* A panic below processJob: the outcomes not yet flushed are lost.
Panic(p) ==
    /\ worker[p] \in {"start", "get", "patch", "flush"}
    /\ panics < MaxPanics
    /\ panics' = panics + 1
    /\ batch' = [batch EXCEPT ![p] = EmptyBatch]
    /\ Goto(p, "panicked")
    /\ UNCHANGED <<clusterVars, alive, cache, queue, job, todo, attempt, requestVars, rows,
                   audits, stops, faults>>

\* The deferred recover of run, first half: the worker_panic outcome.
PanicOutcome(p) ==
    /\ worker[p] = "panicked"
    /\ \/ Fails /\ UNCHANGED rows
       \/ Works /\ rows' = [rows EXCEPT ![job[p]] = Appended(@,
              [EmptyBatch EXCEPT !.failed = <<[uid |-> NoUID, reason |-> "worker_panic"]>>])]
    /\ Goto(p, "panicComplete")
    /\ UNCHANGED <<clusterVars, alive, cache, queue, job, todo, attempt, batch, requestVars,
                   audits, stops, panics>>

\* store.Complete, from processJob, its early exits, or the recover.
Complete(p) ==
    /\ worker[p] \in {"complete", "abort", "panicComplete"}
    /\ \/ Fails /\ UNCHANGED rows
       \/ Works /\ rows' = [rows EXCEPT ![job[p]] = Completed(@)]
    /\ Goto(p, IF worker[p] = "complete" THEN "audit" ELSE "idle")
    /\ UNCHANGED <<clusterVars, alive, cache, queue, job, todo, attempt, batch, requestVars,
                   audits, stops, panics>>

\* The row is read back for the audit entry, and the inventory invalidated.
Audit(p) ==
    /\ worker[p] = "audit"
    /\ \/ Fails /\ UNCHANGED audits
       \/ Works /\ audits' = [audits EXCEPT ![job[p]] =
                                 IF rows[job[p]].failed.items = <<>> THEN "success" ELSE "failure"]
    /\ cache' = [cache EXCEPT ![p] = NoCache]
    /\ Goto(p, "idle")
    /\ UNCHANGED <<clusterVars, alive, queue, job, todo, attempt, batch, requestVars, rows,
                   stops, panics>>

(***************************************************************************)
(* The processes                                                           *)
(***************************************************************************)

Boot(p) ==
    /\ alive[p] = "down"
    /\ alive' = [alive EXCEPT ![p] = "booting"]
    /\ UNCHANGED <<clusterVars, cache, queue, workerVars, requestVars, rows, audits, stops,
                   panics, faults>>

\* MUTANT of ReapOrphans: the boot leaves the rows alone.
ReapNothing(p) ==
    /\ alive[p] = "booting"
    /\ alive' = [alive EXCEPT ![p] = "up"]
    /\ UNCHANGED <<clusterVars, cache, queue, workerVars, requestVars, rows, audits, stops,
                   panics, faults>>

\* CompleteOrphans, once, before the worker starts and requests are served.
ReapOrphans(p) ==
    /\ alive[p] = "booting"
    /\ \/ Fails /\ UNCHANGED rows
       \/ Works /\ rows' = [r \in Requests |-> Completed(rows[r])]
    /\ alive' = [alive EXCEPT ![p] = "up"]
    /\ UNCHANGED <<clusterVars, cache, queue, workerVars, requestVars, audits, stops, panics>>

\* The process ends; what it held in memory is lost.
Terminate(p) ==
    /\ alive' = [alive EXCEPT ![p] = "down"]
    /\ cache' = [cache EXCEPT ![p] = NoCache]
    /\ queue' = [queue EXCEPT ![p] = <<>>]
    /\ worker' = [worker EXCEPT ![p] = "idle"]
    /\ job' = [job EXCEPT ![p] = NoJob]
    /\ todo' = [todo EXCEPT ![p] = {}]
    /\ attempt' = [attempt EXCEPT ![p] = 0]
    /\ batch' = [batch EXCEPT ![p] = EmptyBatch]
    /\ req' = [r \in Requests |-> IF home[r] = p /\ req[r] \in InFlight THEN "error" ELSE req[r]]
    /\ UNCHANGED <<clusterVars, home, scope, pins, gone, rows, audits, panics, faults>>

Crash(p) ==
    /\ alive[p] # "down"
    /\ stops < MaxStops
    /\ stops' = stops + 1
    /\ Terminate(p)

\* SIGTERM cancels the context; handlers in flight are still served.
Sigterm(p) ==
    /\ alive[p] = "up"
    /\ stops < MaxStops
    /\ stops' = stops + 1
    /\ alive' = [alive EXCEPT ![p] = "draining"]
    /\ UNCHANGED <<clusterVars, cache, queue, workerVars, requestVars, rows, audits, panics, faults>>

Exit(p) ==
    /\ alive[p] = "draining"
    /\ UNCHANGED stops
    /\ Terminate(p)

\* cacheTTL has passed, or another handler invalidates the inventory.
CacheExpires(p) ==
    /\ cache[p].valid
    /\ cache' = [cache EXCEPT ![p] = NoCache]
    /\ UNCHANGED <<clusterVars, alive, queue, workerVars, requestVars, rows, audits, stops,
                   panics, faults>>

\* The retention sweep, 30 days after completion: nobody holds the job then.
Cleanup(r) ==
    /\ rows[r].phase = "done"
    /\ req[r] \notin InFlight
    /\ \A p \in Procs : job[p] # r \/ worker[p] \in {"idle", "stopped"}
    /\ \A p \in Procs : \A i \in 1..Len(queue[p]) : queue[p][i] # r
    /\ rows' = [rows EXCEPT ![r].phase = "deleted"]
    /\ UNCHANGED <<clusterVars, alive, cache, queue, workerVars, requestVars, audits, stops,
                   panics, faults>>

\* ExternalSecrets are deleted and created again behind the platform's back.
Delete(n) ==
    /\ n \in present \cap Deletable
    /\ present' = present \ {n}
    /\ UNCHANGED <<gen, patched, alive, cache, queue, workerVars, requestVars, rows, audits,
                   stops, panics, faults>>

Create(n) ==
    /\ n \notin present
    /\ gen[n] < MaxGen
    /\ present' = present \cup {n}
    /\ gen' = [gen EXCEPT ![n] = @ + 1]
    /\ UNCHANGED <<patched, alive, cache, queue, workerVars, requestVars, rows, audits, stops,
                   panics, faults>>

-----------------------------------------------------------------------------

Handler(r) == CheckActive(r) \/ InsertRow(r) \/ Enqueue(r) \/ CloseRejected(r)

Worker(p) ==
    \/ Take(p) \/ StopWorker(p) \/ Start(p) \/ Loop(p)
    \/ GetTarget(p) \/ PatchTarget(p) \/ Flush(p)
    \/ PanicOutcome(p) \/ Complete(p) \/ Audit(p)

Process(p) == Boot(p) \/ ReapOrphans(p) \/ Exit(p)

Environment ==
    \/ \E r \in Requests, p \in Procs : GetScope(r, p) \/ Post(r, p)
    \/ \E r \in Requests : Disconnect(r) \/ Cleanup(r)
    \/ \E p \in Procs : Crash(p) \/ Sigterm(p) \/ Panic(p) \/ CacheExpires(p)
    \/ \E n \in Names : Delete(n) \/ Create(n)

Next ==
    \/ \E r \in Requests : Handler(r)
    \/ \E p \in Procs : Worker(p) \/ Process(p)
    \/ Environment

Spec == Init /\ [][Next]_vars

\* Go runs the handlers and the worker, every call they make has a timeout,
\* and Kubernetes restarts a process that ended.
Fairness ==
    /\ \A r \in Requests : WF_vars(Handler(r))
    /\ \A p \in Procs : WF_vars(Worker(p)) /\ WF_vars(Process(p))

FairSpec == Spec /\ Fairness

-----------------------------------------------------------------------------
(***************************************************************************)
(* Properties                                                              *)
(***************************************************************************)

\* A job somebody is still going to patch for: queued, or with the worker.
Pending(p, r) ==
    \/ \E i \in 1..Len(queue[p]) : queue[p][i] = r
    \/ job[p] = r /\ worker[p] \in {"start", "loop", "get", "patch", "flush"}

\* No two pending jobs have the same scope, so that the provider's quota is
\* not spent twice (migration 14): the index alone gives this only if a row
\* stays active for as long as its job is pending.
ExclusiveScope ==
    \A p, q \in Procs, r, s \in Requests :
        (r # s /\ Pending(p, r) /\ Pending(q, s)) => scope[r] # scope[s]

\* An active row has somebody who is going to complete it: a handler, the
\* queue, the worker, or the next process to boot.  Without database faults,
\* and with clients that wait for the answer, no scope is blocked by a row
\* that nobody works on (bulk_worker.go run and Start; FindActive answers 409
\* for such a scope).
ActiveIsOwned ==
    (faults = 0 /\ gone = {}) =>
        \A r \in Requests : rows[r].phase = "active" =>
            \/ req[r] \in {"enqueue", "closing"}
            \/ \E p \in Procs : Pending(p, r)
            \/ \E p \in Procs : job[p] = r /\ worker[p] \in {"complete", "abort",
                                                             "panicked", "panicComplete"}
            \/ \E p \in Procs : alive[p] # "up"

Reported(row) ==
    row.succeeded \o [i \in 1..Len(row.failed.items) |-> row.failed.items[i].uid]
                  \o [i \in 1..Len(row.skipped.items) |-> row.skipped.items[i].uid]

\* No target is ever reported twice, whether by a flush that repeats a batch or
\* by a target that is retried; and when the worker has completed a row, and no
\* write failed, every target is in one of its arrays: the last, partial batch
\* was flushed too (processJob).
ReportIsExact ==
    /\ \A r \in Requests : LET uids == Reported(rows[r])
                           IN  \A i, j \in 1..Len(uids) :
                                  (i # j /\ uids[i] = uids[j]) => uids[i] = NoUID
    /\ \A p \in Procs : (worker[p] = "audit" /\ faults = 0) =>
           LET uids == Reported(rows[job[p]])
           IN  rows[job[p]].targets \subseteq {uids[i] : i \in 1..Len(uids)}

\* A success is reported only for a name that was patched, in the incarnation
\* the client confirmed or a later one.
SuccessMeansPatched ==
    \A r \in Requests : \A i \in 1..Len(rows[r].succeeded) :
        \E u \in patched : u[1] = rows[r].succeeded[i][1] /\ u[2] >= rows[r].succeeded[i][2]

\* A job that found the queue full, and whose client did not wait for the
\* answer: its row is completed under a context that is cancelled.
LeftBehind(r) == req[r] = "rejected" /\ r \in gone

\* Without database faults every job row is completed in the end: by the
\* worker, by its recover, by the handler when the queue is full, or by the
\* next boot.  Only a row left behind may wait for a boot that never comes.
JobsEnd ==
    \A r \in Requests :
        rows[r].phase = "active" ~> rows[r].phase # "active" \/ LeftBehind(r) \/ faults > 0

(***************************************************************************)
(* What the source says and the code does not keep                         *)
(***************************************************************************)

\* actions.go: a deleted-and-recreated ExternalSecret is rejected.
PinHonoured ==
    \A r \in Requests : \A i \in 1..Len(rows[r].succeeded) : rows[r].succeeded[i] \in patched

\* bulk.go: a rejected job does not appear stuck.
RejectedIsClosed == \A r \in Requests : req[r] = "rejected" => rows[r].phase # "active"

\* The outcomes in failed and skipped are those of targets, or a panic.
OutcomesOfTargets ==
    \A r \in Requests : \A i \in 1..Len(rows[r].failed.items) :
        \/ rows[r].failed.items[i].uid \in rows[r].targets
        \/ rows[r].failed.items[i].reason = "worker_panic"
=============================================================================
