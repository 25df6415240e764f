------------------------- MODULE BulkRefresh_proofs -------------------------
(***************************************************************************)
(* Proofs about BulkRefresh: the types, that in one process no two pending *)
(* jobs have the same scope, that an active row has somebody to complete   *)
(* it, that a success is only reported of a name that was patched, and     *)
(* that a report names each target of its job once.                        *)
(***************************************************************************)
EXTENDS BulkRefresh, SequenceTheorems, TLAPS

-----------------------------------------------------------------------------
(* Types.                                                                  *)

Row == [phase : {"none", "active", "done", "deleted"}, targets : SUBSET UID,
        succeeded : Seq(UID), failed : Json, skipped : Json]

Batch == [succeeded : Seq(UID), failed : Seq(Outcome), skipped : Seq(Outcome)]

Places == {"idle", "start", "loop", "get", "patch", "flush", "complete", "abort", "panicked",
           "panicComplete", "audit", "stopped"}

Phases == InFlight \cup {"idle", "confirmed", "accepted", "conflict", "error", "rejected"}

\* The parts of TypeOK, by what changes together.
TypedCluster == present \subseteq Names /\ gen \in [Names -> 1..MaxGen] /\ patched \subseteq UID

TypedProcess ==
    /\ alive \in [Procs -> {"down", "booting", "up", "draining"}]
    /\ cache \in [Procs -> [valid : BOOLEAN, uids : SUBSET UID]]
    /\ queue \in [Procs -> Seq(Requests)]
    /\ \A p \in Procs : Len(queue[p]) <= QueueDepth

TypedWorker ==
    /\ worker \in [Procs -> Places]
    /\ job \in [Procs -> Requests \cup {NoJob}]
    /\ todo \in [Procs -> SUBSET UID]
    /\ attempt \in [Procs -> 0..MaxRetries - 1]
    /\ batch \in [Procs -> Batch]

TypedRequests ==
    /\ req \in [Requests -> Phases]
    /\ home \in [Requests -> Procs]
    /\ scope \in [Requests -> Scopes]
    /\ pins \in [Requests -> SUBSET UID]
    /\ gone \subseteq Requests

TypedStore ==
    /\ rows \in [Requests -> Row]
    /\ audits \in [Requests -> {"none", "success", "failure"}]

TypedBounds == stops \in 0..MaxStops /\ panics \in 0..MaxPanics /\ faults \in 0..MaxFaults

LEMMA TypeParts ==
    TypeOK <=> /\ TypedCluster /\ TypedProcess /\ TypedWorker
               /\ TypedRequests /\ TypedStore /\ TypedBounds
  BY DEF TypeOK, TypedCluster, TypedProcess, TypedWorker, TypedRequests, TypedStore, TypedBounds,
         Row, Batch, Places, Phases

LEMMA TypePartsNext ==
    TypeOK' <=> /\ TypedCluster' /\ TypedProcess' /\ TypedWorker'
                /\ TypedRequests' /\ TypedStore' /\ TypedBounds'
  BY DEF TypeOK, TypedCluster, TypedProcess, TypedWorker, TypedRequests, TypedStore, TypedBounds,
         Row, Batch, Places, Phases

-----------------------------------------------------------------------------
(* What is done to a row.                                                  *)

NullOutcome == [uid |-> NoUID, reason |-> ""]

LEMMA OutcomeMade ==
    ASSUME NEW u \in UID \cup {NoUID},
           NEW why \in {"error", "uid_drifted", "already_refreshing", "worker_panic", ""}
    PROVE  [uid |-> u, reason |-> why] \in Outcome
  BY DEF Outcome

LEMMA ConcatTyped ==
    ASSUME NEW column \in Json, NEW new \in Seq(Outcome)
    PROVE  Concat(column, new) \in Json
  <1>1. <<NullOutcome>> \in Seq(Outcome)
    <2>1. NullOutcome \in Outcome
      BY OutcomeMade DEF NullOutcome
    <2>2. QED
      BY <2>1
  <1>2. column.items \in Seq(Outcome)
    BY DEF Json
  <1> DEFINE before == IF column.null THEN <<NullOutcome>> ELSE column.items
  <1>3. before \in Seq(Outcome)
    BY <1>1, <1>2
  <1>4. before \o new \in Seq(Outcome)
    BY <1>3, ConcatProperties
  <1>5. Concat(column, new) = [null |-> FALSE, items |-> before \o new]
    BY DEF Concat, NullOutcome
  <1>6. QED
    BY <1>4, <1>5 DEF Json

LEMMA AppendedTyped ==
    ASSUME NEW row \in Row, NEW b \in Batch
    PROVE  /\ Appended(row, b) \in Row
           /\ Appended(row, b).phase = row.phase
           /\ Appended(row, b).succeeded = row.succeeded \o b.succeeded
  <1>1. Concat(row.failed, b.failed) \in Json /\ Concat(row.skipped, b.skipped) \in Json
    BY ConcatTyped DEF Row, Batch
  <1>2. row.succeeded \o b.succeeded \in Seq(UID)
    BY ConcatProperties DEF Row, Batch
  <1>3. QED
    BY <1>1, <1>2 DEF Appended, Row

LEMMA CompletedTyped ==
    ASSUME NEW row \in Row
    PROVE  /\ Completed(row) \in Row
           /\ Completed(row).phase # "active"
           /\ row.phase # "active" => Completed(row).phase = row.phase
           /\ Completed(row).succeeded = row.succeeded
  BY DEF Completed, Row

LEMMA NewRowTyped ==
    ASSUME NEW targets \in SUBSET UID
    PROVE  /\ NewRow(targets) \in Row
           /\ NewRow(targets).phase = "active"
           /\ NewRow(targets).succeeded = <<>>
  BY DEF NewRow, Row, Json

LEMMA EmptyBatchTyped ==
    /\ EmptyBatch \in Batch /\ EmptyBatch.succeeded = <<>>
    /\ LET panic == [EmptyBatch EXCEPT !.failed = <<[uid |-> NoUID, reason |-> "worker_panic"]>>]
       IN  panic \in Batch /\ panic.succeeded = <<>>
  <1> DEFINE o == [uid |-> NoUID, reason |-> "worker_panic"]
  <1>1. o \in Outcome
    BY OutcomeMade
  <1> HIDE DEF o
  <1>2. <<o>> \in Seq(Outcome) /\ <<>> \in Seq(Outcome) /\ <<>> \in Seq(UID)
    BY <1>1
  <1>3. [EmptyBatch EXCEPT !.failed = <<o>>] =
            [succeeded |-> <<>>, failed |-> <<o>>, skipped |-> <<>>]
    BY DEF EmptyBatch
  <1>4. QED
    BY <1>2, <1>3 DEF EmptyBatch, Batch, o

\* Names of one incarnation each.
LEMMA LiveTyped == TypedCluster => Live \subseteq UID
  BY DEF Live

LEMMA InventoryTyped ==
    ASSUME TypedCluster, TypedProcess, NEW p \in Procs
    PROVE  /\ Inventory(p) \in SUBSET UID
           /\ \A s : Targets(p, s) \in SUBSET UID
           /\ Refreshed(p) \in [Procs -> [valid : BOOLEAN, uids : SUBSET UID]]
           /\ Refreshed(p)[p].uids = Inventory(p)
           /\ \A q \in Procs \ {p} : Refreshed(p)[q] = cache[q]
  <1>1. Inventory(p) \in SUBSET UID
    BY LiveTyped DEF Inventory, TypedProcess
  <1>2. [valid |-> TRUE, uids |-> Inventory(p)] \in [valid : BOOLEAN, uids : SUBSET UID]
    BY <1>1
  <1>3. QED
    BY <1>1, <1>2 DEF Targets, Refreshed, TypedProcess

LEMMA NoCacheTyped == NoCache \in [valid : BOOLEAN, uids : SUBSET UID] /\ NoCache.uids = {}
  BY DEF NoCache

-----------------------------------------------------------------------------
(* The inductive invariant.                                                *)

\* The row of a job that has not been completed.
Open(r) == rows[r].phase = "active"

\* A worker that is doing something has a job.
HasJob == \A p \in Procs : worker[p] \notin {"idle", "stopped"} => job[p] \in Requests

\* A process that is down, or booting, has nothing to do.
Down ==
    \A p \in Procs : alive[p] \in {"down", "booting"} =>
        /\ queue[p] = <<>>
        /\ worker[p] = "idle"
        /\ \A r \in Requests : home[r] = p => req[r] \notin InFlight

\* Migration 14: two active rows have different scopes.
OneRow == \A r, s \in Requests :
    (r # s /\ Open(r) /\ Open(s)) => scope[r] # scope[s]

In(q, r) == \E i \in 1..Len(q) : q[i] = r

Distinct(q) == \A i, j \in 1..Len(q) : q[i] = q[j] => i = j

Working == {"start", "loop", "get", "patch", "flush"}

Ending == {"complete", "abort", "panicked", "panicComplete"}

\* The handler of a request is between the insertion and its answer.
Handing(r) == req[r] \in {"enqueue", "closing"}

SingleProcess == \A p, q \in Procs : p = q

\* In one process, what is handed over or pending has an active row, and
\* is in one place only.
PendingIsActive ==
    SingleProcess =>
        /\ \A r \in Requests : Handing(r) => Open(r)
        /\ \A p \in Procs, r \in Requests : Pending(p, r) =>
               Open(r) /\ req[r] = "accepted"
        /\ \A p \in Procs, r \in Requests : job[p] = r /\ worker[p] \notin {"idle", "stopped"} =>
               req[r] = "accepted" /\ ~In(queue[p], r)
        /\ \A p \in Procs : Distinct(queue[p])

\* Every UID anybody holds is of an incarnation that has existed.
Known == {u \in UID : u[2] <= gen[u[1]]}

Bounded ==
    /\ \A p \in Procs : cache[p].uids \subseteq Known /\ todo[p] \subseteq Known
    /\ \A r \in Requests : pins[r] \subseteq Known

\* Each of these UIDs has its name among the patched, in its incarnation or
\* a later one.
Covered(done, uids) ==
    \A i \in 1..Len(uids) : \E v \in done : v[1] = uids[i][1] /\ v[2] >= uids[i][2]

Witnesses ==
    /\ \A p \in Procs : Covered(patched, batch[p].succeeded)
    /\ \A r \in Requests : Covered(patched, rows[r].succeeded)

IInv ==
    /\ TypeOK
    /\ HasJob
    /\ Down
    /\ OneRow
    /\ ActiveIsOwned
    /\ PendingIsActive
    /\ Bounded
    /\ Witnesses

-----------------------------------------------------------------------------
(* The types are kept.                                                     *)

\* What a step leaves alone keeps its type.
LEMMA Untouched ==
    ASSUME TypeOK
    PROVE  /\ UNCHANGED clusterVars => TypedCluster'
           /\ UNCHANGED <<alive, cache, queue>> => TypedProcess'
           /\ UNCHANGED workerVars => TypedWorker'
           /\ UNCHANGED requestVars => TypedRequests'
           /\ UNCHANGED <<rows, audits>> => TypedStore'
           /\ UNCHANGED <<stops, panics, faults>> => TypedBounds'
  <1> TypedCluster /\ TypedProcess /\ TypedWorker /\ TypedRequests /\ TypedStore /\ TypedBounds
    BY TypeParts
  <1>1. UNCHANGED clusterVars => TypedCluster'
    BY DEF clusterVars, TypedCluster, UID
  <1>2. UNCHANGED <<alive, cache, queue>> => TypedProcess'
    BY DEF TypedProcess
  <1>3. UNCHANGED workerVars => TypedWorker'
    BY DEF workerVars, TypedWorker
  <1>4. UNCHANGED requestVars => TypedRequests'
    BY DEF requestVars, TypedRequests
  <1>5. UNCHANGED <<rows, audits>> => TypedStore'
    BY DEF TypedStore
  <1>6. UNCHANGED <<stops, panics, faults>> => TypedBounds'
    BY DEF TypedBounds
  <1>7. QED
    BY <1>1, <1>2, <1>3, <1>4, <1>5, <1>6

LEMMA FaultsTyped ==
    ASSUME TypedBounds, UNCHANGED <<stops, panics>>, Works \/ Fails
    PROVE  TypedBounds' /\ (Fails => faults' # 0) /\ (faults' = 0 => faults = 0)
  BY ParametersOK DEF TypedBounds, Works, Fails

LEMMA RespondTyped ==
    ASSUME TypedRequests, NEW r \in Requests, NEW phase \in Phases, Respond(r, phase),
           UNCHANGED <<home, scope, pins, gone>>
    PROVE  TypedRequests'
  BY DEF TypedRequests, Respond

LEMMA RowTyped ==
    ASSUME TypedStore, NEW r \in Requests, NEW row \in Row, rows' = [rows EXCEPT ![r] = row],
           UNCHANGED audits
    PROVE  TypedStore'
  BY DEF TypedStore

LEMMA RequestTypes ==
    ASSUME TypeOK, NEW r \in Requests,
           \/ \E p \in Procs : GetScope(r, p) \/ Post(r, p)
           \/ Handler(r) \/ Disconnect(r)
    PROVE  TypeOK'
  <1> USE Untouched, TypePartsNext
  <1> TypedCluster /\ TypedProcess /\ TypedWorker /\ TypedRequests /\ TypedStore /\ TypedBounds
    BY TypeParts
  <1>1. ASSUME NEW p \in Procs, GetScope(r, p)
        PROVE  TypeOK'
    <2>1. TypedProcess'
      BY <1>1, InventoryTyped DEF GetScope, TypedProcess
    <2>2. TypedRequests'
      BY <1>1, InventoryTyped DEF GetScope, Respond, TypedRequests, Phases
    <2>3. QED
      BY <1>1, <2>1, <2>2 DEF GetScope
  <1>2. ASSUME NEW p \in Procs, Post(r, p)
        PROVE  TypeOK'
    <2>1. TypedProcess'
      BY <1>2, InventoryTyped DEF Post, TypedProcess
    <2>2. TypedRequests'
      BY <1>2 DEF Post, Respond, TypedRequests, Phases, InFlight
    <2>3. QED
      BY <1>2, <2>1, <2>2 DEF Post
  <1>3. CASE CheckActive(r)
    <2>1. TypedBounds'
      BY <1>3, FaultsTyped DEF CheckActive
    <2>2. TypedRequests'
      BY <1>3 DEF CheckActive, Respond, TypedRequests, Phases, InFlight
    <2>3. QED
      BY <1>3, <2>1, <2>2 DEF CheckActive
  <1>4. CASE InsertRow(r)
    <2>1. TypedBounds'
      BY <1>4, FaultsTyped DEF InsertRow
    <2>2. TypedRequests'
      BY <1>4 DEF InsertRow, Respond, TypedRequests, Phases, InFlight
    <2>3. TypedStore'
      <3>1. NewRow(pins[r]) \in Row
        BY NewRowTyped DEF TypedRequests
      <3>2. CASE UNCHANGED rows
        BY <1>4, <3>2 DEF InsertRow
      <3>3. CASE rows' = [rows EXCEPT ![r] = NewRow(pins[r])]
        BY <1>4, <3>1, <3>3, RowTyped DEF InsertRow
      <3>4. QED
        BY <1>4, <3>2, <3>3 DEF InsertRow
    <2>4. QED
      BY <1>4, <2>1, <2>2, <2>3 DEF InsertRow
  <1>5. CASE Enqueue(r)
    <2>1. TypedRequests'
      BY <1>5 DEF Enqueue, Respond, TypedRequests, Phases, InFlight
    <2>2. CASE UNCHANGED queue
      BY <1>5, <2>1, <2>2 DEF Enqueue
    <2>3. CASE /\ Len(queue[home[r]]) < QueueDepth
               /\ queue' = [queue EXCEPT ![home[r]] = Append(@, r)]
      <3>1. home[r] \in Procs
        BY DEF TypedRequests
      <3>2. /\ Append(queue[home[r]], r) \in Seq(Requests)
            /\ Len(Append(queue[home[r]], r)) = Len(queue[home[r]]) + 1
        BY <3>1, AppendProperties DEF TypedProcess
      <3>3. Len(Append(queue[home[r]], r)) <= QueueDepth
        BY <2>3, <3>1, <3>2, ParametersOK, LenProperties DEF TypedProcess
      <3> DEFINE longer == Append(queue[home[r]], r)
      <3>4. queue' = [queue EXCEPT ![home[r]] = longer]
        BY <2>3
      <3> HIDE DEF longer
      <3>5. longer \in Seq(Requests) /\ Len(longer) <= QueueDepth
        BY <3>2, <3>3 DEF longer
      <3>6. UNCHANGED <<alive, cache>>
        BY <1>5 DEF Enqueue
      <3>7. TypedProcess'
        BY <3>1, <3>4, <3>5, <3>6 DEF TypedProcess
      <3>8. QED
        BY <1>5, <2>1, <3>7 DEF Enqueue
    <2>4. QED
      BY <1>5, <2>2, <2>3 DEF Enqueue
  <1>6. CASE CloseRejected(r)
    <2>1. TypedBounds'
      BY <1>6, FaultsTyped DEF CloseRejected
    <2>2. TypedRequests'
      BY <1>6 DEF CloseRejected, Respond, TypedRequests, Phases
    <2>3. TypedStore'
      <3>1. Completed(rows[r]) \in Row
        BY CompletedTyped DEF TypedStore
      <3>2. CASE UNCHANGED rows
        BY <1>6, <3>2 DEF CloseRejected
      <3>3. CASE rows' = [rows EXCEPT ![r] = Completed(@)]
        <4>1. rows' = [rows EXCEPT ![r] = Completed(rows[r])]
          BY <3>3
        <4>2. QED
          BY <1>6, <3>1, <4>1, RowTyped DEF CloseRejected
      <3>4. QED
        BY <1>6, <3>2, <3>3 DEF CloseRejected
    <2>4. QED
      BY <1>6, <2>1, <2>2, <2>3 DEF CloseRejected
  <1>7. CASE Disconnect(r)
    <2>1. TypedRequests'
      BY <1>7 DEF Disconnect, TypedRequests
    <2>2. QED
      BY <1>7, <2>1 DEF Disconnect
  <1>8. QED
    BY <1>1, <1>2, <1>3, <1>4, <1>5, <1>6, <1>7 DEF Handler

\* An attempt at a target that does not succeed: one of the other outcomes,
\* another attempt, or the way to the patch.
Misses(p, u) ==
    \/ Retry(p, u)
    \/ RecordFailed(p, u, "error")
    \/ RecordFailed(p, u, "uid_drifted")
    \/ RecordSkipped(p, u)
    \/ Goto(p, "patch") /\ UNCHANGED <<todo, batch, attempt>>

Attempts(p, u) == Misses(p, u) \/ RecordSucceeded(p, u)

LEMMA BatchGrows ==
    ASSUME NEW b \in Batch, NEW u \in UID, NEW o \in Outcome
    PROVE  /\ [b EXCEPT !.failed = Append(@, o)] \in Batch
           /\ [b EXCEPT !.skipped = Append(@, o)] \in Batch
           /\ [b EXCEPT !.succeeded = Append(@, u)] \in Batch
  <1>1. /\ Append(b.failed, o) \in Seq(Outcome)
        /\ Append(b.skipped, o) \in Seq(Outcome)
        /\ Append(b.succeeded, u) \in Seq(UID)
    BY AppendProperties DEF Batch
  <1>2. QED
    BY <1>1 DEF Batch

LEMMA RecordTyped ==
    ASSUME TypedWorker, NEW p \in Procs, NEW u, NEW b \in Batch, Record(p, u, b), UNCHANGED job
    PROVE  TypedWorker' /\ batch'[p] = b /\ worker'[p] \in {"flush", "loop"}
  <1>1. 0 \in 0..MaxRetries - 1
    BY ParametersOK
  <1>2. QED
    BY <1>1 DEF Record, Goto, TypedWorker, Places

LEMMA AttemptTyped ==
    ASSUME TypedWorker, NEW p \in Procs, NEW u \in Current(p), Attempts(p, u), UNCHANGED job
    PROVE  /\ TypedWorker'
           /\ worker'[p] \in {"flush", "loop", "get", "patch"}
           /\ \A q \in Procs \ {p} : worker'[q] = worker[q]
  <1>1. u \in UID
    BY DEF Current, TypedWorker
  <1>2. /\ [uid |-> u, reason |-> "error"] \in Outcome
        /\ [uid |-> u, reason |-> "uid_drifted"] \in Outcome
        /\ [uid |-> u, reason |-> "already_refreshing"] \in Outcome
    BY <1>1, OutcomeMade
  <1>3. batch[p] \in Batch
    BY DEF TypedWorker
  <1>4. ASSUME NEW b \in Batch, Record(p, u, b)
        PROVE  /\ TypedWorker'
               /\ worker'[p] \in {"flush", "loop"}
               /\ \A q \in Procs \ {p} : worker'[q] = worker[q]
    BY <1>4, RecordTyped DEF Record, Goto, TypedWorker
  <1>5. CASE RecordFailed(p, u, "error") \/ RecordFailed(p, u, "uid_drifted")
    BY <1>1, <1>2, <1>3, <1>4, <1>5, BatchGrows DEF RecordFailed
  <1>6. CASE RecordSkipped(p, u) \/ RecordSucceeded(p, u)
    BY <1>1, <1>2, <1>3, <1>4, <1>6, BatchGrows DEF RecordSkipped, RecordSucceeded
  <1>7. CASE Goto(p, "patch") /\ UNCHANGED <<todo, batch, attempt>>
    BY <1>7 DEF Goto, TypedWorker, Places
  <1>8. CASE Retry(p, u)
    <2>1. CASE attempt[p] + 1 = MaxRetries
      BY <1>5, <1>8, <2>1 DEF Retry
    <2>2. CASE attempt[p] + 1 # MaxRetries
      <3>1. attempt[p] + 1 \in 0..MaxRetries - 1
        BY <2>2, ParametersOK DEF TypedWorker
      <3>2. QED
        BY <1>8, <2>2, <3>1 DEF Retry, Goto, TypedWorker, Places
    <2>3. QED
      BY <2>1, <2>2
  <1>9. QED
    BY <1>5, <1>6, <1>7, <1>8 DEF Attempts, Misses

\* The steps of the worker at a target are attempts.
LEMMA TargetSteps ==
    ASSUME NEW p \in Procs, GetTarget(p) \/ PatchTarget(p)
    PROVE  \E u \in Current(p) : Attempts(p, u)
  BY DEF GetTarget, PatchTarget, Attempts, Misses

LEMMA WorkerTypes ==
    ASSUME TypeOK, HasJob, NEW p \in Procs, Worker(p) \/ Panic(p)
    PROVE  TypeOK'
  <1> USE Untouched, TypePartsNext
  <1> TypedCluster /\ TypedProcess /\ TypedWorker /\ TypedRequests /\ TypedStore /\ TypedBounds
    BY TypeParts
  <1>1. CASE Take(p)
    <2>1. queue[p] \in Seq(Requests) /\ queue[p] # <<>>
      BY <1>1 DEF Take, TypedProcess
    <2>2. /\ Head(queue[p]) \in Requests /\ Tail(queue[p]) \in Seq(Requests)
          /\ Len(Tail(queue[p])) = Len(queue[p]) - 1
      BY <2>1, HeadTailProperties
    <2>3. Len(Tail(queue[p])) <= QueueDepth
      BY <2>1, <2>2, ParametersOK, LenProperties DEF TypedProcess
    <2> DEFINE shorter == Tail(queue[p])
    <2>4. queue' = [queue EXCEPT ![p] = shorter] /\ UNCHANGED <<alive, cache>>
      BY <1>1 DEF Take
    <2> HIDE DEF shorter
    <2>5. shorter \in Seq(Requests) /\ Len(shorter) <= QueueDepth
      BY <2>2, <2>3 DEF shorter
    <2>6. TypedProcess'
      BY <2>4, <2>5 DEF TypedProcess
    <2>7. TypedWorker'
      BY <1>1, <2>2 DEF Take, Goto, TypedWorker, Places
    <2>8. QED
      BY <1>1, <2>6, <2>7 DEF Take
  <1>2. CASE StopWorker(p)
    <2>1. TypedWorker'
      BY <1>2 DEF StopWorker, Goto, TypedWorker, Places
    <2>2. QED
      BY <1>2, <2>1 DEF StopWorker
  <1>3. CASE Start(p)
    <2>1. job[p] \in Requests
      BY <1>3 DEF Start, HasJob
    <2>2. pins[job[p]] \in SUBSET UID
      BY <2>1 DEF TypedRequests
    <2>3. TypedBounds'
      BY <1>3, FaultsTyped DEF Start
    <2>4. 0 \in 0..MaxRetries - 1
      BY ParametersOK
    <2>5. TypedWorker'
      BY <1>3, <2>2, <2>4, EmptyBatchTyped DEF Start, Goto, TypedWorker, Places
    <2>6. QED
      BY <1>3, <2>3, <2>5 DEF Start
  <1>4. CASE Loop(p)
    <2>1. TypedWorker'
      BY <1>4 DEF Loop, Goto, TypedWorker, Places
    <2>2. QED
      BY <1>4, <2>1 DEF Loop
  <1>5. CASE GetTarget(p)
    <2>1. TypedWorker'
      BY <1>5, TargetSteps, AttemptTyped DEF GetTarget
    <2>2. QED
      BY <1>5, <2>1 DEF GetTarget
  <1>6. CASE PatchTarget(p)
    <2>1. TypedWorker'
      BY <1>6, TargetSteps, AttemptTyped DEF PatchTarget
    <2>2. TypedCluster'
      <3>1. ASSUME NEW u \in Current(p), u[1] \in present
            PROVE  <<u[1], gen[u[1]]>> \in UID
        BY <3>1 DEF TypedCluster, UID
      <3>2. QED
        BY <1>6, <3>1 DEF PatchTarget, TypedCluster, UID
    <2>3. QED
      BY <1>6, <2>1, <2>2 DEF PatchTarget
  <1>7. CASE Flush(p)
    <2>1. job[p] \in Requests
      BY <1>7 DEF Flush, HasJob
    <2>2. Appended(rows[job[p]], batch[p]) \in Row
      BY <2>1, AppendedTyped DEF TypedStore, TypedWorker
    <2>3. TypedStore'
      BY <1>7, <2>1, <2>2 DEF Flush, TypedStore
    <2>4. TypedWorker'
      BY <1>7, EmptyBatchTyped DEF Flush, Goto, TypedWorker, Places
    <2>5. TypedBounds'
      BY <1>7, FaultsTyped DEF Flush
    <2>6. QED
      BY <1>7, <2>3, <2>4, <2>5 DEF Flush
  <1>8. CASE PanicOutcome(p)
    <2>1. job[p] \in Requests
      BY <1>8 DEF PanicOutcome, HasJob
    <2> DEFINE panic == [EmptyBatch EXCEPT
                            !.failed = <<[uid |-> NoUID, reason |-> "worker_panic"]>>]
    <2>2. Appended(rows[job[p]], panic) \in Row
      BY <2>1, AppendedTyped, EmptyBatchTyped DEF TypedStore
    <2>3. UNCHANGED rows \/ rows' = [rows EXCEPT ![job[p]] = Appended(@, panic)]
      BY <1>8 DEF PanicOutcome
    <2> HIDE DEF panic
    <2>4. TypedStore'
      BY <1>8, <2>1, <2>2, <2>3 DEF PanicOutcome, TypedStore
    <2>5. TypedWorker'
      BY <1>8 DEF PanicOutcome, Goto, TypedWorker, Places
    <2>6. TypedBounds'
      BY <1>8, FaultsTyped DEF PanicOutcome
    <2>7. QED
      BY <1>8, <2>4, <2>5, <2>6 DEF PanicOutcome
  <1>9. CASE Complete(p)
    <2>1. job[p] \in Requests
      BY <1>9 DEF Complete, HasJob
    <2>2. Completed(rows[job[p]]) \in Row
      BY <2>1, CompletedTyped DEF TypedStore
    <2>3. UNCHANGED rows \/ rows' = [rows EXCEPT ![job[p]] = Completed(@)]
      BY <1>9 DEF Complete
    <2>4. TypedStore'
      BY <1>9, <2>1, <2>2, <2>3 DEF Complete, TypedStore
    <2>5. TypedWorker'
      BY <1>9 DEF Complete, Goto, TypedWorker, Places
    <2>6. TypedBounds'
      BY <1>9, FaultsTyped DEF Complete
    <2>7. QED
      BY <1>9, <2>4, <2>5, <2>6 DEF Complete
  <1>10. CASE Audit(p)
    <2>1. job[p] \in Requests
      BY <1>10 DEF Audit, HasJob
    <2>2. TypedStore'
      BY <1>10, <2>1 DEF Audit, TypedStore
    <2>3. TypedProcess'
      BY <1>10, NoCacheTyped DEF Audit, TypedProcess
    <2>4. TypedWorker'
      BY <1>10 DEF Audit, Goto, TypedWorker, Places
    <2>5. TypedBounds'
      BY <1>10, FaultsTyped DEF Audit
    <2>6. QED
      BY <1>10, <2>2, <2>3, <2>4, <2>5 DEF Audit
  <1>11. CASE Panic(p)
    <2>1. TypedBounds'
      BY <1>11, ParametersOK DEF Panic, TypedBounds
    <2>2. TypedWorker'
      BY <1>11, EmptyBatchTyped DEF Panic, Goto, TypedWorker, Places
    <2>3. QED
      BY <1>11, <2>1, <2>2 DEF Panic
  <1>12. QED
    BY <1>1, <1>2, <1>3, <1>4, <1>5, <1>6, <1>7, <1>8, <1>9, <1>10, <1>11 DEF Worker

LEMMA ProcessTypes ==
    ASSUME TypeOK, NEW p \in Procs, Process(p) \/ Crash(p) \/ Sigterm(p) \/ CacheExpires(p)
    PROVE  TypeOK'
  <1> USE Untouched, TypePartsNext
  <1> TypedCluster /\ TypedProcess /\ TypedWorker /\ TypedRequests /\ TypedStore /\ TypedBounds
    BY TypeParts
  <1>1. CASE Boot(p)
    <2>1. TypedProcess'
      BY <1>1 DEF Boot, TypedProcess
    <2>2. QED
      BY <1>1, <2>1 DEF Boot
  <1>2. CASE ReapOrphans(p)
    <2>1. TypedProcess'
      BY <1>2 DEF ReapOrphans, TypedProcess
    <2>2. TypedBounds'
      BY <1>2, FaultsTyped DEF ReapOrphans
    <2>3. \A r \in Requests : Completed(rows[r]) \in Row
      BY CompletedTyped DEF TypedStore
    <2>4. TypedStore'
      BY <1>2, <2>3 DEF ReapOrphans, TypedStore
    <2>5. QED
      BY <1>2, <2>1, <2>2, <2>4 DEF ReapOrphans
  <1>3. ASSUME Terminate(p), TypedBounds'
        PROVE  TypeOK'
    <2>1. TypedProcess'
      <3>1. Len(<<>>) = 0 /\ <<>> \in Seq(Requests)
        OBVIOUS
      <3>2. QED
        BY <1>3, <3>1, NoCacheTyped, ParametersOK DEF Terminate, TypedProcess
    <2>2. 0 \in 0..MaxRetries - 1
      BY ParametersOK
    <2>3. TypedWorker'
      BY <1>3, <2>2, EmptyBatchTyped DEF Terminate, TypedWorker, Places
    <2>4. TypedRequests'
      BY <1>3 DEF Terminate, TypedRequests, Phases
    <2>5. QED
      BY <1>3, <2>1, <2>3, <2>4 DEF Terminate
  <1>4. CASE Crash(p)
    <2>1. TypedBounds'
      BY <1>4, ParametersOK DEF Crash, Terminate, TypedBounds
    <2>2. QED
      BY <1>3, <1>4, <2>1 DEF Crash
  <1>5. CASE Exit(p)
    <2>1. TypedBounds'
      BY <1>5 DEF Exit, Terminate, TypedBounds
    <2>2. QED
      BY <1>3, <1>5, <2>1 DEF Exit
  <1>6. CASE Sigterm(p)
    <2>1. TypedBounds'
      BY <1>6, ParametersOK DEF Sigterm, TypedBounds
    <2>2. TypedProcess'
      BY <1>6 DEF Sigterm, TypedProcess
    <2>3. QED
      BY <1>6, <2>1, <2>2 DEF Sigterm
  <1>7. CASE CacheExpires(p)
    <2>1. TypedProcess'
      BY <1>7, NoCacheTyped DEF CacheExpires, TypedProcess
    <2>2. QED
      BY <1>7, <2>1 DEF CacheExpires
  <1>8. QED
    BY <1>1, <1>2, <1>4, <1>5, <1>6, <1>7 DEF Process

LEMMA ClusterTypes ==
    ASSUME TypeOK, NEW n \in Names, Delete(n) \/ Create(n)
    PROVE  TypeOK'
  <1> USE Untouched, TypePartsNext
  <1> TypedCluster
    BY TypeParts
  <1>1. TypedCluster'
    <2>1. ASSUME gen[n] < MaxGen
          PROVE  gen[n] + 1 \in 1..MaxGen
      BY <2>1, ParametersOK DEF TypedCluster
    <2>2. QED
      BY <2>1 DEF Delete, Create, TypedCluster, UID
  <1>2. QED
    BY <1>1 DEF Delete, Create

LEMMA CleanupTypes ==
    ASSUME TypeOK, NEW r \in Requests, Cleanup(r)
    PROVE  TypeOK'
  <1> USE Untouched, TypePartsNext
  <1> TypedStore
    BY TypeParts
  <1>1. [rows[r] EXCEPT !.phase = "deleted"] \in Row
    BY DEF TypedStore, Row
  <1>2. rows' = [rows EXCEPT ![r] = [rows[r] EXCEPT !.phase = "deleted"]]
    BY DEF Cleanup, TypedStore
  <1>3. TypedStore'
    BY <1>1, <1>2, RowTyped DEF Cleanup
  <1>4. QED
    BY <1>3 DEF Cleanup

LEMMA TypeStep == TypeOK /\ HasJob /\ [Next]_vars => TypeOK'
  <1> SUFFICES ASSUME TypeOK, HasJob, [Next]_vars
               PROVE  TypeOK'
    OBVIOUS
  <1>1. CASE UNCHANGED vars
    BY <1>1, Untouched, TypePartsNext DEF vars
  <1>2. CASE \E r \in Requests : Handler(r)
    BY <1>2, RequestTypes
  <1>3. CASE \E p \in Procs : Worker(p) \/ Process(p)
    BY <1>3, WorkerTypes, ProcessTypes
  <1>4. CASE Environment
    BY <1>4, RequestTypes, WorkerTypes, ProcessTypes, ClusterTypes, CleanupTypes DEF Environment
  <1>5. QED
    BY <1>1, <1>2, <1>3, <1>4 DEF Next

LEMMA TypeInit == Init => TypeOK
  <1> SUFFICES ASSUME Init
               PROVE  TypeOK
    OBVIOUS
  <1>1. TypedCluster
    BY ParametersOK DEF Init, TypedCluster, UID
  <1>2. TypedProcess
    <2>1. Len(<<>>) = 0 /\ <<>> \in Seq(Requests)
      OBVIOUS
    <2>2. QED
      BY <2>1, NoCacheTyped, ParametersOK DEF Init, TypedProcess
  <1>3. TypedWorker
    <2>1. 0 \in 0..MaxRetries - 1
      BY ParametersOK
    <2>2. QED
      BY <2>1, EmptyBatchTyped DEF Init, TypedWorker, Places
  <1>4. TypedRequests
    BY DEF Init, TypedRequests, Phases
  <1>5. TypedStore
    <2>1. NoRow \in Row
      BY DEF NoRow, Row, Json
    <2>2. QED
      BY <2>1 DEF Init, TypedStore
  <1>6. TypedBounds
    BY ParametersOK DEF Init, TypedBounds
  <1>7. QED
    BY <1>1, <1>2, <1>3, <1>4, <1>5, <1>6, TypeParts

-----------------------------------------------------------------------------
(* The shapes of a step, as far as rows, queues and workers go.            *)

RowsKept == \A r \in Requests : Open(r)' <=> Open(r)

\* One row is closed, or left as it is.
Closed(r) == ~Open(r)' /\ \A s \in Requests \ {r} : Open(s)' <=> Open(s)

\* Nothing of interest, or somewhere a client only.
Rests == UNCHANGED <<alive, queue, worker, job, req, home>> /\ RowsKept

\* A handler goes on to anything but the insertion.
Answers(r) ==
    /\ UNCHANGED <<alive, queue, worker, job>> /\ RowsKept
    /\ req[r] \in {"idle", "confirmed", "checked", "inserting"}
    /\ \E x \in Phases \ {"enqueue", "closing", "accepted"} :
          Respond(r, x) /\ (x \in InFlight => alive[home'[r]] \notin {"down", "booting"})
    /\ home'[r] \in Procs
    /\ \A s \in Requests \ {r} : home'[s] = home[s]

Inserts(r) ==
    /\ UNCHANGED <<alive, queue, worker, job, home>>
    /\ req[r] = "inserting"
    /\ \A s \in Requests : Open(s) => scope[s] # scope[r]
    /\ Open(r)' /\ \A s \in Requests \ {r} : Open(s)' <=> Open(s)
    /\ Respond(r, "enqueue") \/ (Respond(r, "error") /\ faults' # 0)

Enqueues(r) ==
    /\ UNCHANGED <<alive, worker, job, home>> /\ RowsKept
    /\ req[r] = "enqueue"
    /\ \/ queue' = [queue EXCEPT ![home[r]] = Append(@, r)] /\ Respond(r, "accepted")
       \/ UNCHANGED queue /\ Respond(r, "closing")

Closes(r) ==
    /\ UNCHANGED <<alive, queue, worker, job, home>>
    /\ req[r] = "closing" /\ Respond(r, "rejected")
    /\ Closed(r) \/ (RowsKept /\ (faults' # 0 \/ gone' # {}))

Takes(p) ==
    /\ UNCHANGED <<alive, req, home>> /\ RowsKept
    /\ worker[p] = "idle" /\ Goto(p, "start")
    /\ queue[p] # <<>>
    /\ job' = [job EXCEPT ![p] = Head(queue[p])]
    /\ queue' = [queue EXCEPT ![p] = Tail(@)]

\* The worker goes on; it gives up an open row only when it drains.
Moves(p) ==
    /\ UNCHANGED <<alive, queue, job, req, home>> /\ RowsKept
    /\ \E x \in Places :
          /\ Goto(p, x)
          /\ \/ worker[p] \in Working /\ x \in Working \cup Ending
             \/ worker[p] = "panicked" /\ x = "panicComplete"
             \/ worker[p] \in Working \cup {"idle"} /\ x \in {"idle", "stopped"}
                /\ alive[p] = "draining"
             \/ worker[p] = "audit" /\ x = "idle"

Completes(p) ==
    /\ UNCHANGED <<alive, queue, job, req, home>>
    /\ worker[p] \in Ending
    /\ \E x \in {"audit", "idle"} : Goto(p, x)
    /\ (\E r \in Requests : r = job[p] /\ Closed(r)) \/ (RowsKept /\ faults' # 0)

Turns(p) ==
    /\ UNCHANGED <<queue, worker, job, req, home>> /\ RowsKept
    /\ \/ alive[p] = "down" /\ alive' = [alive EXCEPT ![p] = "booting"]
       \/ alive[p] = "up" /\ alive' = [alive EXCEPT ![p] = "draining"]

Reaps(p) ==
    /\ UNCHANGED <<queue, worker, job, req, home>>
    /\ alive[p] = "booting" /\ alive' = [alive EXCEPT ![p] = "up"]
    /\ (\A r \in Requests : ~Open(r)') \/ (RowsKept /\ faults' # 0)

Ends(p) ==
    /\ UNCHANGED home /\ RowsKept
    /\ alive' = [alive EXCEPT ![p] = "down"]
    /\ queue' = [queue EXCEPT ![p] = <<>>]
    /\ worker' = [worker EXCEPT ![p] = "idle"]
    /\ job' = [job EXCEPT ![p] = NoJob]
    /\ req' = [r \in Requests |-> IF home[r] = p /\ req[r] \in InFlight THEN "error" ELSE req[r]]

RequestShape(r) == Answers(r) \/ Inserts(r) \/ Enqueues(r) \/ Closes(r)

ProcessShape(p) == Takes(p) \/ Moves(p) \/ Completes(p) \/ Turns(p) \/ Reaps(p) \/ Ends(p)

\* What every step does to the rest.
Later ==
    /\ UNCHANGED scope
    /\ faults' = 0 => faults = 0
    /\ gone' = {} => gone = {}

LEMMA RowsUnchanged == UNCHANGED rows => RowsKept
  BY DEF RowsKept, Open

LEMMA LaterUnchanged == UNCHANGED <<scope, gone, faults>> => Later
  BY DEF Later

LEMMA LaterFaults ==
    ASSUME TypeOK, UNCHANGED <<scope, gone>>, Works \/ Fails
    PROVE  Later /\ (Fails => faults' # 0)
  BY DEF TypeOK, Later, Works, Fails

LEMMA RequestShapes ==
    ASSUME TypeOK, Down, NEW r \in Requests,
           (\E p \in Procs : GetScope(r, p) \/ Post(r, p)) \/ Handler(r)
    PROVE  RequestShape(r) /\ Later
  <1> home \in [Requests -> Procs]
    BY DEF TypeOK
  <1>1. ASSUME req[r] \in InFlight
        PROVE  alive[home[r]] \notin {"down", "booting"}
    BY <1>1 DEF Down
  <1>2. ASSUME NEW p \in Procs, GetScope(r, p)
        PROVE  Answers(r) /\ Later
    <2>1. Respond(r, "confirmed")
      BY <1>2 DEF GetScope
    <2>2. /\ "confirmed" \in Phases \ {"enqueue", "closing", "accepted"}
          /\ "confirmed" \notin InFlight
      BY DEF Phases, InFlight
    <2>3. UNCHANGED <<alive, queue, worker, job, home>> /\ RowsKept /\ Later
      BY <1>2, RowsUnchanged, LaterUnchanged DEF GetScope, workerVars
    <2>4. req[r] = "idle"
      BY <1>2 DEF GetScope
    <2>5. QED
      BY <2>1, <2>2, <2>3, <2>4 DEF Answers
  <1>3. ASSUME NEW p \in Procs, Post(r, p)
        PROVE  Answers(r) /\ Later
    <2>1. \E x \in {"error", "checked", "conflict"} : Respond(r, x)
      BY <1>3 DEF Post
    <2>2. {"error", "checked", "conflict"} \subseteq Phases \ {"enqueue", "closing", "accepted"}
      BY DEF Phases, InFlight
    <2>3. home'[r] = p /\ alive[p] = "up" /\ \A s \in Requests \ {r} : home'[s] = home[s]
      BY <1>3 DEF Post
    <2>4. UNCHANGED <<alive, queue, worker, job>> /\ RowsKept /\ Later
      BY <1>3, RowsUnchanged, LaterUnchanged DEF Post, workerVars
    <2>5. req[r] = "confirmed"
      BY <1>3 DEF Post
    <2>6. QED
      BY <2>1, <2>2, <2>3, <2>4, <2>5 DEF Answers
  <1>4. CASE CheckActive(r)
    <2>1. \E x \in {"error", "inserting", "conflict"} : Respond(r, x)
      BY <1>4 DEF CheckActive
    <2>2. {"error", "inserting", "conflict"} \subseteq Phases \ {"enqueue", "closing", "accepted"}
      BY DEF Phases, InFlight
    <2>3. UNCHANGED <<alive, queue, worker, job, home>> /\ RowsKept /\ Later
      BY <1>4, RowsUnchanged, LaterFaults DEF CheckActive, workerVars
    <2>4. req[r] = "checked" /\ req[r] \in InFlight
      BY <1>4 DEF CheckActive, InFlight
    <2>5. QED
      BY <1>1, <2>1, <2>2, <2>3, <2>4 DEF Answers, RequestShape
  <1>5. CASE InsertRow(r)
    <2>1. UNCHANGED <<alive, queue, worker, job, home, scope, gone>> /\ Later
      BY <1>5, LaterFaults DEF InsertRow, workerVars
    <2>2. req[r] = "inserting"
      BY <1>5 DEF InsertRow
    <2>3. ASSUME NEW x \in {"error", "conflict"}, Respond(r, x), UNCHANGED rows
          PROVE  Answers(r)
      <3>1. x \in Phases \ {"enqueue", "closing", "accepted"} /\ x \notin InFlight
        BY <2>3 DEF Phases, InFlight
      <3>2. QED
        BY <2>1, <2>2, <2>3, <3>1, RowsUnchanged DEF Answers
    <2>4. ASSUME ActiveRows(scope[r]) = {}, rows' = [rows EXCEPT ![r] = NewRow(pins[r])],
                 Respond(r, "enqueue") \/ (Respond(r, "error") /\ Fails)
          PROVE  Inserts(r)
      <3>1. \A s \in Requests : Open(s) => scope[s] # scope[r]
        BY <2>4 DEF ActiveRows, Open
      <3>2. Open(r)' /\ \A s \in Requests \ {r} : Open(s)' <=> Open(s)
        <4>1. rows'[r] = NewRow(pins[r]) /\ \A s \in Requests \ {r} : rows'[s] = rows[s]
          BY <2>4 DEF TypeOK
        <4>2. QED
          BY <4>1 DEF Open, NewRow
      <3>3. QED
        BY <2>1, <2>2, <2>4, <3>1, <3>2, LaterFaults DEF Inserts
    <2>5. QED
      BY <1>5, <2>1, <2>3, <2>4 DEF InsertRow, RequestShape
  <1>6. CASE Enqueue(r)
    BY <1>6, RowsUnchanged, LaterUnchanged DEF Enqueue, workerVars, Enqueues, RequestShape
  <1>7. CASE CloseRejected(r)
    <2>1. UNCHANGED <<alive, queue, worker, job, home, scope, gone>> /\ Later
      BY <1>7, LaterFaults DEF CloseRejected, workerVars
    <2>2. rows' = [rows EXCEPT ![r] = Completed(@)] => Closed(r)
      <3>1. rows[r] \in Row /\ rows \in [Requests -> Row]
        BY TypeParts DEF TypedStore
      <3>2. QED
        BY <3>1, CompletedTyped DEF Closed, Open
    <2>3. \/ Closed(r)
          \/ RowsKept /\ (faults' # 0 \/ gone' # {})
      BY <1>7, <2>1, <2>2, RowsUnchanged, LaterFaults DEF CloseRejected
    <2>4. QED
      BY <1>7, <2>1, <2>3 DEF CloseRejected, Closes, RequestShape
  <1>8. QED
    BY <1>2, <1>3, <1>4, <1>5, <1>6, <1>7 DEF Handler, RequestShape

LEMMA AppendedKeeps ==
    ASSUME TypeOK, NEW r \in Requests, NEW b \in Batch,
           UNCHANGED rows \/ rows' = [rows EXCEPT ![r] = Appended(@, b)]
    PROVE  RowsKept
  <1>1. rows[r] \in Row /\ rows \in [Requests -> Row]
    BY TypeParts DEF TypedStore
  <1>2. Appended(rows[r], b).phase = rows[r].phase
    BY <1>1, AppendedTyped
  <1>3. QED
    BY <1>1, <1>2 DEF RowsKept, Open

LEMMA WorkerShapes ==
    ASSUME TypeOK, HasJob, NEW p \in Procs, Worker(p) \/ Panic(p)
    PROVE  (ProcessShape(p) \/ Rests) /\ Later
  <1> TypedWorker /\ batch[p] \in Batch /\ worker[p] \in Places
    BY TypeParts DEF TypedWorker
  <1>1. CASE Take(p)
    BY <1>1, RowsUnchanged, LaterUnchanged DEF Take, requestVars, Takes, ProcessShape
  <1>2. ASSUME NEW x \in Places, Goto(p, x), UNCHANGED <<alive, queue, job, req, home>>, RowsKept,
               \/ worker[p] \in Working /\ x \in Working \cup Ending
               \/ worker[p] = "panicked" /\ x = "panicComplete"
               \/ worker[p] \in Working \cup {"idle"} /\ x \in {"idle", "stopped"}
                  /\ alive[p] = "draining"
               \/ worker[p] = "audit" /\ x = "idle"
        PROVE  ProcessShape(p)
    BY <1>2 DEF Moves, ProcessShape
  <1> HIDE DEF ProcessShape
  <1>3. CASE StopWorker(p)
    BY <1>2, <1>3, RowsUnchanged, LaterUnchanged DEF StopWorker, requestVars, Places
  <1>4. CASE Start(p)
    <2>1. Later
      BY <1>4, LaterFaults DEF Start, requestVars
    <2>2. RowsKept /\ UNCHANGED <<alive, queue, job, req, home>>
      BY <1>4, RowsUnchanged DEF Start, requestVars
    <2>3. worker[p] \in Working /\ \E x \in {"loop", "abort"} : Goto(p, x)
      BY <1>4 DEF Start, Working
    <2>4. {"loop", "abort"} \subseteq (Working \cup Ending) \cap Places
      BY DEF Working, Ending, Places
    <2>5. QED
      BY <1>2, <2>1, <2>2, <2>3, <2>4
  <1>5. CASE Loop(p)
    <2>1. RowsKept /\ UNCHANGED <<alive, queue, job, req, home>> /\ Later
      BY <1>5, RowsUnchanged, LaterUnchanged DEF Loop, requestVars
    <2>2. worker[p] \in Working
      BY <1>5 DEF Loop, Working
    <2>3. /\ {"complete", "flush", "get"} \subseteq (Working \cup Ending) \cap Places
          /\ "idle" \in Places
      BY DEF Working, Ending, Places
    <2>4. \/ \E x \in {"complete", "flush", "get"} : Goto(p, x)
          \/ Goto(p, "idle") /\ alive[p] = "draining"
      BY <1>5 DEF Loop
    <2>5. QED
      BY <1>2, <2>1, <2>2, <2>3, <2>4
  <1>6. CASE GetTarget(p) \/ PatchTarget(p)
    <2>1. RowsKept /\ UNCHANGED <<alive, queue, job, req, home>> /\ Later
      BY <1>6, RowsUnchanged, LaterUnchanged DEF GetTarget, PatchTarget, requestVars
    <2>2. worker[p] \in Working
      BY <1>6 DEF GetTarget, PatchTarget, Working
    <2>3. PICK u \in Current(p) : Attempts(p, u)
      BY <1>6, TargetSteps
    <2>4. \E x \in {"flush", "loop", "get", "patch"} : Goto(p, x)
      BY <2>3 DEF Attempts, Misses, Retry, RecordFailed, RecordSkipped, RecordSucceeded, Record
    <2>5. {"flush", "loop", "get", "patch"} \subseteq (Working \cup Ending) \cap Places
      BY DEF Working, Ending, Places
    <2>6. QED
      BY <1>2, <2>1, <2>2, <2>4, <2>5
  <1>7. CASE Flush(p)
    <2>1. job[p] \in Requests
      BY <1>7 DEF Flush, HasJob
    <2>2. RowsKept
      BY <1>7, <2>1, AppendedKeeps DEF Flush
    <2>3. UNCHANGED <<alive, queue, job, req, home>> /\ Later
      BY <1>7, LaterFaults DEF Flush, requestVars
    <2>4. worker[p] \in Working /\ Goto(p, "loop") /\ "loop" \in Working \cap Places
      BY <1>7 DEF Flush, Working, Places
    <2>5. QED
      BY <1>2, <2>2, <2>3, <2>4
  <1>8. CASE PanicOutcome(p)
    <2>1. job[p] \in Requests
      BY <1>8 DEF PanicOutcome, HasJob
    <2>2. RowsKept
      BY <1>8, <2>1, AppendedKeeps, EmptyBatchTyped DEF PanicOutcome
    <2>3. UNCHANGED <<alive, queue, job, req, home>> /\ Later
      BY <1>8, LaterFaults DEF PanicOutcome, requestVars
    <2>4. worker[p] = "panicked" /\ Goto(p, "panicComplete") /\ "panicComplete" \in Places
      BY <1>8 DEF PanicOutcome, Places
    <2>5. QED
      BY <1>2, <2>2, <2>3, <2>4
  <1>9. CASE Complete(p)
    <2>1. PICK r \in Requests : r = job[p]
      BY <1>9 DEF Complete, HasJob
    <2>2. rows[r] \in Row /\ rows \in [Requests -> Row]
      BY <2>1, TypeParts DEF TypedStore
    <2>3. rows' = [rows EXCEPT ![r] = Completed(@)] => Closed(r)
      BY <2>1, <2>2, CompletedTyped DEF Closed, Open
    <2>4. UNCHANGED <<alive, queue, job, req, home>> /\ Later
      BY <1>9, LaterFaults DEF Complete, requestVars
    <2>5. Closed(r) \/ (RowsKept /\ faults' # 0)
      BY <1>9, <2>1, <2>3, RowsUnchanged, LaterFaults DEF Complete, requestVars
    <2>6. worker[p] \in Ending /\ \E x \in {"audit", "idle"} : Goto(p, x)
      BY <1>9 DEF Complete, Ending
    <2>7. QED
      BY <2>1, <2>4, <2>5, <2>6 DEF Completes, ProcessShape
  <1>10. CASE Audit(p)
    <2>1. RowsKept /\ UNCHANGED <<alive, queue, job, req, home>> /\ Later
      BY <1>10, RowsUnchanged, LaterFaults DEF Audit, requestVars
    <2>2. worker[p] = "audit" /\ Goto(p, "idle") /\ "idle" \in Places
      BY <1>10 DEF Audit, Places
    <2>3. QED
      BY <1>2, <2>1, <2>2
  <1>11. CASE Panic(p)
    <2>1. RowsKept /\ UNCHANGED <<alive, queue, job, req, home>> /\ Later
      BY <1>11, RowsUnchanged, LaterUnchanged DEF Panic, requestVars
    <2>2. worker[p] \in Working /\ Goto(p, "panicked") /\ "panicked" \in Ending \cap Places
      BY <1>11 DEF Panic, Working, Ending, Places
    <2>3. QED
      BY <1>2, <2>1, <2>2
  <1>12. QED
    BY <1>1, <1>3, <1>4, <1>5, <1>6, <1>7, <1>8, <1>9, <1>10, <1>11 DEF Worker

LEMMA ProcessShapes ==
    ASSUME TypeOK, NEW p \in Procs, Process(p) \/ Crash(p) \/ Sigterm(p) \/ CacheExpires(p)
    PROVE  (ProcessShape(p) \/ Rests) /\ Later
  <1>1. CASE Boot(p)
    BY <1>1, RowsUnchanged, LaterUnchanged DEF Boot, workerVars, requestVars, Turns, ProcessShape
  <1>2. CASE Sigterm(p)
    BY <1>2, RowsUnchanged, LaterUnchanged
       DEF Sigterm, workerVars, requestVars, Turns, ProcessShape
  <1>3. CASE ReapOrphans(p)
    <2>1. rows' = [r \in Requests |-> Completed(rows[r])] => \A r \in Requests : ~Open(r)'
      BY CompletedTyped, TypeParts DEF TypedStore, Open
    <2>2. Later /\ (Fails => faults' # 0)
      BY <1>3, LaterFaults DEF ReapOrphans, requestVars
    <2>3. (\A r \in Requests : ~Open(r)') \/ (RowsKept /\ faults' # 0)
      BY <1>3, <2>1, <2>2, RowsUnchanged DEF ReapOrphans
    <2>4. QED
      BY <1>3, <2>2, <2>3 DEF ReapOrphans, workerVars, requestVars, Reaps, ProcessShape
  <1>4. CASE Crash(p) \/ Exit(p)
    BY <1>4, RowsUnchanged, LaterUnchanged DEF Crash, Exit, Terminate, Ends, ProcessShape
  <1>5. CASE CacheExpires(p)
    BY <1>5, RowsUnchanged, LaterUnchanged DEF CacheExpires, workerVars, requestVars, Rests
  <1>6. QED
    BY <1>1, <1>2, <1>3, <1>4, <1>5 DEF Process

LEMMA RestShapes ==
    ASSUME TypeOK,
           \/ UNCHANGED vars
           \/ \E r \in Requests : Disconnect(r) \/ Cleanup(r)
           \/ \E n \in Names : Delete(n) \/ Create(n)
    PROVE  Rests /\ Later
  <1>1. CASE UNCHANGED vars
    BY <1>1, RowsUnchanged, LaterUnchanged DEF vars, workerVars, requestVars, Rests
  <1>2. ASSUME NEW r \in Requests, Disconnect(r)
        PROVE  Rests /\ Later
    <2>1. gone' # {} /\ UNCHANGED <<scope, faults>>
      BY <1>2 DEF Disconnect
    <2>2. QED
      BY <1>2, <2>1, RowsUnchanged DEF Disconnect, workerVars, Rests, Later
  <1>3. ASSUME NEW r \in Requests, Cleanup(r)
        PROVE  Rests /\ Later
    <2>1. RowsKept
      BY <1>3, TypeParts DEF Cleanup, RowsKept, Open, TypedStore, Row
    <2>2. QED
      BY <1>3, <2>1, LaterUnchanged DEF Cleanup, workerVars, requestVars, Rests
  <1>4. ASSUME NEW n \in Names, Delete(n) \/ Create(n)
        PROVE  Rests /\ Later
    BY <1>4, RowsUnchanged, LaterUnchanged DEF Delete, Create, workerVars, requestVars, Rests
  <1>5. QED
    BY <1>1, <1>2, <1>3, <1>4

LEMMA StepShapes ==
    ASSUME TypeOK, HasJob, Down, [Next]_vars
    PROVE  /\ \/ Rests
              \/ \E r \in Requests : RequestShape(r)
              \/ \E p \in Procs : ProcessShape(p)
           /\ Later
  <1>1. CASE UNCHANGED vars
    BY <1>1, RestShapes
  <1>2. CASE \E r \in Requests : Handler(r)
    BY <1>2, RequestShapes
  <1>3. CASE \E p \in Procs : Worker(p) \/ Process(p)
    BY <1>3, WorkerShapes, ProcessShapes
  <1>4. CASE Environment
    BY <1>4, RequestShapes, WorkerShapes, ProcessShapes, RestShapes DEF Environment
  <1>5. QED
    BY <1>1, <1>2, <1>3, <1>4 DEF Next

-----------------------------------------------------------------------------
(* The invariant is kept: jobs and processes.                              *)

LEMMA HasJobStep ==
    ASSUME TypeOK, HasJob,
           \/ Rests \/ \E r \in Requests : RequestShape(r)
           \/ \E p \in Procs : ProcessShape(p)
    PROVE  HasJob'
  <1> /\ queue \in [Procs -> Seq(Requests)]
      /\ worker \in [Procs -> Places] /\ job \in [Procs -> Requests \cup {NoJob}]
    BY DEF TypeOK, Places
  <1>1. ASSUME UNCHANGED <<worker, job>>
        PROVE  HasJob'
    BY <1>1 DEF HasJob
  <1>2. ASSUME NEW r \in Requests, RequestShape(r)
        PROVE  HasJob'
    BY <1>1, <1>2 DEF RequestShape, Answers, Inserts, Enqueues, Closes
  <1>3. ASSUME NEW p \in Procs, Takes(p)
        PROVE  HasJob'
    <2>1. Head(queue[p]) \in Requests
      BY <1>3, HeadTailProperties DEF Takes
    <2>2. QED
      BY <1>3, <2>1 DEF Takes, Goto, HasJob
  <1>4. ASSUME NEW p \in Procs, Moves(p)
        PROVE  HasJob'
    BY <1>4 DEF Moves, Goto, HasJob, Working, Ending
  <1>5. ASSUME NEW p \in Procs, Completes(p)
        PROVE  HasJob'
    BY <1>5 DEF Completes, Goto, HasJob, Ending
  <1>6. ASSUME NEW p \in Procs, Turns(p) \/ Reaps(p)
        PROVE  HasJob'
    BY <1>1, <1>6 DEF Turns, Reaps
  <1>7. ASSUME NEW p \in Procs, Ends(p)
        PROVE  HasJob'
    BY <1>7 DEF Ends, HasJob
  <1>8. QED
    BY <1>1, <1>2, <1>3, <1>4, <1>5, <1>6, <1>7 DEF ProcessShape, Rests

LEMMA DownStep ==
    ASSUME TypeOK, TypeOK', Down,
           \/ Rests \/ \E r \in Requests : RequestShape(r)
           \/ \E p \in Procs : ProcessShape(p)
    PROVE  Down'
  <1> /\ alive \in [Procs -> {"down", "booting", "up", "draining"}]
      /\ queue \in [Procs -> Seq(Requests)] /\ worker \in [Procs -> Places]
      /\ req \in [Requests -> Phases] /\ home \in [Requests -> Procs]
      /\ req' \in [Requests -> Phases] /\ home' \in [Requests -> Procs]
    BY DEF TypeOK, Places, Phases
  <1>1. CASE Rests
    BY <1>1 DEF Rests, Down
  <1>2. ASSUME NEW r \in Requests, Answers(r)
        PROVE  Down'
    <2>1. /\ UNCHANGED <<alive, queue, worker>>
          /\ \A s \in Requests \ {r} : home'[s] = home[s] /\ req'[s] = req[s]
          /\ req'[r] \in InFlight => alive[home'[r]] \notin {"down", "booting"}
      BY <1>2 DEF Answers, Respond
    <2>2. QED
      BY <2>1 DEF Down
  <1>3. ASSUME NEW r \in Requests, Inserts(r) \/ Closes(r)
        PROVE  Down'
    <2>1. UNCHANGED <<alive, queue, worker, home>> /\ req[r] \in InFlight
      BY <1>3 DEF Inserts, Closes, InFlight
    <2>2. \A s \in Requests : req'[s] \in InFlight => req[s] \in InFlight
      BY <1>3, <2>1 DEF Inserts, Closes, Respond
    <2>3. QED
      BY <2>1, <2>2 DEF Down
  <1>4. ASSUME NEW r \in Requests, Enqueues(r)
        PROVE  Down'
    <2>1. UNCHANGED <<alive, worker, home>> /\ req[r] \in InFlight
      BY <1>4 DEF Enqueues, InFlight
    <2>2. \A s \in Requests : req'[s] \in InFlight => req[s] \in InFlight
      BY <1>4, <2>1 DEF Enqueues, Respond
    <2>3. alive[home[r]] \notin {"down", "booting"}
      BY <2>1 DEF Down
    <2>4. \A p \in Procs \ {home[r]} : queue'[p] = queue[p]
      BY <1>4 DEF Enqueues
    <2>5. QED
      BY <2>1, <2>2, <2>3, <2>4 DEF Down
  <1>5. ASSUME NEW p \in Procs, Takes(p) \/ Moves(p) \/ Completes(p)
        PROVE  Down'
    <2>1. UNCHANGED <<alive, req, home>>
      BY <1>5 DEF Takes, Moves, Completes
    <2>2. alive[p] \notin {"down", "booting"}
      BY <1>5 DEF Takes, Moves, Completes, Down, Working, Ending
    <2>3. \A q \in Procs \ {p} : queue'[q] = queue[q] /\ worker'[q] = worker[q]
      BY <1>5 DEF Takes, Moves, Completes, Goto
    <2>4. QED
      BY <2>1, <2>2, <2>3 DEF Down
  <1>6. ASSUME NEW p \in Procs, Turns(p) \/ Reaps(p)
        PROVE  Down'
    <2>1. /\ UNCHANGED <<queue, worker, req, home>>
          /\ \A q \in Procs : alive'[q] \in {"down", "booting"} => alive[q] \in {"down", "booting"}
      BY <1>6 DEF Turns, Reaps
    <2>2. QED
      BY <2>1 DEF Down
  <1>7. ASSUME NEW p \in Procs, Ends(p)
        PROVE  Down'
    <2>1. /\ queue'[p] = <<>> /\ worker'[p] = "idle"
          /\ \A r \in Requests : home'[r] = p => req'[r] \notin InFlight
      BY <1>7 DEF Ends, InFlight
    <2>2. \A q \in Procs \ {p} :
             /\ queue'[q] = queue[q] /\ worker'[q] = worker[q] /\ alive'[q] = alive[q]
             /\ \A r \in Requests : home'[r] = q => req'[r] = req[r] /\ home[r] = q
      BY <1>7 DEF Ends
    <2>3. QED
      BY <2>1, <2>2 DEF Down
  <1>8. QED
    BY <1>1, <1>2, <1>3, <1>4, <1>5, <1>6, <1>7 DEF RequestShape, ProcessShape

LEMMA OneRowStep ==
    ASSUME TypeOK, OneRow, UNCHANGED scope,
           \/ Rests \/ \E r \in Requests : RequestShape(r)
           \/ \E p \in Procs : ProcessShape(p)
    PROVE  OneRow'
  <1>1. ASSUME \A r \in Requests : Open(r)' => Open(r)
        PROVE  OneRow'
    BY <1>1 DEF OneRow
  <1>2. RowsKept => OneRow'
    BY <1>1 DEF RowsKept
  <1>3. ASSUME NEW r \in Requests, Closed(r)
        PROVE  OneRow'
    BY <1>1, <1>3 DEF Closed
  <1>4. ASSUME NEW r \in Requests, Inserts(r)
        PROVE  OneRow'
    <2>1. \A s \in Requests \ {r} : Open(s)' => Open(s) /\ scope[s] # scope[r]
      BY <1>4 DEF Inserts
    <2>2. QED
      BY <2>1 DEF OneRow
  <1>5. ASSUME NEW r \in Requests, RequestShape(r)
        PROVE  OneRow'
    BY <1>2, <1>3, <1>4, <1>5 DEF RequestShape, Answers, Enqueues, Closes
  <1>6. ASSUME NEW p \in Procs, ProcessShape(p)
        PROVE  OneRow'
    BY <1>1, <1>2, <1>3, <1>6 DEF ProcessShape, Takes, Moves, Completes, Turns, Reaps, Ends
  <1>7. QED
    BY <1>2, <1>5, <1>6 DEF Rests

-----------------------------------------------------------------------------
(* The invariant is kept: pending jobs and active rows.                    *)

LEMMA QueueGrows ==
    ASSUME NEW q \in Seq(Requests), NEW r \in Requests
    PROVE  /\ \A x : In(Append(q, r), x) <=> In(q, x) \/ x = r
           /\ Distinct(q) /\ ~In(q, r) => Distinct(Append(q, r))
  <1>1. /\ Len(Append(q, r)) = Len(q) + 1 /\ Len(q) \in Nat
        /\ \A i \in 1..Len(q) : Append(q, r)[i] = q[i]
        /\ Append(q, r)[Len(q) + 1] = r
    BY AppendProperties, LenProperties
  <1> DEFINE longer == Append(q, r)
  <1> HIDE DEF longer
  <1>2. /\ Len(longer) = Len(q) + 1 /\ Len(q) \in Nat
        /\ \A i \in 1..Len(q) : longer[i] = q[i]
        /\ longer[Len(q) + 1] = r
    BY <1>1 DEF longer
  <1>3. \A x : In(longer, x) <=> In(q, x) \/ x = r
    BY <1>2 DEF In
  <1>4. ASSUME Distinct(q), ~In(q, r)
        PROVE  Distinct(longer)
    <2>1. \A i \in 1..Len(longer) : i \in 1..Len(q) \/ i = Len(q) + 1
      BY <1>2
    <2>2. QED
      BY <1>2, <1>4, <2>1 DEF In, Distinct
  <1>5. QED
    BY <1>3, <1>4 DEF longer

LEMMA QueueShrinks ==
    ASSUME NEW q \in Seq(Requests), q # <<>>
    PROVE  /\ \A x : In(q, x) <=> In(Tail(q), x) \/ x = Head(q)
           /\ Distinct(q) => Distinct(Tail(q)) /\ ~In(Tail(q), Head(q))
  <1> DEFINE rest == Tail(q)
  <1>1. /\ Len(rest) = Len(q) - 1 /\ Len(q) \in Nat /\ Len(q) >= 1
        /\ \A i \in 1..Len(rest) : rest[i] = q[i + 1]
        /\ Head(q) = q[1]
    BY HeadTailProperties, LenProperties, EmptySeq
  <1> HIDE DEF rest
  <1>2. \A i \in 1..Len(q) : i = 1 \/ (i - 1 \in 1..Len(rest) /\ rest[i - 1] = q[i])
    BY <1>1
  <1>3. \A x : In(q, x) <=> In(rest, x) \/ x = Head(q)
    <2>1. \A x : In(q, x) => In(rest, x) \/ x = Head(q)
      BY <1>1, <1>2 DEF In
    <2>2. \A x : In(rest, x) => In(q, x)
      BY <1>1 DEF In
    <2>3. In(q, Head(q))
      BY <1>1 DEF In
    <2>4. QED
      BY <2>1, <2>2, <2>3
  <1>4. ASSUME Distinct(q)
        PROVE  Distinct(rest) /\ ~In(rest, Head(q))
    BY <1>1, <1>4 DEF In, Distinct
  <1>5. QED
    BY <1>3, <1>4 DEF rest

LEMMA PendingSplit ==
    /\ \A p, r : Pending(p, r) <=> In(queue[p], r) \/ (job[p] = r /\ worker[p] \in Working)
    /\ \A p, r : Pending(p, r)' <=> In(queue'[p], r) \/ (job'[p] = r /\ worker'[p] \in Working)
  BY DEF Pending, In, Working

\* Who is going to complete the row of a job.
Owner(r) ==
    \/ Handing(r)
    \/ \E p \in Procs : \/ In(queue[p], r)
                        \/ job[p] = r /\ worker[p] \in Working \cup Ending
                        \/ alive[p] # "up"

LEMMA OwnedSplit ==
    /\ ActiveIsOwned <=> ((faults = 0 /\ gone = {}) => \A r \in Requests : Open(r) => Owner(r))
    /\ ActiveIsOwned' <=>
           ((faults' = 0 /\ gone' = {}) => \A r \in Requests : Open(r)' => Owner(r)')
  BY PendingSplit DEF ActiveIsOwned, Owner, Open, Handing, Ending

LEMMA OwnedStep ==
    ASSUME TypeOK, ActiveIsOwned, Later,
           \/ Rests \/ \E r \in Requests : RequestShape(r)
           \/ \E p \in Procs : ProcessShape(p)
    PROVE  ActiveIsOwned'
  <1> /\ alive \in [Procs -> {"down", "booting", "up", "draining"}]
      /\ queue \in [Procs -> Seq(Requests)] /\ worker \in [Procs -> Places]
      /\ job \in [Procs -> Requests \cup {NoJob}]
      /\ req \in [Requests -> Phases] /\ home \in [Requests -> Procs]
    BY DEF TypeOK, Places, Phases
  <1> SUFFICES ASSUME faults' = 0, gone' = {}, NEW r \in Requests, Open(r)'
               PROVE  Owner(r)'
    BY OwnedSplit
  <1>1. faults = 0 /\ gone = {}
    BY DEF Later
  <1>2. Open(r) => Owner(r)
    BY <1>1, OwnedSplit
  <1>3. CASE Rests
    BY <1>2, <1>3 DEF Rests, RowsKept, Owner, Handing
  <1>4. ASSUME NEW s \in Requests, Answers(s)
        PROVE  Owner(r)'
    <2>1. UNCHANGED <<alive, queue, worker, job>> /\ Open(r)
      BY <1>4 DEF Answers, RowsKept
    <2>2. Handing(r) => Handing(r)'
      BY <1>4 DEF Answers, Respond, Handing
    <2>3. QED
      BY <1>2, <2>1, <2>2 DEF Owner
  <1>5. ASSUME NEW s \in Requests, Inserts(s)
        PROVE  Owner(r)'
    <2>1. UNCHANGED <<alive, queue, worker, job>> /\ Respond(s, "enqueue")
      BY <1>5 DEF Inserts
    <2>2. CASE r = s
      BY <2>1, <2>2 DEF Respond, Handing, Owner
    <2>3. CASE r # s
      BY <1>2, <1>5, <2>1, <2>3 DEF Inserts, Respond, Handing, Owner
    <2>4. QED
      BY <2>2, <2>3
  <1>6. ASSUME NEW s \in Requests, Enqueues(s)
        PROVE  Owner(r)'
    <2>1. UNCHANGED <<alive, worker, job>> /\ Open(r)
      BY <1>6 DEF Enqueues, RowsKept
    <2>2. CASE UNCHANGED queue /\ Respond(s, "closing")
      BY <1>2, <2>1, <2>2 DEF Respond, Handing, Owner
    <2>3. CASE queue' = [queue EXCEPT ![home[s]] = Append(@, s)] /\ Respond(s, "accepted")
      <3>1. /\ queue'[home[s]] = Append(queue[home[s]], s)
            /\ \A q \in Procs \ {home[s]} : queue'[q] = queue[q]
            /\ home[s] \in Procs
        BY <2>3
      <3>2. /\ \A q \in Procs : In(queue[q], r) => In(queue'[q], r)
            /\ In(queue'[home[s]], s)
        <4>1. queue[home[s]] \in Seq(Requests)
          BY <3>1
        <4>2. \A x : In(Append(queue[home[s]], s), x) <=> In(queue[home[s]], x) \/ x = s
          BY <4>1, QueueGrows
        <4>3. \A x : In(queue'[home[s]], x) <=> In(queue[home[s]], x) \/ x = s
          BY <3>1, <4>2
        <4>4. QED
          BY <3>1, <4>3
      <3>3. r # s => (Handing(r)' <=> Handing(r))
        BY <2>3 DEF Respond, Handing
      <3>4. CASE r = s
        BY <3>1, <3>2, <3>4 DEF Owner
      <3>5. CASE r # s
        <4>1. Owner(r)
          BY <1>2, <2>1
        <4>2. Handing(r) => Handing(r)'
          BY <3>3, <3>5
        <4>3. QED
          BY <2>1, <3>2, <4>1, <4>2 DEF Owner
      <3>6. QED
        BY <3>4, <3>5
    <2>4. QED
      BY <1>6, <2>2, <2>3 DEF Enqueues
  <1>7. ASSUME NEW s \in Requests, Closes(s)
        PROVE  Owner(r)'
    <2>1. UNCHANGED <<alive, queue, worker, job>> /\ Closed(s) /\ Respond(s, "rejected")
      BY <1>7 DEF Closes
    <2>2. r # s /\ Open(r) /\ (Handing(r)' <=> Handing(r))
      BY <2>1 DEF Closed, Respond, Handing
    <2>3. QED
      BY <1>2, <2>1, <2>2 DEF Owner
  <1>8. ASSUME NEW p \in Procs, Takes(p)
        PROVE  Owner(r)'
    <2>1. UNCHANGED <<alive, req>> /\ Open(r) /\ worker[p] = "idle"
      BY <1>8 DEF Takes, RowsKept
    <2>2. /\ queue'[p] = Tail(queue[p]) /\ job'[p] = Head(queue[p]) /\ worker'[p] = "start"
          /\ \A q \in Procs \ {p} : /\ queue'[q] = queue[q] /\ job'[q] = job[q]
                                    /\ worker'[q] = worker[q]
      BY <1>8 DEF Takes, Goto
    <2>3. In(queue[p], r) => In(queue'[p], r) \/ job'[p] = r
      BY <1>8, <2>2, QueueShrinks DEF Takes
    <2>4. worker'[p] \in Working /\ worker[p] \notin Working \cup Ending
      BY <2>1, <2>2 DEF Working, Ending
    <2>5. QED
      BY <1>2, <2>1, <2>2, <2>3, <2>4 DEF Owner, Handing
  <1>9. ASSUME NEW p \in Procs, Moves(p)
        PROVE  Owner(r)'
    <2>1. UNCHANGED <<alive, queue, job, req>> /\ Open(r)
      BY <1>9 DEF Moves, RowsKept
    <2>2. \A q \in Procs \ {p} : worker'[q] = worker[q]
      BY <1>9 DEF Moves, Goto
    <2>3. worker[p] \in Working \cup Ending =>
              worker'[p] \in Working \cup Ending \/ alive[p] # "up"
      BY <1>9 DEF Moves, Goto, Working, Ending
    <2>4. QED
      BY <1>2, <2>1, <2>2, <2>3 DEF Owner, Handing
  <1>10. ASSUME NEW p \in Procs, Completes(p)
         PROVE  Owner(r)'
    <2>1. UNCHANGED <<alive, queue, job, req>> /\ Open(r) /\ r # job[p]
      BY <1>10 DEF Completes, Closed
    <2>2. \A q \in Procs \ {p} : worker'[q] = worker[q]
      BY <1>10 DEF Completes, Goto
    <2>3. QED
      BY <1>2, <2>1, <2>2 DEF Owner, Handing
  <1>11. ASSUME NEW p \in Procs, Turns(p) \/ Ends(p)
         PROVE  Owner(r)'
    <2>1. alive'[p] # "up"
      BY <1>11 DEF Turns, Ends
    <2>2. QED
      BY <2>1 DEF Owner
  <1>12. ASSUME NEW p \in Procs, Reaps(p)
         PROVE  FALSE
    BY <1>12 DEF Reaps
  <1>13. QED
    BY <1>3, <1>4, <1>5, <1>6, <1>7, <1>8, <1>9, <1>10, <1>11, <1>12
       DEF RequestShape, ProcessShape

\* What PendingIsActive says of one process, and of the requests.
Sound(p) ==
    /\ \A r \in Requests : Pending(p, r) => Open(r) /\ req[r] = "accepted"
    /\ \A r \in Requests : job[p] = r /\ worker[p] \notin {"idle", "stopped"} =>
           req[r] = "accepted" /\ ~In(queue[p], r)
    /\ Distinct(queue[p])

LEMMA PendingIsActiveSplit ==
    /\ PendingIsActive <=> (SingleProcess => /\ \A r \in Requests : Handing(r) => Open(r)
                                             /\ \A p \in Procs : Sound(p))
    /\ PendingIsActive' <=> (SingleProcess => /\ \A r \in Requests : Handing(r)' => Open(r)'
                                              /\ \A p \in Procs : Sound(p)')
  BY DEF PendingIsActive, Sound, SingleProcess

LEMMA PendingStep ==
    ASSUME TypeOK, HasJob, Down, PendingIsActive,
           \/ Rests \/ \E r \in Requests : RequestShape(r)
           \/ \E p \in Procs : ProcessShape(p)
    PROVE  PendingIsActive'
  <1> /\ alive \in [Procs -> {"down", "booting", "up", "draining"}]
      /\ queue \in [Procs -> Seq(Requests)] /\ worker \in [Procs -> Places]
      /\ job \in [Procs -> Requests \cup {NoJob}]
      /\ req \in [Requests -> Phases] /\ home \in [Requests -> Procs]
    BY DEF TypeOK, Places, Phases
  <1> SUFFICES ASSUME SingleProcess
               PROVE  (\A r \in Requests : Handing(r)' => Open(r)') /\ \A p \in Procs : Sound(p)'
    BY PendingIsActiveSplit
  <1>1. (\A r \in Requests : Handing(r) => Open(r)) /\ \A p \in Procs : Sound(p)
    BY PendingIsActiveSplit
  <1>2. \A p, q \in Procs : p = q
    BY DEF SingleProcess
  \* Steps that leave the process alone keep it sound, if no row of an
  \* accepted request is closed and no accepted request is answered again.
  <1>3. ASSUME UNCHANGED <<queue, worker, job>>,
               \A r \in Requests : req[r] = "accepted" =>
                   (Open(r) => Open(r)') /\ req'[r] = "accepted"
        PROVE  \A p \in Procs : Sound(p)'
    BY <1>1, <1>3, PendingSplit DEF Sound
  <1>4. CASE Rests
    <2>1. UNCHANGED <<queue, worker, job, req>> /\ RowsKept
      BY <1>4 DEF Rests
    <2>2. QED
      BY <1>1, <1>3, <2>1 DEF RowsKept, Handing
  <1>5. ASSUME NEW s \in Requests, Answers(s)
        PROVE  (\A r \in Requests : Handing(r)' => Open(r)') /\ \A p \in Procs : Sound(p)'
    <2>1. UNCHANGED <<queue, worker, job>> /\ RowsKept /\ req[s] # "accepted"
      BY <1>5 DEF Answers
    <2>2. \A r \in Requests \ {s} : req'[r] = req[r]
      BY <1>5 DEF Answers, Respond
    <2>3. ~Handing(s)'
      BY <1>5 DEF Answers, Respond, Handing
    <2>4. QED
      BY <1>1, <1>3, <2>1, <2>2, <2>3 DEF RowsKept, Handing
  <1>6. ASSUME NEW s \in Requests, Inserts(s)
        PROVE  (\A r \in Requests : Handing(r)' => Open(r)') /\ \A p \in Procs : Sound(p)'
    <2>1. UNCHANGED <<queue, worker, job>> /\ req[s] # "accepted"
      BY <1>6 DEF Inserts
    <2>2. \A r \in Requests \ {s} : req'[r] = req[r] /\ (Open(r)' <=> Open(r))
      BY <1>6 DEF Inserts, Respond
    <2>3. Open(s)'
      BY <1>6 DEF Inserts
    <2>4. QED
      BY <1>1, <1>3, <2>1, <2>2, <2>3 DEF Handing
  <1>7. ASSUME NEW s \in Requests, Enqueues(s)
        PROVE  (\A r \in Requests : Handing(r)' => Open(r)') /\ \A p \in Procs : Sound(p)'
    <2>1. UNCHANGED <<worker, job>> /\ RowsKept /\ req[s] = "enqueue" /\ Open(s) /\ Open(s)'
      BY <1>1, <1>7 DEF Enqueues, Handing, RowsKept
    <2>2. \A r \in Requests \ {s} : req'[r] = req[r]
      BY <1>7 DEF Enqueues, Respond
    <2>3. \A r \in Requests : Handing(r)' => Open(r)'
      BY <1>1, <2>1, <2>2 DEF Handing, RowsKept
    <2>4. CASE UNCHANGED queue
      BY <1>3, <2>1, <2>2, <2>3, <2>4 DEF RowsKept
    <2>5. CASE queue' = [queue EXCEPT ![home[s]] = Append(@, s)] /\ Respond(s, "accepted")
      <3>1. req'[s] = "accepted"
        BY <2>5 DEF Respond
      <3> SUFFICES ASSUME NEW p \in Procs
                   PROVE  Sound(p)'
        BY <2>3
      <3>2. queue[p] \in Seq(Requests) /\ queue'[p] = Append(queue[p], s)
        BY <1>2, <2>5
      <3>3. ~Pending(p, s)
        BY <1>1, <2>1 DEF Sound
      <3>4. ~In(queue[p], s) /\ ~(job[p] = s /\ worker[p] \notin {"idle", "stopped"})
        BY <1>1, <2>1, <3>3, PendingSplit DEF Sound
      <3>5. /\ \A x : In(queue'[p], x) <=> In(queue[p], x) \/ x = s
            /\ Distinct(queue'[p])
        BY <1>1, <3>2, <3>4, QueueGrows DEF Sound
      <3>6. \A r \in Requests : Pending(p, r)' <=> Pending(p, r) \/ r = s
        BY <2>1, <3>5, PendingSplit
      <3>7. \A r \in Requests : Pending(p, r)' => Open(r)' /\ req'[r] = "accepted"
        BY <1>1, <2>1, <2>2, <3>1, <3>6 DEF Sound, RowsKept
      <3>8. \A r \in Requests : job'[p] = r /\ worker'[p] \notin {"idle", "stopped"} =>
                req'[r] = "accepted" /\ ~In(queue'[p], r)
        BY <1>1, <2>1, <2>2, <3>4, <3>5 DEF Sound
      <3>9. QED
        BY <3>5, <3>7, <3>8 DEF Sound
    <2>6. QED
      BY <1>7, <2>4, <2>5 DEF Enqueues
  <1>8. ASSUME NEW s \in Requests, Closes(s)
        PROVE  (\A r \in Requests : Handing(r)' => Open(r)') /\ \A p \in Procs : Sound(p)'
    <2>1. UNCHANGED <<queue, worker, job>> /\ req[s] # "accepted"
      BY <1>8 DEF Closes
    <2>2. \A r \in Requests \ {s} : req'[r] = req[r] /\ (Open(r)' <=> Open(r))
      BY <1>8 DEF Closes, Respond, Closed, RowsKept
    <2>3. ~Handing(s)'
      BY <1>8 DEF Closes, Respond, Handing
    <2>4. QED
      BY <1>1, <1>3, <2>1, <2>2, <2>3 DEF Handing
  <1>9. ASSUME NEW p \in Procs, Takes(p)
        PROVE  (\A r \in Requests : Handing(r)' => Open(r)') /\ \A q \in Procs : Sound(q)'
    <2>1. UNCHANGED req /\ RowsKept /\ worker[p] = "idle"
      BY <1>9 DEF Takes
    <2>2. /\ queue'[p] = Tail(queue[p]) /\ job'[p] = Head(queue[p]) /\ worker'[p] = "start"
          /\ queue[p] \in Seq(Requests) /\ queue[p] # <<>>
      BY <1>9 DEF Takes, Goto
    <2>3. /\ \A x : In(queue[p], x) <=> In(queue'[p], x) \/ x = job'[p]
          /\ Distinct(queue'[p]) /\ ~In(queue'[p], job'[p])
      BY <1>1, <2>2, QueueShrinks DEF Sound
    <2>4. \A r \in Requests : Pending(p, r)' => Pending(p, r)
      BY <2>3, PendingSplit
    <2>5. \A r \in Requests : Pending(p, r)' => Open(r)' /\ req'[r] = "accepted"
      BY <1>1, <2>1, <2>4 DEF Sound, RowsKept
    <2>6. \A r \in Requests : job'[p] = r => Pending(p, r)
      BY <2>3, PendingSplit
    <2>7. \A r \in Requests : job'[p] = r /\ worker'[p] \notin {"idle", "stopped"} =>
              req'[r] = "accepted" /\ ~In(queue'[p], r)
      BY <1>1, <2>1, <2>3, <2>6 DEF Sound
    <2>8. Sound(p)'
      BY <2>3, <2>5, <2>7 DEF Sound
    <2>9. QED
      BY <1>1, <1>2, <2>1, <2>8 DEF Handing, RowsKept
  <1>10. ASSUME NEW p \in Procs, Moves(p)
         PROVE  (\A r \in Requests : Handing(r)' => Open(r)') /\ \A q \in Procs : Sound(q)'
    <2>1. UNCHANGED <<queue, job, req>> /\ RowsKept
      BY <1>10 DEF Moves
    <2>2. /\ worker'[p] \in Working => worker[p] \in Working
          /\ worker'[p] \notin {"idle", "stopped"} => worker[p] \notin {"idle", "stopped"}
      BY <1>10 DEF Moves, Goto, Working, Ending
    <2>3. \A r \in Requests : Pending(p, r)' => Pending(p, r)
      BY <2>1, <2>2, PendingSplit
    <2>4. Sound(p)'
      BY <1>1, <2>1, <2>2, <2>3 DEF Sound, RowsKept
    <2>5. QED
      BY <1>1, <1>2, <2>1, <2>4 DEF Handing, RowsKept
  <1>11. ASSUME NEW p \in Procs, Completes(p)
         PROVE  (\A r \in Requests : Handing(r)' => Open(r)') /\ \A q \in Procs : Sound(q)'
    <2>1. UNCHANGED <<queue, job, req>> /\ worker[p] \in Ending
      BY <1>11 DEF Completes
    <2>2. worker'[p] \notin Working /\ worker[p] \notin Working \cup {"idle", "stopped"}
      BY <1>11, <2>1 DEF Completes, Goto, Working, Ending
    <2>3. \A r \in Requests : r # job[p] => (Open(r)' <=> Open(r))
      BY <1>11 DEF Completes, Closed, RowsKept
    <2>4. \A r \in Requests : r = job[p] => req[r] = "accepted" /\ ~In(queue[p], r)
      BY <1>1, <2>2 DEF Sound
    <2>5. \A r \in Requests : Pending(p, r)' => Pending(p, r) /\ r # job[p]
      BY <2>1, <2>2, <2>4, PendingSplit
    <2>6. \A r \in Requests : Pending(p, r)' => Open(r)' /\ req'[r] = "accepted"
      BY <1>1, <2>1, <2>3, <2>5 DEF Sound
    <2>7. Sound(p)'
      BY <1>1, <2>1, <2>2, <2>4, <2>6 DEF Sound
    <2>8. \A r \in Requests : Handing(r)' => Open(r)'
      BY <1>1, <2>1, <2>3, <2>4 DEF Handing
    <2>9. QED
      BY <1>2, <2>7, <2>8
  <1>12. ASSUME NEW p \in Procs, Turns(p)
         PROVE  (\A r \in Requests : Handing(r)' => Open(r)') /\ \A q \in Procs : Sound(q)'
    BY <1>1, <1>3, <1>12 DEF Turns, RowsKept, Handing
  <1>13. ASSUME NEW p \in Procs, Reaps(p) \/ Ends(p)
         PROVE  (\A r \in Requests : Handing(r)' => Open(r)') /\ \A q \in Procs : Sound(q)'
    <2>1. queue'[p] = <<>> /\ worker'[p] = "idle"
      BY <1>13 DEF Reaps, Ends, Down
    <2>2. Sound(p)'
      <3>1. \A x : ~In(<<>>, x)
        BY DEF In
      <3>2. Distinct(<<>>)
        BY DEF Distinct
      <3>3. \A r : ~In(queue'[p], r)
        BY <2>1, <3>1
      <3>4. worker'[p] \notin Working
        BY <2>1 DEF Working
      <3>5. \A r \in Requests : ~Pending(p, r)'
        BY <3>3, <3>4, PendingSplit
      <3>6. QED
        BY <2>1, <3>2, <3>5 DEF Sound
    <2>3. \A r \in Requests : ~Handing(r)'
      <3>1. \A r \in Requests : home[r] = p
        BY <1>2
      <3>2. CASE Reaps(p)
        BY <3>1, <3>2 DEF Reaps, Down, Handing, InFlight
      <3>3. CASE Ends(p)
        BY <3>1, <3>3 DEF Ends, Handing, InFlight
      <3>4. QED
        BY <1>13, <3>2, <3>3
    <2>4. QED
      BY <1>2, <2>2, <2>3
  <1>14. QED
    BY <1>4, <1>5, <1>6, <1>7, <1>8, <1>9, <1>10, <1>11, <1>12, <1>13
       DEF RequestShape, ProcessShape

-----------------------------------------------------------------------------
(* The invariant is kept: UIDs and successes.                              *)

LEMMA GenGrows ==
    ASSUME TypeOK, [Next]_vars
    PROVE  \A u \in UID : gen[u[1]] <= gen'[u[1]] /\ gen[u[1]] \in Nat
  <1> gen \in [Names -> 1..MaxGen] /\ MaxGen \in Nat
    BY ParametersOK DEF TypeOK
  <1>1. gen' = gen \/ \E n \in Names : gen' = [gen EXCEPT ![n] = @ + 1]
    <2>1. CASE UNCHANGED vars
      BY <2>1 DEF vars, clusterVars
    <2>2. ASSUME NEW r \in Requests,
                 \/ Handler(r) \/ Disconnect(r) \/ Cleanup(r)
                 \/ \E p \in Procs : GetScope(r, p) \/ Post(r, p)
          PROVE  gen' = gen
      BY <2>2 DEF Handler, CheckActive, InsertRow, Enqueue, CloseRejected, Disconnect, Cleanup,
                  GetScope, Post, clusterVars
    <2>3. ASSUME NEW p \in Procs, Worker(p) \/ Panic(p)
          PROVE  gen' = gen
      BY <2>3 DEF Worker, Take, StopWorker, Start, Loop, GetTarget, PatchTarget, Flush,
                  PanicOutcome, Complete, Audit, Panic, clusterVars
    <2>4. ASSUME NEW p \in Procs, Process(p) \/ Crash(p) \/ Sigterm(p) \/ CacheExpires(p)
          PROVE  gen' = gen
      BY <2>4 DEF Process, Boot, ReapOrphans, Exit, Crash, Terminate, Sigterm, CacheExpires,
                  clusterVars
    <2>5. ASSUME NEW n \in Names, Delete(n) \/ Create(n)
          PROVE  gen' = gen \/ gen' = [gen EXCEPT ![n] = @ + 1]
      BY <2>5 DEF Delete, Create
    <2>6. QED
      BY <2>1, <2>2, <2>3, <2>4, <2>5 DEF Next, Environment
  <1>2. \A n \in Names : gen[n] <= gen'[n] /\ gen[n] \in Nat
    BY <1>1
  <1>3. QED
    BY <1>2 DEF UID

LEMMA KnownGrows ==
    ASSUME TypeOK, TypeOK', [Next]_vars
    PROVE  Known \subseteq Known'
  <1>1. gen \in [Names -> 1..MaxGen] /\ gen' \in [Names -> 1..MaxGen] /\ MaxGen \in Nat
    BY ParametersOK DEF TypeOK
  <1>2. ASSUME NEW u \in UID
        PROVE  u[2] <= gen[u[1]] => u[2] <= gen'[u[1]]
    <2>1. u[1] \in Names /\ u[2] \in 1..MaxGen
      BY DEF UID
    <2>2. gen[u[1]] \in 1..MaxGen /\ gen'[u[1]] \in 1..MaxGen
      BY <1>1, <2>1
    <2>3. gen[u[1]] <= gen'[u[1]]
      BY GenGrows
    <2>4. QED
      BY <1>1, <2>1, <2>2, <2>3
  <1>3. QED
    BY <1>2 DEF Known

\* A step hands on only UIDs that were known before it.
HandsOn ==
    /\ \A p \in Procs : cache'[p].uids \subseteq Known /\ todo'[p] \subseteq Known
    /\ \A r \in Requests : pins'[r] \subseteq Known

LEMMA InventoryKnown ==
    ASSUME TypeOK, Bounded, NEW p \in Procs
    PROVE  Inventory(p) \subseteq Known /\ \A s : Targets(p, s) \subseteq Known
  <1> gen \in [Names -> 1..MaxGen]
    BY DEF TypeOK
  <1>1. Live \subseteq Known
    BY ParametersOK DEF Live, Known, UID
  <1>2. Inventory(p) \subseteq Known
    BY <1>1 DEF Inventory, Bounded
  <1>3. QED
    BY <1>2 DEF Targets

LEMMA HandsOnKept ==
    ASSUME Bounded, UNCHANGED <<cache, todo, pins>>
    PROVE  HandsOn
  BY DEF Bounded, HandsOn

LEMMA HandsOnStep ==
    ASSUME TypeOK, HasJob, Bounded, [Next]_vars
    PROVE  HandsOn
  <1> TypedCluster /\ TypedProcess /\ TypedWorker /\ TypedRequests
    BY TypeParts
  <1>1. CASE UNCHANGED vars
    BY <1>1, HandsOnKept DEF vars, workerVars, requestVars
  <1>2. ASSUME NEW r \in Requests, Handler(r) \/ Disconnect(r) \/ Cleanup(r)
        PROVE  HandsOn
    BY <1>2, HandsOnKept
       DEF Handler, CheckActive, InsertRow, Enqueue, CloseRejected, Disconnect, Cleanup,
           workerVars, requestVars
  <1>3. ASSUME NEW r \in Requests, NEW p \in Procs, GetScope(r, p)
        PROVE  HandsOn
    <2>1. /\ Refreshed(p)[p].uids = Inventory(p)
          /\ \A q \in Procs \ {p} : Refreshed(p)[q] = cache[q]
      BY InventoryTyped
    <2>2. \A q \in Procs : cache'[q].uids \subseteq Known
      BY <1>3, <2>1, InventoryKnown DEF GetScope, Bounded
    <2>3. \A s \in Requests : pins'[s] \subseteq Known
      BY <1>3, InventoryKnown DEF GetScope, Bounded, TypedRequests
    <2>4. QED
      BY <1>3, <2>2, <2>3 DEF GetScope, workerVars, Bounded, HandsOn
  <1>4. ASSUME NEW r \in Requests, NEW p \in Procs, Post(r, p)
        PROVE  HandsOn
    <2>1. /\ Refreshed(p)[p].uids = Inventory(p)
          /\ \A q \in Procs \ {p} : Refreshed(p)[q] = cache[q]
      BY InventoryTyped
    <2>2. \A q \in Procs : cache'[q].uids \subseteq Known
      BY <1>4, <2>1, InventoryKnown DEF Post, Bounded
    <2>3. QED
      BY <1>4, <2>2 DEF Post, workerVars, Bounded, HandsOn
  <1>5. ASSUME NEW p \in Procs,
               \/ Take(p) \/ StopWorker(p) \/ Loop(p) \/ Flush(p) \/ PanicOutcome(p)
               \/ Complete(p) \/ Panic(p) \/ Boot(p) \/ ReapOrphans(p) \/ Sigterm(p)
        PROVE  HandsOn
    BY <1>5, HandsOnKept
       DEF Take, StopWorker, Loop, Flush, PanicOutcome, Complete, Panic, Boot, ReapOrphans,
           Sigterm, workerVars, requestVars
  <1>6. ASSUME NEW p \in Procs, Start(p)
        PROVE  HandsOn
    <2>1. pins[job[p]] \subseteq Known
      BY <1>6 DEF Start, HasJob, Bounded
    <2>2. \A q \in Procs : todo'[q] \subseteq Known
      BY <1>6, <2>1 DEF Start, TypedWorker, Bounded
    <2>3. QED
      BY <1>6, <2>2 DEF Start, requestVars, Bounded, HandsOn
  <1>7. ASSUME NEW p \in Procs, GetTarget(p) \/ PatchTarget(p)
        PROVE  HandsOn
    <2>1. PICK u \in Current(p) : Attempts(p, u)
      BY <1>7, TargetSteps
    <2>2. todo' = todo \/ todo' = [todo EXCEPT ![p] = @ \ {u}]
      BY <2>1 DEF Attempts, Misses, Retry, RecordFailed, RecordSkipped, RecordSucceeded, Record
    <2>3. \A q \in Procs : todo'[q] \subseteq todo[q]
      BY <2>2 DEF TypedWorker
    <2>4. UNCHANGED <<cache, pins>>
      BY <1>7 DEF GetTarget, PatchTarget, requestVars
    <2>5. QED
      BY <2>3, <2>4 DEF Bounded, HandsOn
  <1>8. ASSUME NEW p \in Procs, Audit(p) \/ CacheExpires(p)
        PROVE  HandsOn
    <2>1. cache' = [cache EXCEPT ![p] = NoCache] /\ UNCHANGED <<todo, pins>>
      BY <1>8 DEF Audit, CacheExpires, workerVars, requestVars
    <2>2. \A q \in Procs : cache'[q].uids \subseteq Known
      BY <2>1, NoCacheTyped DEF TypedProcess, Bounded
    <2>3. QED
      BY <2>1, <2>2 DEF Bounded, HandsOn
  <1>9. ASSUME NEW p \in Procs, Crash(p) \/ Exit(p)
        PROVE  HandsOn
    <2>1. /\ cache' = [cache EXCEPT ![p] = NoCache] /\ todo' = [todo EXCEPT ![p] = {}]
          /\ UNCHANGED pins
      BY <1>9 DEF Crash, Exit, Terminate
    <2>2. \A q \in Procs : cache'[q].uids \subseteq Known /\ todo'[q] \subseteq Known
      BY <2>1, NoCacheTyped DEF TypedProcess, TypedWorker, Bounded
    <2>3. QED
      BY <2>1, <2>2 DEF Bounded, HandsOn
  <1>10. ASSUME NEW n \in Names, Delete(n) \/ Create(n)
         PROVE  HandsOn
    BY <1>10, HandsOnKept DEF Delete, Create, workerVars, requestVars
  <1>11. QED
    BY <1>1, <1>2, <1>3, <1>4, <1>5, <1>6, <1>7, <1>8, <1>9, <1>10
       DEF Next, Worker, Process, Environment

LEMMA BoundedStep ==
    ASSUME TypeOK, TypeOK', HasJob, Bounded, [Next]_vars
    PROVE  Bounded'
  BY HandsOnStep, KnownGrows DEF HandsOn, Bounded

LEMMA CoveredGrows ==
    ASSUME NEW done, NEW more, done \subseteq more, NEW uids, Covered(done, uids)
    PROVE  Covered(more, uids)
  BY DEF Covered

LEMMA CoveredConcat ==
    ASSUME NEW done, NEW s \in Seq(UID), NEW t \in Seq(UID), Covered(done, s), Covered(done, t)
    PROVE  Covered(done, s \o t)
  <1>1. /\ Len(s \o t) = Len(s) + Len(t) /\ Len(s) \in Nat /\ Len(t) \in Nat
        /\ \A i \in 1..Len(s) + Len(t) :
               (s \o t)[i] = IF i <= Len(s) THEN s[i] ELSE t[i - Len(s)]
    BY ConcatProperties, LenProperties
  <1>2. ASSUME NEW i \in 1..Len(s \o t)
        PROVE  \E v \in done : v[1] = (s \o t)[i][1] /\ v[2] >= (s \o t)[i][2]
    <2>1. i \in 1..Len(s) \/ (i > Len(s) /\ i - Len(s) \in 1..Len(t))
      BY <1>1
    <2>2. CASE i \in 1..Len(s)
      <3>1. (s \o t)[i] = s[i]
        BY <1>1, <2>2
      <3>2. QED
        BY <2>2, <3>1 DEF Covered
    <2>3. CASE i > Len(s) /\ i - Len(s) \in 1..Len(t)
      <3>1. (s \o t)[i] = t[i - Len(s)]
        BY <1>1, <2>3
      <3>2. QED
        BY <2>3, <3>1 DEF Covered
    <2>4. QED
      BY <2>1, <2>2, <2>3
  <1>3. QED
    BY <1>2 DEF Covered

LEMMA CoveredNone ==
    ASSUME NEW done
    PROVE  Covered(done, <<>>)
  BY DEF Covered

LEMMA CoveredAppend ==
    ASSUME NEW done, NEW s \in Seq(UID), NEW u \in UID, Covered(done, s),
           \E v \in done : v[1] = u[1] /\ v[2] >= u[2]
    PROVE  Covered(done, Append(s, u))
  <1>1. /\ Len(Append(s, u)) = Len(s) + 1 /\ Len(s) \in Nat
        /\ \A i \in 1..Len(s) : Append(s, u)[i] = s[i]
        /\ Append(s, u)[Len(s) + 1] = u
    BY AppendProperties, LenProperties
  <1>2. ASSUME NEW i \in 1..Len(Append(s, u))
        PROVE  \E v \in done : v[1] = Append(s, u)[i][1] /\ v[2] >= Append(s, u)[i][2]
    <2>1. i \in 1..Len(s) \/ i = Len(s) + 1
      BY <1>1
    <2>2. CASE i \in 1..Len(s)
      <3>1. Append(s, u)[i] = s[i]
        BY <1>1, <2>2
      <3>2. QED
        BY <2>2, <3>1 DEF Covered
    <2>3. CASE i = Len(s) + 1
      <3>1. Append(s, u)[i] = u
        BY <1>1, <2>3
      <3>2. QED
        BY <3>1
    <2>4. QED
      BY <2>1, <2>2, <2>3
  <1>3. QED
    BY <1>2 DEF Covered

\* The batches, and the rows, report what they did or nothing.
BatchesKept == \A p \in Procs : batch'[p].succeeded \in {batch[p].succeeded, <<>>}

ReportsKept == \A r \in Requests : rows'[r].succeeded \in {rows[r].succeeded, <<>>}

LEMMA WitnessesKept ==
    ASSUME Witnesses, patched \subseteq patched'
    PROVE  /\ BatchesKept => \A p \in Procs : Covered(patched', batch'[p].succeeded)
           /\ ReportsKept => \A r \in Requests : Covered(patched', rows'[r].succeeded)
  <1>1. /\ \A p \in Procs : Covered(patched', batch[p].succeeded)
        /\ \A r \in Requests : Covered(patched', rows[r].succeeded)
    BY CoveredGrows DEF Witnesses
  <1>2. Covered(patched', <<>>)
    BY CoveredNone
  <1>3. QED
    BY <1>1, <1>2 DEF BatchesKept, ReportsKept

LEMMA WitnessesNext ==
    Witnesses' <=> /\ \A p \in Procs : Covered(patched', batch'[p].succeeded)
                   /\ \A r \in Requests : Covered(patched', rows'[r].succeeded)
  BY DEF Witnesses, Covered

LEMMA AppendedCovered ==
    ASSUME TypeOK, Witnesses, UNCHANGED patched, NEW r \in Requests, NEW b \in Batch,
           Covered(patched, b.succeeded),
           UNCHANGED rows \/ rows' = [rows EXCEPT ![r] = Appended(@, b)]
    PROVE  \A s \in Requests : Covered(patched', rows'[s].succeeded)
  <1> rows \in [Requests -> Row]
    BY TypeParts DEF TypedStore
  <1>1. CASE UNCHANGED rows
    BY <1>1 DEF Witnesses
  <1>2. CASE rows' = [rows EXCEPT ![r] = Appended(@, b)]
    <2>1. rows'[r].succeeded = rows[r].succeeded \o b.succeeded
      BY <1>2, AppendedTyped
    <2>2. rows[r].succeeded \in Seq(UID) /\ b.succeeded \in Seq(UID)
      BY DEF Row, Batch
    <2>3. Covered(patched, rows[r].succeeded \o b.succeeded)
      BY <2>2, CoveredConcat DEF Witnesses
    <2>4. \A s \in Requests \ {r} : rows'[s] = rows[s]
      BY <1>2
    <2>5. QED
      BY <2>1, <2>3, <2>4 DEF Witnesses
  <1>3. QED
    BY <1>1, <1>2

LEMMA MissKeepsBatch ==
    ASSUME TypedWorker, NEW p \in Procs, NEW u, Misses(p, u)
    PROVE  BatchesKept
  <1>1. batch[p] \in Batch /\ batch \in [Procs -> Batch]
    BY DEF TypedWorker
  <1>2. ASSUME NEW b, b.succeeded = batch[p].succeeded, Record(p, u, b)
        PROVE  BatchesKept
    BY <1>1, <1>2 DEF Record, BatchesKept
  <1>3. /\ \A x : [batch[p] EXCEPT !.failed = x].succeeded = batch[p].succeeded
        /\ \A x : [batch[p] EXCEPT !.skipped = x].succeeded = batch[p].succeeded
    BY <1>1 DEF Batch
  <1>4. RecordFailed(p, u, "error") \/ RecordFailed(p, u, "uid_drifted") => BatchesKept
    BY <1>2, <1>3 DEF RecordFailed
  <1>5. RecordSkipped(p, u) => BatchesKept
    BY <1>2, <1>3 DEF RecordSkipped
  <1>6. UNCHANGED batch => BatchesKept
    BY DEF BatchesKept
  <1>7. QED
    BY <1>4, <1>5, <1>6 DEF Misses, Retry

LEMMA PatchWitnesses ==
    ASSUME TypeOK, Bounded, Witnesses, NEW p \in Procs, PatchTarget(p)
    PROVE  Witnesses'
  <1> TypedCluster /\ TypedWorker
    BY TypeParts
  <1>1. UNCHANGED rows
    BY DEF PatchTarget
  <1>2. ReportsKept
    BY <1>1 DEF ReportsKept
  <1>3. patched \subseteq patched'
    BY DEF PatchTarget
  <1>4. PICK u \in Current(p) :
            \/ Misses(p, u)
            \/ /\ RecordSucceeded(p, u)
               /\ u[1] \in present /\ patched' = patched \cup {<<u[1], gen[u[1]]>>}
    BY DEF PatchTarget, Misses
  <1>5. CASE Misses(p, u)
    BY <1>2, <1>3, <1>5, MissKeepsBatch, WitnessesKept, WitnessesNext
  <1>6. CASE /\ RecordSucceeded(p, u)
             /\ u[1] \in present /\ patched' = patched \cup {<<u[1], gen[u[1]]>>}
    <2>1. u \in UID /\ u[2] <= gen[u[1]]
      BY DEF Current, Bounded, Known, TypedWorker
    <2>2. <<u[1], gen[u[1]]>> \in patched'
      BY <1>6
    <2>3. \E v \in patched' : v[1] = u[1] /\ v[2] >= u[2]
      <3> DEFINE v == <<u[1], gen[u[1]]>>
      <3>1. v[1] = u[1] /\ v[2] = gen[u[1]]
        OBVIOUS
      <3>2. gen[u[1]] \in Int /\ u[2] \in Int
        <4>1. gen \in [Names -> 1..MaxGen] /\ 1..MaxGen \subseteq Int
          BY ParametersOK DEF TypedCluster
        <4>2. u[1] \in Names /\ u[2] \in 1..MaxGen
          BY <2>1 DEF UID
        <4>3. QED
          BY <4>1, <4>2
      <3>3. v[2] >= u[2]
        BY <2>1, <3>1, <3>2
      <3>4. QED
        BY <2>2, <3>1, <3>3
    <2>4. batch \in [Procs -> Batch] /\ batch[p] \in Batch
      BY DEF TypedWorker
    <2>5. batch[p].succeeded \in Seq(UID) /\ Covered(patched', batch[p].succeeded)
      BY <1>3, <2>4, CoveredGrows DEF Batch, Witnesses
    <2>6. Covered(patched', Append(batch[p].succeeded, u))
      BY <2>1, <2>3, <2>5, CoveredAppend
    <2>7. batch'[p].succeeded = Append(batch[p].succeeded, u)
      BY <1>6, <2>4 DEF RecordSucceeded, Record, Batch
    <2>8. \A q \in Procs \ {p} : batch'[q] = batch[q]
      BY <1>6, <2>4 DEF RecordSucceeded, Record
    <2>9. \A q \in Procs \ {p} : Covered(patched', batch'[q].succeeded)
      BY <1>3, <2>8, CoveredGrows DEF Witnesses
    <2>10. \A q \in Procs : Covered(patched', batch'[q].succeeded)
      BY <2>6, <2>7, <2>9
    <2>11. QED
      BY <1>2, <1>3, <2>10, WitnessesKept, WitnessesNext
  <1>7. QED
    BY <1>4, <1>5, <1>6

LEMMA WitnessesStep ==
    ASSUME TypeOK, HasJob, Bounded, Witnesses, [Next]_vars
    PROVE  Witnesses'
  <1> rows \in [Requests -> Row] /\ batch \in [Procs -> Batch]
    BY TypeParts DEF TypedStore, TypedWorker
  <1>1. ASSUME UNCHANGED <<patched, batch>>, ReportsKept
        PROVE  Witnesses'
    BY <1>1, WitnessesKept, WitnessesNext DEF BatchesKept
  <1>2. ASSUME UNCHANGED <<patched, rows>>, BatchesKept
        PROVE  Witnesses'
    BY <1>2, WitnessesKept, WitnessesNext DEF ReportsKept
  <1>3. UNCHANGED rows => ReportsKept
    BY DEF ReportsKept
  <1>4. ASSUME NEW r \in Requests, rows' = [rows EXCEPT ![r] = Completed(@)]
        PROVE  ReportsKept
    BY <1>4, CompletedTyped DEF ReportsKept
  <1>5. ASSUME NEW p \in Procs, batch' = [batch EXCEPT ![p] = EmptyBatch]
        PROVE  BatchesKept
    BY <1>5, EmptyBatchTyped DEF BatchesKept
  <1>6. CASE UNCHANGED vars
    BY <1>1, <1>3, <1>6 DEF vars, clusterVars, workerVars
  <1>7. ASSUME NEW r \in Requests,
               \/ CheckActive(r) \/ Enqueue(r) \/ Disconnect(r)
               \/ \E p \in Procs : GetScope(r, p) \/ Post(r, p)
        PROVE  Witnesses'
    BY <1>1, <1>3, <1>7
       DEF CheckActive, Enqueue, Disconnect, GetScope, Post, clusterVars, workerVars
  <1>8. ASSUME NEW r \in Requests, InsertRow(r)
        PROVE  Witnesses'
    <2>1. pins[r] \in SUBSET UID
      BY DEF TypeOK
    <2>2. UNCHANGED rows \/ rows' = [rows EXCEPT ![r] = NewRow(pins[r])]
      BY <1>8 DEF InsertRow
    <2>3. ReportsKept
      BY <1>3, <2>1, <2>2, NewRowTyped DEF ReportsKept
    <2>4. QED
      BY <1>1, <1>8, <2>3 DEF InsertRow, clusterVars, workerVars
  <1>9. ASSUME NEW r \in Requests, CloseRejected(r)
        PROVE  Witnesses'
    BY <1>1, <1>3, <1>4, <1>9 DEF CloseRejected, clusterVars, workerVars
  <1>10. ASSUME NEW r \in Requests, Cleanup(r)
         PROVE  Witnesses'
    <2>1. ReportsKept
      BY <1>10 DEF Cleanup, ReportsKept, Row
    <2>2. QED
      BY <1>1, <1>10, <2>1 DEF Cleanup, clusterVars, workerVars
  <1>11. ASSUME NEW p \in Procs,
                \/ Take(p) \/ StopWorker(p) \/ Loop(p) \/ Audit(p)
                \/ Boot(p) \/ Sigterm(p) \/ CacheExpires(p)
         PROVE  Witnesses'
    BY <1>1, <1>3, <1>11
       DEF Take, StopWorker, Loop, Audit, Boot, Sigterm, CacheExpires, clusterVars, workerVars
  <1>12. ASSUME NEW p \in Procs, Start(p) \/ Panic(p) \/ Crash(p) \/ Exit(p)
         PROVE  Witnesses'
    BY <1>2, <1>5, <1>12 DEF Start, Panic, Crash, Exit, Terminate, clusterVars
  <1>13. ASSUME NEW p \in Procs, GetTarget(p)
         PROVE  Witnesses'
    <2>1. \E u \in Current(p) : Misses(p, u)
      BY <1>13 DEF GetTarget, Misses
    <2>2. BatchesKept
      BY <2>1, MissKeepsBatch, TypeParts
    <2>3. QED
      BY <1>2, <1>13, <2>2 DEF GetTarget, clusterVars
  <1>14. ASSUME NEW p \in Procs, PatchTarget(p)
         PROVE  Witnesses'
    BY <1>14, PatchWitnesses
  <1>15. ASSUME NEW p \in Procs, Flush(p)
         PROVE  Witnesses'
    <2>1. PICK r \in Requests : r = job[p]
      BY <1>15 DEF Flush, HasJob
    <2>2. UNCHANGED rows \/ rows' = [rows EXCEPT ![r] = Appended(@, batch[p])]
      BY <1>15, <2>1 DEF Flush
    <2>3. UNCHANGED patched /\ batch' = [batch EXCEPT ![p] = EmptyBatch]
      BY <1>15 DEF Flush, clusterVars
    <2>4. \A s \in Requests : Covered(patched', rows'[s].succeeded)
      BY <2>2, <2>3, AppendedCovered DEF Witnesses
    <2>5. \A q \in Procs : Covered(patched', batch'[q].succeeded)
      BY <1>5, <2>3, WitnessesKept
    <2>6. QED
      BY <2>4, <2>5, WitnessesNext
  <1>16. ASSUME NEW p \in Procs, PanicOutcome(p)
         PROVE  Witnesses'
    <2>1. PICK r \in Requests : r = job[p]
      BY <1>16 DEF PanicOutcome, HasJob
    <2> DEFINE panic == [EmptyBatch EXCEPT
                            !.failed = <<[uid |-> NoUID, reason |-> "worker_panic"]>>]
    <2>2. panic \in Batch /\ Covered(patched, panic.succeeded)
      BY EmptyBatchTyped, CoveredNone
    <2>3. UNCHANGED rows \/ rows' = [rows EXCEPT ![r] = Appended(@, panic)]
      BY <1>16, <2>1 DEF PanicOutcome
    <2> HIDE DEF panic
    <2>4. UNCHANGED <<patched, batch>>
      BY <1>16 DEF PanicOutcome, clusterVars
    <2>5. \A s \in Requests : Covered(patched', rows'[s].succeeded)
      BY <2>2, <2>3, <2>4, AppendedCovered
    <2>6. \A q \in Procs : Covered(patched', batch'[q].succeeded)
      BY <2>4 DEF Witnesses
    <2>7. QED
      BY <2>5, <2>6, WitnessesNext
  <1>17. ASSUME NEW p \in Procs, Complete(p)
         PROVE  Witnesses'
    <2>1. PICK r \in Requests : r = job[p]
      BY <1>17 DEF Complete, HasJob
    <2>2. UNCHANGED rows \/ rows' = [rows EXCEPT ![r] = Completed(@)]
      BY <1>17, <2>1 DEF Complete
    <2>3. QED
      BY <1>1, <1>3, <1>4, <1>17, <2>2 DEF Complete, clusterVars
  <1>18. ASSUME NEW p \in Procs, ReapOrphans(p)
         PROVE  Witnesses'
    <2>1. rows' = [r \in Requests |-> Completed(rows[r])] => ReportsKept
      BY CompletedTyped DEF ReportsKept
    <2>2. QED
      BY <1>1, <1>3, <1>18, <2>1 DEF ReapOrphans, clusterVars, workerVars
  <1>19. ASSUME NEW n \in Names, Delete(n) \/ Create(n)
         PROVE  Witnesses'
    BY <1>1, <1>3, <1>19 DEF Delete, Create, workerVars
  <1>20. QED
    BY <1>6, <1>7, <1>8, <1>9, <1>10, <1>11, <1>12, <1>13, <1>14, <1>15, <1>16, <1>17, <1>18,
       <1>19 DEF Next, Handler, Worker, Process, Environment

-----------------------------------------------------------------------------
(* The theorems.                                                           *)

LEMMA IInvInit == Init => IInv
  <1> SUFFICES ASSUME Init
               PROVE  IInv
    OBVIOUS
  <1>1. TypeOK
    BY TypeInit
  <1>2. HasJob /\ OneRow /\ ActiveIsOwned
    BY DEF Init, HasJob, OneRow, ActiveIsOwned, Open, NoRow
  <1>3. Down
    BY DEF Init, Down, InFlight
  <1>4. PendingIsActive
    BY DEF Init, PendingIsActive, Handing, Pending, In, Distinct
  <1>5. Bounded
    BY DEF Init, Bounded, NoCache
  <1>6. Witnesses
    BY DEF Init, Witnesses, Covered, NoRow, EmptyBatch
  <1>7. QED
    BY <1>1, <1>2, <1>3, <1>4, <1>5, <1>6 DEF IInv

LEMMA IInvStep == IInv /\ [Next]_vars => IInv'
  <1> SUFFICES ASSUME IInv, [Next]_vars
               PROVE  IInv'
    OBVIOUS
  <1>1. TypeOK /\ HasJob /\ Down /\ OneRow /\ ActiveIsOwned /\ PendingIsActive /\ Bounded
        /\ Witnesses
    BY DEF IInv
  <1>2. TypeOK'
    BY <1>1, TypeStep
  <1>3. /\ \/ Rests \/ \E r \in Requests : RequestShape(r)
           \/ \E p \in Procs : ProcessShape(p)
        /\ Later
    BY <1>1, StepShapes
  <1>4. HasJob' /\ Down'
    BY <1>1, <1>2, <1>3, HasJobStep, DownStep
  <1>5. OneRow'
    BY <1>1, <1>3, OneRowStep DEF Later
  <1>6. ActiveIsOwned' /\ PendingIsActive'
    BY <1>1, <1>3, OwnedStep, PendingStep
  <1>7. Bounded' /\ Witnesses'
    BY <1>1, <1>2, BoundedStep, WitnessesStep
  <1>8. QED
    BY <1>2, <1>4, <1>5, <1>6, <1>7 DEF IInv

LEMMA IInvHolds == Spec => []IInv
  BY IInvInit, IInvStep, PTL DEF Spec

\* Every variable keeps its type in every reachable state.
THEOREM TypeCorrect == Spec => []TypeOK
  <1>1. IInv => TypeOK
    BY DEF IInv
  <1>2. QED
    BY <1>1, IInvHolds, PTL

\* With any number of processes, an active row always has somebody who is
\* going to complete it, until the database has failed or a client has left.
THEOREM ActiveRowsAreOwned == Spec => []ActiveIsOwned
  <1>1. IInv => ActiveIsOwned
    BY DEF IInv
  <1>2. QED
    BY <1>1, IInvHolds, PTL

\* With one process, whose boot completes only rows of its predecessor, no
\* two pending jobs have the same scope, whatever fails.
THEOREM ScopesAreExclusive == SingleProcess => (Spec => []ExclusiveScope)
  <1> SUFFICES ASSUME SingleProcess
               PROVE  Spec => []ExclusiveScope
    OBVIOUS
  <1>1. IInv => ExclusiveScope
    BY DEF IInv, PendingIsActive, OneRow, ExclusiveScope
  <1>2. QED
    BY <1>1, IInvHolds, PTL

\* A success is reported only of a name that was patched, in the incarnation
\* that was confirmed or a later one, whatever crashes, panics and fails.
THEOREM SuccessesWerePatched == Spec => []SuccessMeansPatched
  <1>1. IInv => SuccessMeansPatched
    BY DEF IInv, Witnesses, Covered, SuccessMeansPatched
  <1>2. QED
    BY <1>1, IInvHolds, PTL

-----------------------------------------------------------------------------
(* The report: what a row says of the targets of its job.                  *)

Uids(items) == [i \in 1..Len(items) |-> items[i].uid]

Said(uids) == {uids[i] : i \in 1..Len(uids)} \ {NoUID}

Once(uids) == \A i, j \in 1..Len(uids) : uids[i] = uids[j] /\ uids[i] # NoUID => i = j

\* Three lists that name no target twice.
Exact(s, f, k) ==
    /\ Once(s) /\ Once(f) /\ Once(k)
    /\ Said(s) \cap Said(f) = {} /\ Said(s) \cap Said(k) = {} /\ Said(f) \cap Said(k) = {}

RowExact(row) == Exact(row.succeeded, Uids(row.failed.items), Uids(row.skipped.items))

RowSaid(row) ==
    Said(row.succeeded) \cup Said(Uids(row.failed.items)) \cup Said(Uids(row.skipped.items))

BatchExact(b) == Exact(b.succeeded, Uids(b.failed), Uids(b.skipped))

BatchSaid(b) == Said(b.succeeded) \cup Said(Uids(b.failed)) \cup Said(Uids(b.skipped))

\* A column that is null has no outcomes to lose.
Whole(row) ==
    /\ row.failed.null => row.failed.items = <<>>
    /\ row.skipped.null => row.skipped.items = <<>>

Busy(p) == worker[p] \notin {"idle", "stopped"}

\* A job that was accepted is in one place: the queue of the process that
\* served its request, or with its worker.
OnePlace ==
    /\ \A p \in Procs, r \in Requests : Busy(p) /\ job[p] = r =>
           home[r] = p /\ req[r] = "accepted" /\ ~In(queue[p], r)
    /\ \A p \in Procs, r \in Requests : In(queue[p], r) => home[r] = p /\ req[r] = "accepted"
    /\ \A p \in Procs : Distinct(queue[p])

\* A job that no worker has taken has said nothing.
Untaken(r) == req[r] # "accepted" \/ \E p \in Procs : In(queue[p], r)

RowsReport ==
    \A r \in Requests : /\ RowExact(rows[r]) /\ Whole(rows[r])
                        /\ Untaken(r) => RowSaid(rows[r]) = {}
                        /\ rows[r].targets \subseteq pins[r]
                        /\ req[r] = "idle" => rows[r].targets = {}

\* The targets of a job are split between the row, the batch and what is left
\* to do; and nothing is missing until a write fails.
Splits(p) ==
    LET row == rows[job[p]]
    IN  /\ BatchExact(batch[p])
        /\ BatchSaid(batch[p]) \cap RowSaid(row) = {}
        /\ todo[p] \cap (BatchSaid(batch[p]) \cup RowSaid(row)) = {}
        /\ faults = 0 => row.targets \subseteq todo[p] \cup BatchSaid(batch[p]) \cup RowSaid(row)

WorkerReports(p) ==
    /\ worker[p] = "start" => RowSaid(rows[job[p]]) = {}
    /\ worker[p] \in {"loop", "get", "patch", "flush"} => Splits(p)
    /\ worker[p] \in {"complete", "audit"} /\ faults = 0 =>
           rows[job[p]].targets \subseteq RowSaid(rows[job[p]])

Reports == OnePlace /\ RowsReport /\ \A p \in Procs : WorkerReports(p)


NamedUID == UID \cup {NoUID}

LEMMA UidIsNamed == NoUID \notin UID
  <1>1. \A n \in Names, g \in 1..MaxGen : <<n, g>> # NoUID
    BY DEF NoUID
  <1>2. QED
    BY <1>1 DEF UID

LEMMA UidsTyped ==
    ASSUME NEW items \in Seq(Outcome)
    PROVE  /\ Uids(items) \in Seq(NamedUID) /\ Len(Uids(items)) = Len(items)
           /\ \A i \in 1..Len(items) : Uids(items)[i] = items[i].uid
  <1>1. Len(items) \in Nat /\ \A i \in 1..Len(items) : items[i] \in Outcome
    BY LenProperties, ElementOfSeq
  <1>2. \A i \in 1..Len(items) : items[i].uid \in NamedUID
    BY <1>1 DEF Outcome, NamedUID
  <1>3. Uids(items) \in Seq(NamedUID)
    BY <1>1, <1>2 DEF Uids
  <1>4. Len(Uids(items)) = Len(items)
    BY <1>1, <1>3, LenProperties DEF Uids
  <1>5. QED
    BY <1>3, <1>4 DEF Uids

\* Two lists one after the other.
LEMMA SaidConcat ==
    ASSUME NEW s \in Seq(NamedUID), NEW t \in Seq(NamedUID)
    PROVE  /\ s \o t \in Seq(NamedUID)
           /\ Said(s \o t) = Said(s) \cup Said(t)
           /\ Once(s) /\ Once(t) /\ Said(s) \cap Said(t) = {} => Once(s \o t)
  <1> DEFINE both == s \o t
  <1>1. /\ both \in Seq(NamedUID)
        /\ Len(s) \in Nat /\ Len(t) \in Nat /\ Len(both) = Len(s) + Len(t)
        /\ \A i \in 1..Len(both) : both[i] = IF i <= Len(s) THEN s[i] ELSE t[i - Len(s)]
    BY ConcatProperties, LenProperties
  <1> HIDE DEF both
  <1>2. \A i \in 1..Len(s) : i \in 1..Len(both) /\ both[i] = s[i]
    BY <1>1
  <1>3. ASSUME NEW i \in 1..Len(t)
        PROVE  i + Len(s) \in 1..Len(both) /\ both[i + Len(s)] = t[i]
    <2>1. /\ i + Len(s) \in 1..Len(both) /\ ~(i + Len(s) <= Len(s))
          /\ (i + Len(s)) - Len(s) = i
      BY <1>1
    <2>2. QED
      BY <1>1, <2>1
  <1>4. \A i \in 1..Len(both) : \/ i \in 1..Len(s) /\ both[i] = s[i]
                                \/ i - Len(s) \in 1..Len(t) /\ both[i] = t[i - Len(s)]
    BY <1>1
  <1>5. Said(both) = Said(s) \cup Said(t)
    <2>1. Said(both) \subseteq Said(s) \cup Said(t)
      BY <1>4 DEF Said
    <2>2. Said(s) \subseteq Said(both)
      BY <1>2 DEF Said
    <2>3. Said(t) \subseteq Said(both)
      BY <1>3 DEF Said
    <2>4. QED
      BY <2>1, <2>2, <2>3
  <1>6. ASSUME Once(s), Once(t), Said(s) \cap Said(t) = {}
        PROVE  Once(both)
    <2> SUFFICES ASSUME NEW i \in 1..Len(both), NEW j \in 1..Len(both),
                        both[i] = both[j], both[i] # NoUID
                 PROVE  i = j
      BY DEF Once
    <2>1. CASE i \in 1..Len(s) /\ both[i] = s[i] /\ j \in 1..Len(s) /\ both[j] = s[j]
      BY <1>6, <2>1 DEF Once
    <2>2. CASE /\ i - Len(s) \in 1..Len(t) /\ both[i] = t[i - Len(s)]
               /\ j - Len(s) \in 1..Len(t) /\ both[j] = t[j - Len(s)]
      <3>1. i - Len(s) = j - Len(s)
        BY <1>6, <2>2 DEF Once
      <3>2. QED
        BY <1>1, <3>1
    <2>3. CASE /\ i \in 1..Len(s) /\ both[i] = s[i]
               /\ j - Len(s) \in 1..Len(t) /\ both[j] = t[j - Len(s)]
      <3>1. both[i] \in Said(s) /\ both[i] \in Said(t)
        BY <2>3 DEF Said
      <3>2. QED
        BY <1>6, <3>1
    <2>4. CASE /\ j \in 1..Len(s) /\ both[j] = s[j]
               /\ i - Len(s) \in 1..Len(t) /\ both[i] = t[i - Len(s)]
      <3>1. both[i] \in Said(s) /\ both[i] \in Said(t)
        BY <2>4 DEF Said
      <3>2. QED
        BY <1>6, <3>1
    <2>5. QED
      BY <1>4, <2>1, <2>2, <2>3, <2>4
  <1>7. QED
    BY <1>1, <1>5, <1>6 DEF both

LEMMA SaidOne ==
    ASSUME NEW u \in NamedUID
    PROVE  <<u>> \in Seq(NamedUID) /\ Once(<<u>>) /\ Said(<<u>>) = {u} \ {NoUID}
  <1>1. Len(<<u>>) = 1 /\ <<u>>[1] = u
    OBVIOUS
  <1>2. 1..1 = {1}
    OBVIOUS
  <1>3. QED
    BY <1>1, <1>2 DEF Once, Said

LEMMA SaidNone == Once(<<>>) /\ Said(<<>>) = {} /\ Uids(<<>>) = <<>>
  <1>1. Len(<<>>) = 0 /\ 1..0 = {}
    OBVIOUS
  <1>2. QED
    BY <1>1 DEF Once, Said, Uids

LEMMA UidsConcat ==
    ASSUME NEW s \in Seq(Outcome), NEW t \in Seq(Outcome)
    PROVE  Uids(s \o t) = Uids(s) \o Uids(t)
  <1> DEFINE both == s \o t
             uids == Uids(s) \o Uids(t)
  <1>1. /\ Len(s) \in Nat /\ Len(t) \in Nat /\ both \in Seq(Outcome) /\ Len(both) = Len(s) + Len(t)
        /\ \A i \in 1..Len(both) : both[i] = IF i <= Len(s) THEN s[i] ELSE t[i - Len(s)]
    BY ConcatProperties, LenProperties
  <1>2. /\ Uids(s) \in Seq(NamedUID) /\ Len(Uids(s)) = Len(s)
        /\ Uids(t) \in Seq(NamedUID) /\ Len(Uids(t)) = Len(t)
    BY UidsTyped
  <1>3. /\ uids \in Seq(NamedUID) /\ Len(uids) = Len(s) + Len(t)
        /\ \A i \in 1..Len(uids) : uids[i] = IF i <= Len(s) THEN Uids(s)[i] ELSE Uids(t)[i - Len(s)]
    <2> DEFINE f == Uids(s)
               g == Uids(t)
    <2>1. f \in Seq(NamedUID) /\ g \in Seq(NamedUID) /\ Len(f) = Len(s) /\ Len(g) = Len(t)
      BY <1>2
    <2> HIDE DEF f, g
    <2>2. /\ f \o g \in Seq(NamedUID) /\ Len(f \o g) = Len(f) + Len(g)
          /\ \A i \in 1..Len(f) + Len(g) : (f \o g)[i] = IF i <= Len(f) THEN f[i] ELSE g[i - Len(f)]
      BY <2>1, ConcatProperties
    <2>3. QED
      BY <2>1, <2>2 DEF f, g
  <1>4. Uids(both) \in Seq(NamedUID) /\ Len(Uids(both)) = Len(both)
    BY <1>1, UidsTyped
  <1> HIDE DEF both, uids
  <1>5. \A i \in 1..Len(both) : Uids(both)[i] = uids[i]
    <2>1. ASSUME NEW i \in 1..Len(both), i <= Len(s)
          PROVE  Uids(both)[i] = uids[i]
      <3>1. i \in 1..Len(s) /\ both[i] = s[i] /\ uids[i] = Uids(s)[i]
        BY <1>1, <1>3, <2>1
      <3>2. QED
        BY <1>1, <3>1, UidsTyped
    <2>2. ASSUME NEW i \in 1..Len(both), ~(i <= Len(s))
          PROVE  Uids(both)[i] = uids[i]
      <3>1. i - Len(s) \in 1..Len(t) /\ both[i] = t[i - Len(s)] /\ uids[i] = Uids(t)[i - Len(s)]
        BY <1>1, <1>3, <2>2
      <3>2. QED
        BY <1>1, <3>1, UidsTyped
    <2>3. QED
      BY <2>1, <2>2
  <1>6. Uids(both) = uids
    BY <1>1, <1>3, <1>4, <1>5, SeqEqual
  <1>7. QED
    BY <1>6 DEF both, uids


LEMMA UidsOne ==
    ASSUME NEW o \in Outcome
    PROVE  <<o>> \in Seq(Outcome) /\ Uids(<<o>>) = <<o.uid>>
  <1> DEFINE l == <<o>>
             m == <<o.uid>>
  <1>1. o.uid \in NamedUID
    BY DEF Outcome, NamedUID
  <1>2. l \in Seq(Outcome) /\ Len(l) = 1 /\ l[1] = o
    OBVIOUS
  <1>3. m \in Seq(NamedUID) /\ Len(m) = 1 /\ m[1] = o.uid
    BY <1>1
  <1> HIDE DEF l, m
  <1>4. 1 \in 1..1 /\ \A i \in 1..1 : i = 1
    OBVIOUS
  <1>5. Uids(l) \in Seq(NamedUID) /\ Len(Uids(l)) = 1 /\ Uids(l)[1] = o.uid
    BY <1>2, <1>4, UidsTyped
  <1>6. Uids(l) = m
    BY <1>3, <1>4, <1>5, SeqEqual
  <1>7. QED
    BY <1>2, <1>6 DEF l, m

\* What an append does to a column: the null of a new row becomes an outcome that
\* names nobody, and nothing is lost.
LEMMA ConcatReports ==
    ASSUME NEW column \in Json, NEW new \in Seq(Outcome),
           column.null => column.items = <<>>,
           Once(Uids(column.items)), Once(Uids(new)),
           Said(Uids(column.items)) \cap Said(Uids(new)) = {}
    PROVE  LET c == Concat(column, new)
           IN  /\ ~c.null
               /\ Once(Uids(c.items))
               /\ Said(Uids(c.items)) = Said(Uids(column.items)) \cup Said(Uids(new))
  <1> DEFINE before == IF column.null THEN <<NullOutcome>> ELSE column.items
             old == Uids(column.items)
             tip == Uids(new)
  <1>1. Concat(column, new) = [null |-> FALSE, items |-> before \o new]
    BY DEF Concat, NullOutcome
  <1>2. column.items \in Seq(Outcome)
    BY DEF Json
  <1>3. /\ before \in Seq(Outcome) /\ Once(Uids(before)) /\ Said(Uids(before)) = Said(old)
    <2>1. CASE column.null
      <3>1. NullOutcome \in Outcome /\ NullOutcome.uid = NoUID
        BY OutcomeMade DEF NullOutcome
      <3>2. <<NullOutcome>> \in Seq(Outcome) /\ Uids(<<NullOutcome>>) = <<NoUID>>
        BY <3>1, UidsOne
      <3>3. NoUID \in NamedUID
        BY DEF NamedUID
      <3>4. Once(<<NoUID>>) /\ Said(<<NoUID>>) = {}
        BY <3>3, SaidOne
      <3>5. Once(Uids(<<NullOutcome>>)) /\ Said(Uids(<<NullOutcome>>)) = {}
        BY <3>2, <3>4
      <3>6. Said(old) = {}
        BY <2>1, SaidNone
      <3>7. QED
        BY <2>1, <3>2, <3>5, <3>6
    <2>2. CASE ~column.null
      BY <1>2, <2>2
    <2>3. QED
      BY <2>1, <2>2
  <1> HIDE DEF before
  <1>4. Uids(before \o new) = Uids(before) \o tip
    BY <1>3, UidsConcat
  <1>5. Uids(before) \in Seq(NamedUID) /\ tip \in Seq(NamedUID)
    BY <1>3, UidsTyped
  <1>6. Once(Uids(before) \o tip) /\ Said(Uids(before) \o tip) = Said(old) \cup Said(tip)
    BY <1>3, <1>5, SaidConcat
  <1>7. /\ Concat(column, new).null = FALSE
        /\ Concat(column, new).items = before \o new
    BY <1>1
  <1>8. QED
    BY <1>4, <1>6, <1>7

LEMMA AppendedReports ==
    ASSUME NEW row \in Row, NEW b \in Batch, RowExact(row), Whole(row), BatchExact(b),
           BatchSaid(b) \cap RowSaid(row) = {}
    PROVE  /\ RowExact(Appended(row, b)) /\ Whole(Appended(row, b))
           /\ RowSaid(Appended(row, b)) = RowSaid(row) \cup BatchSaid(b)
           /\ Appended(row, b).targets = row.targets
  <1> DEFINE new == Appended(row, b)
             s == row.succeeded
             f == Uids(row.failed.items)
             k == Uids(row.skipped.items)
             bs == b.succeeded
             bf == Uids(b.failed)
             bk == Uids(b.skipped)
  <1>1. /\ row.failed \in Json /\ row.skipped \in Json
        /\ b.failed \in Seq(Outcome) /\ b.skipped \in Seq(Outcome)
        /\ s \in Seq(UID) /\ bs \in Seq(UID)
    BY DEF Row, Batch
  <1>2. s \in Seq(NamedUID) /\ bs \in Seq(NamedUID)
    BY <1>1, SeqMonotonic DEF NamedUID
  <1>3. /\ new.succeeded = s \o bs
        /\ new.failed = Concat(row.failed, b.failed) /\ new.skipped = Concat(row.skipped, b.skipped)
        /\ new.targets = row.targets
    BY DEF Appended, Row
  <1>4. /\ Once(s) /\ Once(f) /\ Once(k) /\ Once(bs) /\ Once(bf) /\ Once(bk)
        /\ Said(s) \cap Said(f) = {} /\ Said(s) \cap Said(k) = {} /\ Said(f) \cap Said(k) = {}
        /\ Said(bs) \cap Said(bf) = {} /\ Said(bs) \cap Said(bk) = {} /\ Said(bf) \cap Said(bk) = {}
    BY DEF RowExact, BatchExact, Exact
  <1>5. (Said(s) \cup Said(f) \cup Said(k)) \cap (Said(bs) \cup Said(bf) \cup Said(bk)) = {}
    BY DEF RowSaid, BatchSaid
  <1>6. Once(new.succeeded) /\ Said(new.succeeded) = Said(s) \cup Said(bs)
    BY <1>2, <1>3, <1>4, <1>5, SaidConcat
  <1>7. /\ ~new.failed.null /\ Once(Uids(new.failed.items))
        /\ Said(Uids(new.failed.items)) = Said(f) \cup Said(bf)
    BY <1>1, <1>3, <1>4, <1>5, ConcatReports DEF Whole
  <1>8. /\ ~new.skipped.null /\ Once(Uids(new.skipped.items))
        /\ Said(Uids(new.skipped.items)) = Said(k) \cup Said(bk)
    BY <1>1, <1>3, <1>4, <1>5, ConcatReports DEF Whole
  <1> HIDE DEF new, s, f, k, bs, bf, bk
  <1>9. RowExact(new)
    BY <1>4, <1>5, <1>6, <1>7, <1>8 DEF RowExact, Exact
  <1>10. Whole(new)
    BY <1>7, <1>8 DEF Whole
  <1>11. RowSaid(new) = RowSaid(row) \cup BatchSaid(b)
    BY <1>6, <1>7, <1>8 DEF RowSaid, BatchSaid, s, f, k, bs, bf, bk
  <1>12. QED
    BY <1>3, <1>9, <1>10, <1>11 DEF new

\* A target joins one of the lists of the batch.
Longer(b, u, o) == {[b EXCEPT !.failed = Append(@, o)], [b EXCEPT !.skipped = Append(@, o)],
                    [b EXCEPT !.succeeded = Append(@, u)]}

LEMMA RecordedReports ==
    ASSUME NEW b \in Batch, NEW u \in UID, NEW o \in Outcome, o.uid = u,
           BatchExact(b), u \notin BatchSaid(b),
           NEW c \in Longer(b, u, o)
    PROVE  BatchExact(c) /\ BatchSaid(c) = BatchSaid(b) \cup {u}
  <1>1. /\ b.failed \in Seq(Outcome) /\ b.skipped \in Seq(Outcome) /\ b.succeeded \in Seq(UID)
        /\ u \in NamedUID /\ {u} \ {NoUID} = {u}
    BY UidIsNamed DEF Batch, NamedUID
  <1>2. b.succeeded \in Seq(NamedUID)
    BY <1>1, SeqMonotonic DEF NamedUID
  <1>3. ASSUME NEW l \in Seq(NamedUID), Once(l), u \notin Said(l)
        PROVE  Once(Append(l, u)) /\ Said(Append(l, u)) = Said(l) \cup {u}
    <2>1. Append(l, u) = l \o <<u>>
      BY <1>1
    <2>2. <<u>> \in Seq(NamedUID) /\ Once(<<u>>) /\ Said(<<u>>) = {u}
      BY <1>1, SaidOne
    <2>3. Said(l) \cap Said(<<u>>) = {}
      BY <1>3, <2>2
    <2>4. Once(l \o <<u>>) /\ Said(l \o <<u>>) = Said(l) \cup Said(<<u>>)
      BY <1>3, <2>2, <2>3, SaidConcat
    <2>5. QED
      BY <2>1, <2>2, <2>4
  <1>4. ASSUME NEW l \in Seq(Outcome)
        PROVE  Uids(l) \in Seq(NamedUID) /\ Uids(Append(l, o)) = Append(Uids(l), u)
    <2>1. Append(l, o) = l \o <<o>> /\ <<o>> \in Seq(Outcome)
      OBVIOUS
    <2>2. Uids(<<o>>) = <<u>>
      BY UidsOne
    <2>3. Uids(l) \in Seq(NamedUID)
      BY UidsTyped
    <2>4. Uids(l \o <<o>>) = Uids(l) \o <<u>>
      BY <2>1, <2>2, UidsConcat
    <2>5. Append(Uids(l), u) = Uids(l) \o <<u>>
      <3>1. \A list \in Seq(NamedUID), v \in NamedUID : Append(list, v) = list \o <<v>>
        OBVIOUS
      <3>2. QED
        BY <1>1, <2>3, <3>1
    <2>6. QED
      BY <2>1, <2>3, <2>4, <2>5
  <1>5. CASE c = [b EXCEPT !.failed = Append(@, o)]
    <2>1. /\ c.failed = Append(b.failed, o) /\ c.skipped = b.skipped /\ c.succeeded = b.succeeded
      BY <1>5 DEF Batch
    <2>2. /\ Once(Uids(c.failed)) /\ Said(Uids(c.failed)) = Said(Uids(b.failed)) \cup {u}
      <3>1. Uids(b.failed) \in Seq(NamedUID) /\ Uids(c.failed) = Append(Uids(b.failed), u)
        BY <1>1, <1>4, <2>1
      <3>2. Once(Uids(b.failed)) /\ u \notin Said(Uids(b.failed))
        BY DEF BatchExact, BatchSaid, Exact
      <3>3. QED
        BY <1>3, <3>1, <3>2
    <2>3. QED
      BY <2>1, <2>2 DEF BatchExact, BatchSaid, Exact
  <1>6. CASE c = [b EXCEPT !.skipped = Append(@, o)]
    <2>1. /\ c.failed = b.failed /\ c.skipped = Append(b.skipped, o) /\ c.succeeded = b.succeeded
      BY <1>6 DEF Batch
    <2>2. /\ Once(Uids(c.skipped)) /\ Said(Uids(c.skipped)) = Said(Uids(b.skipped)) \cup {u}
      <3>1. Uids(b.skipped) \in Seq(NamedUID) /\ Uids(c.skipped) = Append(Uids(b.skipped), u)
        BY <1>1, <1>4, <2>1
      <3>2. Once(Uids(b.skipped)) /\ u \notin Said(Uids(b.skipped))
        BY DEF BatchExact, BatchSaid, Exact
      <3>3. QED
        BY <1>3, <3>1, <3>2
    <2>3. QED
      BY <2>1, <2>2 DEF BatchExact, BatchSaid, Exact
  <1>7. CASE c = [b EXCEPT !.succeeded = Append(@, u)]
    <2>1. /\ c.failed = b.failed /\ c.skipped = b.skipped /\ c.succeeded = Append(b.succeeded, u)
      BY <1>7 DEF Batch
    <2>2. /\ Once(c.succeeded) /\ Said(c.succeeded) = Said(b.succeeded) \cup {u}
      BY <1>2, <1>3, <2>1 DEF BatchExact, BatchSaid, Exact
    <2>3. QED
      BY <2>1, <2>2 DEF BatchExact, BatchSaid, Exact
  <1>8. QED
    BY <1>5, <1>6, <1>7 DEF Longer

LEMMA NothingReported ==
    /\ BatchExact(EmptyBatch) /\ BatchSaid(EmptyBatch) = {}
    /\ RowExact(NoRow) /\ Whole(NoRow) /\ RowSaid(NoRow) = {} /\ NoRow.targets = {}
    /\ \A targets : /\ RowExact(NewRow(targets)) /\ Whole(NewRow(targets))
                    /\ RowSaid(NewRow(targets)) = {} /\ NewRow(targets).targets = targets
    /\ LET panic == [EmptyBatch EXCEPT !.failed = <<[uid |-> NoUID, reason |-> "worker_panic"]>>]
       IN  BatchExact(panic) /\ BatchSaid(panic) = {}
  <1>1. Exact(<<>>, <<>>, <<>>)
    BY SaidNone DEF Exact
  <1>2. /\ EmptyBatch.succeeded = <<>> /\ EmptyBatch.failed = <<>> /\ EmptyBatch.skipped = <<>>
    BY DEF EmptyBatch
  <1>3. BatchExact(EmptyBatch) /\ BatchSaid(EmptyBatch) = {}
    BY <1>1, <1>2, SaidNone DEF BatchExact, BatchSaid
  <1>4. RowExact(NoRow) /\ Whole(NoRow) /\ RowSaid(NoRow) = {} /\ NoRow.targets = {}
    BY <1>1, SaidNone DEF NoRow, RowExact, RowSaid, Whole
  <1>5. \A targets : /\ RowExact(NewRow(targets)) /\ Whole(NewRow(targets))
                     /\ RowSaid(NewRow(targets)) = {} /\ NewRow(targets).targets = targets
    BY <1>1, SaidNone DEF NewRow, RowExact, RowSaid, Whole
  <1> DEFINE o == [uid |-> NoUID, reason |-> "worker_panic"]
             panic == [EmptyBatch EXCEPT !.failed = <<o>>]
  <1>6. BatchExact(panic) /\ BatchSaid(panic) = {}
    <2>1. o \in Outcome /\ o.uid = NoUID
      BY OutcomeMade
    <2>2. panic.succeeded = <<>> /\ panic.failed = <<o>> /\ panic.skipped = <<>>
      BY DEF EmptyBatch
    <2> HIDE DEF o, panic
    <2>3. Uids(<<o>>) = <<NoUID>> /\ NoUID \in NamedUID
      BY <2>1, UidsOne DEF NamedUID
    <2>4. Once(Uids(<<o>>)) /\ Said(Uids(<<o>>)) = {}
      BY <2>3, SaidOne
    <2>5. QED
      BY <2>2, <2>4, SaidNone DEF BatchExact, BatchSaid, Exact
  <1>7. QED
    BY <1>3, <1>4, <1>5, <1>6


-----------------------------------------------------------------------------
(* The report is kept exact.                                               *)

LEMMA OnePlaceStep ==
    ASSUME TypeOK, OnePlace,
           \/ Rests \/ \E r \in Requests : RequestShape(r)
           \/ \E p \in Procs : ProcessShape(p)
    PROVE  OnePlace'
  <1>0. /\ queue \in [Procs -> Seq(Requests)] /\ home \in [Requests -> Procs]
        /\ worker \in [Procs -> Places] /\ job \in [Procs -> Requests \cup {NoJob}]
        /\ req \in [Requests -> Phases]
    BY DEF TypeOK, Places, Phases
  <1>1. \A p \in Procs, r \in Requests :
            (Busy(p) /\ job[p] = r) \/ In(queue[p], r) => home[r] = p /\ req[r] = "accepted"
    BY DEF OnePlace
  <1>2. CASE Rests
    BY <1>2 DEF Rests, OnePlace, Busy, In, Distinct
  <1>3. ASSUME NEW r \in Requests, Answers(r) \/ Inserts(r) \/ Closes(r)
        PROVE  OnePlace'
    <2>1. /\ UNCHANGED <<queue, worker, job>> /\ req[r] # "accepted"
          /\ \A s \in Requests \ {r} : req'[s] = req[s] /\ home'[s] = home[s]
      BY <1>0, <1>3 DEF Answers, Inserts, Closes, Respond
    <2>2. QED
      BY <2>1 DEF OnePlace, Busy, In, Distinct
  <1>4. ASSUME NEW r \in Requests, Enqueues(r)
        PROVE  OnePlace'
    <2> DEFINE h == home[r]
               longer == Append(queue[h], r)
    <2>1. /\ UNCHANGED <<worker, job, home>> /\ req[r] # "accepted"
          /\ \A s \in Requests \ {r} : req'[s] = req[s]
      BY <1>0, <1>4 DEF Enqueues, Respond
    <2>2. \A p \in Procs : ~(Busy(p) /\ job[p] = r) /\ ~In(queue[p], r)
      BY <1>1, <2>1
    <2>3. CASE UNCHANGED queue
      BY <2>1, <2>2, <2>3 DEF OnePlace, Busy, In, Distinct
    <2>4. CASE queue' = [queue EXCEPT ![h] = longer] /\ Respond(r, "accepted")
      <3>1. h \in Procs /\ queue[h] \in Seq(Requests)
        BY <1>0
      <3>2. /\ \A x : In(longer, x) <=> In(queue[h], x) \/ x = r
            /\ Distinct(longer)
        BY <2>2, <3>1, QueueGrows DEF OnePlace
      <3> HIDE DEF longer
      <3>3. queue'[h] = longer /\ \A p \in Procs \ {h} : queue'[p] = queue[p]
        BY <1>0, <2>4, <3>1
      <3>4. req'[r] = "accepted"
        BY <1>0, <2>4 DEF Respond
      <3>5. ASSUME NEW p \in Procs, NEW s \in Requests, In(queue'[p], s)
            PROVE  home[s] = p /\ req'[s] = "accepted"
        <4>1. CASE p = h /\ s = r
          BY <3>4, <4>1
        <4>2. CASE In(queue[p], s)
          BY <1>1, <2>1, <2>2, <4>2
        <4>3. QED
          BY <3>2, <3>3, <3>5, <4>1, <4>2
      <3>6. ASSUME NEW p \in Procs, NEW s \in Requests, Busy(p), job[p] = s
            PROVE  home[s] = p /\ req'[s] = "accepted" /\ ~In(queue'[p], s)
        <4>1. s # r /\ ~In(queue[p], s)
          BY <2>2, <3>6 DEF OnePlace
        <4>2. QED
          BY <1>1, <2>1, <3>2, <3>3, <3>6, <4>1
      <3>7. \A p \in Procs : Distinct(queue'[p])
        BY <3>2, <3>3 DEF OnePlace
      <3>8. QED
        BY <2>1, <3>5, <3>6, <3>7 DEF OnePlace, Busy, In, Distinct
    <2>5. QED
      BY <1>4, <2>3, <2>4 DEF Enqueues
  <1>5. ASSUME NEW p \in Procs, Takes(p)
        PROVE  OnePlace'
    <2> DEFINE first == Head(queue[p])
               shorter == Tail(queue[p])
    <2>1. /\ UNCHANGED <<req, home>> /\ queue[p] # <<>>
          /\ queue' = [queue EXCEPT ![p] = shorter] /\ job' = [job EXCEPT ![p] = first]
          /\ worker' = [worker EXCEPT ![p] = "start"]
      BY <1>5 DEF Takes, Goto
    <2>2. /\ \A x : In(queue[p], x) <=> In(shorter, x) \/ x = first
          /\ Distinct(shorter) /\ ~In(shorter, first) /\ first \in Requests
      BY <1>0, <2>1, QueueShrinks, HeadTailProperties DEF OnePlace
    <2> HIDE DEF first, shorter
    <2>3. /\ queue'[p] = shorter /\ job'[p] = first
          /\ \A q \in Procs \ {p} : queue'[q] = queue[q] /\ job'[q] = job[q] /\ worker'[q] = worker[q]
      BY <1>0, <2>1
    <2>4. \A q \in Procs, s \in Requests : In(queue'[q], s) => In(queue[q], s)
      BY <2>2, <2>3
    <2>5. \A q \in Procs : Distinct(queue'[q])
      BY <2>2, <2>3 DEF OnePlace
    <2>6. ASSUME NEW q \in Procs, NEW s \in Requests, Busy(q)', job'[q] = s
          PROVE  home[s] = q /\ req[s] = "accepted" /\ ~In(queue'[q], s)
      <3>1. CASE q = p
        BY <1>1, <2>2, <2>3, <2>6, <3>1
      <3>2. CASE q # p
        <4>1. Busy(q) /\ job[q] = s
          BY <2>3, <2>6, <3>2 DEF Busy
        <4>2. QED
          BY <1>1, <2>4, <4>1 DEF OnePlace
      <3>3. QED
        BY <3>1, <3>2
    <2>7. QED
      BY <1>1, <2>1, <2>4, <2>5, <2>6 DEF OnePlace, In, Distinct
  <1>6. ASSUME NEW p \in Procs, Moves(p) \/ Completes(p) \/ Turns(p) \/ Reaps(p)
        PROVE  OnePlace'
    <2>1. UNCHANGED <<queue, job, req, home>>
      BY <1>6 DEF Moves, Completes, Turns, Reaps
    <2>2. \A q \in Procs : Busy(q)' => Busy(q)
      <3>1. CASE Moves(p)
        BY <1>0, <3>1 DEF Moves, Goto, Busy, Working, Ending
      <3>2. CASE Completes(p)
        BY <1>0, <3>2 DEF Completes, Goto, Busy, Ending
      <3>3. CASE Turns(p) \/ Reaps(p)
        BY <3>3 DEF Turns, Reaps, Busy
      <3>4. QED
        BY <1>6, <3>1, <3>2, <3>3
    <2>3. QED
      BY <2>1, <2>2 DEF OnePlace, In, Distinct
  <1>7. ASSUME NEW p \in Procs, Ends(p)
        PROVE  OnePlace'
    <2>1. /\ UNCHANGED home /\ queue'[p] = <<>> /\ ~Busy(p)'
          /\ \A r \in Requests : req[r] = "accepted" => req'[r] = "accepted"
          /\ \A r \in Requests : job'[p] = r => ~Busy(p)'
      BY <1>0, <1>7 DEF Ends, Busy, InFlight
    <2>2. \A q \in Procs \ {p} : queue'[q] = queue[q] /\ job'[q] = job[q] /\ worker'[q] = worker[q]
      BY <1>0, <1>7 DEF Ends
    <2>3. ~(\E x : In(queue'[p], x)) /\ Distinct(queue'[p])
      <3>1. Len(<<>>) = 0 /\ 1..0 = {}
        OBVIOUS
      <3>2. QED
        BY <2>1, <3>1 DEF In, Distinct
    <2>4. \A q \in Procs, s \in Requests : In(queue'[q], s) => In(queue[q], s)
      BY <2>2, <2>3
    <2>5. \A q \in Procs : Distinct(queue'[q])
      BY <2>2, <2>3 DEF OnePlace
    <2>6. ASSUME NEW q \in Procs, NEW s \in Requests, Busy(q)', job'[q] = s
          PROVE  home[s] = q /\ req'[s] = "accepted" /\ ~In(queue'[q], s)
      <3>1. q # p
        BY <2>1, <2>6
      <3>2. Busy(q) /\ job[q] = s
        BY <2>2, <2>6, <3>1 DEF Busy
      <3>3. QED
        BY <1>1, <2>1, <2>4, <3>2 DEF OnePlace
    <2>7. QED
      BY <1>1, <2>1, <2>4, <2>5, <2>6 DEF OnePlace, In, Distinct
  <1>8. QED
    BY <1>2, <1>3, <1>4, <1>5, <1>6, <1>7 DEF RequestShape, ProcessShape


\* A row keeps what it says.
Same(r) ==
    /\ rows'[r].targets = rows[r].targets /\ rows'[r].succeeded = rows[r].succeeded
    /\ rows'[r].failed = rows[r].failed /\ rows'[r].skipped = rows[r].skipped

LEMMA SameReport ==
    ASSUME NEW r, Same(r)
    PROVE  /\ RowSaid(rows'[r]) = RowSaid(rows[r])
           /\ RowExact(rows[r]) => RowExact(rows'[r])
           /\ Whole(rows[r]) => Whole(rows'[r])
  BY DEF Same, RowSaid, RowExact, Whole

LEMMA CompletedSame ==
    ASSUME NEW r \in Requests, TypedStore,
           rows' = [rows EXCEPT ![r] = Completed(@)] \/ rows' = [rows EXCEPT ![r].phase = "deleted"]
    PROVE  \A s \in Requests : Same(s)
  <1>1. rows[r] \in Row /\ rows \in [Requests -> Row]
    BY DEF TypedStore
  <1>2. \A s \in Requests \ {r} : rows'[s] = rows[s]
    BY <1>1
  <1>3. rows'[r] = Completed(rows[r]) \/ rows'[r] = [rows[r] EXCEPT !.phase = "deleted"]
    BY <1>1
  <1>4. Same(r)
    BY <1>1, <1>3 DEF Same, Completed, Row
  <1>5. QED
    BY <1>2, <1>4 DEF Same

\* A worker that stays where it is, with a row that says what it said.
LEMMA WorkerStays ==
    ASSUME NEW p \in Procs, HasJob, WorkerReports(p), faults' = 0 => faults = 0,
           worker'[p] = worker[p], job'[p] = job[p], todo'[p] = todo[p], batch'[p] = batch[p],
           Busy(p) => Same(job[p])
    PROVE  WorkerReports(p)'
  <1>1. CASE ~Busy(p)
    BY <1>1 DEF Busy, WorkerReports
  <1>2. CASE Busy(p)
    <2>1. /\ RowSaid(rows'[job[p]]) = RowSaid(rows[job[p]])
          /\ rows'[job[p]].targets = rows[job[p]].targets
      BY <1>2, SameReport DEF Same
    <2>2. Splits(p) => Splits(p)'
      BY <2>1 DEF Splits, BatchExact, BatchSaid
    <2>3. QED
      BY <2>1, <2>2 DEF WorkerReports
  <1>3. QED
    BY <1>1, <1>2

\* No row says anything new, and no job goes back to the queue.
LEMMA RowsStay ==
    ASSUME RowsReport, \A r \in Requests : Same(r),
           \A r \in Requests : Untaken(r)' => Untaken(r),
           \A r \in Requests : rows[r].targets \subseteq pins'[r],
           \A r \in Requests : req'[r] = "idle" => req[r] = "idle"
    PROVE  RowsReport'
  <1> SUFFICES ASSUME NEW r \in Requests
               PROVE  /\ RowExact(rows'[r]) /\ Whole(rows'[r])
                      /\ Untaken(r)' => RowSaid(rows'[r]) = {}
                      /\ rows'[r].targets \subseteq pins'[r]
                      /\ req'[r] = "idle" => rows'[r].targets = {}
    BY DEF RowsReport
  <1>1. Same(r)
    OBVIOUS
  <1>2. QED
    BY <1>1, SameReport DEF RowsReport, Same

LEMMA UntakenKept ==
    ASSUME UNCHANGED <<req, queue>>
    PROVE  \A r \in Requests : Untaken(r)' => Untaken(r)
  BY DEF Untaken, In

LEMMA RowsUntouched ==
    ASSUME UNCHANGED rows
    PROVE  \A r \in Requests : Same(r)
  BY DEF Same

\* The handlers.
LEMMA RequestReports ==
    ASSUME TypeOK, HasJob, Down, Reports, NEW r \in Requests,
           (\E p \in Procs : GetScope(r, p) \/ Post(r, p)) \/ Handler(r)
    PROVE  RowsReport' /\ \A p \in Procs : WorkerReports(p)'
  <1>0. /\ req \in [Requests -> Phases] /\ pins \in [Requests -> SUBSET UID]
        /\ queue \in [Procs -> Seq(Requests)] /\ home \in [Requests -> Procs]
        /\ TypedStore /\ rows \in [Requests -> Row]
    BY TypeParts DEF TypedRequests, TypedProcess, TypedStore
  <1>1. OnePlace /\ RowsReport /\ \A p \in Procs : WorkerReports(p)
    BY DEF Reports
  <1>2. faults' = 0 => faults = 0
    BY RequestShapes DEF Later
  <1>3. UNCHANGED workerVars
    BY DEF GetScope, Post, Handler, CheckActive, InsertRow, Enqueue, CloseRejected
  <1>4. ASSUME \A p \in Procs : Busy(p) => Same(job[p])
        PROVE  \A p \in Procs : WorkerReports(p)'
    BY <1>1, <1>2, <1>3, <1>4, WorkerStays DEF workerVars
  <1>5. ASSUME \A s \in Requests : Same(s)
        PROVE  \A p \in Procs : WorkerReports(p)'
    BY <1>4, <1>5 DEF HasJob, Busy
  <1>6. req[r] # "accepted"
    BY DEF GetScope, Post, Handler, CheckActive, InsertRow, Enqueue, CloseRejected
  <1>7. Untaken(r) /\ RowSaid(rows[r]) = {}
    BY <1>1, <1>6 DEF Untaken, RowsReport
  <1>8. CASE \E p \in Procs : GetScope(r, p)
    <2>1. PICK p \in Procs : GetScope(r, p)
      BY <1>8
    <2>2. UNCHANGED <<queue, rows>> /\ req[r] = "idle" /\ Respond(r, "confirmed")
          /\ pins' = [pins EXCEPT ![r] = Targets(p, scope[r])]
      BY <2>1 DEF GetScope
    <2>3. \A s \in Requests : rows[s].targets \subseteq pins'[s]
      <3>1. rows[r].targets = {}
        BY <1>1, <2>2 DEF RowsReport
      <3>2. \A s \in Requests \ {r} : pins'[s] = pins[s]
        BY <1>0, <2>2
      <3>3. QED
        BY <1>1, <3>1, <3>2 DEF RowsReport
    <2>4. \A s \in Requests : /\ Untaken(s)' => Untaken(s)
                              /\ req'[s] = "idle" => req[s] = "idle"
      BY <1>0, <1>7, <2>2 DEF Respond, Untaken, In
    <2>5. \A s \in Requests : Same(s)
      BY <2>2, RowsUntouched
    <2>6. QED
      BY <1>1, <1>5, <2>3, <2>4, <2>5, RowsStay
  <1>9. CASE (\E p \in Procs : Post(r, p)) \/ CheckActive(r) \/ Enqueue(r) \/ CloseRejected(r)
    <2>1. UNCHANGED pins
      BY <1>9 DEF Post, CheckActive, Enqueue, CloseRejected
    <2>2. \A s \in Requests : Same(s)
      BY <1>0, <1>9, RowsUntouched, CompletedSame
         DEF Post, CheckActive, Enqueue, CloseRejected
    <2>3. \E x \in Phases \ {"idle"} : Respond(r, x)
      <3>1. {"error", "checked", "conflict", "inserting", "accepted", "closing", "rejected"}
                \subseteq Phases \ {"idle"}
        BY DEF Phases, InFlight
      <3>2. QED
        BY <1>9, <3>1 DEF Post, CheckActive, Enqueue, CloseRejected
    <2>4. \A s \in Requests : /\ s # r => req'[s] = req[s]
                              /\ req'[s] = "idle" => req[s] = "idle"
      BY <1>0, <2>3 DEF Respond
    <2>5. \A s \in Requests \ {r}, p \in Procs : In(queue'[p], s) => In(queue[p], s)
      <3>1. CASE UNCHANGED queue
        BY <3>1 DEF In
      <3>2. CASE queue' = [queue EXCEPT ![home[r]] = Append(@, r)]
        <4> DEFINE longer == Append(queue[home[r]], r)
        <4>1. \A x : In(longer, x) <=> In(queue[home[r]], x) \/ x = r
          BY <1>0, QueueGrows
        <4> HIDE DEF longer
        <4>2. queue' = [queue EXCEPT ![home[r]] = longer]
          BY <3>2 DEF longer
        <4>3. QED
          BY <1>0, <4>1, <4>2
      <3>3. QED
        BY <1>9, <3>1, <3>2 DEF Post, CheckActive, Enqueue, CloseRejected
    <2>6. \A s \in Requests : Untaken(s)' => Untaken(s)
      BY <1>7, <2>4, <2>5 DEF Untaken, In
    <2>7. \A s \in Requests : rows[s].targets \subseteq pins'[s]
      BY <1>1, <2>1 DEF RowsReport
    <2>8. QED
      BY <1>1, <1>5, <2>2, <2>4, <2>6, <2>7, RowsStay
  <1>10. CASE InsertRow(r)
    <2>1. /\ UNCHANGED <<pins, queue>> /\ req[r] = "inserting"
          /\ rows' = rows \/ rows' = [rows EXCEPT ![r] = NewRow(pins[r])]
          /\ \E x \in {"error", "conflict", "enqueue"} : Respond(r, x)
      BY <1>10 DEF InsertRow
    <2>2. /\ \A s \in Requests \ {r} : rows'[s] = rows[s] /\ req'[s] = req[s]
          /\ req'[r] \in {"error", "conflict", "enqueue"}
      BY <1>0, <2>1 DEF Respond
    <2>3. rows'[r] = rows[r] \/ rows'[r] = NewRow(pins[r])
      BY <1>0, <2>1
    <2>4. /\ RowExact(rows'[r]) /\ Whole(rows'[r]) /\ RowSaid(rows'[r]) = {}
          /\ rows'[r].targets \subseteq pins'[r]
      <3>1. CASE rows'[r] = rows[r]
        BY <1>1, <1>7, <2>1, <3>1 DEF RowsReport
      <3>2. CASE rows'[r] = NewRow(pins[r])
        BY <2>1, <3>2, NothingReported
      <3>3. QED
        BY <2>3, <3>1, <3>2
    <2>5. RowsReport'
      <3>1. ASSUME NEW s \in Requests \ {r}
            PROVE  /\ RowExact(rows'[s]) /\ Whole(rows'[s])
                   /\ Untaken(s)' => RowSaid(rows'[s]) = {}
                   /\ rows'[s].targets \subseteq pins'[s]
                   /\ req'[s] = "idle" => rows'[s].targets = {}
        BY <1>1, <2>1, <2>2 DEF RowsReport, Untaken, In
      <3>2. QED
        BY <2>2, <2>4, <3>1 DEF RowsReport
    <2>6. \A p \in Procs : Busy(p) => Same(job[p])
      <3>1. \A p \in Procs : Busy(p) => job[p] \in Requests /\ job[p] # r
        BY <1>1, <1>6 DEF HasJob, Busy, OnePlace
      <3>2. QED
        BY <2>2, <3>1 DEF Same
    <2>7. QED
      BY <1>4, <2>5, <2>6
  <1>11. QED
    BY <1>8, <1>9, <1>10 DEF Handler


\* One worker takes a step: the others go on with jobs of their own.
LEMMA OthersReport ==
    ASSUME HasJob, Reports, NEW p \in Procs, faults' = 0 => faults = 0,
           \A q \in Procs \ {p} : /\ worker'[q] = worker[q] /\ job'[q] = job[q]
                                  /\ todo'[q] = todo[q] /\ batch'[q] = batch[q],
           \A r \in Requests : Same(r) \/ (Busy(p) /\ r = job[p])
    PROVE  \A q \in Procs \ {p} : WorkerReports(q)'
  <1> SUFFICES ASSUME NEW q \in Procs \ {p}
               PROVE  WorkerReports(q)'
    OBVIOUS
  <1>1. WorkerReports(q)
    BY DEF Reports
  <1>2. Busy(q) => job[q] \in Requests /\ home[job[q]] = q
    BY DEF HasJob, Busy, Reports, OnePlace
  <1>3. Busy(p) => job[p] \in Requests /\ home[job[p]] = p
    BY DEF HasJob, Busy, Reports, OnePlace
  <1>4. Busy(q) => Same(job[q])
    BY <1>2, <1>3
  <1>5. QED
    BY <1>1, <1>4, WorkerStays

\* The row of a job that a worker has taken says more.
LEMMA RowReports ==
    ASSUME RowsReport, NEW r \in Requests, ~Untaken(r), UNCHANGED <<req, queue, pins>>,
           \A s \in Requests \ {r} : Same(s),
           RowExact(rows'[r]), Whole(rows'[r]), rows'[r].targets = rows[r].targets
    PROVE  RowsReport'
  <1> SUFFICES ASSUME NEW s \in Requests
               PROVE  /\ RowExact(rows'[s]) /\ Whole(rows'[s])
                      /\ Untaken(s)' => RowSaid(rows'[s]) = {}
                      /\ rows'[s].targets \subseteq pins'[s]
                      /\ req'[s] = "idle" => rows'[s].targets = {}
    BY DEF RowsReport
  <1>1. Untaken(s)' => Untaken(s)
    BY UntakenKept
  <1>2. CASE s = r
    BY <1>1, <1>2 DEF RowsReport
  <1>3. CASE s # r
    <2>1. Same(s)
      BY <1>3
    <2>2. QED
      BY <1>1, <2>1, SameReport DEF RowsReport, Same
  <1>4. QED
    BY <1>2, <1>3

\* A target is tried: it stays to be done, or joins the batch.
LEMMA TargetReports ==
    ASSUME TypedWorker, NEW p \in Procs, NEW u \in Current(p), Attempts(p, u), Splits(p),
           UNCHANGED <<rows, job, faults>>
    PROVE  Splits(p)'
  <1> DEFINE b == batch[p]
             t == todo[p]
             said == RowSaid(rows[job[p]])
  <1>1. b \in Batch /\ batch \in [Procs -> Batch] /\ todo \in [Procs -> SUBSET UID]
    BY DEF TypedWorker
  <1>2. u \in t /\ u \in UID
    BY <1>1 DEF Current
  <1>3. /\ [uid |-> u, reason |-> "error"] \in Outcome
        /\ [uid |-> u, reason |-> "uid_drifted"] \in Outcome
        /\ [uid |-> u, reason |-> "already_refreshing"] \in Outcome
    BY <1>2, OutcomeMade
  <1>4. /\ BatchExact(b) /\ BatchSaid(b) \cap said = {} /\ t \cap (BatchSaid(b) \cup said) = {}
        /\ faults = 0 => rows[job[p]].targets \subseteq t \cup BatchSaid(b) \cup said
    BY DEF Splits
  <1>5. ASSUME UNCHANGED <<todo, batch>>
        PROVE  Splits(p)'
    BY <1>4, <1>5 DEF Splits, BatchExact, BatchSaid
  <1>6. ASSUME NEW c, Record(p, u, c), BatchExact(c), BatchSaid(c) = BatchSaid(b) \cup {u}
        PROVE  Splits(p)'
    <2>1. batch'[p] = c /\ todo'[p] = t \ {u}
      BY <1>1, <1>6 DEF Record
    <2>2. /\ BatchSaid(c) \cap said = {} /\ (t \ {u}) \cap (BatchSaid(c) \cup said) = {}
          /\ faults = 0 => rows[job[p]].targets \subseteq (t \ {u}) \cup BatchSaid(c) \cup said
      BY <1>2, <1>4, <1>6
    <2>3. BatchExact(batch'[p]) /\ rows'[job'[p]] = rows[job[p]] /\ faults' = faults
      BY <1>6, <2>1
    <2> HIDE DEF b, t
    <2>4. QED
      BY <2>1, <2>2, <2>3 DEF Splits
  <1>7. u \notin BatchSaid(b)
    BY <1>2, <1>4
  <1>8. ASSUME NEW o \in Outcome, o.uid = u,
               NEW c \in Longer(b, u, o), Record(p, u, c)
        PROVE  Splits(p)'
    <2>1. BatchExact(c) /\ BatchSaid(c) = BatchSaid(b) \cup {u}
      <3>1. b \in Batch /\ BatchExact(b)
        BY <1>1, <1>4
      <3> HIDE DEF b
      <3>2. QED
        BY <1>2, <1>7, <1>8, <3>1, RecordedReports
    <2>2. QED
      BY <1>6, <1>8, <2>1
  <1>9. CASE RecordFailed(p, u, "error") \/ RecordFailed(p, u, "uid_drifted")
    BY <1>3, <1>8, <1>9 DEF RecordFailed, Longer
  <1>10. CASE RecordSkipped(p, u) \/ RecordSucceeded(p, u)
    BY <1>3, <1>8, <1>10 DEF RecordSkipped, RecordSucceeded, Longer
  <1>11. CASE UNCHANGED <<todo, batch>>
    BY <1>5, <1>11
  <1>12. QED
    BY <1>9, <1>10, <1>11 DEF Attempts, Misses, Retry

\* What a step of one worker leaves alone.
LEMMA WorkerAlone ==
    ASSUME TypedWorker, NEW p \in Procs, Worker(p) \/ Panic(p)
    PROVE  /\ UNCHANGED <<req, pins>>
           /\ \A q \in Procs \ {p} : /\ worker'[q] = worker[q] /\ job'[q] = job[q]
                                     /\ todo'[q] = todo[q] /\ batch'[q] = batch[q]
  <1>0. /\ worker \in [Procs -> Places] /\ job \in [Procs -> Requests \cup {NoJob}]
        /\ todo \in [Procs -> SUBSET UID] /\ batch \in [Procs -> Batch]
    BY DEF TypedWorker
  <1> DEFINE Alone == /\ UNCHANGED <<req, pins>>
                      /\ \A q \in Procs \ {p} : /\ worker'[q] = worker[q] /\ job'[q] = job[q]
                                                /\ todo'[q] = todo[q] /\ batch'[q] = batch[q]
  <1>1. CASE Take(p) \/ StopWorker(p) \/ Start(p) \/ Loop(p)
    BY <1>0, <1>1 DEF Take, StopWorker, Start, Loop, Goto, requestVars
  <1>2. CASE Flush(p) \/ Panic(p) \/ PanicOutcome(p) \/ Complete(p) \/ Audit(p)
    BY <1>0, <1>2 DEF Flush, Panic, PanicOutcome, Complete, Audit, Goto, requestVars
  <1>3. CASE GetTarget(p) \/ PatchTarget(p)
    <2>1. UNCHANGED <<req, pins, job>>
      BY <1>3 DEF GetTarget, PatchTarget, requestVars
    <2>2. PICK u \in Current(p) : Attempts(p, u)
      BY <1>3, TargetSteps
    <2>3. ASSUME NEW c, Record(p, u, c)
          PROVE  Alone
      BY <1>0, <2>1, <2>3 DEF Record, Goto
    <2>4. CASE RecordFailed(p, u, "error") \/ RecordFailed(p, u, "uid_drifted")
               \/ RecordSkipped(p, u) \/ RecordSucceeded(p, u)
      BY <2>3, <2>4 DEF RecordFailed, RecordSkipped, RecordSucceeded
    <2>5. CASE UNCHANGED <<todo, batch>> /\ \E x : Goto(p, x)
      BY <1>0, <2>1, <2>5 DEF Goto
    <2>6. QED
      BY <2>2, <2>4, <2>5 DEF Attempts, Misses, Retry
  <1>4. QED
    BY <1>1, <1>2, <1>3 DEF Worker

\* The worker.
LEMMA WorkerReportsStep ==
    ASSUME TypeOK, HasJob, Reports, NEW p \in Procs, Worker(p) \/ Panic(p)
    PROVE  RowsReport' /\ \A q \in Procs : WorkerReports(q)'
  <1>0. /\ TypedWorker /\ TypedStore /\ TypedBounds /\ rows \in [Requests -> Row]
        /\ worker \in [Procs -> Places] /\ job \in [Procs -> Requests \cup {NoJob}]
        /\ todo \in [Procs -> SUBSET UID] /\ batch \in [Procs -> Batch]
        /\ queue \in [Procs -> Seq(Requests)]
    BY TypeParts DEF TypedWorker, TypedStore, TypedProcess
  <1>1. OnePlace /\ RowsReport /\ WorkerReports(p)
    BY DEF Reports
  <1>2. faults' = 0 => faults = 0
    BY WorkerShapes DEF Later
  <1>3. /\ UNCHANGED <<req, pins>>
        /\ \A q \in Procs \ {p} : /\ worker'[q] = worker[q] /\ job'[q] = job[q]
                                  /\ todo'[q] = todo[q] /\ batch'[q] = batch[q]
    BY <1>0, WorkerAlone
  <1> DEFINE j == job[p]
  <1>4. ASSUME \A r \in Requests : Same(r), WorkerReports(p)'
        PROVE  \A q \in Procs : WorkerReports(q)'
    BY <1>2, <1>3, <1>4, OthersReport
  <1>5. ASSUME \A r \in Requests : Same(r), \A r \in Requests : Untaken(r)' => Untaken(r)
        PROVE  RowsReport'
    BY <1>1, <1>3, <1>5, RowsStay DEF RowsReport
  <1>6. ASSUME UNCHANGED <<rows, queue>>, WorkerReports(p)'
        PROVE  RowsReport' /\ \A q \in Procs : WorkerReports(q)'
    BY <1>3, <1>4, <1>5, <1>6, RowsUntouched, UntakenKept
  <1>7. ASSUME worker'[p] \in {"idle", "stopped", "abort", "panicked", "panicComplete"}
        PROVE  WorkerReports(p)'
    BY <1>7 DEF WorkerReports
  <1>8. ASSUME Busy(p)
        PROVE  j \in Requests /\ ~Untaken(j)
    BY <1>1, <1>8 DEF HasJob, Busy, OnePlace, Untaken
  <1>9. CASE Take(p)
    <2> DEFINE first == Head(queue[p])
               shorter == Tail(queue[p])
    <2>1. /\ UNCHANGED rows /\ queue[p] # <<>> /\ queue' = [queue EXCEPT ![p] = shorter]
          /\ job' = [job EXCEPT ![p] = first] /\ worker' = [worker EXCEPT ![p] = "start"]
      BY <1>9 DEF Take, Goto
    <2>2. first \in Requests /\ \A x : In(queue[p], x) <=> In(shorter, x) \/ x = first
      BY <1>0, <1>1, <2>1, QueueShrinks, HeadTailProperties DEF OnePlace
    <2> HIDE DEF first, shorter
    <2>3. \A q \in Procs, s \in Requests : In(queue'[q], s) => In(queue[q], s)
      BY <1>0, <2>1, <2>2
    <2>4. \A r \in Requests : Untaken(r)' => Untaken(r)
      BY <1>3, <2>3 DEF Untaken, In
    <2>5. RowSaid(rows[first]) = {}
      BY <1>1, <2>2 DEF RowsReport, Untaken
    <2>6. worker'[p] = "start" /\ job'[p] = first
      BY <1>0, <2>1
    <2>7. WorkerReports(p)'
      BY <2>1, <2>5, <2>6 DEF WorkerReports
    <2>8. QED
      BY <1>4, <1>5, <2>1, <2>4, <2>7, RowsUntouched
  <1>10. CASE StopWorker(p) \/ Panic(p) \/ Audit(p)
    <2>1. UNCHANGED <<rows, queue>> /\ worker'[p] \in {"stopped", "panicked", "idle"}
      BY <1>0, <1>10 DEF StopWorker, Panic, Audit, Goto
    <2>2. QED
      BY <1>6, <1>7, <2>1
  <1>11. CASE Start(p)
    <2>1. /\ UNCHANGED <<rows, queue, job>>
          /\ worker[p] = "start" /\ worker'[p] \in {"loop", "abort"}
          /\ todo'[p] = pins[j] /\ batch'[p] = EmptyBatch
      BY <1>0, <1>11 DEF Start, Goto
    <2>2. RowSaid(rows[j]) = {} /\ rows[j].targets \subseteq pins[j]
      BY <1>1, <1>8, <2>1 DEF WorkerReports, RowsReport, Busy
    <2>3. Splits(p)'
      BY <2>1, <2>2, NothingReported DEF Splits
    <2>4. WorkerReports(p)'
      BY <2>1, <2>3 DEF WorkerReports
    <2>5. QED
      BY <1>6, <2>1, <2>4
  <1>12. CASE Loop(p)
    <2>1. /\ UNCHANGED <<rows, queue, job, todo, batch, faults>> /\ worker[p] = "loop"
          /\ \/ worker'[p] \in {"get", "flush", "idle"}
             \/ worker'[p] = "complete" /\ todo[p] = {} /\ batch[p] = EmptyBatch
      BY <1>0, <1>12 DEF Loop, Goto
    <2>2. Splits(p)
      BY <1>1, <2>1 DEF WorkerReports
    <2>3. Splits(p)'
      BY <2>1, <2>2 DEF Splits, BatchExact, BatchSaid
    <2>4. worker'[p] = "complete" /\ faults = 0 => rows[j].targets \subseteq RowSaid(rows[j])
      BY <2>1, <2>2, NothingReported DEF Splits
    <2>5. WorkerReports(p)'
      BY <2>1, <2>3, <2>4 DEF WorkerReports
    <2>6. QED
      BY <1>6, <2>1, <2>5
  <1>13. CASE GetTarget(p) \/ PatchTarget(p)
    <2>1. UNCHANGED <<rows, queue, job, faults>> /\ worker[p] \in {"get", "patch"}
      BY <1>13 DEF GetTarget, PatchTarget
    <2>2. PICK u \in Current(p) : Attempts(p, u)
      BY <1>13, TargetSteps
    <2>3. worker'[p] \in {"flush", "loop", "get", "patch"}
      BY <1>0, <2>1, <2>2, AttemptTyped
    <2>4. Splits(p)
      BY <1>1, <2>1 DEF WorkerReports
    <2>5. Splits(p)'
      BY <1>0, <2>1, <2>2, <2>4, TargetReports
    <2>6. WorkerReports(p)'
      BY <2>3, <2>5 DEF WorkerReports
    <2>7. QED
      BY <1>6, <2>1, <2>6
  <1>14. CASE Complete(p)
    <2>1. /\ UNCHANGED <<queue, job>> /\ worker[p] \in {"complete", "abort", "panicComplete"}
          /\ rows' = rows \/ rows' = [rows EXCEPT ![j] = Completed(@)]
          /\ worker'[p] = IF worker[p] = "complete" THEN "audit" ELSE "idle"
      BY <1>0, <1>14 DEF Complete, Goto
    <2>2. j \in Requests
      BY <1>8, <2>1 DEF Busy
    <2>3. \A r \in Requests : Same(r)
      BY <1>0, <2>1, <2>2, CompletedSame, RowsUntouched
    <2>4. CASE worker[p] = "complete"
      <3>1. faults = 0 => rows[j].targets \subseteq RowSaid(rows[j])
        BY <1>1, <2>4 DEF WorkerReports
      <3>2. RowSaid(rows'[j]) = RowSaid(rows[j]) /\ rows'[j].targets = rows[j].targets
        BY <2>2, <2>3, SameReport DEF Same
      <3>3. worker'[p] = "audit" /\ job'[p] = j
        BY <2>1, <2>4
      <3>4. WorkerReports(p)'
        BY <1>2, <3>1, <3>2, <3>3 DEF WorkerReports
      <3>5. QED
        BY <1>4, <1>5, <2>1, <2>3, <3>4, <1>3, UntakenKept
    <2>5. CASE worker[p] # "complete"
      BY <1>3, <1>4, <1>5, <1>7, <2>1, <2>3, <2>5, UntakenKept
    <2>6. QED
      BY <2>4, <2>5
  \* A batch is appended to the row of the job, or nothing is.
  <1>15. ASSUME NEW b \in Batch, BatchExact(b), BatchSaid(b) \cap RowSaid(rows[j]) = {}, Busy(p),
                UNCHANGED <<queue, job>>,
                rows' = [rows EXCEPT ![j] = Appended(@, b)],
                WorkerReports(p)'
         PROVE  RowsReport' /\ \A q \in Procs : WorkerReports(q)'
    <2>1. j \in Requests /\ ~Untaken(j)
      BY <1>8, <1>15
    <2>2. rows'[j] = Appended(rows[j], b) /\ \A r \in Requests \ {j} : rows'[r] = rows[r]
      BY <1>0, <1>15, <2>1
    <2>3. \A r \in Requests \ {j} : Same(r)
      BY <2>2 DEF Same
    <2>4. RowExact(rows'[j]) /\ Whole(rows'[j]) /\ rows'[j].targets = rows[j].targets
      BY <1>0, <1>1, <1>15, <2>1, <2>2, AppendedReports DEF RowsReport
    <2>5. RowsReport'
      BY <1>1, <1>3, <1>15, <2>1, <2>3, <2>4, RowReports
    <2>6. \A q \in Procs \ {p} : WorkerReports(q)'
      BY <1>2, <1>3, <1>15, <2>3, OthersReport
    <2>7. QED
      BY <1>15, <2>5, <2>6
  <1>16. CASE Flush(p)
    <2> DEFINE b == batch[p]
    <2>1. /\ UNCHANGED <<queue, job, todo>> /\ worker[p] = "flush" /\ worker'[p] = "loop"
          /\ batch'[p] = EmptyBatch /\ (Works \/ Fails)
          /\ rows' = [rows EXCEPT ![j] = Appended(@, b)] \/ (rows' = rows /\ Fails)
      BY <1>0, <1>16 DEF Flush, Goto
    <2>2. Splits(p) /\ j \in Requests /\ b \in Batch /\ Busy(p)
      BY <1>0, <1>1, <1>8, <2>1 DEF WorkerReports, Busy
    <2>3. UNCHANGED <<stops, panics>>
      BY <1>16 DEF Flush
    <2>4. Fails => faults' # 0
      BY <1>0, <2>1, <2>3, FaultsTyped
    <2>5. BatchExact(b) /\ BatchSaid(b) \cap RowSaid(rows[j]) = {}
      BY <2>2 DEF Splits
    <2>6. BatchExact(EmptyBatch) /\ BatchSaid(EmptyBatch) = {}
      BY NothingReported
    <2>7. CASE rows' = [rows EXCEPT ![j] = Appended(@, b)]
      <3>1. rows'[j] = Appended(rows[j], b)
        BY <1>0, <2>2, <2>7
      <3>2. /\ RowSaid(rows'[j]) = RowSaid(rows[j]) \cup BatchSaid(b)
            /\ rows'[j].targets = rows[j].targets
        BY <1>0, <1>1, <2>2, <2>5, <3>1, AppendedReports DEF RowsReport
      <3>3. /\ todo[p] \cap (BatchSaid(b) \cup RowSaid(rows[j])) = {}
            /\ faults = 0 => rows[j].targets \subseteq todo[p] \cup BatchSaid(b) \cup RowSaid(rows[j])
        BY <2>2 DEF Splits
      <3> HIDE DEF b
      <3>4. /\ todo[p] \cap RowSaid(rows'[j]) = {}
            /\ faults' = 0 => rows'[j].targets \subseteq todo[p] \cup RowSaid(rows'[j])
        BY <1>2, <3>2, <3>3
      <3>5. BatchExact(batch'[p]) /\ BatchSaid(batch'[p]) = {}
        BY <2>1, <2>6
      <3>6. Splits(p)'
        BY <2>1, <3>4, <3>5 DEF Splits
      <3>7. WorkerReports(p)'
        BY <2>1, <3>6 DEF WorkerReports
      <3>8. QED
        BY <1>15, <2>1, <2>2, <2>5, <2>7, <3>7
    <2>8. CASE rows' = rows /\ Fails
      <3>1. todo[p] \cap RowSaid(rows[j]) = {}
        BY <2>2 DEF Splits
      <3>2. BatchExact(batch'[p]) /\ BatchSaid(batch'[p]) = {}
        BY <2>1, <2>6
      <3>3. todo'[p] = todo[p] /\ rows'[job'[p]] = rows[j] /\ faults' # 0
        BY <2>1, <2>4, <2>8
      <3>4. Splits(p)'
        BY <3>1, <3>2, <3>3 DEF Splits
      <3>5. WorkerReports(p)'
        BY <2>1, <3>4 DEF WorkerReports
      <3>6. QED
        BY <1>6, <2>1, <2>8, <3>5
    <2>9. QED
      BY <2>1, <2>7, <2>8
  <1>17. CASE PanicOutcome(p)
    <2> DEFINE b == [EmptyBatch EXCEPT !.failed = <<[uid |-> NoUID, reason |-> "worker_panic"]>>]
    <2>1. b \in Batch /\ BatchExact(b) /\ BatchSaid(b) = {}
      BY EmptyBatchTyped, NothingReported
    <2>2. rows' = rows \/ rows' = [rows EXCEPT ![j] = Appended(@, b)]
      BY <1>17 DEF PanicOutcome
    <2> HIDE DEF b
    <2>3. UNCHANGED <<queue, job>> /\ worker'[p] = "panicComplete" /\ Busy(p)
      BY <1>0, <1>17 DEF PanicOutcome, Goto, Busy
    <2>4. QED
      BY <1>6, <1>7, <1>15, <2>1, <2>2, <2>3
  <1>18. QED
    BY <1>9, <1>10, <1>11, <1>12, <1>13, <1>14, <1>16, <1>17 DEF Worker

\* The processes, the clients and the cluster: they add nothing to a row.
LEMMA OtherReports ==
    ASSUME TypeOK, HasJob, Reports,
           \/ \E p \in Procs : Process(p) \/ Crash(p) \/ Sigterm(p) \/ CacheExpires(p)
           \/ \E r \in Requests : Disconnect(r) \/ Cleanup(r)
           \/ \E n \in Names : Delete(n) \/ Create(n)
           \/ UNCHANGED vars
    PROVE  RowsReport' /\ \A q \in Procs : WorkerReports(q)'
  <1>0. /\ TypedStore /\ TypedBounds /\ rows \in [Requests -> Row]
        /\ worker \in [Procs -> Places] /\ job \in [Procs -> Requests \cup {NoJob}]
        /\ todo \in [Procs -> SUBSET UID] /\ batch \in [Procs -> Batch]
        /\ queue \in [Procs -> Seq(Requests)] /\ req \in [Requests -> Phases]
    BY TypeParts DEF TypedWorker, TypedStore, TypedProcess, TypedRequests
  <1>1. OnePlace /\ RowsReport /\ \A q \in Procs : WorkerReports(q)
    BY DEF Reports
  <1>2. ASSUME UNCHANGED <<worker, job, todo, batch, req, queue, pins>>, faults' = 0 => faults = 0,
               \A r \in Requests : Same(r)
        PROVE  RowsReport' /\ \A q \in Procs : WorkerReports(q)'
    <2>1. RowsReport'
      BY <1>1, <1>2, RowsStay, UntakenKept DEF RowsReport
    <2>2. ASSUME NEW q \in Procs
          PROVE  WorkerReports(q)'
      <3>1. Busy(q) => Same(job[q])
        BY <1>2 DEF HasJob, Busy
      <3>2. QED
        BY <1>1, <1>2, <3>1, WorkerStays
    <2>3. QED
      BY <2>1, <2>2
  <1>3. ASSUME NEW p \in Procs, Boot(p) \/ Sigterm(p) \/ CacheExpires(p)
        PROVE  RowsReport' /\ \A q \in Procs : WorkerReports(q)'
    BY <1>2, <1>3, RowsUntouched DEF Boot, Sigterm, CacheExpires, workerVars, requestVars
  <1>4. ASSUME NEW p \in Procs, ReapOrphans(p)
        PROVE  RowsReport' /\ \A q \in Procs : WorkerReports(q)'
    <2>1. /\ UNCHANGED <<worker, job, todo, batch, req, queue, pins>>
          /\ UNCHANGED <<stops, panics>> /\ (Works \/ Fails)
          /\ rows' = rows \/ rows' = [r \in Requests |-> Completed(rows[r])]
      BY <1>4 DEF ReapOrphans, workerVars, requestVars
    <2>2. faults' = 0 => faults = 0
      BY <1>0, <2>1, FaultsTyped
    <2>3. ASSUME NEW r \in Requests
          PROVE  Same(r)
      <3>1. rows[r] \in Row /\ (rows'[r] = rows[r] \/ rows'[r] = Completed(rows[r]))
        BY <1>0, <2>1
      <3>2. QED
        BY <3>1 DEF Same, Completed, Row
    <2>4. QED
      BY <1>2, <2>1, <2>2, <2>3
  <1>5. ASSUME NEW p \in Procs, Crash(p) \/ Exit(p)
        PROVE  RowsReport' /\ \A q \in Procs : WorkerReports(q)'
    <2>1. /\ UNCHANGED <<rows, pins, faults>> /\ ~Busy(p)' /\ queue'[p] = <<>>
          /\ req' = [r \in Requests |-> IF home[r] = p /\ req[r] \in InFlight THEN "error"
                                     ELSE req[r]]
      BY <1>0, <1>5 DEF Crash, Exit, Terminate, Busy
    <2>2. \A q \in Procs \ {p} : /\ worker'[q] = worker[q] /\ job'[q] = job[q]
                                 /\ todo'[q] = todo[q] /\ batch'[q] = batch[q]
                                 /\ queue'[q] = queue[q]
      BY <1>0, <1>5 DEF Crash, Exit, Terminate
    <2>3. ~(\E x : In(queue'[p], x))
      <3>1. Len(<<>>) = 0 /\ 1..0 = {}
        OBVIOUS
      <3>2. QED
        BY <2>1, <3>1 DEF In
    <2>4. \A q \in Procs, r \in Requests : In(queue'[q], r) => In(queue[q], r)
      BY <2>2, <2>3
    <2>5. \A r \in Requests : /\ Untaken(r)' => Untaken(r)
                              /\ req'[r] = "idle" => req[r] = "idle"
      BY <1>0, <2>1, <2>4 DEF Untaken, In, InFlight
    <2>6. \A r \in Requests : Same(r)
      BY <2>1, RowsUntouched
    <2>7. RowsReport'
      BY <1>1, <2>1, <2>5, <2>6, RowsStay DEF RowsReport
    <2>8. WorkerReports(p)'
      BY <2>1 DEF WorkerReports, Busy
    <2>9. \A q \in Procs \ {p} : WorkerReports(q)'
      BY <2>1, <2>2, <2>6, OthersReport
    <2>10. QED
      BY <2>7, <2>8, <2>9
  <1>6. ASSUME NEW r \in Requests, Disconnect(r)
        PROVE  RowsReport' /\ \A q \in Procs : WorkerReports(q)'
    BY <1>2, <1>6, RowsUntouched DEF Disconnect, workerVars
  <1>7. ASSUME NEW r \in Requests, Cleanup(r)
        PROVE  RowsReport' /\ \A q \in Procs : WorkerReports(q)'
    <2>1. \A s \in Requests : Same(s)
      BY <1>0, <1>7, CompletedSame DEF Cleanup
    <2>2. QED
      BY <1>2, <1>7, <2>1 DEF Cleanup, workerVars, requestVars
  <1>8. ASSUME NEW n \in Names, Delete(n) \/ Create(n)
        PROVE  RowsReport' /\ \A q \in Procs : WorkerReports(q)'
    BY <1>2, <1>8, RowsUntouched DEF Delete, Create, workerVars, requestVars
  <1>9. CASE UNCHANGED vars
    BY <1>2, <1>9, RowsUntouched DEF vars, workerVars, requestVars
  <1>10. QED
    BY <1>3, <1>4, <1>5, <1>6, <1>7, <1>8, <1>9 DEF Process

LEMMA ReportsInit == Init => Reports
  <1> SUFFICES ASSUME Init
               PROVE  Reports
    OBVIOUS
  <1>1. OnePlace
    <2>1. Len(<<>>) = 0 /\ 1..0 = {}
      OBVIOUS
    <2>2. QED
      BY <2>1 DEF Init, OnePlace, Busy, In, Distinct
  <1>2. RowsReport
    BY NothingReported DEF Init, RowsReport
  <1>3. \A p \in Procs : WorkerReports(p)
    BY DEF Init, WorkerReports
  <1>4. QED
    BY <1>1, <1>2, <1>3 DEF Reports

LEMMA ReportsStep == IInv /\ Reports /\ [Next]_vars => Reports'
  <1> SUFFICES ASSUME IInv, Reports, [Next]_vars
               PROVE  Reports'
    OBVIOUS
  <1>1. TypeOK /\ HasJob /\ Down
    BY DEF IInv
  <1>2. OnePlace'
    BY <1>1, StepShapes, OnePlaceStep DEF Reports
  <1>3. RowsReport' /\ \A p \in Procs : WorkerReports(p)'
    <2>1. CASE \/ \E r \in Requests : Handler(r)
               \/ \E r \in Requests, p \in Procs : GetScope(r, p) \/ Post(r, p)
      BY <1>1, <2>1, RequestReports
    <2>2. CASE \E p \in Procs : Worker(p) \/ Panic(p)
      BY <1>1, <2>2, WorkerReportsStep
    <2>3. CASE \/ \E p \in Procs : Process(p) \/ Crash(p) \/ Sigterm(p) \/ CacheExpires(p)
               \/ \E r \in Requests : Disconnect(r) \/ Cleanup(r)
               \/ \E n \in Names : Delete(n) \/ Create(n)
               \/ UNCHANGED vars
      BY <1>1, <2>3, OtherReports
    <2>4. QED
      BY <2>1, <2>2, <2>3 DEF Next, Environment
  <1>4. QED
    BY <1>2, <1>3 DEF Reports

\* What the arrays of a row say, taken together.
LEMMA ReportedIsExact ==
    ASSUME NEW row \in Row, RowExact(row)
    PROVE  /\ Once(Reported(row))
           /\ RowSaid(row) \subseteq {Reported(row)[i] : i \in 1..Len(Reported(row))}
  <1> DEFINE s == row.succeeded
             f == Uids(row.failed.items)
             k == Uids(row.skipped.items)
  <1>1. s \in Seq(UID) /\ row.failed.items \in Seq(Outcome) /\ row.skipped.items \in Seq(Outcome)
    BY DEF Row, Json
  <1>2. s \in Seq(NamedUID) /\ f \in Seq(NamedUID) /\ k \in Seq(NamedUID)
    BY <1>1, SeqMonotonic, UidsTyped DEF NamedUID
  <1>3. Reported(row) = s \o f \o k
    BY DEF Reported, Uids
  <1>4. /\ Once(s) /\ Once(f) /\ Once(k)
        /\ Said(s) \cap Said(f) = {} /\ Said(s) \cap Said(k) = {} /\ Said(f) \cap Said(k) = {}
        /\ RowSaid(row) = Said(s) \cup Said(f) \cup Said(k)
    BY DEF RowExact, Exact, RowSaid
  <1> HIDE DEF s, f, k
  <1>5. s \o f \in Seq(NamedUID) /\ Once(s \o f) /\ Said(s \o f) = Said(s) \cup Said(f)
    BY <1>2, <1>4, SaidConcat
  <1> DEFINE first == s \o f
             all == first \o k
  <1>6. first \in Seq(NamedUID) /\ Once(first) /\ Said(first) \cap Said(k) = {}
    BY <1>4, <1>5
  <1> HIDE DEF first
  <1>7. Once(all) /\ Said(all) = Said(first) \cup Said(k)
    BY <1>2, <1>4, <1>6, SaidConcat
  <1>8. Reported(row) = all
    BY <1>3 DEF first
  <1> HIDE DEF all
  <1>9. RowSaid(row) = Said(all)
    BY <1>4, <1>5, <1>7 DEF first
  <1>10. Said(all) \subseteq {all[i] : i \in 1..Len(all)}
    BY DEF Said
  <1>11. QED
    BY <1>7, <1>8, <1>9, <1>10

LEMMA ReportsAreIt == IInv /\ Reports => ReportIsExact
  <1> SUFFICES ASSUME IInv, Reports
               PROVE  ReportIsExact
    OBVIOUS
  <1>1. rows \in [Requests -> Row] /\ HasJob
    BY TypeParts DEF IInv, TypedStore
  <1>2. ASSUME NEW r \in Requests
        PROVE  /\ Once(Reported(rows[r]))
               /\ RowSaid(rows[r]) \subseteq {Reported(rows[r])[i] : i \in 1..Len(Reported(rows[r]))}
    BY <1>1, ReportedIsExact DEF Reports, RowsReport
  <1>3. ASSUME NEW r \in Requests,
               NEW i \in 1..Len(Reported(rows[r])), NEW j \in 1..Len(Reported(rows[r])),
               i # j, Reported(rows[r])[i] = Reported(rows[r])[j]
        PROVE  Reported(rows[r])[i] = NoUID
    BY <1>2, <1>3 DEF Once
  <1>4. ASSUME NEW p \in Procs, worker[p] = "audit", faults = 0
        PROVE  rows[job[p]].targets \subseteq
                   {Reported(rows[job[p]])[i] : i \in 1..Len(Reported(rows[job[p]]))}
    <2>1. job[p] \in Requests /\ rows[job[p]].targets \subseteq RowSaid(rows[job[p]])
      BY <1>1, <1>4 DEF HasJob, Reports, WorkerReports
    <2>2. QED
      BY <1>2, <2>1
  <1>5. QED
    BY <1>3, <1>4 DEF ReportIsExact

\* No target is reported twice, whatever crashes, panics and fails; and once the
\* worker has completed a row, every target of the job is in one of its arrays,
\* if no write to the database has failed (processJob, AppendOutcomes).
THEOREM ReportsAreExact == Spec => []ReportIsExact
  <1>1. Init => IInv /\ Reports
    BY IInvInit, ReportsInit
  <1>2. (IInv /\ Reports) /\ [Next]_vars => (IInv /\ Reports)'
    BY IInvStep, ReportsStep
  <1>3. IInv /\ Reports => ReportIsExact
    BY ReportsAreIt
  <1>4. QED
    BY <1>1, <1>2, <1>3, PTL DEF Spec

=============================================================================
