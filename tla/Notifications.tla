---------------------------- MODULE Notifications ----------------------------
(***************************************************************************)
(* The notification centre.  Any goroutine calls Emit, which looks for a   *)
(* recent row of the same event, inserts one and offers it to a bounded    *)
(* queue.  One dispatcher takes rows from the queue and, by a snapshot of  *)
(* the cached rules and channels, starts a sending for each rule that      *)
(* matches, as many at once as a semaphore allows.  Administrators write   *)
(* rules and channels to the database and refresh the cache after every    *)
(* write; two such refreshes may interleave.  Once a day a digest of the   *)
(* rows since the last one goes to each e-mail channel.                    *)
(*                                                                         *)
(* An event stands for what Emit tells apart: source, kind, namespace,     *)
(* name and title, and has a severity.  A rule filters by source and by    *)
(* severity, and an empty filter passes all.  Disabling a rule is deleting *)
(* it.  last_error is only shown and is left out.                          *)
(***************************************************************************)
EXTENDS Naturals, Sequences, FiniteSets

CONSTANTS Events,      \* what may happen
          Sources,     \* where it comes from,
          Severities,  \* and how bad it is
          SourceOf,
          SeverityOf,
          Audit,       \* the events of the audit source
          Emitters,    \* the goroutines that call Emit
          Admins,      \* the administrators' requests
          Boot,        \* the refresh of Start
          Chats,       \* Slack, webhook and push channels
          Mails,       \* e-mail channels
          Rules,       \* the rules there may be: [ch, sources, severities]
          QueueSize,   \* queueSize
          Semaphore,   \* semaphoreSize
          Window,      \* dedupWindow
          Day,         \* the time between two digests, and how far back a first one looks
          Limit,       \* the rows NotificationsSince returns at most
          MaxTime,     \* bound on the clock
          MaxRows,     \* bound on the rows ever inserted
          MaxWrites,   \* bound on the administrators' writes
          MaxFaults    \* bound on failed database calls, refused mails and stops

Channels == Chats \cup Mails

ASSUME NotificationsAssumption ==
    /\ Audit \subseteq Events
    /\ IsFiniteSet(Emitters)
    /\ Boot \notin Admins
    /\ Chats \cap Mails = {}
    /\ SourceOf \in [Events -> Sources]
    /\ SeverityOf \in [Events -> Severities]
    /\ Rules \subseteq [ch: Channels, sources: SUBSET Sources, severities: SUBSET Severities]
    /\ {QueueSize, Semaphore, Window, Day, Limit} \subseteq Nat \ {0}
    /\ MaxTime \in Nat \ {0}
    /\ {MaxRows, MaxWrites, MaxFaults} \subseteq Nat

VARIABLES clock,     \* the time
          rows,      \* nc_notifications, in the order of insertion
          config,    \* nc_rules and nc_channels, with last_sent_at
          cache,     \* the service's copy: rules and channels
          phase,     \* down, booting or up
          emitter,   \* where each call of Emit is
          queue,     \* rows on their way to the dispatcher
          router,    \* dispatchToChannels: the row and the rules left to serve
          sending,   \* the sendings under way
          slots,     \* what the semaphore has given out
          admin,     \* where each refresh is
          digest,    \* where sendDigests is
          lastRun,   \* when the digests were last begun
          writes,    \* writes so far
          faults,    \* faults so far
          unchecked, \* how often the search for a recent row failed: history
          deleted,   \* channels deleted; their identifiers never come back: history
          gone,      \* those of them that were refreshed out of the cache: history
          passed,    \* rows a channel's digests passed over, by reason: history
          mailed     \* rows that were mailed, and those mailed twice: history

serviceVars == <<cache, emitter, queue, router, sending, slots, admin, digest>>
history == <<unchecked, deleted, gone, passed, mailed>>
vars == <<clock, rows, config, phase, serviceVars, lastRun, writes, faults, history>>

-----------------------------------------------------------------------------

Rows == 1 .. MaxRows

Refreshers == Admins \cup {Boot}

\* last_sent_at is NULL, 0, or before the row to be inserted next.
NoRules == [rules |-> {}, channels |-> {}, sent |-> [m \in Mails |-> 0]]

Configs == [rules: SUBSET Rules, channels: SUBSET Channels, sent: [Mails -> 0 .. MaxRows + 1]]

Resting == [pc |-> "idle"]

\* Why a digest does not mail a row that comes before the last_sent_at it sets:
\* the channel's filters keep it out; the query left it out for newer ones; it
\* came after the query; it is older than a first digest looks back; or the
\* digest that had it was not mailed.
Reasons == {"unwanted", "cut", "late", "old", "unmailed"}

TypeOK ==
    /\ clock \in 1 .. MaxTime
    /\ rows \in Seq([event: Events, at: 1 .. MaxTime]) /\ Len(rows) <= MaxRows
    /\ config \in Configs
    /\ cache \in Configs
    /\ \A r \in config.rules : r.ch \in config.channels
    /\ phase \in {"down", "booting", "up"}
    /\ emitter \in [Emitters -> {Resting} \cup [pc: {"checking", "inserting"}, event: Events]
                                    \cup [pc: {"enqueuing"}, row: Rows]]
    /\ queue \in Seq(Rows) /\ Len(queue) <= QueueSize
    /\ router \in {Resting} \cup [pc: {"routing"}, row: Rows, todo: SUBSET Rules]
    /\ sending \subseteq [row: Rows, rule: Rules]
    /\ slots \in 0 .. Semaphore
    /\ admin \in [Refreshers -> {Resting}
           \cup [pc: {"rules"}, alone: BOOLEAN]
           \cup [pc: {"channels"}, alone: BOOLEAN, rules: SUBSET Rules]
           \cup [pc: {"storing"}, alone: BOOLEAN, read: Configs]]
    /\ digest \in {Resting} \cup [pc: {"next"}, todo: SUBSET Mails, from: Configs]
           \cup [pc: {"marking", "mailing"}, todo: SUBSET Mails, from: Configs, ch: Mails,
                 rows: SUBSET Rows, upTo: 0 .. MaxRows]
    /\ lastRun \in 0 .. MaxTime
    /\ writes \in 0 .. MaxWrites
    /\ faults \in 0 .. MaxFaults
    /\ unchecked \in 0 .. MaxFaults
    /\ deleted \subseteq Channels
    /\ gone \subseteq deleted
    /\ passed \in [Mails -> [Reasons -> SUBSET Rows]]
    /\ mailed \in [Mails -> [once: SUBSET Rows, twice: SUBSET Rows]]

Init ==
    /\ clock = 1
    /\ rows = << >>
    /\ config \in {c \in [rules: SUBSET Rules, channels: SUBSET Channels, sent: {NoRules.sent}] :
                       \A r \in c.rules : r.ch \in c.channels}
    /\ cache = NoRules
    /\ phase = "down"
    /\ emitter = [e \in Emitters |-> Resting]
    /\ queue = << >>
    /\ router = Resting
    /\ sending = {}
    /\ slots = 0
    /\ admin = [a \in Refreshers |-> Resting]
    /\ digest = Resting
    /\ lastRun = 0
    /\ writes = 0
    /\ faults = 0
    /\ unchecked = 0
    /\ deleted = {}
    /\ gone = {}
    /\ passed = [m \in Mails |-> [w \in Reasons |-> {}]]
    /\ mailed = [m \in Mails |-> [once |-> {}, twice |-> {}]]

\* The digests of a day are done before the next one.
Tick ==
    /\ clock < MaxTime
    /\ digest = Resting
    /\ clock' = clock + 1
    /\ UNCHANGED <<rows, config, phase, serviceVars, lastRun, writes, faults, history>>

Fault == faults < MaxFaults /\ faults' = faults + 1

-----------------------------------------------------------------------------
(* The process.                                                            *)

\* Start refreshes the cache before it starts the dispatcher and the digests,
\* and the callers of Emit and the HTTP server come after it.
Start ==
    /\ phase = "down"
    /\ phase' = "booting"
    /\ admin' = [admin EXCEPT ![Boot] = [pc |-> "rules", alone |-> TRUE]]
    /\ UNCHANGED <<clock, rows, config, cache, emitter, queue, router, sending, slots,
                   digest, lastRun, writes, faults, history>>

Ready ==
    /\ phase = "booting"
    /\ admin[Boot] = Resting
    /\ phase' = "up"
    /\ UNCHANGED <<clock, rows, config, serviceVars, lastRun, writes, faults, history>>

Unmailed == [passed EXCEPT ![digest.ch]["unmailed"] = @ \cup digest.rows]

\* The context ends, or the process dies: what is not in the database is gone.
Stop ==
    /\ phase = "up"
    /\ Fault
    /\ phase' = "down"
    /\ cache' = NoRules
    /\ emitter' = [e \in Emitters |-> Resting]
    /\ queue' = << >>
    /\ router' = Resting
    /\ sending' = {}
    /\ slots' = 0
    /\ admin' = [a \in Refreshers |-> Resting]
    /\ digest' = Resting
    /\ passed' = IF digest.pc = "mailing" THEN Unmailed ELSE passed
    /\ UNCHANGED <<clock, rows, config, lastRun, writes, unchecked, deleted, gone, mailed>>

-----------------------------------------------------------------------------
(* Emit.                                                                   *)

Emitting == <<clock, config, phase, cache, router, sending, slots, admin, digest, lastRun,
              writes>>

\* What comes from the audit log is not looked for among the recent rows.
Call(e, ev) ==
    /\ phase = "up"
    /\ emitter[e] = Resting
    /\ Len(rows) < MaxRows
    /\ emitter' = [emitter EXCEPT ![e] =
           [pc |-> IF ev \in Audit THEN "inserting" ELSE "checking", event |-> ev]]
    /\ UNCHANGED <<Emitting, rows, queue, faults, history>>

\* MUTANT of Recent: the comparison with the window is turned round.
RecentExpired(ev) == \E i \in DOMAIN rows : rows[i].event = ev /\ rows[i].at + Window < clock

\* DedupExists.
Recent(ev) == \E i \in DOMAIN rows : rows[i].event = ev /\ rows[i].at + Window > clock

Check(e) ==
    /\ emitter[e].pc = "checking"
    /\ emitter' = [emitter EXCEPT ![e] =
           IF Recent(@.event) THEN Resting ELSE [@ EXCEPT !.pc = "inserting"]]
    /\ UNCHANGED <<Emitting, rows, queue, faults, history>>

\* Better to duplicate than to drop.
CheckFails(e) ==
    /\ emitter[e].pc = "checking"
    /\ Fault
    /\ emitter' = [emitter EXCEPT ![e].pc = "inserting"]
    /\ unchecked' = unchecked + 1
    /\ UNCHANGED <<Emitting, rows, queue, deleted, gone, passed, mailed>>

\* persistAndBroadcast; an audit row goes no further.
Insert(e) ==
    /\ emitter[e].pc = "inserting"
    /\ Len(rows) < MaxRows
    /\ rows' = Append(rows, [event |-> emitter[e].event, at |-> clock])
    /\ emitter' = [emitter EXCEPT ![e] =
           IF @.event \in Audit THEN Resting ELSE [pc |-> "enqueuing", row |-> Len(rows) + 1]]
    /\ UNCHANGED <<Emitting, queue, faults, history>>

InsertFails(e) ==
    /\ emitter[e].pc = "inserting"
    /\ Fault
    /\ emitter' = [emitter EXCEPT ![e] = Resting]
    /\ UNCHANGED <<Emitting, rows, queue, history>>

\* MUTANT of Enqueue: the row goes into the queue whether or not there is
\* room.
EnqueueAlways(e) ==
    /\ emitter[e].pc = "enqueuing"
    /\ queue' = Append(queue, emitter[e].row)
    /\ emitter' = [emitter EXCEPT ![e] = Resting]
    /\ UNCHANGED <<Emitting, rows, faults, history>>

\* A full queue drops the row.
Enqueue(e) ==
    /\ emitter[e].pc = "enqueuing"
    /\ queue' = IF Len(queue) < QueueSize THEN Append(queue, emitter[e].row) ELSE queue
    /\ emitter' = [emitter EXCEPT ![e] = Resting]
    /\ UNCHANGED <<Emitting, rows, faults, history>>

-----------------------------------------------------------------------------
(* The dispatcher.                                                         *)

Dispatching == <<clock, rows, config, cache, phase, emitter, admin, digest, lastRun, writes,
                 faults, history>>

\* ruleMatches; an empty filter passes all.
Passes(filter, ev) ==
    /\ filter.sources = {} \/ SourceOf[ev] \in filter.sources
    /\ filter.severities = {} \/ SeverityOf[ev] \in filter.severities

\* The rules that match and whose channel is there and is no e-mail channel.
Targets(row) ==
    {r \in cache.rules : Passes(r, rows[row].event) /\ r.ch \in cache.channels \cap Chats}

Take ==
    /\ phase = "up"
    /\ router = Resting
    /\ queue # << >>
    /\ queue' = Tail(queue)
    /\ router' = [pc |-> "routing", row |-> Head(queue), todo |-> Targets(Head(queue))]
    /\ UNCHANGED <<Dispatching, sending, slots>>

\* A sending starts as soon as the semaphore has room for it.
Send(rule) ==
    /\ router.pc = "routing"
    /\ rule \in router.todo
    /\ slots < Semaphore
    /\ slots' = slots + 1
    /\ sending' = sending \cup {[row |-> router.row, rule |-> rule]}
    /\ router' = [router EXCEPT !.todo = @ \ {rule}]
    /\ UNCHANGED <<Dispatching, queue>>

Routed ==
    /\ router.pc = "routing"
    /\ router.todo = {}
    /\ router' = Resting
    /\ UNCHANGED <<Dispatching, queue, sending, slots>>

\* MUTANT of SendEnds: a failed sending keeps its place.
SendEndsKeepsSlot(s) ==
    /\ s \in sending
    /\ sending' = sending \ {s}
    /\ slots' \in {slots, slots - 1}
    /\ UNCHANGED <<Dispatching, queue, router>>

\* A sending succeeds, fails or times out, and none is tried again.
SendEnds(s) ==
    /\ s \in sending
    /\ sending' = sending \ {s}
    /\ slots' = slots - 1
    /\ UNCHANGED <<Dispatching, queue, router>>

-----------------------------------------------------------------------------
(* Rules and channels.                                                     *)

Administering == <<clock, rows, phase, emitter, queue, router, sending, slots, digest, lastRun>>

Busy == {a \in Refreshers : admin[a] # Resting}

\* A handler writes; its refresh comes next, alone if no other is under way.
Write(a, c) ==
    /\ phase = "up"
    /\ admin[a] = Resting
    /\ writes < MaxWrites
    /\ writes' = writes + 1
    /\ config' = c
    /\ admin' = [b \in Refreshers |->
           CASE b = a -> [pc |-> "rules", alone |-> Busy = {}]
             [] b \in Busy -> [admin[b] EXCEPT !.alone = FALSE]
             [] OTHER -> admin[b]]
    /\ UNCHANGED <<Administering, cache, faults, unchecked, gone, passed, mailed>>

CreateChannel(a, ch) ==
    /\ ch \notin config.channels \cup deleted
    /\ Write(a, [config EXCEPT !.channels = @ \cup {ch}])
    /\ UNCHANGED deleted

\* The rules of a channel go with it.
DeleteChannel(a, ch) ==
    /\ ch \in config.channels
    /\ Write(a, [config EXCEPT !.channels = @ \ {ch},
                               !.rules = {r \in @ : r.ch # ch}])
    /\ deleted' = deleted \cup {ch}

CreateRule(a, r) ==
    /\ r \notin config.rules
    /\ r.ch \in config.channels
    /\ Write(a, [config EXCEPT !.rules = @ \cup {r}])
    /\ UNCHANGED deleted

UpdateRule(a, r, s) ==
    /\ r \in config.rules
    /\ s \notin config.rules
    /\ s.ch \in config.channels
    /\ Write(a, [config EXCEPT !.rules = (@ \ {r}) \cup {s}])
    /\ UNCHANGED deleted

DeleteRule(a, r) ==
    /\ r \in config.rules
    /\ Write(a, [config EXCEPT !.rules = @ \ {r}])
    /\ UNCHANGED deleted

\* refreshCache: two queries, and then the assignment under the lock.
ReadRules(a) ==
    /\ admin[a].pc = "rules"
    /\ admin' = [admin EXCEPT ![a] =
           [pc |-> "channels", alone |-> @.alone, rules |-> config.rules]]
    /\ UNCHANGED <<Administering, config, cache, writes, faults, history>>

ReadChannels(a) ==
    /\ admin[a].pc = "channels"
    /\ admin' = [admin EXCEPT ![a] =
           [pc |-> "storing", alone |-> @.alone, read |-> [config EXCEPT !.rules = admin[a].rules]]]
    /\ UNCHANGED <<Administering, config, cache, writes, faults, history>>

\* A query fails, or the administrator's request has ended.
ReadFails(a) ==
    /\ admin[a].pc \in {"rules", "channels"}
    /\ Fault
    /\ admin' = [admin EXCEPT ![a] = Resting]
    /\ UNCHANGED <<Administering, config, cache, writes, history>>

\* MUTANT of Store: what was read is never assigned.
StoreNothing(a) ==
    /\ admin[a].pc = "storing"
    /\ admin' = [admin EXCEPT ![a] = Resting]
    /\ gone' = IF admin[a].alone THEN deleted ELSE {}
    /\ cache' = IF phase = "booting" THEN admin[a].read ELSE cache
    /\ UNCHANGED <<Administering, config, writes, faults, unchecked, deleted, passed, mailed>>

Store(a) ==
    /\ admin[a].pc = "storing"
    /\ cache' = admin[a].read
    /\ admin' = [admin EXCEPT ![a] = Resting]
    /\ gone' = IF admin[a].alone THEN deleted ELSE {}
    /\ UNCHANGED <<Administering, config, writes, faults, unchecked, deleted, passed, mailed>>

-----------------------------------------------------------------------------
(* The digests.                                                            *)

Digesting == <<clock, rows, phase, cache, emitter, queue, router, sending, slots, admin,
               writes, unchecked, deleted, gone>>

\* 08:00, once a day: the channels and rules of this moment are served one after
\* another.
DigestTime ==
    /\ phase = "up"
    /\ digest = Resting
    /\ clock % Day = 0 /\ lastRun < clock
    /\ lastRun' = clock
    /\ digest' = [pc |-> "next", todo |-> cache.channels \cap Mails, from |-> cache]
    /\ UNCHANGED <<Digesting, config, faults, passed, mailed>>

RulesOf(m) == {r \in digest.from.rules : r.ch = m}

\* What a channel's digest is filtered by: the sources of all of its rules and
\* the severities of all of its rules, each filter on its own.
Filter(m) == [sources    |-> UNION {r.sources : r \in RulesOf(m)},
              severities |-> UNION {r.severities : r \in RulesOf(m)}]

\* MUTANT of Since: later than the first row after the last digest.
SinceAfter(m) ==
    {i \in DOMAIN rows : IF digest.from.sent[m] # 0 THEN i > digest.from.sent[m]
                                                     ELSE rows[i].at + Day > clock}

\* The rows a channel's digest is made of, from when the cache says the last one
\* was sent, or of the last day ...
Since(m) ==
    {i \in DOMAIN rows : IF digest.from.sent[m] # 0 THEN i >= digest.from.sent[m]
                                                     ELSE rows[i].at + Day > clock}

\* ... that pass the filter ...
Wanted(m) == {i \in Since(m) : Passes(Filter(m), rows[i].event)}

\* ... and of those the newest that the limit allows.
Newest(S) == {i \in S : Cardinality({j \in S : j > i}) < Limit}

\* NotificationsSince.
Query(m) ==
    /\ digest.pc = "next"
    /\ m \in digest.todo
    /\ digest' = [pc |-> "marking", todo |-> digest.todo \ {m}, from |-> digest.from, ch |-> m,
                  rows |-> Newest(Wanted(m)), upTo |-> Len(rows)]
    /\ UNCHANGED <<Digesting, lastRun, config, faults, passed, mailed>>

QueryFails(m) ==
    /\ digest.pc = "next"
    /\ m \in digest.todo
    /\ Fault
    /\ digest' = [digest EXCEPT !.todo = @ \ {m}]
    /\ UNCHANGED <<Digesting, lastRun, config, passed, mailed>>

\* What this digest passes over, and why.
Skipped(m) ==
    LET seen == {i \in DOMAIN rows : i <= digest.upTo}
    IN  [unwanted |-> (seen \cap Since(m)) \ Wanted(m),
         cut      |-> (seen \cap Wanted(m)) \ digest.rows,
         late     |-> DOMAIN rows \ seen,
         old      |-> IF digest.from.sent[m] = 0 THEN seen \ Since(m) ELSE {},
         unmailed |-> {}]

\* UpdateChannelLastSent, also for an empty digest.
Mark ==
    LET m == digest.ch
    IN  /\ digest.pc = "marking"
        /\ digest' = [digest EXCEPT !.pc = "mailing"]
        /\ IF m \in config.channels
           THEN /\ config' = [config EXCEPT !.sent[m] = Len(rows) + 1]
                /\ passed' = [passed EXCEPT ![m] =
                       [w \in Reasons |-> @[w] \cup Skipped(m)[w]]]
           ELSE UNCHANGED <<config, passed>>
        /\ UNCHANGED <<Digesting, lastRun, faults, mailed>>

\* The error is only logged.
MarkFails ==
    /\ digest.pc = "marking"
    /\ Fault
    /\ digest' = [digest EXCEPT !.pc = "mailing"]
    /\ UNCHANGED <<Digesting, lastRun, config, passed, mailed>>

NextMail == [pc |-> "next", todo |-> digest.todo, from |-> digest.from]

\* QueueEmail; there is no mail about nothing.
Mail ==
    /\ digest.pc = "mailing"
    /\ digest' = NextMail
    /\ mailed' = [mailed EXCEPT ![digest.ch] =
           [once |-> @.once \cup digest.rows, twice |-> @.twice \cup (@.once \cap digest.rows)]]
    /\ UNCHANGED <<Digesting, lastRun, config, faults, passed>>

MailRefused ==
    /\ digest.pc = "mailing"
    /\ Fault
    /\ digest' = NextMail
    /\ passed' = Unmailed
    /\ UNCHANGED <<Digesting, lastRun, config, mailed>>

DigestsDone ==
    /\ digest.pc = "next"
    /\ digest.todo = {}
    /\ digest' = Resting
    /\ UNCHANGED <<Digesting, lastRun, config, faults, passed, mailed>>

-----------------------------------------------------------------------------

EmitStep(e) ==
    \/ \E ev \in Events : Call(e, ev)
    \/ Check(e)
    \/ CheckFails(e)
    \/ Insert(e)
    \/ InsertFails(e)
    \/ Enqueue(e)

Edit(a) ==
    \/ \E ch \in Channels : CreateChannel(a, ch) \/ DeleteChannel(a, ch)
    \/ \E r \in Rules : CreateRule(a, r) \/ DeleteRule(a, r)
    \/ \E r, s \in Rules : UpdateRule(a, r, s)

Refresh(a) == ReadRules(a) \/ ReadChannels(a) \/ ReadFails(a) \/ Store(a)

Router == Take \/ Routed \/ \E r \in Rules : Send(r)

DigestStep ==
    \/ DigestTime
    \/ \E m \in Mails : Query(m) \/ QueryFails(m)
    \/ Mark
    \/ MarkFails
    \/ Mail
    \/ MailRefused
    \/ DigestsDone

Next ==
    \/ Tick
    \/ Start
    \/ Ready
    \/ Stop
    \/ \E e \in Emitters : EmitStep(e)
    \/ Router
    \/ \E s \in sending : SendEnds(s)
    \/ \E a \in Admins : Edit(a)
    \/ \E a \in Refreshers : Refresh(a)
    \/ DigestStep

Spec == Init /\ [][Next]_vars

\* The dispatcher is a goroutine of its own, and a sending has a timeout.
Fairness ==
    /\ WF_vars(Router)
    /\ \A s \in [row: Rows, rule: Rules] : WF_vars(SendEnds(s))

FairSpec == Spec /\ Fairness

-----------------------------------------------------------------------------
(* Properties.                                                             *)

\* Two calls of Emit may both find no recent row before either inserts one, so
\* the window does not hold one row of an event; but it never holds more than
\* there are callers, and one for each search that failed.
FewDuplicates ==
    \A ev \in Events \ Audit :
        Cardinality({i \in DOMAIN rows : rows[i].event = ev /\ rows[i].at + Window > clock})
            <= Cardinality(Emitters) + unchecked

\* A row taken from the queue after a channel's deletion and the refresh behind
\* it does not go to that channel, whatever other refreshes failed, unless one
\* that began before has put it back.
DeletedGetsNothing ==
    [][router = Resting /\ router' # Resting =>
           \A r \in router'.todo : r.ch \notin gone]_vars

\* What was mailed to a channel, is about to be, or was passed over.
Accounted(m) ==
    mailed[m].once \cup (UNION {passed[m][w] : w \in Reasons})
        \cup (IF digest.pc = "mailing" /\ digest.ch = m THEN digest.rows ELSE {})

\* A digest works from a copy of last_sent_at that may be old, and so may mail a
\* row again, but it passes none over because of it: every row before last_sent_at
\* was mailed to the channel, or a digest had one of the Reasons not to.  The
\* reasons are the code's and not all of them are harmless: the limit of the
\* query leaves out the oldest rows of a busy day, a refused mail is not sent
\* again, and a row that comes between a query and its mark is in no digest.
NeverSkips ==
    \A m \in Mails :
        {i \in Rows : i < config.sent[m] \/ i < cache.sent[m]} \subseteq Accounted(m)

InTransit(i) ==
    \/ \E k \in DOMAIN queue : queue[k] = i
    \/ router # Resting /\ router.row = i
    \/ \E s \in sending : s.row = i

\* What was queued is dispatched to its end, also when every sending fails and
\* the semaphore is small, unless the process stops.
QueueDrains == \A i \in Rows : InTransit(i) ~> ~InTransit(i)

\* "{{len .}} notifications since last digest": no row is mailed twice to a
\* channel.
MailedOnce == \A m \in Mails : mailed[m].twice = {}

=============================================================================
