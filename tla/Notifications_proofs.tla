------------------------ MODULE Notifications_proofs -------------------------
(***************************************************************************)
(* Proofs about Notifications: the types, that each row is in one place on *)
(* its way through the dispatcher, how many rows of an event the window    *)
(* may hold, that a deleted channel gets nothing once it is refreshed away *)
(* and that the digests pass no row over.                                  *)
(***************************************************************************)
EXTENDS Notifications, FiniteSetTheorems, SequenceTheorems, TLAPS

-----------------------------------------------------------------------------
(* The parts of the type invariant, by who writes them.                    *)

Calls == {Resting} \cup [pc: {"checking", "inserting"}, event: Events]
                   \cup [pc: {"enqueuing"}, row: Rows]

Routes == {Resting} \cup [pc: {"routing"}, row: Rows, todo: SUBSET Rules]

Refreshes == {Resting} \cup [pc: {"rules"}, alone: BOOLEAN]
                       \cup [pc: {"channels"}, alone: BOOLEAN, rules: SUBSET Rules]
                       \cup [pc: {"storing"}, alone: BOOLEAN, read: Configs]

Digests == {Resting} \cup [pc: {"next"}, todo: SUBSET Mails, from: Configs]
                     \cup [pc: {"marking", "mailing"}, todo: SUBSET Mails, from: Configs,
                           ch: Mails, rows: SUBSET Rows, upTo: 0 .. MaxRows]

TypedRows == rows \in Seq([event: Events, at: 1 .. MaxTime]) /\ Len(rows) <= MaxRows

TypedCalls == emitter \in [Emitters -> Calls]

TypedDispatch ==
    /\ queue \in Seq(Rows) /\ Len(queue) <= QueueSize
    /\ router \in Routes
    /\ sending \subseteq [row: Rows, rule: Rules]
    /\ slots \in 0 .. Semaphore

TypedConfig ==
    /\ config \in Configs
    /\ cache \in Configs
    /\ \A r \in config.rules : r.ch \in config.channels
    /\ admin \in [Refreshers -> Refreshes]

TypedDigest ==
    /\ digest \in Digests
    /\ lastRun \in 0 .. MaxTime
    /\ passed \in [Mails -> [Reasons -> SUBSET Rows]]
    /\ mailed \in [Mails -> [once: SUBSET Rows, twice: SUBSET Rows]]

TypedRest ==
    /\ clock \in 1 .. MaxTime
    /\ phase \in {"down", "booting", "up"}
    /\ writes \in 0 .. MaxWrites
    /\ faults \in 0 .. MaxFaults
    /\ unchecked \in 0 .. MaxFaults
    /\ deleted \subseteq Channels
    /\ gone \subseteq deleted

LEMMA TypeParts ==
    TypeOK <=> /\ TypedRows /\ TypedCalls /\ TypedDispatch
               /\ TypedConfig /\ TypedDigest /\ TypedRest
  BY DEF TypeOK, TypedRows, TypedCalls, TypedDispatch, TypedConfig, TypedDigest, TypedRest,
         Calls, Routes, Refreshes, Digests

LEMMA TypePartsNext ==
    TypeOK' <=> /\ TypedRows' /\ TypedCalls' /\ TypedDispatch'
                /\ TypedConfig' /\ TypedDigest' /\ TypedRest'
  BY DEF TypeOK, TypedRows, TypedCalls, TypedDispatch, TypedConfig, TypedDigest, TypedRest,
         Calls, Routes, Refreshes, Digests

-----------------------------------------------------------------------------
(* The inductive invariant.                                                *)

Offers(e) == emitter[e].pc = "enqueuing"

\* The rows the dispatcher has taken, and those that wait for it.
InHand == {s.row : s \in sending} \cup IF router = Resting THEN {} ELSE {router.row}

InQueue == {queue[k] : k \in 1 .. Len(queue)}

\* A row is in one place on its way, and a rule is served once for it.
RowsApart ==
    /\ InHand \cup InQueue \subseteq 1 .. Len(rows)
    /\ InHand \cap InQueue = {}
    /\ \A j, k \in 1 .. Len(queue) : queue[j] = queue[k] => j = k
    /\ \A e \in Emitters :
           Offers(e) => emitter[e].row \in (1 .. Len(rows)) \ (InHand \cup InQueue)
    /\ \A e, f \in Emitters :
           Offers(e) /\ Offers(f) /\ emitter[e].row = emitter[f].row => e = f
    /\ router # Resting =>
           \A r \in router.todo : [row |-> router.row, rule |-> r] \notin sending

\* A search that failed was a fault.
SearchesFailed == unchecked <= faults

\* The semaphore has given out what the sendings hold.
SlotsHeld == IsFiniteSet(sending) /\ slots = Cardinality(sending)

Recents(ev) == {i \in DOMAIN rows : rows[i].event = ev /\ rows[i].at + Window > clock}

Inserters(ev) == {e \in Emitters : emitter[e].pc = "inserting" /\ emitter[e].event = ev}

\* A caller that has passed the search for a recent row counts as a row.
FewTogether ==
    \A ev \in Events \ Audit :
        Cardinality(Recents(ev)) + Cardinality(Inserters(ev)) <= Cardinality(Emitters) + unchecked

\* What is refreshed away does not come back through a refresh that was alone.
Refreshed ==
    /\ config.channels \cap deleted = {}
    /\ cache.channels \cap gone = {}
    /\ \A a \in Refreshers : admin[a].pc = "storing" /\ admin[a].alone =>
           admin[a].read.channels \cap deleted = {}

\* Every row before a last_sent_at, wherever it is kept or was read to, was mailed
\* or passed over for a reason.
AccountedUpTo(sent) == \A m \in Mails : \A i \in Rows : i < sent[m] => i \in Accounted(m)

AccountedBefore ==
    /\ AccountedUpTo(config.sent)
    /\ AccountedUpTo(cache.sent)
    /\ \A a \in Refreshers : admin[a].pc = "storing" => AccountedUpTo(admin[a].read.sent)
    /\ digest # Resting => AccountedUpTo(digest.from.sent)

IInv ==
    /\ TypeOK
    /\ RowsApart
    /\ SlotsHeld
    /\ SearchesFailed
    /\ FewTogether
    /\ Refreshed
    /\ AccountedBefore

-----------------------------------------------------------------------------
(* What the fields of a caller, a route, a refresh and a digest may be.    *)

LEMMA RestingIsIdle == Resting.pc = "idle"
  BY DEF Resting

LEMMA CallAt ==
    ASSUME TypedCalls, NEW e \in Emitters
    PROVE  /\ emitter[e].pc \in {"checking", "inserting"} =>
                  /\ emitter[e] \in [pc: {"checking", "inserting"}, event: Events]
                  /\ emitter[e].event \in Events
           /\ Offers(e) => emitter[e].row \in Rows
           /\ emitter[e].pc \in {"idle", "checking", "inserting", "enqueuing"}
  <1>1. emitter[e] \in Calls
    BY DEF TypedCalls
  <1>2. QED
    BY <1>1, RestingIsIdle DEF Calls, Offers

LEMMA RouteAt ==
    ASSUME TypedDispatch
    PROVE  /\ router.pc = "routing" => router.row \in Rows /\ router.todo \subseteq Rules
           /\ router = Resting <=> router.pc # "routing"
  <1>1. router \in Routes
    BY DEF TypedDispatch
  <1>2. QED
    BY <1>1, RestingIsIdle DEF Routes

LEMMA RefreshAt ==
    ASSUME TypedConfig, NEW a \in Refreshers
    PROVE  /\ admin[a] = Resting <=> admin[a].pc = "idle"
           /\ admin[a].pc \in {"idle", "rules", "channels", "storing"}
           /\ admin[a] # Resting => admin[a].alone \in BOOLEAN
           /\ admin[a].pc = "channels" => admin[a].rules \subseteq Rules
           /\ admin[a].pc = "storing" => admin[a].read \in Configs
  <1>1. admin[a] \in Refreshes
    BY DEF TypedConfig
  <1>2. QED
    BY <1>1, RestingIsIdle DEF Refreshes

LEMMA DigestAt ==
    ASSUME TypedDigest
    PROVE  /\ digest = Resting <=> digest.pc = "idle"
           /\ digest.pc \in {"idle", "next", "marking", "mailing"}
           /\ digest # Resting => digest.todo \subseteq Mails /\ digest.from \in Configs
           /\ digest.pc \in {"marking", "mailing"} =>
                  /\ digest.ch \in Mails /\ digest.rows \subseteq Rows
                  /\ digest.upTo \in 0 .. MaxRows
  <1>1. digest \in Digests
    BY DEF TypedDigest
  <1>2. QED
    BY <1>1, RestingIsIdle DEF Digests

LEMMA BoundTypes ==
    /\ MaxTime \in Nat \ {0} /\ MaxRows \in Nat /\ MaxWrites \in Nat /\ MaxFaults \in Nat
    /\ QueueSize \in Nat \ {0} /\ Semaphore \in Nat \ {0} /\ Window \in Nat \ {0}
    /\ Day \in Nat \ {0}
    /\ Mails \subseteq Channels /\ Audit \subseteq Events
    /\ \A r \in Rules : r.ch \in Channels
    /\ Rows = 1 .. MaxRows
  BY NotificationsAssumption DEF NotificationsAssumption, Channels, Rows

-----------------------------------------------------------------------------
(* What each kind of step leaves alone.                                    *)

LEMMA EmitFrame ==
    ASSUME NEW e \in Emitters, EmitStep(e)
    PROVE  UNCHANGED <<Emitting, deleted, gone, passed, mailed>>
  BY DEF EmitStep, Call, Check, CheckFails, Insert, InsertFails, Enqueue, history

LEMMA DispatchFrame ==
    ASSUME Router \/ \E s \in sending : SendEnds(s)
    PROVE  UNCHANGED Dispatching
  BY DEF Router, Take, Send, Routed, SendEnds

LEMMA EditFrame ==
    ASSUME NEW a \in Admins, Edit(a)
    PROVE  UNCHANGED <<Administering, cache, faults, unchecked, gone, passed, mailed>>
  BY DEF Edit, CreateChannel, DeleteChannel, CreateRule, DeleteRule, UpdateRule, Write

LEMMA RefreshFrame ==
    ASSUME NEW a \in Refreshers, Refresh(a)
    PROVE  UNCHANGED <<Administering, config, writes, unchecked, deleted, passed, mailed>>
  BY DEF Refresh, ReadRules, ReadChannels, ReadFails, Store, history

LEMMA DigestFrame ==
    ASSUME DigestStep
    PROVE  UNCHANGED Digesting
  BY DEF DigestStep, DigestTime, Query, QueryFails, Mark, MarkFails, Mail, MailRefused,
         DigestsDone

-----------------------------------------------------------------------------
(* Types.                                                                  *)

LEMMA TypeInit == Init => TypeOK
  <1> SUFFICES ASSUME Init
               PROVE  TypeOK
    OBVIOUS
  <1> USE BoundTypes
  <1>0. NoRules \in Configs
    BY DEF NoRules, Configs
  <1>1. TypedRows
    BY DEF Init, TypedRows
  <1>2. TypedCalls
    BY DEF Init, TypedCalls, Calls
  <1>3. TypedDispatch
    BY DEF Init, TypedDispatch, Routes
  <1>4. TypedConfig
    <2>1. PICK c \in [rules: SUBSET Rules, channels: SUBSET Channels, sent: {NoRules.sent}] :
              config = c /\ \A r \in c.rules : r.ch \in c.channels
      BY DEF Init
    <2>2. c.sent \in [Mails -> 0 .. MaxRows + 1]
      BY <2>1 DEF NoRules
    <2>3. config \in Configs
      BY <2>1, <2>2 DEF Configs
    <2>4. QED
      BY <1>0, <2>1, <2>3 DEF Init, TypedConfig, Refreshes
  <1>5. TypedDigest
    BY DEF Init, TypedDigest, Digests
  <1>6. TypedRest
    BY DEF Init, TypedRest
  <1>7. QED
    BY <1>1, <1>2, <1>3, <1>4, <1>5, <1>6, TypeParts

LEMMA TypeEmit ==
    ASSUME IInv, NEW e \in Emitters, EmitStep(e)
    PROVE  TypeOK' /\ SearchesFailed'
  <1> USE TypeParts, BoundTypes
  <1>0. TypeOK
    BY DEF IInv
  <1>1. UNCHANGED <<Emitting, deleted, gone, passed, mailed>>
    BY EmitFrame
  <1>2. TypedConfig'
    BY <1>0, <1>1 DEF TypedConfig, Emitting
  <1>3. TypedRest' /\ SearchesFailed'
    <2>1. /\ faults' \in {faults, faults + 1} /\ unchecked' \in {unchecked, unchecked + 1}
          /\ faults' = faults => unchecked' = unchecked
          /\ faults' # faults => faults < MaxFaults
      <3>0. faults \in Nat
        BY <1>0 DEF TypedRest
      <3>1. CASE \E ev \in Events : Call(e, ev)
        BY <3>1 DEF Call, history
      <3>2. CASE Check(e)
        BY <3>2 DEF Check, history
      <3>3. CASE CheckFails(e)
        BY <3>0, <3>3 DEF CheckFails, Fault
      <3>4. CASE Insert(e)
        BY <3>4 DEF Insert, history
      <3>5. CASE InsertFails(e)
        BY <3>0, <3>5 DEF InsertFails, Fault, history
      <3>6. CASE Enqueue(e)
        BY <3>6 DEF Enqueue, history
      <3>7. QED
        BY <3>1, <3>2, <3>3, <3>4, <3>5, <3>6 DEF EmitStep
    <2>2. faults' \in 0 .. MaxFaults /\ unchecked' <= faults' /\ unchecked' \in 0 .. MaxFaults
      <3>1. /\ faults \in 0 .. MaxFaults /\ unchecked \in 0 .. MaxFaults
            /\ unchecked <= faults
        BY <1>0 DEF TypedRest, IInv, SearchesFailed
      <3>2. QED
        BY <2>1, <3>1
    <2>3. QED
      BY <1>0, <1>1, <2>2 DEF TypedRest, Emitting, SearchesFailed
  <1>4. TypedRows'
    <2>1. CASE Insert(e)
      <3>1. emitter[e].event \in Events /\ clock \in 1 .. MaxTime
        BY <1>0, <2>1, CallAt DEF Insert, TypedRest
      <3>2. rows' = Append(rows, [event |-> emitter[e].event, at |-> clock])
        BY <2>1 DEF Insert
      <3>3. rows \in Seq([event: Events, at: 1 .. MaxTime]) /\ Len(rows) < MaxRows
        BY <1>0, <2>1 DEF Insert, TypedRows
      <3>4. QED
        BY <3>1, <3>2, <3>3, AppendProperties DEF TypedRows
    <2>2. CASE ~Insert(e)
      <3>1. UNCHANGED rows
        BY <2>2 DEF EmitStep, Call, Check, CheckFails, InsertFails, Enqueue
      <3>2. QED
        BY <1>0, <3>1 DEF TypedRows
    <2>3. QED
      BY <2>1, <2>2
  <1>5. TypedCalls'
    <2>1. \E c \in Calls : emitter' = [emitter EXCEPT ![e] = c]
      <3>1. CASE \E ev \in Events : Call(e, ev)
        BY <3>1 DEF Call, Calls
      <3>2. CASE Check(e)
        <4>1. emitter[e] \in [pc: {"checking", "inserting"}, event: Events]
          BY <1>0, <3>2, CallAt DEF Check
        <4>2. [emitter[e] EXCEPT !.pc = "inserting"] \in Calls /\ Resting \in Calls
          BY <4>1 DEF Calls
        <4>3. QED
          BY <3>2, <4>2 DEF Check
      <3>3. CASE CheckFails(e)
        <4>1. emitter[e] \in [pc: {"checking", "inserting"}, event: Events]
          BY <1>0, <3>3, CallAt DEF CheckFails
        <4>2. [emitter[e] EXCEPT !.pc = "inserting"] \in Calls
          BY <4>1 DEF Calls
        <4>3. QED
          BY <3>3, <4>2 DEF CheckFails
      <3>4. CASE Insert(e)
        <4>1. Len(rows) + 1 \in Rows
          BY <1>0, <3>4, LenProperties DEF Insert, TypedRows
        <4>2. [pc |-> "enqueuing", row |-> Len(rows) + 1] \in Calls /\ Resting \in Calls
          BY <4>1 DEF Calls
        <4>3. QED
          BY <3>4, <4>2 DEF Insert
      <3>5. CASE InsertFails(e)
        BY <3>5 DEF InsertFails, Calls
      <3>6. CASE Enqueue(e)
        BY <3>6 DEF Enqueue, Calls
      <3>7. QED
        BY <3>1, <3>2, <3>3, <3>4, <3>5, <3>6 DEF EmitStep
    <2>2. QED
      BY <1>0, <2>1 DEF TypedCalls
  <1>6. TypedDispatch'
    <2>1. CASE Enqueue(e)
      <3>1. emitter[e].row \in Rows
        BY <1>0, <2>1, CallAt DEF Enqueue, Offers
      <3>2. queue \in Seq(Rows) /\ Len(queue) <= QueueSize
        BY <1>0 DEF TypedDispatch
      <3>3. queue' \in Seq(Rows) /\ Len(queue') <= QueueSize
        <4>1. CASE Len(queue) < QueueSize
          <5>1. queue' = Append(queue, emitter[e].row)
            BY <2>1, <4>1 DEF Enqueue
          <5>2. QED
            BY <3>1, <3>2, <4>1, <5>1, AppendProperties, LenProperties
        <4>2. CASE ~(Len(queue) < QueueSize)
          BY <2>1, <3>2, <4>2 DEF Enqueue
        <4>3. QED
          BY <4>1, <4>2
      <3>4. QED
        BY <1>0, <1>1, <3>3 DEF TypedDispatch, Emitting
    <2>2. CASE ~Enqueue(e)
      <3>1. UNCHANGED queue
        BY <2>2 DEF EmitStep, Call, Check, CheckFails, Insert, InsertFails
      <3>2. QED
        BY <1>0, <1>1, <3>1 DEF TypedDispatch, Emitting
    <2>3. QED
      BY <2>1, <2>2
  <1>7. TypedDigest'
    BY <1>0, <1>1 DEF TypedDigest, Emitting
  <1>8. QED
    BY <1>2, <1>3, <1>4, <1>5, <1>6, <1>7, TypePartsNext

LEMMA TypeDispatch ==
    ASSUME IInv, Router \/ \E s \in sending : SendEnds(s)
    PROVE  TypeOK' /\ SearchesFailed'
  <1> USE TypeParts, BoundTypes
  <1>0. TypeOK
    BY DEF IInv
  <1>1. UNCHANGED Dispatching
    BY DispatchFrame
  <1>2. TypedRows' /\ TypedCalls' /\ TypedConfig' /\ TypedDigest' /\ TypedRest'
    BY <1>0, <1>1 DEF TypedRows, TypedCalls, TypedConfig, TypedDigest, TypedRest, Dispatching,
       history
  <1>3. SearchesFailed'
    BY <1>1 DEF IInv, SearchesFailed, Dispatching, history
  <1>4. TypedDispatch'
    <2>0. /\ queue \in Seq(Rows) /\ Len(queue) <= QueueSize
          /\ router \in Routes
          /\ sending \subseteq [row: Rows, rule: Rules]
          /\ slots \in 0 .. Semaphore
      BY <1>0 DEF TypedDispatch
    <2>1. CASE Take
      <3>1. Head(queue) \in Rows /\ Tail(queue) \in Seq(Rows) /\ Len(Tail(queue)) <= QueueSize
        BY <2>0, <2>1, HeadTailProperties, LenProperties DEF Take
      <3>2. Targets(Head(queue)) \subseteq Rules
        BY <1>0 DEF Targets, TypedConfig, Configs
      <3>3. router' \in Routes
        BY <2>1, <3>1, <3>2 DEF Take, Routes
      <3>4. QED
        BY <2>0, <2>1, <3>1, <3>3 DEF Take, TypedDispatch
    <2>2. ASSUME NEW r \in Rules, Send(r)
          PROVE  TypedDispatch'
      <3>1. router.row \in Rows /\ router.todo \subseteq Rules
        BY <1>0, <2>2, RouteAt DEF Send
      <3>2. router' \in Routes
        BY <2>0, <2>2, <3>1, RestingIsIdle DEF Send, Routes
      <3>3. sending' \subseteq [row: Rows, rule: Rules]
        BY <2>0, <2>2, <3>1 DEF Send
      <3>4. slots' \in 0 .. Semaphore
        BY <2>0, <2>2 DEF Send
      <3>5. QED
        BY <2>0, <2>2, <3>2, <3>3, <3>4 DEF Send, TypedDispatch
    <2>3. CASE Routed
      BY <2>0, <2>3 DEF Routed, TypedDispatch, Routes
    <2>4. ASSUME NEW s \in sending, SendEnds(s)
          PROVE  TypedDispatch'
      <3>1. slots # 0
        BY FS_EmptySet DEF IInv, SlotsHeld
      <3>2. slots' \in 0 .. Semaphore
        BY <2>0, <2>4, <3>1 DEF SendEnds
      <3>3. QED
        BY <2>0, <2>4, <3>2 DEF SendEnds, TypedDispatch
    <2>5. QED
      BY <2>1, <2>2, <2>3, <2>4 DEF Router
  <1>5. QED
    BY <1>2, <1>3, <1>4, TypePartsNext

\* What a handler writes: the next configuration and its refresh.
LEMMA TypeWrite ==
    ASSUME IInv, NEW a \in Admins, NEW c \in Configs, Write(a, c),
           \A r \in c.rules : r.ch \in c.channels
    PROVE  TypedConfig' /\ writes' \in 0 .. MaxWrites
  <1> USE BoundTypes
  <1>1. TypedConfig /\ TypedRest
    BY TypeParts DEF IInv
  <1>2. \A b \in Refreshers : [admin[b] EXCEPT !.alone = FALSE] \in Refreshes \/ b \notin Busy
    <2>1. SUFFICES ASSUME NEW b \in Refreshers, admin[b] # Resting
                   PROVE  [admin[b] EXCEPT !.alone = FALSE] \in Refreshes
      BY DEF Busy
    <2>2. admin[b] \in Refreshes
      BY <1>1 DEF TypedConfig
    <2>3. QED
      BY <2>1, <2>2 DEF Refreshes
  <1>3. [pc |-> "rules", alone |-> Busy = {}] \in Refreshes
    BY DEF Refreshes
  <1>4. admin' \in [Refreshers -> Refreshes]
    <2>1. ASSUME NEW b \in Refreshers
          PROVE  admin'[b] \in Refreshes
      BY <1>1, <1>2, <1>3 DEF Write, TypedConfig
    <2>2. QED
      BY <2>1 DEF Write
  <1>5. writes' \in 0 .. MaxWrites
    BY <1>1 DEF Write, TypedRest
  <1>6. cache' = cache /\ config' = c
    BY DEF Write
  <1>7. QED
    BY <1>1, <1>4, <1>5, <1>6 DEF TypedConfig

\* What a handler may write.
MayWrite(c) ==
    /\ c \in Configs
    /\ \A r \in c.rules : r.ch \in c.channels
    /\ c.sent = config.sent
    /\ config.channels \cap deleted = {} => c.channels \cap deleted' = {}

LEMMA EditWrites ==
    ASSUME IInv, NEW a \in Admins, Edit(a)
    PROVE  /\ deleted \subseteq deleted' /\ deleted' \subseteq Channels
           /\ \E c \in Configs : Write(a, c) /\ MayWrite(c)
  <1> USE BoundTypes
  <1>1. /\ config \in Configs /\ deleted \subseteq Channels
        /\ \A r \in config.rules : r.ch \in config.channels
    BY TypeParts DEF IInv, TypedConfig, TypedRest
  <1>2. ASSUME NEW ch \in Channels, CreateChannel(a, ch)
        PROVE  deleted' = deleted /\ \E c \in Configs : Write(a, c) /\ MayWrite(c)
    <2> DEFINE c == [config EXCEPT !.channels = @ \cup {ch}]
    <2>1. Write(a, c) /\ deleted' = deleted
      BY <1>2 DEF CreateChannel
    <2>2. c \in Configs /\ c.sent = config.sent /\ \A q \in c.rules : q.ch \in c.channels
      BY <1>1, <1>2 DEF Configs, CreateChannel
    <2>3. config.channels \cap deleted = {} => c.channels \cap deleted' = {}
      BY <1>1, <1>2, <2>1 DEF Configs, CreateChannel
    <2> HIDE DEF c
    <2>4. QED
      BY <2>1, <2>2, <2>3 DEF MayWrite
  <1>3. ASSUME NEW ch \in Channels, DeleteChannel(a, ch)
        PROVE  deleted' = deleted \cup {ch} /\ \E c \in Configs : Write(a, c) /\ MayWrite(c)
    <2> DEFINE c == [config EXCEPT !.channels = @ \ {ch}, !.rules = {r \in @ : r.ch # ch}]
    <2>1. Write(a, c) /\ deleted' = deleted \cup {ch}
      BY <1>3 DEF DeleteChannel
    <2>2. c \in Configs /\ c.sent = config.sent /\ \A q \in c.rules : q.ch \in c.channels
      BY <1>1, <1>3 DEF Configs, DeleteChannel
    <2>3. config.channels \cap deleted = {} => c.channels \cap deleted' = {}
      BY <1>1, <1>3, <2>1 DEF Configs, DeleteChannel
    <2> HIDE DEF c
    <2>4. QED
      BY <2>1, <2>2, <2>3 DEF MayWrite
  <1>4. ASSUME NEW r \in Rules, CreateRule(a, r)
        PROVE  deleted' = deleted /\ \E c \in Configs : Write(a, c) /\ MayWrite(c)
    <2> DEFINE c == [config EXCEPT !.rules = @ \cup {r}]
    <2>1. Write(a, c) /\ deleted' = deleted
      BY <1>4 DEF CreateRule
    <2>2. c \in Configs /\ c.sent = config.sent /\ \A q \in c.rules : q.ch \in c.channels
      BY <1>1, <1>4 DEF Configs, CreateRule
    <2>3. config.channels \cap deleted = {} => c.channels \cap deleted' = {}
      BY <1>1, <1>4, <2>1 DEF Configs, CreateRule
    <2> HIDE DEF c
    <2>4. QED
      BY <2>1, <2>2, <2>3 DEF MayWrite
  <1>5. ASSUME NEW r \in Rules, DeleteRule(a, r)
        PROVE  deleted' = deleted /\ \E c \in Configs : Write(a, c) /\ MayWrite(c)
    <2> DEFINE c == [config EXCEPT !.rules = @ \ {r}]
    <2>1. Write(a, c) /\ deleted' = deleted
      BY <1>5 DEF DeleteRule
    <2>2. c \in Configs /\ c.sent = config.sent /\ \A q \in c.rules : q.ch \in c.channels
      BY <1>1, <1>5 DEF Configs, DeleteRule
    <2>3. config.channels \cap deleted = {} => c.channels \cap deleted' = {}
      BY <1>1, <1>5, <2>1 DEF Configs, DeleteRule
    <2> HIDE DEF c
    <2>4. QED
      BY <2>1, <2>2, <2>3 DEF MayWrite
  <1>6. ASSUME NEW r \in Rules, NEW s \in Rules, UpdateRule(a, r, s)
        PROVE  deleted' = deleted /\ \E c \in Configs : Write(a, c) /\ MayWrite(c)
    <2> DEFINE c == [config EXCEPT !.rules = (@ \ {r}) \cup {s}]
    <2>1. Write(a, c) /\ deleted' = deleted
      BY <1>6 DEF UpdateRule
    <2>2. c \in Configs /\ c.sent = config.sent /\ \A q \in c.rules : q.ch \in c.channels
      BY <1>1, <1>6 DEF Configs, UpdateRule
    <2>3. config.channels \cap deleted = {} => c.channels \cap deleted' = {}
      BY <1>1, <1>6, <2>1 DEF Configs, UpdateRule
    <2> HIDE DEF c
    <2>4. QED
      BY <2>1, <2>2, <2>3 DEF MayWrite
  <1>7. QED
    BY <1>1, <1>2, <1>3, <1>4, <1>5, <1>6 DEF Edit

LEMMA TypeEdit ==
    ASSUME IInv, NEW a \in Admins, Edit(a)
    PROVE  TypeOK' /\ SearchesFailed'
  <1> USE BoundTypes, TypeParts
  <1>0. TypeOK
    BY DEF IInv
  <1>1. UNCHANGED <<Administering, cache, faults, unchecked, gone, passed, mailed>>
    BY EditFrame
  <1>2. TypedRows' /\ TypedCalls' /\ TypedDispatch' /\ TypedDigest'
    BY <1>0, <1>1 DEF TypedRows, TypedCalls, TypedDispatch, TypedDigest, Administering
  <1>3. SearchesFailed'
    BY <1>1 DEF IInv, SearchesFailed
  <1>4. PICK c \in Configs : Write(a, c) /\ MayWrite(c)
    BY EditWrites
  <1>5. TypedConfig' /\ writes' \in 0 .. MaxWrites
    BY <1>4, TypeWrite DEF MayWrite
  <1>6. TypedRest'
    BY <1>0, <1>1, <1>5, EditWrites DEF TypedRest, Administering
  <1>7. QED
    BY <1>2, <1>3, <1>5, <1>6, TypePartsNext

LEMMA TypeRefresh ==
    ASSUME IInv, NEW a \in Refreshers, Refresh(a)
    PROVE  TypeOK' /\ SearchesFailed'
  <1> USE BoundTypes, TypeParts
  <1>0. TypeOK
    BY DEF IInv
  <1>1. UNCHANGED <<Administering, config, writes, unchecked, deleted, passed, mailed>>
    BY RefreshFrame
  <1>2. TypedRows' /\ TypedCalls' /\ TypedDispatch' /\ TypedDigest'
    BY <1>0, <1>1 DEF TypedRows, TypedCalls, TypedDispatch, TypedDigest, Administering
  <1>3. faults \in 0 .. MaxFaults /\ unchecked \in 0 .. MaxFaults /\ unchecked <= faults
    BY <1>0 DEF TypedRest, IInv, SearchesFailed
  <1>4. faults' \in 0 .. MaxFaults /\ unchecked' <= faults'
    BY <1>1, <1>3 DEF Refresh, ReadRules, ReadChannels, ReadFails, Store, Fault
  <1>5. gone' \subseteq deleted
    BY <1>0, <1>1 DEF Refresh, ReadRules, ReadChannels, ReadFails, Store, history, TypedRest
  <1>6. TypedRest' /\ SearchesFailed'
    BY <1>0, <1>1, <1>4, <1>5 DEF TypedRest, Administering, SearchesFailed
  <1>7. config \in Configs /\ cache \in Configs /\ admin \in [Refreshers -> Refreshes]
    BY <1>0 DEF TypedConfig
  <1>8. cache' \in Configs /\ \E r \in Refreshes : admin' = [admin EXCEPT ![a] = r]
    <2>1. CASE ReadRules(a)
      <3>1. admin[a].alone \in BOOLEAN /\ config.rules \subseteq Rules
        BY <1>0, <1>7, <2>1, RefreshAt, RestingIsIdle DEF ReadRules, Configs
      <3>2. QED
        BY <1>7, <2>1, <3>1 DEF ReadRules, Refreshes
    <2>2. CASE ReadChannels(a)
      <3>1. admin[a].alone \in BOOLEAN /\ admin[a].rules \subseteq Rules
        BY <1>0, <2>2, RefreshAt, RestingIsIdle DEF ReadChannels
      <3>2. [config EXCEPT !.rules = admin[a].rules] \in Configs
        BY <1>7, <3>1 DEF Configs
      <3>3. QED
        BY <1>7, <2>2, <3>1, <3>2 DEF ReadChannels, Refreshes
    <2>3. CASE ReadFails(a)
      BY <1>7, <2>3 DEF ReadFails, Refreshes
    <2>4. CASE Store(a)
      <3>1. admin[a].read \in Configs
        BY <1>0, <2>4, RefreshAt DEF Store
      <3>2. QED
        BY <2>4, <3>1 DEF Store, Refreshes
    <2>5. QED
      BY <2>1, <2>2, <2>3, <2>4 DEF Refresh
  <1>9. TypedConfig'
    BY <1>0, <1>1, <1>7, <1>8 DEF TypedConfig
  <1>10. QED
    BY <1>2, <1>6, <1>9, TypePartsNext

\* What a digest passes over is rows.
LEMMA SkippedType ==
    ASSUME NEW m
    PROVE  \A w \in Reasons : Skipped(m)[w] \subseteq DOMAIN rows
  <1>1. Since(m) \subseteq DOMAIN rows /\ Wanted(m) \subseteq DOMAIN rows
    BY DEF Since, Wanted
  <1>2. QED
    BY <1>1 DEF Skipped, Reasons

LEMMA UnmailedType ==
    ASSUME passed \in [Mails -> [Reasons -> SUBSET Rows]], digest.ch \in Mails,
           digest.rows \subseteq Rows
    PROVE  /\ Unmailed \in [Mails -> [Reasons -> SUBSET Rows]]
           /\ Unmailed[digest.ch]["unmailed"] = passed[digest.ch]["unmailed"] \cup digest.rows
           /\ \A m \in Mails, w \in Reasons : passed[m][w] \subseteq Unmailed[m][w]
  <1>1. "unmailed" \in Reasons
    BY DEF Reasons
  <1>2. QED
    BY <1>1 DEF Unmailed

LEMMA TypeDigests ==
    ASSUME IInv, DigestStep
    PROVE  TypeOK' /\ SearchesFailed'
  <1> USE BoundTypes, TypeParts
  <1>0. TypeOK
    BY DEF IInv
  <1>1. UNCHANGED Digesting
    BY DigestFrame
  <1>2. TypedRows' /\ TypedCalls' /\ TypedDispatch'
    BY <1>0, <1>1 DEF TypedRows, TypedCalls, TypedDispatch, Digesting
  <1>3. faults \in 0 .. MaxFaults /\ unchecked \in 0 .. MaxFaults /\ unchecked <= faults
    BY <1>0 DEF TypedRest, IInv, SearchesFailed
  <1>4. faults' \in 0 .. MaxFaults /\ unchecked' <= faults'
    BY <1>1, <1>3 DEF DigestStep, DigestTime, Query, QueryFails, Mark, MarkFails, Mail, MailRefused,
       DigestsDone, Fault, Digesting
  <1>5. TypedRest' /\ SearchesFailed'
    BY <1>0, <1>1, <1>4 DEF TypedRest, Digesting, SearchesFailed
  <1>6. /\ digest \in Digests /\ lastRun \in 0 .. MaxTime
        /\ passed \in [Mails -> [Reasons -> SUBSET Rows]]
        /\ mailed \in [Mails -> [once: SUBSET Rows, twice: SUBSET Rows]]
        /\ cache \in Configs /\ config \in Configs /\ clock \in 1 .. MaxTime
        /\ \A r \in config.rules : r.ch \in config.channels
    BY <1>0 DEF TypedDigest, TypedConfig, TypedRest
  <1>7. DOMAIN rows \subseteq Rows
    BY <1>0, LenProperties DEF TypedRows
  <1>8. TypedDigest' /\ config' \in Configs /\ \A r \in config'.rules : r.ch \in config'.channels
    <2>1. CASE DigestTime
      <3>1. digest' \in Digests
        BY <1>6, <2>1 DEF DigestTime, Digests, Configs
      <3>2. QED
        BY <1>6, <2>1, <3>1 DEF DigestTime, TypedDigest
    <2>2. ASSUME NEW m \in Mails, Query(m)
          PROVE  TypedDigest' /\ UNCHANGED config
      <3>1. digest.todo \subseteq Mails /\ digest.from \in Configs
        BY <1>0, <2>2, DigestAt, RestingIsIdle DEF Query
      <3>2. Newest(Wanted(m)) \subseteq Rows /\ Len(rows) \in 0 .. MaxRows
        BY <1>0, <1>7, LenProperties DEF Since, Wanted, Newest, TypedRows
      <3>3. digest' \in Digests
        BY <2>2, <3>1, <3>2 DEF Query, Digests
      <3>4. QED
        BY <1>6, <2>2, <3>3 DEF Query, TypedDigest
    <2>3. ASSUME NEW m \in Mails, QueryFails(m)
          PROVE  TypedDigest' /\ UNCHANGED config
      <3>1. digest' \in Digests
        BY <1>6, <2>3, RestingIsIdle DEF QueryFails, Digests
      <3>2. QED
        BY <1>6, <2>3, <3>1 DEF QueryFails, TypedDigest
    <2>4. CASE Mark
      <3>0. digest.ch \in Mails
        BY <1>0, <2>4, DigestAt DEF Mark
      <3>1. digest' \in Digests
        BY <1>6, <2>4, RestingIsIdle DEF Mark, Digests
      <3>2. Len(rows) + 1 \in 0 .. MaxRows + 1
        BY <1>0, LenProperties DEF TypedRows
      <3>3. [config EXCEPT !.sent[digest.ch] = Len(rows) + 1] \in Configs
        BY <1>6, <3>2 DEF Configs
      <3>4. /\ config' \in Configs
            /\ config'.rules = config.rules /\ config'.channels = config.channels
        BY <1>6, <2>4, <3>3 DEF Mark, Configs
      <3>5. passed' \in [Mails -> [Reasons -> SUBSET Rows]]
        <4>1. CASE UNCHANGED passed
          BY <1>6, <4>1
        <4>2. CASE passed' = [passed EXCEPT ![digest.ch] =
                       [w \in Reasons |-> @[w] \cup Skipped(digest.ch)[w]]]
          BY <1>6, <1>7, <3>0, <4>2, SkippedType
        <4>3. QED
          BY <2>4, <4>1, <4>2 DEF Mark
      <3>6. QED
        BY <1>6, <2>4, <3>1, <3>4, <3>5 DEF Mark, TypedDigest
    <2>8. CASE MarkFails
      <3>1. digest' \in Digests
        BY <1>6, <2>8, RestingIsIdle DEF MarkFails, Digests
      <3>2. QED
        BY <1>6, <2>8, <3>1 DEF MarkFails, TypedDigest
    <2>5. CASE Mail \/ MailRefused
      <3>1. /\ digest.todo \subseteq Mails /\ digest.from \in Configs
            /\ digest.ch \in Mails /\ digest.rows \subseteq Rows
        BY <1>0, <2>5, DigestAt, RestingIsIdle DEF Mail, MailRefused
      <3>2. digest' \in Digests
        BY <2>5, <3>1 DEF Mail, MailRefused, NextMail, Digests
      <3>3. mailed' \in [Mails -> [once: SUBSET Rows, twice: SUBSET Rows]]
        BY <1>6, <2>5, <3>1 DEF Mail, MailRefused
      <3>4. passed' \in [Mails -> [Reasons -> SUBSET Rows]]
        BY <1>6, <2>5, <3>1, UnmailedType DEF Mail, MailRefused
      <3>5. QED
        BY <1>6, <2>5, <3>2, <3>3, <3>4 DEF Mail, MailRefused, TypedDigest
    <2>6. CASE DigestsDone
      BY <1>6, <2>6 DEF DigestsDone, TypedDigest, Digests
    <2>7. QED
      BY <1>6, <2>1, <2>2, <2>3, <2>4, <2>5, <2>6, <2>8
         DEF DigestStep, DigestTime, DigestsDone, MarkFails, Mail, MailRefused
  <1>9. TypedConfig'
    BY <1>0, <1>1, <1>8 DEF TypedConfig, Digesting
  <1>10. QED
    BY <1>2, <1>5, <1>8, <1>9, TypePartsNext

LEMMA TypeProcess ==
    ASSUME IInv, Tick \/ Start \/ Ready \/ Stop
    PROVE  TypeOK' /\ SearchesFailed'
  <1> USE BoundTypes, TypeParts
  <1>0. TypeOK
    BY DEF IInv
  <1>1. CASE Tick
    <2>1. clock' \in 1 .. MaxTime
      BY <1>0, <1>1 DEF Tick, TypedRest
    <2>2. TypedRows' /\ TypedCalls' /\ TypedDispatch' /\ TypedConfig' /\ TypedDigest'
      BY <1>0, <1>1 DEF Tick, serviceVars, history, TypedRows, TypedCalls, TypedDispatch,
         TypedConfig, TypedDigest
    <2>3. TypedRest' /\ SearchesFailed'
      BY <1>0, <1>1, <2>1 DEF Tick, history, IInv, SearchesFailed, TypedRest
    <2>4. QED
      BY <2>2, <2>3, TypePartsNext
  <1>2. CASE Start
    <2>1. [pc |-> "rules", alone |-> TRUE] \in Refreshes
      BY DEF Refreshes
    <2>2. TypedConfig'
      BY <1>0, <1>2, <2>1 DEF Start, TypedConfig
    <2>3. TypedRows' /\ TypedCalls' /\ TypedDispatch' /\ TypedDigest'
      BY <1>0, <1>2 DEF Start, history, TypedRows, TypedCalls, TypedDispatch, TypedDigest
    <2>4. TypedRest' /\ SearchesFailed'
      BY <1>0, <1>2 DEF Start, history, IInv, SearchesFailed, TypedRest
    <2>5. QED
      BY <2>2, <2>3, <2>4, TypePartsNext
  <1>3. CASE Ready
    <2>1. TypedRows' /\ TypedCalls' /\ TypedDispatch' /\ TypedConfig' /\ TypedDigest'
      BY <1>0, <1>3 DEF Ready, serviceVars, history, TypedRows, TypedCalls, TypedDispatch,
         TypedConfig, TypedDigest
    <2>2. TypedRest' /\ SearchesFailed'
      BY <1>0, <1>3 DEF Ready, history, IInv, SearchesFailed, TypedRest
    <2>3. QED
      BY <2>1, <2>2, TypePartsNext
  <1>4. CASE Stop
    <2>1. NoRules \in Configs
      BY DEF NoRules, Configs
    <2>2. TypedConfig'
      BY <1>0, <1>4, <2>1 DEF Stop, TypedConfig, Refreshes
    <2>9. passed' \in [Mails -> [Reasons -> SUBSET Rows]]
      <3>1. digest.pc = "mailing" => digest.ch \in Mails /\ digest.rows \subseteq Rows
        BY <1>0, DigestAt
      <3>2. passed \in [Mails -> [Reasons -> SUBSET Rows]]
        BY <1>0 DEF TypedDigest
      <3>3. QED
        BY <1>4, <3>1, <3>2, UnmailedType DEF Stop
    <2>3. TypedRows' /\ TypedCalls' /\ TypedDigest'
      BY <1>0, <1>4, <2>9 DEF Stop, TypedRows, TypedCalls, TypedDigest, Calls, Digests
    <2>4. TypedDispatch'
      BY <1>0, <1>4 DEF Stop, TypedDispatch, Routes
    <2>5. faults \in 0 .. MaxFaults /\ unchecked \in 0 .. MaxFaults /\ unchecked <= faults
      BY <1>0 DEF TypedRest, IInv, SearchesFailed
    <2>6. faults' \in 0 .. MaxFaults /\ unchecked' <= faults'
      BY <1>4, <2>5 DEF Stop, Fault, history
    <2>7. TypedRest' /\ SearchesFailed'
      BY <1>0, <1>4, <2>6 DEF Stop, history, SearchesFailed, TypedRest
    <2>8. QED
      BY <2>2, <2>3, <2>4, <2>7, TypePartsNext
  <1>5. QED
    BY <1>1, <1>2, <1>3, <1>4

-----------------------------------------------------------------------------
(* A row's way.                                                            *)

\* Steps that touch no row on its way: only time, rules and digests move.
Still == UNCHANGED <<rows, emitter, queue, router, sending, slots>>

LEMMA StillKeeps ==
    ASSUME IInv, Still
    PROVE  RowsApart' /\ SlotsHeld'
  <1>1. InHand' = InHand /\ InQueue' = InQueue
    BY DEF Still, InHand, InQueue
  <1>2. QED
    BY <1>1 DEF IInv, Still, RowsApart, SlotsHeld, Offers

LEMMA StillSteps ==
    ASSUME Tick \/ Start \/ Ready \/ (\E a \in Admins : Edit(a))
                \/ (\E a \in Refreshers : Refresh(a)) \/ DigestStep
    PROVE  Still
  <1>1. CASE Tick \/ Start \/ Ready
    BY <1>1 DEF Tick, Start, Ready, serviceVars, Still
  <1>2. ASSUME NEW a \in Admins, Edit(a)
        PROVE  Still
    BY <1>2, EditFrame DEF Administering, Still
  <1>3. ASSUME NEW a \in Refreshers, Refresh(a)
        PROVE  Still
    BY <1>3, RefreshFrame DEF Administering, Still
  <1>4. CASE DigestStep
    BY <1>4, DigestFrame DEF Digesting, Still
  <1>5. QED
    BY <1>1, <1>2, <1>3, <1>4

\* Where the elements of a queue come from when it grows or shrinks.
LEMMA Queued ==
    ASSUME NEW S, NEW q \in Seq(S), NEW x \in S
    PROVE  /\ {Append(q, x)[k] : k \in 1 .. Len(Append(q, x))} = {q[k] : k \in 1 .. Len(q)} \cup {x}
           /\ (/\ \A j, k \in 1 .. Len(q) : q[j] = q[k] => j = k
               /\ x \notin {q[k] : k \in 1 .. Len(q)}) =>
                  \A j, k \in 1 .. Len(Append(q, x)) : Append(q, x)[j] = Append(q, x)[k] => j = k
  <1> DEFINE r == Append(q, x)
  <1>1. /\ Len(q) \in Nat /\ Len(r) = Len(q) + 1 /\ r[Len(q) + 1] = x
        /\ \A k \in 1 .. Len(q) : r[k] = q[k]
    BY AppendProperties, LenProperties
  <1> HIDE DEF r
  <1>2. {r[k] : k \in 1 .. Len(r)} = {q[k] : k \in 1 .. Len(q)} \cup {x}
    <2>1. \A k \in 1 .. Len(r) : k \in 1 .. Len(q) \/ k = Len(q) + 1
      BY <1>1
    <2>2. \A k \in 1 .. Len(q) : k \in 1 .. Len(r)
      BY <1>1
    <2>3. Len(q) + 1 \in 1 .. Len(r)
      BY <1>1
    <2>4. QED
      BY <1>1, <2>1, <2>2, <2>3
  <1>3. ASSUME \A j, k \in 1 .. Len(q) : q[j] = q[k] => j = k,
               x \notin {q[k] : k \in 1 .. Len(q)},
               NEW j \in 1 .. Len(r), NEW k \in 1 .. Len(r), r[j] = r[k]
        PROVE  j = k
    <2>1. (j \in 1 .. Len(q) \/ j = Len(q) + 1) /\ (k \in 1 .. Len(q) \/ k = Len(q) + 1)
      BY <1>1
    <2>2. QED
      BY <1>1, <1>3, <2>1
  <1>4. QED
    BY <1>2, <1>3 DEF r

LEMMA Unqueued ==
    ASSUME NEW S, NEW q \in Seq(S), q # << >>,
           \A j, k \in 1 .. Len(q) : q[j] = q[k] => j = k
    PROVE  /\ Head(q) \in {q[k] : k \in 1 .. Len(q)}
           /\ {Tail(q)[k] : k \in 1 .. Len(Tail(q))} = {q[k] : k \in 1 .. Len(q)} \ {Head(q)}
           /\ \A j, k \in 1 .. Len(Tail(q)) : Tail(q)[j] = Tail(q)[k] => j = k
  <1> DEFINE t == Tail(q)
  <1>1. /\ Len(q) \in Nat \ {0} /\ Len(t) = Len(q) - 1 /\ Head(q) = q[1]
        /\ \A k \in 1 .. Len(t) : t[k] = q[k + 1]
    BY HeadTailProperties, LenProperties, EmptySeq
  <1> HIDE DEF t
  <1>2. \A k \in 1 .. Len(t) : k + 1 \in 1 .. Len(q) /\ k + 1 # 1
    BY <1>1
  <1>3. 1 \in 1 .. Len(q)
    BY <1>1
  <1>4. {t[k] : k \in 1 .. Len(t)} = {q[k] : k \in 1 .. Len(q)} \ {Head(q)}
    <2>1. ASSUME NEW k \in 1 .. Len(t)
          PROVE  t[k] \in {q[l] : l \in 1 .. Len(q)} \ {Head(q)}
      BY <1>1, <1>2, <1>3
    <2>2. ASSUME NEW k \in 1 .. Len(q), q[k] # Head(q)
          PROVE  q[k] \in {t[l] : l \in 1 .. Len(t)}
      <3>1. k - 1 \in 1 .. Len(t) /\ (k - 1) + 1 = k
        BY <1>1, <2>2
      <3>2. QED
        BY <1>1, <3>1
    <2>3. QED
      BY <2>1, <2>2
  <1>5. ASSUME NEW j \in 1 .. Len(t), NEW k \in 1 .. Len(t), t[j] = t[k]
        PROVE  j = k
    <2>1. j + 1 = k + 1
      BY <1>1, <1>2, <1>5
    <2>2. QED
      BY <1>1, <2>1
  <1>6. QED
    BY <1>1, <1>3, <1>4, <1>5 DEF t

\* Steps of a caller that has no row yet, or loses the one it has.
LEMMA RowlessApart ==
    ASSUME IInv, NEW e \in Emitters, UNCHANGED <<queue, router, sending>>,
           emitter' \in [Emitters -> Calls], Len(rows) <= Len(rows'), Len(rows') \in Nat,
           \A f \in Emitters : Offers(f)' => Offers(f) /\ emitter'[f].row = emitter[f].row
    PROVE  RowsApart'
  <1>1. InHand' = InHand /\ InQueue' = InQueue
    BY DEF InHand, InQueue
  <1>2. Len(rows) \in Nat
    BY TypeParts, LenProperties DEF IInv, TypedRows
  <1>3. 1 .. Len(rows) \subseteq 1 .. Len(rows')
    BY <1>2
  <1>4. QED
    BY <1>1, <1>3 DEF IInv, RowsApart

LEMMA ApartEmit ==
    ASSUME IInv, NEW e \in Emitters, EmitStep(e)
    PROVE  RowsApart' /\ SlotsHeld'
  <1>0. /\ TypeOK /\ TypedRows /\ TypedCalls /\ TypedDispatch /\ RowsApart
        /\ TypeOK' /\ TypedRows' /\ TypedCalls'
    BY TypeParts, TypePartsNext, TypeEmit DEF IInv
  <1>1. UNCHANGED <<router, sending, slots>>
    BY EmitFrame DEF Emitting
  <1>2. SlotsHeld'
    BY <1>1 DEF IInv, SlotsHeld
  <1>3. /\ emitter \in [Emitters -> Calls] /\ emitter' \in [Emitters -> Calls]
        /\ Len(rows) \in Nat /\ Len(rows') \in Nat
    BY <1>0, LenProperties DEF TypedCalls, TypedRows
  <1>4. CASE (\E ev \in Events : Call(e, ev)) \/ Check(e) \/ CheckFails(e) \/ InsertFails(e)
    <2>1. UNCHANGED <<rows, queue>>
      BY <1>4 DEF Call, Check, CheckFails, InsertFails
    <2>2. emitter'[e].pc # "enqueuing" /\ \A f \in Emitters \ {e} : emitter'[f] = emitter[f]
      <3>1. CASE \E ev \in Events : Call(e, ev)
        BY <1>3, <3>1 DEF Call
      <3>2. CASE Check(e) \/ CheckFails(e)
        <4>1. emitter[e] \in [pc: {"checking", "inserting"}, event: Events]
          BY <1>0, <3>2, CallAt DEF Check, CheckFails
        <4>2. [emitter[e] EXCEPT !.pc = "inserting"].pc = "inserting"
          BY <4>1
        <4>3. QED
          BY <1>3, <3>2, <4>2, RestingIsIdle DEF Check, CheckFails
      <3>3. CASE InsertFails(e)
        BY <1>3, <3>3, RestingIsIdle DEF InsertFails
      <3>4. QED
        BY <1>4, <3>1, <3>2, <3>3
    <2>3. \A f \in Emitters : Offers(f)' => Offers(f) /\ emitter'[f].row = emitter[f].row
      BY <2>2 DEF Offers
    <2>4. QED
      BY <1>1, <1>2, <1>3, <2>1, <2>3, RowlessApart
  <1>5. CASE Insert(e)
    <2>1. Len(rows') = Len(rows) + 1 /\ UNCHANGED queue
      BY <1>0, <1>5, AppendProperties DEF Insert, TypedRows
    <2>2. \A f \in Emitters \ {e} : emitter'[f] = emitter[f]
      BY <1>3, <1>5 DEF Insert
    <2>3. Offers(e)' => emitter'[e].row = Len(rows) + 1
      BY <1>3, <1>5, RestingIsIdle DEF Insert, Offers
    <2>4. InHand' = InHand /\ InQueue' = InQueue
      BY <1>1, <2>1 DEF InHand, InQueue
    <2>5. \A f \in Emitters \ {e} : Offers(f)' <=> Offers(f)
      BY <2>2 DEF Offers
    <2>6. /\ 1 .. Len(rows) \subseteq 1 .. Len(rows')
          /\ Len(rows) + 1 \in 1 .. Len(rows') /\ Len(rows) + 1 \notin 1 .. Len(rows)
      BY <1>3, <2>1
    <2>7. \A f \in Emitters :
              Offers(f)' => emitter'[f].row \in (1 .. Len(rows')) \ (InHand' \cup InQueue')
      BY <1>0, <2>2, <2>3, <2>4, <2>5, <2>6 DEF RowsApart
    <2>8. \A f, g \in Emitters :
              Offers(f)' /\ Offers(g)' /\ emitter'[f].row = emitter'[g].row => f = g
      BY <1>0, <2>2, <2>3, <2>5, <2>6 DEF RowsApart
    <2>9. InHand' \cup InQueue' \subseteq 1 .. Len(rows') /\ InHand' \cap InQueue' = {}
      BY <1>0, <2>4, <2>6 DEF RowsApart
    <2>10. QED
      BY <1>0, <1>1, <1>2, <2>1, <2>7, <2>8, <2>9 DEF RowsApart
  <1>6. CASE Enqueue(e)
    <2>1. UNCHANGED rows /\ Offers(e)
      BY <1>6 DEF Enqueue, Offers
    <2>2. emitter' = [emitter EXCEPT ![e] = Resting]
      BY <1>6 DEF Enqueue
    <2>3. ~Offers(e)' /\ \A f \in Emitters \ {e} : emitter'[f] = emitter[f]
      BY <1>3, <2>2, RestingIsIdle DEF Offers
    <2>4. CASE Len(queue) < QueueSize
      <3> DEFINE x == emitter[e].row
      <3>1. queue' = Append(queue, x)
        BY <1>6, <2>4 DEF Enqueue
      <3>2. x \in Rows /\ queue \in Seq(Rows)
        BY <1>0, <2>1, CallAt DEF TypedDispatch
      <3>3. x \in (1 .. Len(rows)) \ (InHand \cup InQueue)
        BY <1>0, <2>1 DEF RowsApart
      <3>4. InHand' = InHand
        BY <1>1 DEF InHand
      <3> HIDE DEF x
      <3>5. /\ InQueue' = InQueue \cup {x}
            /\ \A j, k \in 1 .. Len(queue') : queue'[j] = queue'[k] => j = k
        BY <1>0, <3>1, <3>2, <3>3, Queued DEF InQueue, RowsApart
      <3>6. \A f \in Emitters : Offers(f)' => f # e /\ Offers(f) /\ emitter'[f].row = emitter[f].row
        BY <2>3 DEF Offers
      <3>7. \A f \in Emitters : Offers(f)' => emitter'[f].row # x
        BY <1>0, <2>1, <3>6 DEF RowsApart, x
      <3>8. \A f \in Emitters :
                Offers(f)' => emitter'[f].row \in (1 .. Len(rows)) \ (InHand' \cup InQueue')
        BY <1>0, <3>4, <3>5, <3>6, <3>7 DEF RowsApart
      <3>9. \A f, g \in Emitters :
                Offers(f)' /\ Offers(g)' /\ emitter'[f].row = emitter'[g].row => f = g
        BY <1>0, <3>6 DEF RowsApart
      <3>10. InHand' \cup InQueue' \subseteq 1 .. Len(rows) /\ InHand' \cap InQueue' = {}
        BY <1>0, <3>3, <3>4, <3>5 DEF RowsApart
      <3>11. QED
        BY <1>0, <1>1, <1>2, <2>1, <3>5, <3>8, <3>9, <3>10 DEF RowsApart
    <2>5. CASE ~(Len(queue) < QueueSize)
      <3>1. UNCHANGED queue
        BY <1>6, <2>5 DEF Enqueue
      <3>2. \A f \in Emitters : Offers(f)' => Offers(f) /\ emitter'[f].row = emitter[f].row
        BY <2>3 DEF Offers
      <3>3. QED
        BY <1>1, <1>2, <1>3, <2>1, <3>1, <3>2, RowlessApart
    <2>6. QED
      BY <2>4, <2>5
  <1>7. QED
    BY <1>4, <1>5, <1>6 DEF EmitStep

LEMMA ApartDispatch ==
    ASSUME IInv, Router \/ \E s \in sending : SendEnds(s)
    PROVE  RowsApart' /\ SlotsHeld'
  <1>0. TypeOK /\ TypedDispatch /\ RowsApart /\ SlotsHeld
    BY TypeParts DEF IInv
  <1>1. UNCHANGED <<rows, emitter>>
    BY DispatchFrame DEF Dispatching
  <1>2. \A f \in Emitters : Offers(f)' <=> Offers(f)
    BY <1>1 DEF Offers
  <1>3. CASE Take
    <2>1. queue' = Tail(queue) /\ queue # << >> /\ queue \in Seq(Rows) /\ router = Resting
      BY <1>0, <1>3 DEF Take, TypedDispatch
    <2>2. /\ router' = [pc |-> "routing", row |-> Head(queue), todo |-> Targets(Head(queue))]
          /\ UNCHANGED <<sending, slots>>
      BY <1>3 DEF Take
    <2>3. router' # Resting /\ router'.row = Head(queue)
      BY <2>2, RestingIsIdle
    <2>4. /\ Head(queue) \in InQueue
          /\ InQueue' = InQueue \ {Head(queue)}
          /\ \A j, k \in 1 .. Len(queue') : queue'[j] = queue'[k] => j = k
      BY <1>0, <2>1, Unqueued DEF InQueue, RowsApart
    <2>5. InHand' = InHand \cup {Head(queue)}
      BY <2>1, <2>2, <2>3 DEF InHand
    <2>6. \A r : [row |-> Head(queue), rule |-> r] \notin sending
      <3>1. ASSUME NEW r, [row |-> Head(queue), rule |-> r] \in sending
            PROVE  FALSE
        <4>1. Head(queue) \in InHand
          BY <3>1 DEF InHand
        <4>2. QED
          BY <1>0, <2>4, <4>1 DEF RowsApart
      <3>2. QED
        BY <3>1
    <2>7. SlotsHeld'
      BY <1>0, <2>2 DEF SlotsHeld
    <2>8. InHand' \cup InQueue' = InHand \cup InQueue /\ InHand' \cap InQueue' = {}
      BY <1>0, <2>4, <2>5 DEF RowsApart
    <2>9. QED
      BY <1>0, <1>1, <1>2, <2>3, <2>4, <2>6, <2>7, <2>8, <2>2 DEF RowsApart
  <1>4. ASSUME NEW r \in Rules, Send(r)
        PROVE  RowsApart' /\ SlotsHeld'
    <2> DEFINE s == [row |-> router.row, rule |-> r]
    <2>1. /\ router # Resting /\ r \in router.todo
          /\ sending' = sending \cup {s} /\ slots' = slots + 1 /\ UNCHANGED queue
      BY <1>4, RestingIsIdle DEF Send
    <2>2. router \in [pc: {"routing"}, row: Rows, todo: SUBSET Rules]
      BY <1>0, <1>4, RestingIsIdle DEF Send, TypedDispatch, Routes
    <2>3. router' # Resting /\ router'.row = router.row /\ router'.todo = router.todo \ {r}
      BY <1>4, <2>2, RestingIsIdle DEF Send
    <2>4. s \notin sending
      BY <1>0, <2>1 DEF RowsApart
    <2>5. SlotsHeld'
      BY <1>0, <2>1, <2>4, FS_AddElement DEF SlotsHeld
    <2>6. InHand' = InHand /\ InQueue' = InQueue
      <3>1. s.row = router.row
        OBVIOUS
      <3>2. {q.row : q \in sending'} = {q.row : q \in sending} \cup {router.row}
        BY <2>1, <3>1
      <3>3. QED
        BY <2>1, <2>3, <3>2 DEF InHand, InQueue
    <2>7. \A q \in router'.todo : [row |-> router'.row, rule |-> q] \notin sending'
      <3>1. ASSUME NEW q \in router.todo, q # r
            PROVE  [row |-> router.row, rule |-> q] \notin sending \cup {s}
        BY <1>0, <2>1, <3>1 DEF RowsApart
      <3>2. QED
        BY <2>1, <2>3, <3>1
    <2> HIDE DEF s
    <2>8. QED
      BY <1>0, <1>1, <1>2, <2>1, <2>5, <2>6, <2>7 DEF RowsApart
  <1>5. CASE Routed
    <2>1. router' = Resting /\ UNCHANGED <<queue, sending, slots>>
      BY <1>5 DEF Routed
    <2>2. InHand' \subseteq InHand /\ InQueue' = InQueue
      BY <2>1 DEF InHand, InQueue
    <2>3. QED
      BY <1>0, <1>1, <1>2, <2>1, <2>2 DEF RowsApart, SlotsHeld
  <1>6. ASSUME NEW s \in sending, SendEnds(s)
        PROVE  RowsApart' /\ SlotsHeld'
    <2>1. sending' = sending \ {s} /\ slots' = slots - 1 /\ UNCHANGED <<queue, router>>
      BY <1>6 DEF SendEnds
    <2>2. SlotsHeld'
      BY <1>0, <2>1, FS_RemoveElement DEF SlotsHeld
    <2>3. InHand' \subseteq InHand /\ InQueue' = InQueue
      BY <2>1 DEF InHand, InQueue
    <2>4. QED
      BY <1>0, <1>1, <1>2, <2>1, <2>2, <2>3 DEF RowsApart
  <1>7. QED
    BY <1>3, <1>4, <1>5, <1>6 DEF Router

LEMMA ApartStop ==
    ASSUME IInv, Stop
    PROVE  RowsApart' /\ SlotsHeld'
  <1>1. /\ emitter' = [e \in Emitters |-> Resting] /\ queue' = << >> /\ router' = Resting
        /\ sending' = {} /\ slots' = 0
    BY DEF Stop
  <1>2. InHand' = {} /\ InQueue' = {}
    <2>1. Len(queue') = 0
      BY <1>1
    <2>2. QED
      BY <1>1, <2>1 DEF InHand, InQueue
  <1>3. \A e \in Emitters : ~Offers(e)'
    BY <1>1, RestingIsIdle DEF Offers
  <1>4. SlotsHeld'
    BY <1>1, FS_EmptySet DEF SlotsHeld
  <1>5. \A j, k \in 1 .. Len(queue') : queue'[j] = queue'[k] => j = k
    BY <1>1
  <1>6. QED
    BY <1>1, <1>2, <1>3, <1>4, <1>5 DEF RowsApart

-----------------------------------------------------------------------------
(* How many rows of an event the window holds.                             *)

LEMMA OneMore ==
    ASSUME NEW S, NEW x, IsFiniteSet(S)
    PROVE  /\ Cardinality(S \cup {x}) \in Nat
           /\ Cardinality(S \cup {x}) <= Cardinality(S) + 1
  <1>1. Cardinality(S) \in Nat
    BY FS_CardinalityType
  <1>2. IsFiniteSet(S \cup {x}) /\
            Cardinality(S \cup {x}) = IF x \in S THEN Cardinality(S) ELSE Cardinality(S) + 1
    BY FS_AddElement
  <1>3. QED
    BY <1>1, <1>2

LEMMA CountsFinite ==
    ASSUME TypedRows, NEW ev
    PROVE  /\ IsFiniteSet(Recents(ev)) /\ Cardinality(Recents(ev)) \in Nat
           /\ IsFiniteSet(Inserters(ev)) /\ Cardinality(Inserters(ev)) \in Nat
           /\ Cardinality(Inserters(ev)) <= Cardinality(Emitters)
           /\ Cardinality(Emitters) \in Nat
  <1>1. IsFiniteSet(1 .. Len(rows)) /\ DOMAIN rows = 1 .. Len(rows)
    BY LenProperties, FS_Interval DEF TypedRows
  <1>2. Recents(ev) \in SUBSET (1 .. Len(rows))
    BY <1>1 DEF Recents
  <1>3. IsFiniteSet(Emitters) /\ Inserters(ev) \in SUBSET Emitters
    BY NotificationsAssumption DEF NotificationsAssumption, Inserters
  <1>4. QED
    BY <1>1, <1>2, <1>3, FS_Subset, FS_CardinalityType

\* A step after which no event has more rows, callers or excuses than before.
LEMMA NoMore ==
    ASSUME TypedRows, TypedRows', FewTogether, unchecked \in Nat, unchecked' = unchecked,
           \A ev \in Events \ Audit :
               Recents(ev)' \subseteq Recents(ev) /\ Inserters(ev)' \subseteq Inserters(ev)
    PROVE  FewTogether'
  <1> SUFFICES ASSUME NEW ev \in Events \ Audit
               PROVE  Cardinality(Recents(ev)') + Cardinality(Inserters(ev)')
                          <= Cardinality(Emitters) + unchecked
    BY DEF FewTogether
  <1> DEFINE R  == Recents(ev)
             I  == Inserters(ev)
             R2 == Recents(ev)'
             I2 == Inserters(ev)'
  <1>1. R2 \in SUBSET R /\ I2 \in SUBSET I
    OBVIOUS
  <1>2. /\ IsFiniteSet(R) /\ Cardinality(R) \in Nat /\ IsFiniteSet(I) /\ Cardinality(I) \in Nat
        /\ Cardinality(Emitters) \in Nat
    BY CountsFinite
  <1>3. Cardinality(R) + Cardinality(I) <= Cardinality(Emitters) + unchecked
    BY DEF FewTogether
  <1> HIDE DEF R, I, R2, I2
  <1>4. /\ Cardinality(R2) <= Cardinality(R) /\ Cardinality(I2) <= Cardinality(I)
        /\ IsFiniteSet(R2) /\ IsFiniteSet(I2)
    BY <1>1, <1>2, FS_Subset
  <1>5. Cardinality(R2) \in Nat /\ Cardinality(I2) \in Nat
    BY <1>4, FS_CardinalityType
  <1>6. Cardinality(R2) + Cardinality(I2) <= Cardinality(Emitters) + unchecked
    BY <1>2, <1>3, <1>4, <1>5
  <1>7. QED
    BY <1>6 DEF R2, I2

LEMMA FewEmit ==
    ASSUME IInv, NEW e \in Emitters, EmitStep(e)
    PROVE  FewTogether'
  <1>0. /\ TypedRows /\ TypedCalls /\ TypedRest /\ FewTogether /\ TypedRows' /\ TypedCalls'
        /\ emitter \in [Emitters -> Calls] /\ unchecked \in Nat /\ clock \in Nat
    BY TypeParts, TypePartsNext, TypeEmit, BoundTypes DEF IInv, TypedRest, TypedCalls
  <1>1. clock' = clock
    BY EmitFrame DEF Emitting
  <1>2. ASSUME UNCHANGED <<rows, unchecked>>,
               emitter'[e].pc = "inserting" => emitter'[e].event \in Audit,
               \A f \in Emitters \ {e} : emitter'[f] = emitter[f]
        PROVE  FewTogether'
    <2>1. ASSUME NEW ev \in Events \ Audit
          PROVE  Recents(ev)' \subseteq Recents(ev) /\ Inserters(ev)' \subseteq Inserters(ev)
      <3>1. Recents(ev)' = Recents(ev)
        BY <1>1, <1>2 DEF Recents
      <3>2. ASSUME NEW f \in Emitters, f \in Inserters(ev)'
            PROVE  f \in Inserters(ev)
        BY <1>2, <3>2 DEF Inserters
      <3>3. QED
        BY <3>1, <3>2 DEF Inserters
    <2>2. QED
      BY <1>0, <1>2, <2>1, NoMore
  <1>3. ASSUME NEW ev \in Events, Call(e, ev)
        PROVE  FewTogether'
    <2>1. emitter'[e] = [pc |-> IF ev \in Audit THEN "inserting" ELSE "checking", event |-> ev]
      BY <1>0, <1>3 DEF Call
    <2>2. emitter'[e].pc = "inserting" => emitter'[e].event \in Audit
      BY <2>1
    <2>3. QED
      BY <1>0, <1>2, <1>3, <2>2 DEF Call, history
  <1>4. ASSUME Check(e) \/ CheckFails(e), emitter'[e].pc = "inserting"
        PROVE  FewTogether'
    <2> DEFINE x == emitter[e].event
    <2>1. /\ emitter[e] \in [pc: {"checking", "inserting"}, event: Events]
          /\ emitter[e].pc = "checking"
      BY <1>0, <1>4, CallAt DEF Check, CheckFails
    <2>2. /\ emitter' = [emitter EXCEPT ![e] = [emitter[e] EXCEPT !.pc = "inserting"]]
          /\ Check(e) => ~Recent(x)
      BY <1>0, <1>4, <2>1, RestingIsIdle DEF Check, CheckFails
    <2>3. /\ emitter'[e].event = x /\ emitter'[e].pc = "inserting"
          /\ \A f \in Emitters \ {e} : emitter'[f] = emitter[f]
      BY <1>0, <2>1, <2>2
    <2>4. rows' = rows /\ unchecked' \in {unchecked, unchecked + 1}
          /\ (unchecked' = unchecked => ~Recent(x))
      BY <1>0, <1>4, <2>2 DEF Check, CheckFails, history
    <2> HIDE DEF x
    <2> SUFFICES ASSUME NEW ev \in Events \ Audit
                 PROVE  Cardinality(Recents(ev)') + Cardinality(Inserters(ev)')
                            <= Cardinality(Emitters) + unchecked'
      BY DEF FewTogether
    <2>5. Recents(ev)' = Recents(ev)
      BY <1>1, <2>4 DEF Recents
    <2>6. Cardinality(Recents(ev)) + Cardinality(Inserters(ev)) <= Cardinality(Emitters) + unchecked
      BY <1>0 DEF FewTogether
    <2>7. /\ Cardinality(Recents(ev)) \in Nat
          /\ IsFiniteSet(Inserters(ev)) /\ Cardinality(Inserters(ev)) \in Nat
          /\ Cardinality(Inserters(ev)') \in Nat
          /\ Cardinality(Inserters(ev)') <= Cardinality(Emitters)
          /\ Cardinality(Emitters) \in Nat
      <3>1. /\ Cardinality(Inserters(ev)') \in Nat
            /\ Cardinality(Inserters(ev)') <= Cardinality(Emitters)
        <4>1. IsFiniteSet(Emitters) /\ Inserters(ev)' \in SUBSET Emitters
          BY NotificationsAssumption DEF NotificationsAssumption, Inserters
        <4>2. QED
          BY <4>1, FS_Subset, FS_CardinalityType
      <3>2. QED
        BY <1>0, <3>1, CountsFinite
    <2>8. CASE ev # x
      <3>1. Inserters(ev)' = Inserters(ev)
        BY <2>1, <2>3, <2>8 DEF Inserters, x
      <3>2. QED
        BY <1>0, <2>4, <2>5, <2>6, <2>7, <3>1
    <2>9. CASE ev = x
      <3>1. CASE unchecked' = unchecked
        <4>1. Recents(ev) = {}
          BY <2>4, <2>9, <3>1 DEF Recent, Recents
        <4>2. Cardinality(Recents(ev)) = 0
          BY <4>1, FS_EmptySet
        <4>3. QED
          BY <1>0, <2>5, <2>7, <3>1, <4>2
      <3>2. CASE unchecked' = unchecked + 1
        <4>1. Inserters(ev)' = Inserters(ev) \cup {e}
          BY <2>3, <2>9 DEF Inserters
        <4>2. Cardinality(Inserters(ev)') <= Cardinality(Inserters(ev)) + 1
          BY <2>7, <4>1, OneMore
        <4>3. QED
          BY <1>0, <2>5, <2>6, <2>7, <3>2, <4>2
      <3>3. QED
        BY <2>4, <3>1, <3>2
    <2>10. QED
      BY <2>8, <2>9
  <1>5. ASSUME Check(e), emitter'[e].pc # "inserting"
        PROVE  FewTogether'
    <2>1. UNCHANGED <<rows, unchecked>> /\ \A f \in Emitters \ {e} : emitter'[f] = emitter[f]
      BY <1>0, <1>5 DEF Check, history
    <2>2. QED
      BY <1>2, <1>5, <2>1
  <1>6. ASSUME CheckFails(e), emitter'[e].pc # "inserting"
        PROVE  FALSE
    <2>1. emitter[e] \in [pc: {"checking", "inserting"}, event: Events]
      BY <1>0, <1>6, CallAt DEF CheckFails
    <2>2. QED
      BY <1>0, <1>6, <2>1 DEF CheckFails
  <1>7. CASE Insert(e)
    <2> DEFINE x == emitter[e].event
    <2>1. /\ emitter[e].pc = "inserting" /\ x \in Events
          /\ rows' = Append(rows, [event |-> x, at |-> clock])
          /\ unchecked' = unchecked
      BY <1>0, <1>7, CallAt DEF Insert, history
    <2>2. /\ emitter'[e].pc # "inserting"
          /\ \A f \in Emitters \ {e} : emitter'[f] = emitter[f]
      BY <1>0, <1>7, RestingIsIdle DEF Insert
    <2>3. /\ Len(rows) \in Nat /\ Len(rows') = Len(rows) + 1
          /\ DOMAIN rows = 1 .. Len(rows) /\ DOMAIN rows' = 1 .. Len(rows')
          /\ \A i \in 1 .. Len(rows) : rows'[i] = rows[i]
          /\ rows'[Len(rows) + 1] = [event |-> x, at |-> clock]
      <3>1. /\ rows \in Seq([event: Events, at: 1 .. MaxTime])
            /\ [event |-> x, at |-> clock] \in [event: Events, at: 1 .. MaxTime]
        BY <1>0, <2>1 DEF TypedRows, TypedRest
      <3> HIDE DEF x
      <3>2. QED
        BY <2>1, <3>1, AppendProperties, LenProperties
    <2> HIDE DEF x
    <2> SUFFICES ASSUME NEW ev \in Events \ Audit
                 PROVE  Cardinality(Recents(ev)') + Cardinality(Inserters(ev)')
                            <= Cardinality(Emitters) + unchecked
      BY <2>1 DEF FewTogether
    <2>4. Cardinality(Recents(ev)) + Cardinality(Inserters(ev)) <= Cardinality(Emitters) + unchecked
      BY <1>0 DEF FewTogether
    <2>5. /\ IsFiniteSet(Recents(ev)) /\ Cardinality(Recents(ev)) \in Nat
          /\ IsFiniteSet(Inserters(ev)) /\ Cardinality(Inserters(ev)) \in Nat
          /\ Cardinality(Emitters) \in Nat
      BY <1>0, CountsFinite
    <2>6. CASE ev = x
      <3>1. Recents(ev)' = Recents(ev) \cup {Len(rows) + 1}
        <4>1. rows'[Len(rows) + 1].event = ev /\ rows'[Len(rows) + 1].at + Window > clock
          BY <1>0, <2>3, <2>6, BoundTypes
        <4>2. \A i \in 1 .. Len(rows') : i \in 1 .. Len(rows) \/ i = Len(rows) + 1
          BY <2>3
        <4>3. Len(rows) + 1 \in 1 .. Len(rows') /\ \A i \in 1 .. Len(rows) : i \in 1 .. Len(rows')
          BY <2>3
        <4>4. QED
          BY <1>1, <2>3, <4>1, <4>2, <4>3 DEF Recents
      <3>2. Inserters(ev)' = Inserters(ev) \ {e} /\ e \in Inserters(ev)
        BY <2>1, <2>2, <2>6 DEF Inserters, x
      <3>3. /\ Cardinality(Recents(ev)') <= Cardinality(Recents(ev)) + 1
            /\ Cardinality(Recents(ev)') \in Nat
        BY <2>5, <3>1, OneMore
      <3>4. Cardinality(Inserters(ev)') = Cardinality(Inserters(ev)) - 1
        BY <2>5, <3>2, FS_RemoveElement
      <3>5. QED
        BY <1>0, <2>4, <2>5, <3>3, <3>4
    <2>7. CASE ev # x
      <3>1. Recents(ev)' = Recents(ev)
        <4>1. \A i \in 1 .. Len(rows') : i \in 1 .. Len(rows) \/ i = Len(rows) + 1
          BY <2>3
        <4>2. \A i \in 1 .. Len(rows) : i \in 1 .. Len(rows')
          BY <2>3
        <4>3. rows'[Len(rows) + 1].event # ev
          BY <2>3, <2>7
        <4>4. QED
          BY <1>1, <2>3, <4>1, <4>2, <4>3 DEF Recents
      <3>2. Inserters(ev)' = Inserters(ev)
        BY <2>1, <2>2, <2>7 DEF Inserters, x
      <3>3. QED
        BY <2>4, <3>1, <3>2
    <2>8. QED
      BY <2>6, <2>7
  <1>8. CASE InsertFails(e) \/ Enqueue(e)
    <2>1. emitter'[e] = Resting /\ UNCHANGED <<rows, unchecked>>
          /\ \A f \in Emitters \ {e} : emitter'[f] = emitter[f]
      BY <1>0, <1>8 DEF InsertFails, Enqueue, history
    <2>2. QED
      BY <1>2, <2>1, RestingIsIdle
  <1>9. QED
    BY <1>3, <1>4, <1>5, <1>6, <1>7, <1>8 DEF EmitStep

\* Steps that neither insert nor look anything up.
LEMMA FewOther ==
    ASSUME IInv, TypeOK',
           Tick \/ Start \/ Ready \/ Stop \/ Router \/ (\E s \in sending : SendEnds(s))
           \/ (\E a \in Admins : Edit(a)) \/ (\E a \in Refreshers : Refresh(a)) \/ DigestStep
    PROVE  FewTogether'
  <1>0. /\ TypedRows /\ TypedRows' /\ FewTogether /\ TypedRest
        /\ unchecked \in Nat /\ clock \in Nat
    BY TypeParts, TypePartsNext, BoundTypes DEF IInv, TypedRest
  <1>1. /\ UNCHANGED <<rows, unchecked>> /\ clock' \in {clock, clock + 1}
        /\ emitter' \in {emitter, [e \in Emitters |-> Resting]}
    <2>1. CASE Tick \/ Start \/ Ready \/ Stop
      BY <2>1 DEF Tick, Start, Ready, Stop, serviceVars, history
    <2>2. CASE Router \/ \E s \in sending : SendEnds(s)
      BY <2>2, DispatchFrame DEF Dispatching, history
    <2>3. ASSUME NEW a \in Admins, Edit(a)
          PROVE  UNCHANGED <<rows, unchecked, clock, emitter>>
      BY <2>3, EditFrame DEF Administering
    <2>4. ASSUME NEW a \in Refreshers, Refresh(a)
          PROVE  UNCHANGED <<rows, unchecked, clock, emitter>>
      BY <2>4, RefreshFrame DEF Administering
    <2>5. CASE DigestStep
      BY <2>5, DigestFrame DEF Digesting
    <2>6. QED
      BY <2>1, <2>2, <2>3, <2>4, <2>5
  <1>2. ASSUME NEW ev \in Events \ Audit
        PROVE  Recents(ev)' \subseteq Recents(ev) /\ Inserters(ev)' \subseteq Inserters(ev)
    <2>1. \A i \in DOMAIN rows : rows[i].at \in Nat
      <3>1. rows \in Seq([event: Events, at: 1 .. MaxTime])
        BY <1>0 DEF TypedRows
      <3>2. ASSUME NEW i \in 1 .. Len(rows)
            PROVE  rows[i].at \in Nat
        <4>1. rows[i] \in [event: Events, at: 1 .. MaxTime]
          BY <3>1, ElementOfSeq
        <4>2. QED
          BY <4>1, BoundTypes
      <3>3. DOMAIN rows = 1 .. Len(rows)
        BY <3>1, LenProperties
      <3>4. QED
        BY <3>2, <3>3
    <2>2. Recents(ev)' \subseteq Recents(ev)
      BY <1>0, <1>1, <2>1, BoundTypes DEF Recents
    <2>3. Inserters(ev)' \subseteq Inserters(ev)
      BY <1>1, RestingIsIdle DEF Inserters
    <2>4. QED
      BY <2>2, <2>3
  <1>3. QED
    BY <1>0, <1>1, <1>2, NoMore

-----------------------------------------------------------------------------
(* Deleted channels.                                                       *)

\* Steps that leave the cache, the channels and the refreshes as they are.
LEMMA RefreshedKept ==
    ASSUME Refreshed, UNCHANGED <<cache, admin, deleted, gone>>,
           config'.channels = config.channels
    PROVE  Refreshed'
  BY DEF Refreshed

LEMMA RefreshedEdit ==
    ASSUME IInv, NEW a \in Admins, Edit(a)
    PROVE  Refreshed'
  <1>0. Refreshed /\ TypedConfig /\ TypedRest
    BY TypeParts DEF IInv
  <1>1. PICK c \in Configs : Write(a, c) /\ MayWrite(c)
    BY EditWrites
  <1>2. UNCHANGED <<cache, gone>>
    BY EditFrame
  <1>3. config'.channels \cap deleted' = {}
    BY <1>0, <1>1 DEF Write, MayWrite, Refreshed
  <1>4. ASSUME NEW b \in Refreshers
        PROVE  ~(admin'[b].pc = "storing" /\ admin'[b].alone)
    <2>1. CASE b = a
      BY <1>1, <2>1, <1>4 DEF Write
    <2>2. CASE b # a /\ b \in Busy
      <3>1. admin'[b] = [admin[b] EXCEPT !.alone = FALSE]
        BY <1>1, <2>2 DEF Write
      <3>2. admin[b] \in Refreshes /\ admin[b] # Resting
        BY <1>0, <2>2 DEF TypedConfig, Busy
      <3>3. admin'[b].alone = FALSE
        BY <3>1, <3>2 DEF Refreshes
      <3>4. QED
        BY <3>3
    <2>3. CASE b # a /\ b \notin Busy
      BY <1>1, <2>3, RestingIsIdle DEF Write, Busy
    <2>4. QED
      BY <2>1, <2>2, <2>3
  <1>5. QED
    BY <1>0, <1>2, <1>3, <1>4 DEF Refreshed

LEMMA RefreshedRefresh ==
    ASSUME IInv, NEW a \in Refreshers, Refresh(a)
    PROVE  Refreshed'
  <1>0. Refreshed /\ TypedConfig /\ TypedRest
    BY TypeParts DEF IInv
  <1>1. UNCHANGED <<config, deleted>>
    BY RefreshFrame
  <1>2. admin \in [Refreshers -> Refreshes]
    BY <1>0 DEF TypedConfig
  <1>3. \A b \in Refreshers \ {a} : admin'[b] = admin[b]
    BY <1>2 DEF Refresh, ReadRules, ReadChannels, ReadFails, Store
  <1>4. CASE ReadRules(a) \/ ReadFails(a)
    <2>1. UNCHANGED <<cache, gone>> /\ admin'[a].pc # "storing"
      BY <1>2, <1>4, RestingIsIdle DEF ReadRules, ReadFails, history
    <2>2. QED
      BY <1>0, <1>1, <1>3, <2>1 DEF Refreshed
  <1>5. CASE ReadChannels(a)
    <2>1. UNCHANGED <<cache, gone>>
      BY <1>5 DEF ReadChannels, history
    <2>2. admin'[a].read.channels = config.channels
      <3>1. admin'[a].read = [config EXCEPT !.rules = admin[a].rules]
        BY <1>2, <1>5 DEF ReadChannels
      <3>2. config \in Configs
        BY <1>0 DEF TypedConfig
      <3>3. QED
        BY <3>1, <3>2 DEF Configs
    <2>3. QED
      BY <1>0, <1>1, <1>3, <2>1, <2>2 DEF Refreshed
  <1>6. CASE Store(a)
    <2>1. /\ cache' = admin[a].read /\ admin'[a] = Resting /\ admin[a].pc = "storing"
          /\ gone' = IF admin[a].alone THEN deleted ELSE {}
      BY <1>2, <1>6 DEF Store
    <2>2. admin[a].alone \in BOOLEAN
      BY <1>0, <2>1, RefreshAt, RestingIsIdle
    <2>3. cache'.channels \cap gone' = {}
      BY <1>0, <2>1, <2>2 DEF Refreshed
    <2>4. QED
      BY <1>0, <1>1, <1>3, <2>1, <2>3, RestingIsIdle DEF Refreshed
  <1>7. QED
    BY <1>4, <1>5, <1>6 DEF Refresh

LEMMA RefreshedStep ==
    ASSUME IInv, Next
    PROVE  Refreshed'
  <1>0. Refreshed /\ TypedConfig
    BY TypeParts DEF IInv
  <1>1. CASE Tick \/ Ready
    BY <1>0, <1>1, RefreshedKept DEF Tick, Ready, serviceVars, history
  <1>2. CASE Start
    <2>1. /\ UNCHANGED <<config, cache, deleted, gone>>
          /\ admin' = [admin EXCEPT ![Boot] = [pc |-> "rules", alone |-> TRUE]]
          /\ admin \in [Refreshers -> Refreshes]
      BY <1>0, <1>2 DEF Start, history, TypedConfig
    <2>2. \A b \in Refreshers : admin'[b].pc = "storing" => admin'[b] = admin[b]
      BY <2>1
    <2>3. QED
      BY <1>0, <2>1, <2>2 DEF Refreshed
  <1>3. CASE Stop
    <2>1. /\ UNCHANGED <<config, deleted, gone>> /\ cache' = NoRules
          /\ \A b \in Refreshers : admin'[b].pc = "idle"
      BY <1>3, RestingIsIdle DEF Stop, history
    <2>2. QED
      BY <1>0, <2>1 DEF Refreshed, NoRules
  <1>4. ASSUME NEW e \in Emitters, EmitStep(e)
        PROVE  Refreshed'
    BY <1>0, <1>4, EmitFrame, RefreshedKept DEF Emitting
  <1>5. CASE Router \/ \E s \in sending : SendEnds(s)
    BY <1>0, <1>5, DispatchFrame, RefreshedKept DEF Dispatching, history
  <1>6. CASE DigestStep
    <2>1. config'.channels = config.channels
      <3>1. CASE Mark
        <4>1. config \in Configs
          BY <1>0 DEF TypedConfig
        <4>2. QED
          BY <3>1, <4>1 DEF Mark, Configs
      <3>2. CASE ~Mark
        BY <1>6, <3>2 DEF DigestStep, DigestTime, Query, QueryFails, MarkFails, Mail,
             MailRefused, DigestsDone
      <3>3. QED
        BY <3>1, <3>2
    <2>2. QED
      BY <1>0, <1>6, <2>1, DigestFrame, RefreshedKept DEF Digesting
  <1>7. QED
    BY <1>1, <1>2, <1>3, <1>4, <1>5, <1>6, RefreshedEdit, RefreshedRefresh DEF Next

-----------------------------------------------------------------------------
(* What the digests have accounted for.                                    *)

Grows == \A m \in Mails : Accounted(m) \subseteq Accounted(m)'

\* A step that forgets nothing, and brings no last_sent_at of its own.
LEMMA AccountedKept ==
    ASSUME AccountedBefore, Grows,
           config'.sent = config.sent \/ AccountedUpTo(config.sent)',
           cache'.sent = cache.sent \/ AccountedUpTo(cache'.sent),
           \A a \in Refreshers : admin'[a].pc = "storing" =>
               admin'[a] = admin[a] \/ AccountedUpTo(admin'[a].read.sent),
           digest' # Resting =>
               digest'.from = cache \/ (digest # Resting /\ digest'.from = digest.from)
    PROVE  AccountedBefore'
  <1>1. \A sent : AccountedUpTo(sent) =>
            \A m \in Mails : \A i \in Rows : i < sent[m] => i \in Accounted(m)'
    BY DEF AccountedUpTo, Grows
  <1>2. AccountedUpTo(config.sent)' /\ AccountedUpTo(cache.sent)'
    BY <1>1 DEF AccountedBefore, AccountedUpTo
  <1>3. ASSUME NEW a \in Refreshers, admin'[a].pc = "storing"
        PROVE  AccountedUpTo(admin[a].read.sent)'
    BY <1>1, <1>3 DEF AccountedBefore, AccountedUpTo
  <1>4. digest' # Resting => AccountedUpTo(digest.from.sent)'
    BY <1>1 DEF AccountedBefore, AccountedUpTo
  <1>5. QED
    BY <1>2, <1>3, <1>4 DEF AccountedBefore

LEMMA GrowsKept == ASSUME UNCHANGED <<digest, passed, mailed>> PROVE Grows
  BY DEF Grows, Accounted

\* A step that leaves the digest alone.
LEMMA AccountedUnchanged ==
    ASSUME AccountedBefore, UNCHANGED <<digest, passed, mailed>>, config'.sent = config.sent,
           cache'.sent = cache.sent \/ AccountedUpTo(cache'.sent),
           \A a \in Refreshers : admin'[a].pc = "storing" =>
               admin'[a] = admin[a] \/ AccountedUpTo(admin'[a].read.sent)
    PROVE  AccountedBefore'
  BY GrowsKept, AccountedKept

\* A digest that is not mailed passes its rows over.
LEMMA UnmailedGrows ==
    ASSUME passed \in [Mails -> [Reasons -> SUBSET Rows]], digest.ch \in Mails,
           digest.rows \subseteq Rows, passed' = Unmailed, UNCHANGED mailed
    PROVE  Grows
  <1>1. "unmailed" \in Reasons
    BY DEF Reasons
  <1>2. /\ digest.rows \subseteq passed'[digest.ch]["unmailed"]
        /\ \A m \in Mails, w \in Reasons : passed[m][w] \subseteq passed'[m][w]
    BY UnmailedType
  <1>3. QED
    BY <1>1, <1>2 DEF Grows, Accounted

LEMMA AccountedRefresh ==
    ASSUME IInv, NEW a \in Refreshers, Refresh(a)
    PROVE  AccountedBefore'
  <1>0. AccountedBefore /\ TypedConfig
    BY TypeParts DEF IInv
  <1>1. UNCHANGED <<config, passed, mailed, digest>>
    BY RefreshFrame DEF Administering
  <1>2. admin \in [Refreshers -> Refreshes] /\ config \in Configs
    BY <1>0 DEF TypedConfig
  <1>3. \A b \in Refreshers \ {a} : admin'[b] = admin[b]
    BY <1>2 DEF Refresh, ReadRules, ReadChannels, ReadFails, Store
  <1>4. admin'[a].pc = "storing" => admin'[a].read.sent = config.sent
    <2>1. CASE ReadChannels(a)
      <3>1. admin'[a].read = [config EXCEPT !.rules = admin[a].rules]
        BY <1>2, <2>1 DEF ReadChannels
      <3>2. QED
        BY <1>2, <3>1 DEF Configs
    <2>2. CASE ReadRules(a) \/ ReadFails(a) \/ Store(a)
      BY <1>2, <2>2, RestingIsIdle DEF ReadRules, ReadFails, Store
    <2>3. QED
      BY <2>1, <2>2 DEF Refresh
  <1>5. cache' = cache \/ (admin[a].pc = "storing" /\ cache' = admin[a].read)
    BY DEF Refresh, ReadRules, ReadChannels, ReadFails, Store
  <1>6. cache'.sent = cache.sent \/ AccountedUpTo(cache'.sent)
    BY <1>0, <1>5 DEF AccountedBefore
  <1>7. \A b \in Refreshers : admin'[b].pc = "storing" =>
            admin'[b] = admin[b] \/ AccountedUpTo(admin'[b].read.sent)
    BY <1>0, <1>3, <1>4 DEF AccountedBefore
  <1>8. QED
    BY <1>0, <1>1, <1>6, <1>7, AccountedUnchanged

\* A row there is when a digest marks is in the digest, passed over, or older than
\* the last_sent_at the digest works from.
LEMMA SkippedCovers ==
    ASSUME TypedRows, TypedDigest, digest.pc = "marking", NEW i \in DOMAIN rows
    PROVE  LET m == digest.ch
           IN  \/ i \in digest.rows
               \/ i < digest.from.sent[m]
               \/ \E w \in Reasons : i \in Skipped(m)[w]
  <1> DEFINE m == digest.ch
             s == digest.from.sent[m]
  <1>1. /\ i \in Int /\ digest.upTo \in Int /\ s \in Int
    <2>1. digest.from \in Configs /\ m \in Mails /\ digest.upTo \in 0 .. MaxRows
      BY DigestAt, RestingIsIdle
    <2>2. s \in 0 .. MaxRows + 1
      BY <2>1 DEF Configs
    <2>3. i \in 1 .. Len(rows) /\ Len(rows) \in Nat
      BY LenProperties DEF TypedRows
    <2>4. QED
      BY <2>1, <2>2, <2>3, BoundTypes
  <1>2. {"unwanted", "cut", "late", "old"} \subseteq Reasons
    BY DEF Reasons
  <1>3. CASE ~(i <= digest.upTo)
    <2>1. i \in Skipped(m)["late"]
      BY <1>3 DEF Skipped
    <2>2. QED
      BY <1>2, <2>1
  <1>4. CASE i <= digest.upTo /\ i \notin Since(m)
    <2>1. CASE s = 0
      <3>1. i \in Skipped(m)["old"]
        BY <1>4, <2>1 DEF Skipped
      <3>2. QED
        BY <1>2, <3>1
    <2>2. CASE s # 0
      BY <1>1, <1>4, <2>2 DEF Since
    <2>3. QED
      BY <2>1, <2>2
  <1>5. CASE i <= digest.upTo /\ i \in Since(m) \ Wanted(m)
    <2>1. i \in Skipped(m)["unwanted"]
      BY <1>5 DEF Skipped
    <2>2. QED
      BY <1>2, <2>1
  <1>6. CASE i <= digest.upTo /\ i \in Wanted(m) /\ i \notin digest.rows
    <2>1. i \in Skipped(m)["cut"]
      BY <1>6 DEF Skipped
    <2>2. QED
      BY <1>2, <2>1
  <1>7. QED
    BY <1>3, <1>4, <1>5, <1>6

\* The queries, marks and mails of a digest.
LEMMA AccountedDigest ==
    ASSUME IInv, DigestStep
    PROVE  AccountedBefore'
  <1>0. AccountedBefore /\ TypedRows /\ TypedConfig /\ TypedDigest
    BY TypeParts DEF IInv
  <1>1. UNCHANGED <<rows, cache, admin>>
    BY DigestFrame DEF Digesting
  <1>2. /\ Len(rows) \in Nat /\ DOMAIN rows = 1 .. Len(rows)
        /\ config \in Configs /\ digest \in Digests
        /\ passed \in [Mails -> [Reasons -> SUBSET Rows]]
        /\ mailed \in [Mails -> [once: SUBSET Rows, twice: SUBSET Rows]]
    BY <1>0, LenProperties DEF TypedDigest, TypedRows, TypedConfig
  <1>3. digest' # Resting =>
            digest'.from = cache \/ (digest # Resting /\ digest'.from = digest.from)
    <2>1. CASE DigestTime \/ DigestsDone
      BY <2>1 DEF DigestTime, DigestsDone
    <2>2. CASE \E m \in Mails : Query(m) \/ QueryFails(m)
      BY <1>2, <2>2, RestingIsIdle DEF Query, QueryFails, Digests
    <2>3. CASE Mark \/ MarkFails
      BY <1>2, <2>3, RestingIsIdle DEF Mark, MarkFails, Digests
    <2>4. CASE Mail \/ MailRefused
      BY <2>4, RestingIsIdle DEF Mail, MailRefused, NextMail
    <2>5. QED
      BY <2>1, <2>2, <2>3, <2>4 DEF DigestStep
  <1>4. ASSUME Grows, config'.sent = config.sent \/ AccountedUpTo(config.sent)'
        PROVE  AccountedBefore'
    BY <1>0, <1>1, <1>3, <1>4, AccountedKept
  <1>5. CASE DigestTime \/ DigestsDone \/ MarkFails
    <2>1. UNCHANGED <<config, passed, mailed>> /\ digest.pc # "mailing"
      BY <1>5, RestingIsIdle DEF DigestTime, DigestsDone, MarkFails
    <2>2. QED
      BY <1>4, <2>1 DEF Grows, Accounted
  <1>6. CASE \E m \in Mails : Query(m) \/ QueryFails(m)
    <2>1. UNCHANGED <<config, passed, mailed>> /\ digest.pc # "mailing"
      BY <1>6 DEF Query, QueryFails
    <2>2. QED
      BY <1>4, <2>1 DEF Grows, Accounted
  <1>7. CASE Mark
    <2> DEFINE m == digest.ch
    <2>1. /\ digest.pc = "marking" /\ m \in Mails /\ UNCHANGED mailed
          /\ digest' = [digest EXCEPT !.pc = "mailing"]
      BY <1>0, <1>7, DigestAt DEF Mark
    <2>2. /\ digest'.pc = "mailing" /\ digest'.ch = m /\ digest'.rows = digest.rows
          /\ digest # Resting
      BY <1>2, <2>1, RestingIsIdle DEF Digests
    <2>3. CASE UNCHANGED <<config, passed>>
      BY <1>4, <2>1, <2>3 DEF Grows, Accounted
    <2>4. CASE /\ config' = [config EXCEPT !.sent[m] = Len(rows) + 1]
               /\ passed' = [passed EXCEPT ![m] =
                      [w \in Reasons |-> @[w] \cup Skipped(m)[w]]]
      <3>1. /\ \A n \in Mails, w \in Reasons : passed[n][w] \subseteq passed'[n][w]
            /\ \A w \in Reasons : passed'[m][w] = passed[m][w] \cup Skipped(m)[w]
        BY <1>2, <2>1, <2>4
      <3>2. Grows
        BY <2>1, <3>1 DEF Grows, Accounted
      <3>3. ASSUME NEW n \in Mails, NEW i \in Rows, i < config'.sent[n]
            PROVE  i \in Accounted(n)'
        <4>1. config'.sent = [config.sent EXCEPT ![m] = Len(rows) + 1]
          BY <1>2, <2>4 DEF Configs
        <4>2. CASE n # m
          <5>1. i < config.sent[n]
            BY <1>2, <3>3, <4>1, <4>2 DEF Configs
          <5>2. QED
            BY <1>0, <3>2, <5>1 DEF AccountedBefore, AccountedUpTo, Grows
        <4>3. CASE n = m
          <5>1. i \in DOMAIN rows
            <6>1. config'.sent[m] = Len(rows) + 1
              BY <1>2, <2>1, <4>1 DEF Configs
            <6>2. QED
              BY <1>2, <3>3, <4>3, <6>1, BoundTypes
          <5>2. CASE i \in digest.rows
            BY <2>2, <4>3, <5>2 DEF Accounted
          <5>3. CASE i < digest.from.sent[m]
            BY <1>0, <2>2, <3>2, <4>3, <5>3 DEF AccountedBefore, AccountedUpTo, Grows
          <5>4. CASE \E w \in Reasons : i \in Skipped(m)[w]
            BY <3>1, <4>3, <5>4 DEF Accounted
          <5>5. QED
            BY <1>0, <2>1, <5>1, <5>2, <5>3, <5>4, SkippedCovers
        <4>4. QED
          BY <4>2, <4>3
      <3>4. AccountedUpTo(config.sent)'
        BY <3>3 DEF AccountedUpTo
      <3>5. QED
        BY <1>4, <3>2, <3>4
    <2>5. QED
      BY <1>7, <2>3, <2>4 DEF Mark
  <1>8. CASE Mail
    <2>1. /\ digest.pc = "mailing" /\ digest.ch \in Mails
          /\ UNCHANGED <<config, passed>>
          /\ mailed' = [mailed EXCEPT ![digest.ch] =
                 [once |-> @.once \cup digest.rows,
                  twice |-> @.twice \cup (@.once \cap digest.rows)]]
      BY <1>0, <1>8, DigestAt DEF Mail
    <2>2. /\ \A m \in Mails : mailed[m].once \subseteq mailed'[m].once
          /\ digest.rows \subseteq mailed'[digest.ch].once
      BY <1>2, <2>1
    <2>3. QED
      BY <1>4, <2>1, <2>2 DEF Grows, Accounted
  <1>9. CASE MailRefused
    <2>1. /\ digest.pc = "mailing" /\ digest.ch \in Mails /\ digest.rows \subseteq Rows
          /\ UNCHANGED <<config, mailed>> /\ passed' = Unmailed
      BY <1>0, <1>9, DigestAt DEF MailRefused
    <2>2. QED
      BY <1>2, <1>4, <2>1, UnmailedGrows
  <1>10. QED
    BY <1>5, <1>6, <1>7, <1>8, <1>9 DEF DigestStep

LEMMA AccountedStep ==
    ASSUME IInv, Next
    PROVE  AccountedBefore'
  <1>0. AccountedBefore /\ TypedConfig /\ TypedDigest
    BY TypeParts DEF IInv
  <1>1. CASE Tick \/ Ready
    BY <1>0, <1>1, AccountedUnchanged DEF Tick, Ready, serviceVars, history
  <1>2. CASE Start
    <2>1. /\ UNCHANGED <<digest, passed, mailed, config, cache>>
          /\ admin' = [admin EXCEPT ![Boot] = [pc |-> "rules", alone |-> TRUE]]
          /\ admin \in [Refreshers -> Refreshes]
      BY <1>0, <1>2 DEF Start, history, TypedConfig
    <2>2. \A b \in Refreshers : admin'[b].pc = "storing" => admin'[b] = admin[b]
      BY <2>1
    <2>3. QED
      BY <1>0, <2>1, <2>2, AccountedUnchanged
  <1>3. CASE Stop
    <2>1. /\ UNCHANGED <<config, mailed>> /\ cache' = NoRules /\ digest' = Resting
          /\ \A b \in Refreshers : admin'[b].pc = "idle"
      BY <1>3, RestingIsIdle DEF Stop
    <2>2. AccountedUpTo(cache'.sent)
      <3>1. \A m \in Mails : cache'.sent[m] = 0
        BY <2>1 DEF NoRules
      <3>2. \A i \in Rows : ~(i < 0)
        BY BoundTypes
      <3>3. QED
        BY <3>1, <3>2 DEF AccountedUpTo
    <2>3. Grows
      <3>1. passed \in [Mails -> [Reasons -> SUBSET Rows]]
        BY <1>0 DEF TypedDigest
      <3>2. CASE digest.pc = "mailing"
        <4>1. digest.ch \in Mails /\ digest.rows \subseteq Rows /\ passed' = Unmailed
          BY <1>0, <1>3, <3>2, DigestAt DEF Stop
        <4>2. QED
          BY <2>1, <3>1, <4>1, UnmailedGrows
      <3>3. CASE digest.pc # "mailing"
        BY <1>3, <2>1, <3>3 DEF Stop, Grows, Accounted
      <3>4. QED
        BY <3>2, <3>3
    <2>4. QED
      BY <1>0, <2>1, <2>2, <2>3, AccountedKept
  <1>4. CASE Router \/ \E s \in sending : SendEnds(s)
    BY <1>0, <1>4, DispatchFrame, AccountedUnchanged DEF Dispatching, history
  <1>5. ASSUME NEW a \in Admins, Edit(a)
        PROVE  AccountedBefore'
    <2>1. PICK c \in Configs : Write(a, c) /\ MayWrite(c)
      BY <1>5, EditWrites
    <2>2. UNCHANGED <<digest, passed, mailed, cache>>
      BY <1>5, EditFrame DEF Administering
    <2>3. config'.sent = config.sent
      BY <2>1 DEF Write, MayWrite
    <2>4. ASSUME NEW b \in Refreshers, admin'[b].pc = "storing"
          PROVE  AccountedUpTo(admin'[b].read.sent)
      <3>1. CASE b \in Busy /\ b # a
        <4>1. admin'[b] = [admin[b] EXCEPT !.alone = FALSE]
          BY <2>1, <3>1 DEF Write
        <4>2. admin[b] \in Refreshes /\ admin[b] # Resting
          BY <1>0, <3>1 DEF TypedConfig, Busy
        <4>3. admin[b].pc = "storing" /\ admin'[b].read = admin[b].read
          BY <2>4, <4>1, <4>2 DEF Refreshes
        <4>4. QED
          BY <1>0, <4>3 DEF AccountedBefore
      <3>2. CASE b = a
        <4>1. admin'[b] = [pc |-> "rules", alone |-> Busy = {}]
          <5>1. a \notin Busy
            BY <2>1 DEF Write, Busy
          <5>2. QED
            BY <2>1, <3>2, <5>1 DEF Write
        <4>2. QED
          BY <2>4, <4>1
      <3>3. CASE b # a /\ b \notin Busy
        <4>1. admin'[b] = admin[b] /\ admin[b] = Resting
          BY <2>1, <3>3 DEF Write, Busy
        <4>2. QED
          BY <2>4, <4>1, RestingIsIdle
      <3>4. QED
        BY <3>1, <3>2, <3>3
    <2>5. QED
      BY <1>0, <2>2, <2>3, <2>4, AccountedUnchanged
  <1>7. ASSUME NEW e \in Emitters, EmitStep(e)
        PROVE  AccountedBefore'
    BY <1>0, <1>7, EmitFrame, AccountedUnchanged DEF Emitting
  <1>6. QED
    BY <1>1, <1>2, <1>3, <1>4, <1>5, <1>7, AccountedRefresh, AccountedDigest DEF Next

-----------------------------------------------------------------------------

LEMMA Initially == Init => IInv
  <1> SUFFICES ASSUME Init
               PROVE  IInv
    OBVIOUS
  <1>1. TypeOK /\ TypedRows /\ TypedConfig
    BY TypeInit, TypeParts
  <1>2. RowsApart
    <2>1. InHand = {} /\ InQueue = {}
      <3>1. Len(queue) = 0 /\ sending = {} /\ router = Resting
        BY DEF Init
      <3>2. QED
        BY <3>1 DEF InHand, InQueue
    <2>2. \A e \in Emitters : ~Offers(e)
      BY RestingIsIdle DEF Init, Offers
    <2>3. QED
      BY <2>1, <2>2 DEF Init, RowsApart
  <1>3. SlotsHeld /\ SearchesFailed
    BY FS_EmptySet DEF Init, SlotsHeld, SearchesFailed
  <1>4. FewTogether
    <2>1. ASSUME NEW ev \in Events \ Audit
          PROVE  Cardinality(Recents(ev)) + Cardinality(Inserters(ev))
                     <= Cardinality(Emitters) + unchecked
      <3>1. Recents(ev) = {} /\ Inserters(ev) = {}
        BY RestingIsIdle DEF Init, Recents, Inserters
      <3>2. Cardinality({}) = 0 /\ Cardinality(Emitters) \in Nat /\ unchecked = 0
        BY <1>1, CountsFinite, FS_EmptySet DEF Init
      <3>3. QED
        BY <3>1, <3>2
    <2>2. QED
      BY <2>1 DEF FewTogether
  <1>5. Refreshed
    BY RestingIsIdle DEF Init, Refreshed, NoRules
  <1>6. AccountedBefore
    <2>1. /\ config.sent = NoRules.sent /\ cache = NoRules /\ digest = Resting
          /\ \A a \in Refreshers : admin[a] = Resting
      BY DEF Init
    <2>2. AccountedUpTo(NoRules.sent)
      <3>1. \A m \in Mails : NoRules.sent[m] = 0
        BY DEF NoRules
      <3>2. \A i \in Rows : ~(i < 0)
        BY BoundTypes
      <3>3. QED
        BY <3>1, <3>2 DEF AccountedUpTo
    <2>3. QED
      BY <2>1, <2>2, RestingIsIdle DEF AccountedBefore
  <1>7. QED
    BY <1>1, <1>2, <1>3, <1>4, <1>5, <1>6 DEF IInv

LEMMA Inductive == IInv /\ [Next]_vars => IInv'
  <1> SUFFICES ASSUME IInv, [Next]_vars
               PROVE  IInv'
    OBVIOUS
  <1>1. CASE Next
    <2>1. TypeOK' /\ SearchesFailed'
      BY <1>1, TypeEmit, TypeDispatch, TypeEdit, TypeRefresh, TypeDigests, TypeProcess DEF Next
    <2>2. RowsApart' /\ SlotsHeld'
      BY <1>1, StillSteps, StillKeeps, ApartEmit, ApartDispatch, ApartStop DEF Next
    <2>3. FewTogether'
      BY <1>1, <2>1, FewEmit, FewOther DEF Next
    <2>4. QED
      BY <1>1, <2>1, <2>2, <2>3, RefreshedStep, AccountedStep DEF IInv
  <1>2. CASE UNCHANGED vars
    <2>1. UNCHANGED <<rows, clock, emitter, queue, router, sending, slots, config, cache, phase,
                      admin, digest, lastRun, writes, faults, unchecked, deleted, gone, passed,
                      mailed>>
      BY <1>2 DEF vars, serviceVars, history
    <2>2. TypeOK' /\ SearchesFailed'
      BY <2>1 DEF IInv, TypeOK, SearchesFailed
    <2>3. RowsApart' /\ SlotsHeld'
      BY <2>1, StillKeeps DEF Still
    <2>4. FewTogether'
      BY <2>1 DEF IInv, FewTogether, Recents, Inserters
    <2>5. Refreshed'
      BY <2>1, RefreshedKept DEF IInv
    <2>6. AccountedBefore'
      BY <2>1, AccountedUnchanged DEF IInv
    <2>7. QED
      BY <2>2, <2>3, <2>4, <2>5, <2>6 DEF IInv
  <1>3. QED
    BY <1>1, <1>2

LEMMA Invariant == Spec => []IInv
  BY Initially, Inductive, PTL DEF Spec

-----------------------------------------------------------------------------

\* Every variable of the notification centre keeps its type; in particular the
\* queue keeps to its size, and the semaphore gives out and takes back no more
\* places than it has.
THEOREM TypeCorrect == Spec => []TypeOK
  <1>1. IInv => TypeOK
    BY DEF IInv
  <1>2. QED
    BY <1>1, Invariant, PTL

\* The window holds of an event no more rows than there are callers of Emit, and
\* one for each search of the recent rows that failed.
THEOREM DuplicatesAreFew == Spec => []FewDuplicates
  <1>1. IInv => FewDuplicates
    <2> SUFFICES ASSUME IInv, NEW ev \in Events \ Audit
                 PROVE  Cardinality(Recents(ev)) <= Cardinality(Emitters) + unchecked
      BY DEF FewDuplicates, Recents
    <2>1. TypedRows /\ unchecked \in Nat
      BY TypeParts, BoundTypes DEF IInv, TypedRest
    <2>2. /\ Cardinality(Recents(ev)) \in Nat /\ Cardinality(Inserters(ev)) \in Nat
          /\ Cardinality(Emitters) \in Nat
      BY <2>1, CountsFinite
    <2>3. Cardinality(Recents(ev)) + Cardinality(Inserters(ev)) <= Cardinality(Emitters) + unchecked
      BY DEF IInv, FewTogether
    <2>4. QED
      BY <2>1, <2>2, <2>3
  <1>2. QED
    BY <1>1, Invariant, PTL

\* A row taken from the queue is never for a channel whose deletion a refresh of
\* its own has brought to the cache.
THEOREM DeletedChannelsGetNothing == Spec => DeletedGetsNothing
  <1>1. IInv /\ [Next]_vars =>
            [router = Resting /\ router' # Resting => \A r \in router'.todo : r.ch \notin gone]_vars
    <2> SUFFICES ASSUME IInv, Next, router = Resting, router' # Resting, NEW r \in router'.todo
                 PROVE  r.ch \notin gone
      OBVIOUS
    <2>1. Take
      <3>1. ASSUME NEW q \in Rules
            PROVE  ~Send(q)
        BY RestingIsIdle DEF Send
      <3>2. CASE Still
        BY <3>2 DEF Still
      <3>3. CASE \E e \in Emitters : EmitStep(e)
        BY <3>3, EmitFrame DEF Emitting
      <3>4. CASE Stop
        BY <3>4 DEF Stop
      <3>5. CASE Routed \/ \E s \in sending : SendEnds(s)
        BY <3>5 DEF Routed, SendEnds
      <3>6. QED
        BY <3>1, <3>2, <3>3, <3>4, <3>5, StillSteps DEF Next, Router
    <2>2. r \in Targets(Head(queue))
      BY <2>1 DEF Take
    <2>3. r.ch \in cache.channels
      BY <2>2 DEF Targets
    <2>4. QED
      BY <2>3 DEF IInv, Refreshed
  <1>2. QED
    BY <1>1, Invariant, PTL DEF Spec, DeletedGetsNothing

\* Whatever is older than a channel's last_sent_at, as the database or the cache
\* has it, was mailed to the channel or is about to be, or a digest had one of the
\* Reasons to pass it over; a stale copy of last_sent_at is none of them.
THEOREM DigestsPassNothingOver == Spec => []NeverSkips
  <1>1. IInv => NeverSkips
    BY DEF IInv, AccountedBefore, AccountedUpTo, NeverSkips
  <1>2. QED
    BY <1>1, Invariant, PTL

=============================================================================
