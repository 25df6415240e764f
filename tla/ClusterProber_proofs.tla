------------------------ MODULE ClusterProber_proofs ------------------------
(***************************************************************************)
(* Proofs about ClusterProber: the types, that no cluster is shown as      *)
(* connected of which the router would refuse to make a client, and that   *)
(* the calls to the notification centre chain up to the stored statuses    *)
(* where probes do not overlap.                                            *)
(***************************************************************************)
EXTENDS ClusterProber, TLAPS

-----------------------------------------------------------------------------
(* Types.                                                                  *)

\* Where a probe may be, by the fields it has there.
Sweeping == [pc: {"next"}, todo: SUBSET Clusters]

Getting == [pc: {"get"}, todo: SUBSET Clusters, c: Clusters]

Asking == [pc: {"dial", "version", "rights"}, todo: SUBSET Clusters, c: Clusters,
           setup: Setups, old: Statuses]

Telling == [pc: {"write", "emit"}, todo: SUBSET Clusters, c: Clusters,
            old: Statuses, new: Statuses]

Rereading == [pc: {"reread"}, todo: SUBSET Clusters, c: Clusters]

Probes == {Idle} \cup Sweeping \cup Getting \cup Asking \cup Telling \cup Rereading

\* A probe of a request has a cluster and no others to go to.
Single(t, probe) == probe # Idle => probe.pc # "next" /\ probe.todo = {}

\* What TypeOK says of the records of clusters, and of the probes.
TypedRows == row \in [Clusters -> {Absent, Gone} \cup Rows]

TypedProbes ==
    /\ prober \in [Probers -> Probes]
    /\ \A t \in Testers : Single(t, prober[t])

TypedRest ==
    /\ mood \in [Clusters -> Moods]
    /\ wired \in BOOLEAN
    /\ creating \subseteq Clusters
    /\ moods \in 0 .. MaxMoods
    /\ faults \in 0 .. MaxFaults
    /\ told \in [Clusters -> Statuses]
    /\ muddled \subseteq Clusters
    /\ unheard \subseteq Clusters

LEMMA TypeParts == TypeOK <=> TypedRows /\ TypedProbes /\ TypedRest
  BY DEF TypeOK, TypedRows, TypedProbes, TypedRest, Single, Probes, Sweeping, Getting, Asking,
         Telling, Rereading

LEMMA TypePartsNext == TypeOK' <=> TypedRows' /\ TypedProbes' /\ TypedRest'
  BY DEF TypeOK, TypedRows, TypedProbes, TypedRest, Single, Probes, Sweeping, Getting, Asking,
         Telling, Rereading

LEMMA ProbeAt ==
    ASSUME TypedProbes, NEW p \in Probers
    PROVE  /\ At(p, "next") => prober[p] \in Sweeping
           /\ At(p, "get") => prober[p] \in Getting
           /\ prober[p].pc \in {"dial", "version", "rights"} => prober[p] \in Asking
           /\ prober[p].pc \in {"write", "emit"} => prober[p] \in Telling
           /\ At(p, "reread") => prober[p] \in Rereading
           /\ prober[p].pc = "idle" <=> prober[p] = Idle
  <1>1. prober[p] \in Probes
    BY DEF TypedProbes
  <1>2. Idle.pc = "idle"
    BY DEF Idle
  <1>3. QED
    BY <1>1, <1>2 DEF At, Probes, Sweeping, Getting, Asking, Telling, Rereading

LEMMA TodoAt ==
    ASSUME TypedProbes, NEW p \in Probers, prober[p].pc # "idle"
    PROVE  prober[p].todo \in SUBSET Clusters
  <1>1. prober[p] \in Probes
    BY DEF TypedProbes
  <1>2. Idle.pc = "idle"
    BY DEF Idle
  <1>3. QED
    BY <1>1, <1>2 DEF Probes, Sweeping, Getting, Asking, Telling, Rereading

\* A prober that goes on to a probe of the right shape.
LEMMA Moved ==
    ASSUME TypedProbes, NEW p \in Probers, NEW probe \in Probes,
           p \in Testers => Single(p, probe),
           prober' = [prober EXCEPT ![p] = probe]
    PROVE  TypedProbes'
  BY DEF TypedProbes, Probers

LEMMA Resting ==
    Idle \in Probes /\ \A t : Single(t, Idle)
  BY DEF Probes, Single

LEMMA NotTheLoop == \A t \in Testers : t # Loop
  BY ClusterProberAssumption

-----------------------------------------------------------------------------
(* What a step may do.                                                     *)

\* A probe that has read a record and is to write or to tell what it found.
Mid == {"dial", "version", "rights", "write", "emit"}

Becomes(p, x) ==
    /\ x \in Probes
    /\ p \in Testers => Single(p, x)
    /\ prober' = [prober EXCEPT ![p] = x]

\* Nothing but the place of a prober, who has or takes up no record.
Passes(p, x) ==
    /\ Becomes(p, x)
    /\ prober[p].pc # "emit" /\ x.pc \notin Mid
    /\ UNCHANGED <<row, mood, wired, creating, moods, faults, told, muddled, unheard>>

\* A record is read.
Reads(p, x) ==
    /\ Becomes(p, x)
    /\ prober[p].pc = "get"
    /\ x.pc = "dial" /\ x.c \in Clusters /\ Stored(x.c)
    /\ x.setup = row[x.c].setup /\ x.old = row[x.c].status
    /\ muddled' = IF Overlapped(p, x.c) THEN muddled \cup {x.c} ELSE muddled
    /\ UNCHANGED <<row, mood, wired, creating, moods, faults, told, unheard>>

\* A cluster whose record is usable is asked.
Asks(p, x) ==
    /\ Becomes(p, x)
    /\ prober[p].pc \in {"dial", "version"}
    /\ x.pc \in {"version", "rights"}
    /\ x.c = prober[p].c /\ x.setup = prober[p].setup /\ x.old = prober[p].old
    /\ prober[p].pc = "dial" => Usable(prober[p].setup)
    /\ UNCHANGED <<row, mood, wired, creating, moods, faults, told, muddled, unheard>>

\* A status is found; only a cluster that was asked is found connected.
Concludes(p, x) ==
    /\ Becomes(p, x)
    /\ prober[p].pc \in {"dial", "version", "rights"}
    /\ x.pc = "write" /\ x.new \in Statuses
    /\ x.c = prober[p].c /\ x.old = prober[p].old
    /\ x.new = "connected" => prober[p].pc = "rights"
    /\ UNCHANGED <<row, mood, wired, creating, moods, faults, told, muddled, unheard>>

\* It is written, or the write fails.
Writes(p, x) ==
    /\ Becomes(p, x)
    /\ prober[p].pc = "write" /\ x.pc = "emit"
    /\ x.c = prober[p].c /\ x.old = prober[p].old /\ x.new = prober[p].new
    /\ \/ SetStatus(x.c, x.new) /\ UNCHANGED <<faults, muddled>>
       \/ /\ UNCHANGED row
          /\ faults < MaxFaults /\ faults' = faults + 1
          /\ muddled' = muddled \cup {x.c}
    /\ UNCHANGED <<mood, wired, creating, moods, told, unheard>>

\* A probe without a context left is told of, though nothing was written.
GivesUp(p, x) ==
    /\ Becomes(p, x)
    /\ prober[p].pc \in {"rights", "write"} /\ x.pc = "emit"
    /\ x.c = prober[p].c /\ x.old = prober[p].old /\ x.new \in Statuses
    /\ x.new = "connected" => prober[p].pc = "write" /\ prober[p].new = "connected"
    /\ muddled' = muddled \cup {x.c}
    /\ faults' \in 0 .. MaxFaults
    /\ UNCHANGED <<row, mood, wired, creating, moods, told, unheard>>

\* It is told if it is a change, and the callback is set.
Tells(p, x) ==
    /\ Becomes(p, x)
    /\ prober[p].pc = "emit" /\ x.pc \notin Mid
    /\ LET c == prober[p].c
           changed == prober[p].old # prober[p].new
       IN  /\ told' = IF changed /\ wired THEN [told EXCEPT ![c] = prober[p].new] ELSE told
           /\ unheard' = IF changed /\ ~wired THEN unheard \cup {c} ELSE unheard
    /\ UNCHANGED <<row, mood, wired, creating, moods, faults, muddled>>

\* The call a database failure takes the place of.
FailsToRead(p, x) ==
    /\ Becomes(p, x)
    /\ prober[p].pc = "get" /\ x.pc \notin Mid
    /\ faults' \in 0 .. MaxFaults
    /\ UNCHANGED <<row, mood, wired, creating, moods, told, muddled, unheard>>

ProberShape(p, x) ==
    \/ Passes(p, x)
    \/ FailsToRead(p, x)
    \/ Reads(p, x)
    \/ Asks(p, x)
    \/ Concludes(p, x)
    \/ Writes(p, x)
    \/ GivesUp(p, x)
    \/ Tells(p, x)

AdminShape ==
    \/ \E c \in Clusters : CreateCluster(c) \/ Registered(c) \/ RegisteredUnwritten(c)
                           \/ DeleteCluster(c) \/ MoodChanges(c)
    \/ Wire
    \/ Restart

\* Where a probe that ends leaves its prober.
Ended(p) == IF p = Loop THEN [pc |-> "next", todo |-> prober[p].todo] ELSE Idle

LEMMA EndsShape ==
    ASSUME TypedProbes, NEW p \in Probers, prober[p].pc # "idle", Ends(p)
    PROVE  Becomes(p, Ended(p)) /\ Ended(p).pc \notin Mid
  <1>1. CASE p = Loop
    <2>1. Ended(p) \in Probes /\ Ended(p).pc = "next"
      BY <1>1, TodoAt DEF Ended, Probes, Sweeping
    <2>2. QED
      BY <1>1, <2>1, NotTheLoop DEF Becomes, Ended, Ends, Mid
  <1>2. CASE p # Loop
    <2>1. Ended(p) = Idle /\ Idle.pc = "idle"
      BY <1>2 DEF Ended, Idle
    <2>2. QED
      BY <1>2, <2>1, Resting DEF Becomes, Ends, Mid
  <1>3. QED
    BY <1>1, <1>2

LEMMA FindsShape ==
    ASSUME TypedProbes, NEW p \in Probers, NEW status \in Statuses,
           prober[p].pc \in {"dial", "version", "rights"}, Finds(p, status),
           status = "connected" => prober[p].pc = "rights",
           UNCHANGED <<row, mood, wired, creating, moods, faults, told, muddled, unheard>>
    PROVE  \E x : Concludes(p, x)
  <1> DEFINE x == [pc |-> "write", todo |-> prober[p].todo, c |-> prober[p].c,
                   old |-> prober[p].old, new |-> status]
  <1>1. prober[p] \in Asking
    BY ProbeAt
  <1>2. x \in Probes
    BY <1>1 DEF Asking, Probes, Telling
  <1>3. prober' = [prober EXCEPT ![p] = x]
    BY DEF Finds, TypedProbes
  <1>4. p \in Testers => Single(p, x)
    <2>1. prober[p] # Idle
      BY DEF Idle
    <2>2. QED
      BY <2>1 DEF Single, TypedProbes
  <1>5. Concludes(p, x)
    BY <1>2, <1>3, <1>4 DEF Concludes, Becomes
  <1>6. QED
    BY <1>5

\* A probe that only moves on to another program counter.
LEMMA AdvanceShape ==
    ASSUME TypedProbes, NEW p \in Probers, NEW pc,
           \/ prober[p].pc \in {"dial", "version"} /\ pc \in {"version", "rights"}
           \/ prober[p].pc = "write" /\ pc = "emit",
           prober' = [prober EXCEPT ![p].pc = pc]
    PROVE  LET x == [prober[p] EXCEPT !.pc = pc]
           IN  Becomes(p, x) /\ x = [prober[p] EXCEPT !.pc = pc] /\ x.pc = pc
  <1> DEFINE x == [prober[p] EXCEPT !.pc = pc]
  <1>1. prober[p] \in Asking \cup Telling
    BY ProbeAt
  <1>2. x \in Probes /\ x.pc = pc /\ x.todo = prober[p].todo
    BY <1>1, ProbeAt DEF Asking, Telling, Probes
  <1>3. p \in Testers => Single(p, x)
    <2>1. prober[p] # Idle
      BY DEF Idle
    <2>2. QED
      BY <1>2, <2>1 DEF Single, TypedProbes
  <1>4. prober' = [prober EXCEPT ![p] = x]
    BY DEF TypedProbes
  <1>5. QED
    BY <1>2, <1>3, <1>4 DEF Becomes

LEMMA LoopShape ==
    ASSUME TypedProbes, LoopStep
    PROVE  \E p \in Probers : \E x : ProberShape(p, x)
  <1> Loop \in Probers
    BY DEF Probers
  <1>1. CASE ListClusters
    <2> DEFINE x == [pc |-> "next", todo |-> {c \in Clusters : Stored(c)}]
    <2>1. x \in Probes
      BY DEF Probes, Sweeping
    <2>2. prober[Loop].pc # "emit"
      BY <1>1 DEF ListClusters, Idle
    <2>3. Passes(Loop, x)
      BY <1>1, <2>1, <2>2, NotTheLoop DEF ListClusters, Passes, Becomes, Mid
    <2>4. QED
      BY <2>3 DEF ProberShape
  <1>2. CASE NextCluster
    <2>1. PICK c \in prober[Loop].todo :
              prober' = [prober EXCEPT ![Loop] =
                  [pc |-> "get", todo |-> prober[Loop].todo \ {c}, c |-> c]]
      BY <1>2 DEF NextCluster
    <2> DEFINE x == [pc |-> "get", todo |-> prober[Loop].todo \ {c}, c |-> c]
    <2>2. prober[Loop].todo \in SUBSET Clusters
      BY <1>2, ProbeAt DEF NextCluster, Sweeping
    <2>3. x \in Probes
      BY <2>2 DEF Probes, Getting
    <2>4. Passes(Loop, x)
      BY <1>2, <2>1, <2>3, NotTheLoop DEF NextCluster, At, Passes, Becomes, Mid
    <2>5. QED
      BY <2>4 DEF ProberShape
  <1>3. CASE SweepEnds
    <2>1. Passes(Loop, Idle)
      BY <1>3, Resting DEF SweepEnds, At, Passes, Becomes, Mid, Idle
    <2>2. QED
      BY <2>1 DEF ProberShape
  <1>4. QED
    BY <1>1, <1>2, <1>3 DEF LoopStep

LEMMA OneFault ==
    ASSUME TypedRest, UNCHANGED faults \/ (faults < MaxFaults /\ faults' = faults + 1)
    PROVE  faults' \in 0 .. MaxFaults
  BY ClusterProberAssumption DEF TypedRest

LEMMA GetShape ==
    ASSUME TypedProbes, TypedRows, TypedRest, NEW p \in Probers, Get(p) \/ GetFails(p)
    PROVE  \E x : ProberShape(p, x)
  <1>1. prober[p] \in Getting /\ prober[p].pc = "get"
    BY ProbeAt DEF Get, GetFails, At
  <1>2. CASE Ends(p) /\ Get(p) /\ UNCHANGED muddled
    <2>1. Becomes(p, Ended(p)) /\ Ended(p).pc \notin Mid
      BY <1>1, <1>2, EndsShape
    <2>2. Passes(p, Ended(p))
      BY <1>1, <1>2, <2>1 DEF Get, Passes
    <2>3. QED
      BY <2>2 DEF ProberShape
  <1>3. CASE GetFails(p)
    <2>1. Becomes(p, Ended(p)) /\ Ended(p).pc \notin Mid
      BY <1>1, <1>3, EndsShape DEF GetFails
    <2>2. FailsToRead(p, Ended(p))
      BY <1>1, <1>3, <2>1, OneFault DEF GetFails, FailsToRead
    <2>3. QED
      BY <2>2 DEF ProberShape
  <1>4. CASE Get(p) /\ Stored(prober[p].c)
    <2> DEFINE c == prober[p].c
               x == [pc |-> "dial", todo |-> prober[p].todo, c |-> c,
                     setup |-> row[c].setup, old |-> row[c].status]
    <2>1. c \in Clusters /\ prober[p].todo \in SUBSET Clusters
      BY <1>1 DEF Getting
    <2>2. row[c] \in Rows
      BY <1>4, <2>1 DEF TypedRows, Stored, Absent, Gone
    <2>3. x \in Probes
      BY <2>1, <2>2 DEF Rows, Probes, Asking
    <2>4. p \in Testers => Single(p, x)
      <3>1. prober[p] # Idle
        BY <1>1 DEF Idle
      <3>2. QED
        BY <3>1 DEF Single, TypedProbes
    <2>5. prober' = [prober EXCEPT ![p] = x]
      BY <1>4 DEF Get
    <2>6. Reads(p, x)
      BY <1>1, <1>4, <2>1, <2>3, <2>4, <2>5 DEF Get, Reads, Becomes
    <2>7. QED
      BY <2>6 DEF ProberShape
  <1>5. QED
    BY <1>2, <1>3, <1>4 DEF Get

LEMMA AskShape ==
    ASSUME TypedProbes, NEW p \in Probers, Dial(p) \/ AskVersion(p) \/ AskRights(p)
    PROVE  \E x : ProberShape(p, x)
  <1>1. prober[p].pc \in {"dial", "version", "rights"}
    BY DEF Dial, AskVersion, AskRights, At
  <1>2. prober[p] \in Asking
    BY <1>1, ProbeAt
  <1>3. CASE Dial(p)
    <2>1. CASE prober' = [prober EXCEPT ![p].pc = "version"]
      <3> DEFINE x == [prober[p] EXCEPT !.pc = "version"]
      <3>1. Becomes(p, x) /\ x.pc = "version"
        BY <1>3, <2>1, AdvanceShape DEF Dial, At
      <3>2. Usable(prober[p].setup)
        <4>1. CASE Finds(p, "blocked") \/ Finds(p, "error")
          <5>1. prober'[p].pc = "write"
            BY <4>1 DEF Finds, TypedProbes
          <5>2. prober'[p].pc = "version"
            BY <1>2, <2>1 DEF TypedProbes, Asking
          <5>3. QED
            BY <5>1, <5>2
        <4>2. QED
          BY <1>3, <4>1 DEF Dial
      <3>3. x.c = prober[p].c /\ x.setup = prober[p].setup /\ x.old = prober[p].old
        BY <1>2 DEF Asking
      <3>4. Asks(p, x)
        BY <1>3, <3>1, <3>2, <3>3 DEF Asks, Dial, At
      <3>5. QED
        BY <3>4 DEF ProberShape
    <2>2. ASSUME NEW status \in {"blocked", "error"}, Finds(p, status)
          PROVE  \E x : ProberShape(p, x)
      <3>1. \E x : Concludes(p, x)
        BY <1>1, <1>3, <2>2, FindsShape DEF Dial, Statuses
      <3>2. QED
        BY <3>1 DEF ProberShape
    <2>3. QED
      BY <1>3, <2>1, <2>2 DEF Dial
  <1>4. CASE AskVersion(p)
    <2>1. CASE Finds(p, "disconnected")
      <3>1. \E x : Concludes(p, x)
        BY <1>1, <1>4, <2>1, FindsShape DEF AskVersion, Statuses
      <3>2. QED
        BY <3>1 DEF ProberShape
    <2>2. CASE prober' = [prober EXCEPT ![p].pc = "rights"]
      <3> DEFINE x == [prober[p] EXCEPT !.pc = "rights"]
      <3>1. Becomes(p, x) /\ x.pc = "rights"
        BY <1>4, <2>2, AdvanceShape DEF AskVersion, At
      <3>2. x.c = prober[p].c /\ x.setup = prober[p].setup /\ x.old = prober[p].old
        BY <1>2 DEF Asking
      <3>3. Asks(p, x)
        BY <1>4, <3>1, <3>2 DEF Asks, AskVersion, At
      <3>4. QED
        BY <3>3 DEF ProberShape
    <2>3. QED
      BY <1>4, <2>1, <2>2 DEF AskVersion
  <1>5. CASE AskRights(p)
    <2>1. PICK status \in {"disconnected", "connected"} : Finds(p, status)
      BY <1>5 DEF AskRights
    <2>2. \E x : Concludes(p, x)
      BY <1>1, <1>5, <2>1, FindsShape DEF AskRights, At, Statuses
    <2>3. QED
      BY <2>2 DEF ProberShape
  <1>6. QED
    BY <1>3, <1>4, <1>5

LEMMA WriteShape ==
    ASSUME TypedProbes, NEW p \in Probers, Write(p) \/ WriteFails(p)
    PROVE  \E x : ProberShape(p, x)
  <1> DEFINE x == [prober[p] EXCEPT !.pc = "emit"]
  <1>1. prober[p].pc = "write" /\ prober' = [prober EXCEPT ![p].pc = "emit"]
    BY DEF Write, WriteFails, At, ToEmit
  <1>2. Becomes(p, x) /\ x.pc = "emit"
    BY <1>1, AdvanceShape
  <1>3. prober[p] \in Telling
    BY <1>1, ProbeAt
  <1>4. x.c = prober[p].c /\ x.old = prober[p].old /\ x.new = prober[p].new
    BY <1>3 DEF Telling
  <1>5. Writes(p, x)
    BY <1>1, <1>2, <1>4 DEF Write, WriteFails, Writes
  <1>6. QED
    BY <1>5 DEF ProberShape

LEMMA AbandonShape ==
    ASSUME TypedProbes, TypedRest, NEW p \in Probers, Abandon(p)
    PROVE  \E x : ProberShape(p, x)
  <1>1. faults' \in 0 .. MaxFaults
    BY OneFault DEF Abandon
  <1>2. CASE At(p, "get") /\ Ends(p) /\ UNCHANGED muddled
    <2>1. Becomes(p, Ended(p)) /\ Ended(p).pc \notin Mid /\ prober[p].pc = "get"
      BY <1>2, EndsShape DEF At
    <2>2. FailsToRead(p, Ended(p))
      BY <1>1, <1>2, <2>1 DEF Abandon, FailsToRead
    <2>3. QED
      BY <2>2 DEF ProberShape
  <1>3. CASE At(p, "rights") /\ ~At(p, "get")
    <2> DEFINE x == [pc |-> "emit", todo |-> prober[p].todo, c |-> prober[p].c,
                     old |-> prober[p].old, new |-> "disconnected"]
    <2>1. prober[p] \in Asking /\ prober[p].pc = "rights" /\ prober[p] # Idle
      BY <1>3, ProbeAt DEF At, Idle
    <2>2. x \in Probes
      BY <2>1 DEF Asking, Probes, Telling, Statuses
    <2>3. p \in Testers => Single(p, x)
      BY <2>1 DEF Single, TypedProbes
    <2>4. prober' = [prober EXCEPT ![p] = x] /\ muddled' = muddled \cup {x.c}
      BY <2>1 DEF Abandon, At
    <2>5. "disconnected" \in Statuses
      BY DEF Statuses
    <2>6. GivesUp(p, x)
      BY <1>1, <2>1, <2>2, <2>3, <2>4, <2>5 DEF Abandon, GivesUp, Becomes
    <2>7. QED
      BY <2>6 DEF ProberShape
  <1>4. CASE At(p, "write") /\ ~At(p, "get")
    <2> DEFINE x == [prober[p] EXCEPT !.pc = "emit"]
    <2>1. prober[p].pc = "write" /\ prober' = [prober EXCEPT ![p].pc = "emit"]
          /\ muddled' = muddled \cup {prober[p].c}
      BY <1>4 DEF Abandon, At, ToEmit
    <2>2. Becomes(p, x) /\ x.pc = "emit"
      BY <2>1, AdvanceShape
    <2>3. prober[p] \in Telling
      BY <2>1, ProbeAt
    <2>4. /\ x.c = prober[p].c /\ x.old = prober[p].old /\ x.new = prober[p].new
          /\ x.new \in Statuses
      BY <2>3 DEF Telling
    <2>5. GivesUp(p, x)
      BY <1>1, <2>1, <2>2, <2>4 DEF Abandon, GivesUp
    <2>6. QED
      BY <2>5 DEF ProberShape
  <1>5. QED
    BY <1>2, <1>3, <1>4 DEF Abandon, At

LEMMA EmitShape ==
    ASSUME TypedProbes, NEW p \in Probers, Emit(p) \/ Reread(p)
    PROVE  \E x : ProberShape(p, x)
  <1>1. CASE Reread(p)
    <2>1. Becomes(p, Ended(p)) /\ Ended(p).pc \notin Mid /\ prober[p].pc = "reread"
      BY <1>1, EndsShape DEF Reread, At
    <2>2. Passes(p, Ended(p))
      BY <1>1, <2>1 DEF Reread, Passes
    <2>3. QED
      BY <2>2 DEF ProberShape
  <1>2. CASE Emit(p) /\ Ends(p)
    <2>1. Becomes(p, Ended(p)) /\ Ended(p).pc \notin Mid /\ prober[p].pc = "emit"
      BY <1>2, EndsShape DEF Emit, At
    <2>2. Tells(p, Ended(p))
      BY <1>2, <2>1 DEF Emit, Tells
    <2>3. QED
      BY <2>2 DEF ProberShape
  <1>3. CASE Emit(p) /\ ~Ends(p)
    <2> DEFINE x == [pc |-> "reread", todo |-> prober[p].todo, c |-> prober[p].c]
    <2>1. prober[p].pc = "emit" /\ prober[p] \in Telling /\ prober[p] # Idle
      BY <1>3, ProbeAt DEF Emit, At, Idle
    <2>2. x \in Probes
      BY <2>1 DEF Telling, Probes, Rereading
    <2>3. p \in Testers => Single(p, x)
      BY <2>1 DEF Single, TypedProbes
    <2>4. prober' = [prober EXCEPT ![p] = x]
      BY <1>3 DEF Emit
    <2>5. Tells(p, x)
      BY <1>3, <2>1, <2>2, <2>3, <2>4 DEF Emit, Tells, Becomes, Mid
    <2>6. QED
      BY <2>5 DEF ProberShape
  <1>4. QED
    BY <1>1, <1>2, <1>3

LEMMA TestShape ==
    ASSUME TypedProbes, NEW t \in Testers, NEW c \in Clusters, Test(t, c)
    PROVE  \E p \in Probers : \E x : ProberShape(p, x)
  <1> DEFINE x == [pc |-> "get", todo |-> {}, c |-> c]
  <1>1. x \in Probes /\ Single(t, x)
    BY DEF Probes, Getting, Single
  <1>2. prober[t].pc # "emit"
    BY DEF Test, Idle
  <1>3. Passes(t, x)
    BY <1>1, <1>2 DEF Test, Passes, Becomes, Mid
  <1>4. QED
    BY <1>3 DEF ProberShape, Probers

\* Every step is a prober's, of one of eight shapes, or one of the
\* administrators', the clusters' or the process's.
LEMMA StepShapes ==
    ASSUME TypeOK, Next
    PROVE  (\E p \in Probers : \E x : ProberShape(p, x)) \/ AdminShape
  <1> TypedProbes /\ TypedRows /\ TypedRest
    BY TypeParts
  <1>1. CASE LoopStep
    BY <1>1, LoopShape
  <1>2. ASSUME NEW p \in Probers, ProbeStep(p) \/ GetFails(p) \/ WriteFails(p) \/ Abandon(p)
        PROVE  \E x : ProberShape(p, x)
    BY <1>2, GetShape, AskShape, WriteShape, AbandonShape, EmitShape DEF ProbeStep
  <1>3. ASSUME NEW t \in Testers, NEW c \in Clusters, Test(t, c)
        PROVE  \E p \in Probers : \E x : ProberShape(p, x)
    BY <1>3, TestShape
  <1>4. QED
    BY <1>1, <1>2, <1>3 DEF Next, AdminShape

-----------------------------------------------------------------------------
(* The types are kept.                                                     *)

LEMMA SetStatusTyped ==
    ASSUME TypedRows, NEW c \in Clusters, NEW status \in Statuses, SetStatus(c, status)
    PROVE  /\ TypedRows'
           /\ \A d \in Clusters : row'[d].at = row[d].at
           /\ \A d \in Clusters : Stored(d) => row'[d].setup = row[d].setup
           /\ \A d \in Clusters \ {c} : row'[d] = row[d]
           /\ Stored(c) => row'[c].status = status
  <1>1. CASE Stored(c)
    <2>1. row[c] \in Rows
      BY <1>1 DEF TypedRows, Stored, Absent, Gone
    <2>2. row' = [row EXCEPT ![c].status = status]
      BY <1>1 DEF SetStatus
    <2> DEFINE written == [row[c] EXCEPT !.status = status]
    <2>3. /\ written \in Rows /\ written.at = "stored"
          /\ written.setup = row[c].setup /\ written.status = status
      BY <2>1 DEF Rows
    <2>4. row' = [row EXCEPT ![c] = written]
      BY <2>2 DEF TypedRows
    <2>5. row[c].at = "stored"
      BY <1>1 DEF Stored
    <2>6. QED
      BY <2>3, <2>4, <2>5 DEF TypedRows
  <1>2. CASE ~Stored(c)
    BY <1>2 DEF SetStatus, TypedRows
  <1>3. QED
    BY <1>1, <1>2

LEMMA Made ==
    ASSUME NEW s \in Setups
    PROVE  LET x == [at |-> "stored", setup |-> s, status |-> "unknown"]
           IN  x \in Rows /\ x.at = "stored" /\ x.setup = s /\ x.status = "unknown"
  BY DEF Rows, Statuses

LEMMA ProberTypes ==
    ASSUME TypeOK, NEW p \in Probers, NEW x, ProberShape(p, x)
    PROVE  TypeOK'
  <1> USE TypeParts, TypePartsNext
  <1>1. Becomes(p, x)
    BY DEF ProberShape, Passes, FailsToRead, Reads, Asks, Concludes, Writes, GivesUp, Tells
  <1>2. TypedProbes'
    BY <1>1, Moved DEF Becomes
  <1>3. CASE Passes(p, x) \/ Asks(p, x) \/ Concludes(p, x)
    BY <1>2, <1>3 DEF Passes, Asks, Concludes, TypedRows, TypedRest
  <1>4. CASE FailsToRead(p, x)
    BY <1>2, <1>4, ClusterProberAssumption DEF FailsToRead, TypedRows, TypedRest
  <1>5. CASE Reads(p, x)
    BY <1>2, <1>5 DEF Reads, TypedRows, TypedRest
  <1>6. CASE Writes(p, x)
    <2>1. x.c \in Clusters /\ x.new \in Statuses
      BY <1>6, ProbeAt DEF Writes, Telling
    <2>2. TypedRows'
      BY <1>6, <2>1, SetStatusTyped DEF Writes, TypedRows
    <2>3. TypedRest'
      BY <1>6, <2>1, ClusterProberAssumption DEF Writes, TypedRest
    <2>4. QED
      BY <1>2, <2>2, <2>3
  <1>7. CASE Tells(p, x)
    <2>1. prober[p].c \in Clusters /\ prober[p].new \in Statuses
      BY <1>7, ProbeAt DEF Tells, Telling
    <2>2. TypedRest'
      BY <1>7, <2>1 DEF Tells, TypedRest
    <2>3. TypedRows'
      BY <1>7 DEF Tells, TypedRows
    <2>4. QED
      BY <1>2, <2>2, <2>3
  <1>8. CASE GivesUp(p, x)
    <2>1. x.c \in Clusters
      BY <1>8, ProbeAt DEF GivesUp, Asking, Telling
    <2>2. QED
      BY <1>2, <1>8, <2>1 DEF GivesUp, TypedRows, TypedRest
  <1>9. QED
    BY <1>3, <1>4, <1>5, <1>6, <1>7, <1>8 DEF ProberShape

LEMMA AdminTypes ==
    ASSUME TypeOK, AdminShape
    PROVE  TypeOK'
  <1> USE TypeParts, TypePartsNext
  <1>1. ASSUME UNCHANGED prober
        PROVE  TypedProbes'
    BY <1>1 DEF TypedProbes
  <1>2. ASSUME NEW c \in Clusters, CreateCluster(c)
        PROVE  TypeOK'
    <2>1. PICK s \in Setups :
              row' = [row EXCEPT ![c] = [at |-> "stored", setup |-> s, status |-> "unknown"]]
      BY <1>2 DEF CreateCluster
    <2>2. TypedRows'
      BY <2>1, Made DEF TypedRows
    <2>3. TypedRest'
      BY <1>2 DEF CreateCluster, TypedRest
    <2>4. QED
      BY <1>1, <1>2, <2>2, <2>3 DEF CreateCluster
  <1>3. ASSUME NEW c \in Clusters, Registered(c)
        PROVE  TypeOK'
    <2>1. TypedRows'
      BY <1>3, SetStatusTyped DEF Registered, Statuses
    <2>2. TypedRest'
      BY <1>3 DEF Registered, TypedRest, Statuses
    <2>3. QED
      BY <1>1, <1>3, <2>1, <2>2 DEF Registered
  <1>4. ASSUME NEW c \in Clusters, DeleteCluster(c) \/ RegisteredUnwritten(c)
        PROVE  TypeOK'
    BY <1>1, <1>4 DEF DeleteCluster, RegisteredUnwritten, TypedRows, TypedRest
  <1>5. ASSUME NEW c \in Clusters, MoodChanges(c)
        PROVE  TypeOK'
    BY <1>1, <1>5, ClusterProberAssumption DEF MoodChanges, TypedRows, TypedRest
  <1>6. CASE Wire
    BY <1>1, <1>6 DEF Wire, TypedRows, TypedRest
  <1>7. CASE Restart
    <2>1. TypedProbes'
      BY <1>7, Resting DEF Restart, TypedProbes, Probers
    <2>2. \A p \in Probers : At(p, "emit") => prober[p].c \in Clusters
      BY ProbeAt DEF At, Telling
    <2>3. muddled' \subseteq Clusters
      BY <1>7, <2>2 DEF Restart, TypedRest
    <2>4. faults' \in 0 .. MaxFaults
      BY <1>7, ClusterProberAssumption DEF Restart, TypedRest
    <2>5. wired' \in BOOLEAN /\ creating' \subseteq Clusters
      BY <1>7 DEF Restart
    <2>6. TypedRest'
      BY <1>7, <2>3, <2>4, <2>5 DEF Restart, TypedRest
    <2>7. TypedRows'
      BY <1>7 DEF Restart, TypedRows
    <2>8. QED
      BY <2>1, <2>6, <2>7
  <1>8. QED
    BY <1>2, <1>3, <1>4, <1>5, <1>6, <1>7 DEF AdminShape

LEMMA TypeStep == TypeOK /\ [Next]_vars => TypeOK'
  <1> SUFFICES ASSUME TypeOK, [Next]_vars
               PROVE  TypeOK'
    OBVIOUS
  <1>1. CASE Next
    BY <1>1, StepShapes, ProberTypes, AdminTypes
  <1>2. CASE UNCHANGED vars
    BY <1>2, TypeParts, TypePartsNext DEF vars, TypedRows, TypedProbes, TypedRest
  <1>3. QED
    BY <1>1, <1>2

LEMMA TypeInit == Init => TypeOK
  <1> SUFFICES ASSUME Init
               PROVE  TypeOK
    OBVIOUS
  <1>1. TypedRows
    BY DEF Init, TypedRows, Rows, Statuses
  <1>2. TypedProbes
    BY Resting DEF Init, TypedProbes, Probers
  <1>3. moods \in 0 .. MaxMoods /\ faults \in 0 .. MaxFaults
    BY ClusterProberAssumption DEF Init
  <1>4. mood \in [Clusters -> Moods] /\ told \in [Clusters -> Statuses]
    BY DEF Init, Moods, Statuses
  <1>5. wired \in BOOLEAN
    BY DEF Init
  <1>6. TypedRest
    BY <1>3, <1>4, <1>5 DEF Init, TypedRest
  <1>7. QED
    BY <1>1, <1>2, <1>6, TypeParts

\* Every variable keeps its type in every reachable state.
THEOREM TypeCorrect == Spec => []TypeOK
  BY TypeInit, TypeStep, PTL DEF Spec

-----------------------------------------------------------------------------
(* The inductive invariant.                                                *)

On(p, c) == prober[p].pc \in Mid /\ prober[p].c = c

\* A probe is of a cluster that was registered, with the record it still has
\* unless it was deleted; it is told connected only after it was found usable.
Known == \A p \in Probers : prober[p].pc \in Mid => row[prober[p].c].at # "absent"

Judged ==
    \A p \in Probers :
        /\ prober[p].pc \in {"dial", "version", "rights"} /\ Stored(prober[p].c)
               => row[prober[p].c].setup = prober[p].setup
        /\ prober[p].pc \in {"version", "rights"} => Usable(prober[p].setup)
        /\ prober[p].pc \in {"write", "emit"} /\ prober[p].new = "connected"
               /\ Stored(prober[p].c) => Usable(row[prober[p].c].setup)

Created == \A c \in creating : row[c].at # "absent" /\ (Stored(c) => Usable(row[c].setup))

\* A cluster that is not muddled has at most one probe, and none while its
\* registration has yet to write.
Lonely ==
    \A c \in Clusters \ muddled :
        /\ \A p, q \in Probers : On(p, c) /\ On(q, c) => p = q
        /\ c \in creating => \A p \in Probers : ~On(p, c)

\* Up to its write a probe holds the stored status; between its write and its
\* call the stored status is the new one and the last call named the old one;
\* outside of that the last call names the stored status.
Chained ==
    \A c \in Clusters \ (muddled \cup unheard) :
        /\ row[c].at = "absent" => told[c] = "unknown"
        /\ Stored(c) =>
               /\ \A p \in Probers : On(p, c) /\ prober[p].pc # "emit"
                                         => prober[p].old = row[c].status
               /\ \A p \in Probers : On(p, c) /\ prober[p].pc = "emit"
                      => prober[p].new = row[c].status /\ prober[p].old = told[c]
               /\ (\A p \in Probers : ~(On(p, c) /\ prober[p].pc = "emit"))
                      => told[c] = row[c].status

IInv ==
    /\ TypeOK
    /\ Known
    /\ Judged
    /\ Created
    /\ ConnectedIsUsable
    /\ Lonely
    /\ Chained

LEMMA Initially == Init => IInv
  <1> SUFFICES ASSUME Init
               PROVE  IInv
    OBVIOUS
  <1>1. TypeOK
    BY TypeInit
  <1>2. \A p \in Probers : prober[p].pc = "idle"
    BY DEF Init, Idle
  <1>3. \A c \in Clusters : row[c].at # "gone"
    BY DEF Init, Absent
  <1>4. \A c \in Clusters : Stored(c) => row[c].status = "unknown"
    BY DEF Init, Stored, Absent
  <1>5. Known /\ Judged
    BY <1>2 DEF Known, Judged, Mid
  <1>6. Created /\ Lonely
    BY <1>2 DEF Init, Created, Lonely, On, Mid
  <1>7. ConnectedIsUsable
    BY <1>4 DEF ConnectedIsUsable
  <1>8. Chained
    BY <1>2, <1>4 DEF Init, Chained, On, Mid
  <1>9. QED
    BY <1>1, <1>5, <1>6, <1>7, <1>8 DEF IInv

\* What a prober's step does to the records: at most one status.
LEMMA ProberRows ==
    ASSUME TypeOK, NEW p \in Probers, NEW x, ProberShape(p, x)
    PROVE  /\ \A d \in Clusters : row'[d].at = row[d].at
           /\ \A d \in Clusters : Stored(d)' <=> Stored(d)
           /\ \A d \in Clusters : Stored(d) => row'[d].setup = row[d].setup
           /\ ~Writes(p, x) => row' = row
           /\ creating' = creating
           /\ \A q \in Probers : prober'[q] = IF q = p THEN x ELSE prober[q]
  <1>1. \A q \in Probers : prober'[q] = IF q = p THEN x ELSE prober[q]
    BY TypeParts DEF TypedProbes, ProberShape, Becomes, Passes, FailsToRead, Reads, Asks,
       Concludes, Writes, GivesUp, Tells
  <1>2. creating' = creating
    BY DEF ProberShape, Passes, FailsToRead, Reads, Asks, Concludes, Writes, GivesUp, Tells
  <1>3. ~Writes(p, x) => row' = row
    BY DEF ProberShape, Passes, FailsToRead, Reads, Asks, Concludes, GivesUp, Tells
  <1>4. \A d \in Clusters : row'[d].at = row[d].at /\ (Stored(d) => row'[d].setup = row[d].setup)
    <2>1. CASE Writes(p, x) /\ SetStatus(x.c, x.new)
      <3>1. x.c \in Clusters /\ x.new \in Statuses
        BY <2>1, TypeParts, ProbeAt DEF Writes, Telling
      <3>2. QED
        BY <2>1, <3>1, TypeParts, SetStatusTyped
    <2>2. CASE row' = row
      BY <2>2
    <2>3. QED
      BY <1>3, <2>1, <2>2 DEF Writes
  <1>5. \A d \in Clusters : Stored(d)' <=> Stored(d)
    BY <1>4 DEF Stored
  <1>6. QED
    BY <1>1, <1>2, <1>3, <1>4, <1>5

\* A prober that has read a record has a cluster.
LEMMA MidCluster ==
    ASSUME TypeOK
    PROVE  /\ \A q \in Probers : prober[q].pc \in Mid => prober[q].c \in Clusters
           /\ \A q \in Probers : prober[q].pc \in {"write", "emit"}
                  => prober[q].new \in Statuses /\ prober[q].old \in Statuses
  BY TypeParts, ProbeAt DEF Mid, Asking, Telling

LEMMA KnownStep ==
    ASSUME IInv, Next
    PROVE  Known' /\ Created'
  <1> TypeOK /\ Known /\ Created
    BY DEF IInv
  <1>1. ASSUME NEW p \in Probers, NEW x, ProberShape(p, x)
        PROVE  Known' /\ Created'
    <2>1. x.pc \in Mid => x.c \in Clusters /\ row[x.c].at # "absent"
      BY <1>1, MidCluster DEF ProberShape, Passes, FailsToRead, Reads, Asks, Concludes, Writes,
         GivesUp, Tells, Known, Mid, Stored
    <2>2. Known'
      BY <1>1, <2>1, ProberRows, MidCluster DEF Known
    <2>3. Created'
      BY <1>1, ProberRows, TypeParts DEF Created, TypedRest, Stored
    <2>4. QED
      BY <2>2, <2>3
  <1>2. ASSUME AdminShape
        PROVE  Known' /\ Created'
    <2>1. ASSUME NEW c \in Clusters, CreateCluster(c)
          PROVE  Known' /\ Created'
      <3>1. PICK s \in Setups :
                Usable(s) /\ row' = [row EXCEPT ![c] =
                    [at |-> "stored", setup |-> s, status |-> "unknown"]]
        BY <2>1 DEF CreateCluster
      <3>2. row'[c].at = "stored" /\ row'[c].setup = s
        BY <3>1, TypeParts DEF TypedRows
      <3>3. \A d \in Clusters \ {c} : row'[d] = row[d]
        BY <3>1, TypeParts DEF TypedRows
      <3>4. Known'
        BY <2>1, <3>2, <3>3, MidCluster DEF Known, CreateCluster
      <3>5. creating' \subseteq Clusters
        BY <2>1, TypeParts DEF CreateCluster, TypedRest
      <3>6. Created'
        BY <2>1, <3>1, <3>2, <3>3, <3>5 DEF Created, CreateCluster, Stored
      <3>7. QED
        BY <3>4, <3>6
    <2>2. ASSUME NEW c \in Clusters, Registered(c)
          PROVE  Known' /\ Created'
      <3>1. \A d \in Clusters : row'[d].at = row[d].at
                /\ (Stored(d) => row'[d].setup = row[d].setup)
        BY <2>2, TypeParts, SetStatusTyped DEF Registered, Statuses
      <3>2. Known'
        BY <2>2, <3>1, MidCluster DEF Known, Registered
      <3>3. Created'
        BY <2>2, <3>1, TypeParts DEF Created, Registered, TypedRest, Stored
      <3>4. QED
        BY <3>2, <3>3
    <2>3. ASSUME NEW c \in Clusters, DeleteCluster(c)
          PROVE  Known' /\ Created'
      <3>1. row'[c].at = "gone" /\ \A d \in Clusters \ {c} : row'[d] = row[d]
        BY <2>3, TypeParts DEF DeleteCluster, TypedRows, Gone
      <3>2. Known'
        BY <2>3, <3>1, MidCluster DEF Known, DeleteCluster
      <3>3. Created'
        BY <2>3, <3>1, TypeParts DEF Created, DeleteCluster, TypedRest, Stored
      <3>4. QED
        BY <3>2, <3>3
    <2>4. ASSUME NEW c \in Clusters, MoodChanges(c) \/ RegisteredUnwritten(c)
          PROVE  Known' /\ Created'
      BY <2>4 DEF MoodChanges, RegisteredUnwritten, Known, Created, Stored
    <2>5. CASE Wire
      BY <2>5 DEF Wire, Known, Created, Stored
    <2>6. CASE Restart
      BY <2>6 DEF Restart, Known, Created, Idle, Mid
    <2>7. QED
      BY <1>2, <2>1, <2>2, <2>3, <2>4, <2>5, <2>6 DEF AdminShape
  <1>3. QED
    BY <1>1, <1>2, StepShapes

LEMMA UsableStep ==
    ASSUME IInv, Next
    PROVE  Judged' /\ ConnectedIsUsable'
  <1> TypeOK /\ Known /\ Judged /\ Created /\ ConnectedIsUsable
    BY DEF IInv
  <1>1. ASSUME NEW p \in Probers, NEW x, ProberShape(p, x)
        PROVE  Judged' /\ ConnectedIsUsable'
    <2>1. /\ x.pc \in {"dial", "version", "rights"} /\ Stored(x.c) => row[x.c].setup = x.setup
          /\ x.pc \in {"version", "rights"} => Usable(x.setup)
          /\ x.pc \in {"write", "emit"} /\ x.new = "connected" /\ Stored(x.c)
                 => Usable(row[x.c].setup)
      BY <1>1 DEF ProberShape, Passes, FailsToRead, Reads, Asks, Concludes, Writes, GivesUp, Tells,
         Judged, Mid
    <2>2. x.pc \in Mid => x.c \in Clusters
      BY <1>1, MidCluster DEF ProberShape, Passes, FailsToRead, Reads, Asks, Concludes, Writes,
         GivesUp, Tells, Mid
    <2>3. ASSUME NEW q \in Probers
          PROVE  /\ prober'[q].pc \in {"dial", "version", "rights"} /\ Stored(prober[q].c)'
                        => row'[prober'[q].c].setup = prober'[q].setup
                 /\ prober'[q].pc \in {"version", "rights"} => Usable(prober'[q].setup)
                 /\ prober'[q].pc \in {"write", "emit"} /\ prober'[q].new = "connected"
                        /\ Stored(prober[q].c)' => Usable(row'[prober'[q].c].setup)
      <3>1. CASE q = p
        <4>1. prober'[q] = x
          BY <1>1, <3>1, ProberRows
        <4>2. x.c \in Clusters => /\ Stored(x.c)' <=> Stored(x.c)
                                  /\ Stored(x.c) => row'[x.c].setup = row[x.c].setup
          BY <1>1, ProberRows
        <4>3. Stored(prober[q].c)' <=> Stored(x.c)'
          BY <4>1 DEF Stored
        <4>4. QED
          BY <2>1, <2>2, <4>1, <4>2, <4>3 DEF Mid
      <3>2. CASE q # p
        <4>1. prober'[q] = prober[q]
          BY <1>1, <3>2, ProberRows
        <4>2. QED
          BY <1>1, <4>1, ProberRows, MidCluster DEF Judged, Mid, Stored
      <3>3. QED
        BY <3>1, <3>2
    <2>4. Judged'
      BY <2>3 DEF Judged
    <2>5. ConnectedIsUsable'
      <3>1. CASE Writes(p, x) /\ SetStatus(x.c, x.new)
        <4>1. x.c \in Clusters /\ x.new \in Statuses
          BY <3>1, MidCluster DEF Writes, Mid
        <4>2. \A d \in Clusters \ {x.c} : row'[d] = row[d]
          BY <3>1, <4>1, TypeParts, SetStatusTyped
        <4>3. Stored(x.c) => row'[x.c].status = x.new /\ row'[x.c].setup = row[x.c].setup
          BY <3>1, <4>1, TypeParts, SetStatusTyped
        <4>4. x.new = "connected" /\ Stored(x.c) => Usable(row[x.c].setup)
          BY <2>1, <3>1 DEF Writes
        <4>5. \A d \in Clusters : Stored(d)' <=> Stored(d)
          BY <1>1, ProberRows
        <4>6. QED
          BY <4>1, <4>2, <4>3, <4>4, <4>5 DEF ConnectedIsUsable
      <3>2. CASE row' = row
        BY <3>2 DEF ConnectedIsUsable, Stored
      <3>3. QED
        BY <1>1, <3>1, <3>2, ProberRows DEF Writes
    <2>6. QED
      BY <2>4, <2>5
  <1>2. ASSUME AdminShape
        PROVE  Judged' /\ ConnectedIsUsable'
    <2>1. ASSUME NEW c \in Clusters, CreateCluster(c)
          PROVE  Judged' /\ ConnectedIsUsable'
      <3>1. PICK s \in Setups :
                row' = [row EXCEPT ![c] = [at |-> "stored", setup |-> s, status |-> "unknown"]]
        BY <2>1 DEF CreateCluster
      <3>2. row'[c].status = "unknown" /\ \A d \in Clusters \ {c} : row'[d] = row[d]
        BY <3>1, TypeParts DEF TypedRows
      <3>3. \A q \in Probers : prober[q].pc \in Mid => prober[q].c # c
        BY <2>1 DEF CreateCluster, Known, Absent
      <3>4. Judged'
        BY <2>1, <3>2, <3>3, MidCluster DEF Judged, CreateCluster, Stored, Mid
      <3>5. ConnectedIsUsable'
        BY <3>2 DEF ConnectedIsUsable, Stored
      <3>6. QED
        BY <3>4, <3>5
    <2>2. ASSUME NEW c \in Clusters, Registered(c)
          PROVE  Judged' /\ ConnectedIsUsable'
      <3>1. /\ \A d \in Clusters : row'[d].at = row[d].at
                   /\ (Stored(d) => row'[d].setup = row[d].setup)
            /\ \A d \in Clusters \ {c} : row'[d] = row[d]
        BY <2>2, TypeParts, SetStatusTyped DEF Registered, Statuses
      <3>2. Judged'
        BY <2>2, <3>1, MidCluster DEF Judged, Registered, Stored, Mid
      <3>3. Stored(c) => Usable(row[c].setup)
        BY <2>2 DEF Created, Registered
      <3>4. ConnectedIsUsable'
        BY <3>1, <3>3 DEF ConnectedIsUsable, Stored
      <3>5. QED
        BY <3>2, <3>4
    <2>3. ASSUME NEW c \in Clusters, DeleteCluster(c)
          PROVE  Judged' /\ ConnectedIsUsable'
      <3>1. row'[c].at = "gone" /\ \A d \in Clusters \ {c} : row'[d] = row[d]
        BY <2>3, TypeParts DEF DeleteCluster, TypedRows, Gone
      <3>2. Judged'
        BY <2>3, <3>1, MidCluster DEF Judged, DeleteCluster, Stored, Mid
      <3>3. ConnectedIsUsable'
        BY <3>1 DEF ConnectedIsUsable, Stored
      <3>4. QED
        BY <3>2, <3>3
    <2>4. ASSUME NEW c \in Clusters, MoodChanges(c) \/ RegisteredUnwritten(c)
          PROVE  Judged' /\ ConnectedIsUsable'
      BY <2>4 DEF MoodChanges, RegisteredUnwritten, Judged, ConnectedIsUsable, Stored
    <2>5. CASE Wire
      BY <2>5 DEF Wire, Judged, ConnectedIsUsable, Stored
    <2>6. CASE Restart
      BY <2>6 DEF Restart, Judged, ConnectedIsUsable, Stored, Idle
    <2>7. QED
      BY <1>2, <2>1, <2>2, <2>3, <2>4, <2>5, <2>6 DEF AdminShape
  <1>3. QED
    BY <1>1, <1>2, StepShapes

\* A step makes a probe of a cluster of which there is another only by muddling
\* it.
LEMMA LonelyStep ==
    ASSUME IInv, Next
    PROVE  Lonely' /\ muddled \subseteq muddled' /\ unheard \subseteq unheard'
  <1> TypeOK /\ Known /\ Created /\ Lonely
    BY DEF IInv
  <1>1. ASSUME NEW p \in Probers, NEW x, ProberShape(p, x)
        PROVE  Lonely' /\ muddled \subseteq muddled' /\ unheard \subseteq unheard'
    <2>1. muddled \subseteq muddled' /\ unheard \subseteq unheard'
      BY <1>1 DEF ProberShape, Passes, FailsToRead, Reads, Asks, Concludes, Writes, GivesUp, Tells
    <2>2. creating' = creating
          /\ \A q \in Probers : prober'[q] = IF q = p THEN x ELSE prober[q]
      BY <1>1, ProberRows
    <2>3. CASE x.pc \in Mid => prober[p].pc \in Mid /\ prober[p].c = x.c
      BY <2>1, <2>2, <2>3 DEF Lonely, On
    <2>4. CASE Reads(p, x)
      <3>1. ASSUME NEW c \in Clusters \ muddled'
            PROVE  /\ \A q, r \in Probers : On(q, c)' /\ On(r, c)' => q = r
                   /\ c \in creating' => \A q \in Probers : ~On(q, c)'
        <4>1. c \in Clusters \ muddled
          BY <2>1
        <4>2. CASE c # x.c
          BY <2>2, <4>1, <4>2 DEF Lonely, On
        <4>3. CASE c = x.c
          <5>1. ~Overlapped(p, c)
            BY <2>4, <4>3 DEF Reads
          <5>2. c \notin creating /\ \A q \in Probers \ {p} : ~On(q, c)
            BY <5>1 DEF Overlapped, On, Mid
          <5>3. QED
            BY <2>2, <5>2 DEF On
        <4>4. QED
          BY <4>2, <4>3
      <3>2. QED
        BY <2>1, <3>1 DEF Lonely
    <2>5. QED
      BY <1>1, <2>1, <2>3, <2>4 DEF ProberShape, Passes, FailsToRead, Asks, Concludes, Writes,
         GivesUp, Tells, Mid
  <1>2. ASSUME AdminShape
        PROVE  Lonely' /\ muddled \subseteq muddled' /\ unheard \subseteq unheard'
    <2>1. ASSUME NEW c \in Clusters, CreateCluster(c)
          PROVE  Lonely' /\ muddled \subseteq muddled' /\ unheard \subseteq unheard'
      <3>1. \A q \in Probers : ~On(q, c)
        BY <2>1 DEF CreateCluster, Known, Absent, On
      <3>2. QED
        BY <2>1, <3>1 DEF CreateCluster, Lonely, On
    <2>2. ASSUME NEW c \in Clusters,
                 \/ Registered(c) \/ RegisteredUnwritten(c)
                 \/ DeleteCluster(c) \/ MoodChanges(c)
          PROVE  Lonely' /\ muddled \subseteq muddled' /\ unheard \subseteq unheard'
      BY <2>2 DEF Registered, RegisteredUnwritten, DeleteCluster, MoodChanges, Lonely, On
    <2>3. CASE Wire
      BY <2>3 DEF Wire, Lonely, On
    <2>4. CASE Restart
      BY <2>4 DEF Restart, Lonely, On, Idle, Mid
    <2>5. QED
      BY <1>2, <2>1, <2>2, <2>3, <2>4 DEF AdminShape
  <1>3. QED
    BY <1>1, <1>2, StepShapes

LEMMA ChainedByProber ==
    ASSUME IInv, NEW p \in Probers, NEW x, ProberShape(p, x),
           muddled \subseteq muddled', unheard \subseteq unheard',
           NEW c \in Clusters \ (muddled' \cup unheard')
    PROVE  /\ row'[c].at = "absent" => told'[c] = "unknown"
           /\ Stored(c)' =>
                  /\ \A q \in Probers : On(q, c)' /\ prober'[q].pc # "emit"
                                            => prober'[q].old = row'[c].status
                  /\ \A q \in Probers : On(q, c)' /\ prober'[q].pc = "emit"
                         => prober'[q].new = row'[c].status /\ prober'[q].old = told'[c]
                  /\ (\A q \in Probers : ~(On(q, c)' /\ prober'[q].pc = "emit"))
                         => told'[c] = row'[c].status
  <1> TypeOK /\ Known /\ Lonely /\ Chained
    BY DEF IInv
  <1> c \in Clusters \ (muddled \cup unheard)
    OBVIOUS
  <1>1. /\ row'[c].at = row[c].at /\ (Stored(c)' <=> Stored(c))
        /\ ~Writes(p, x) => row' = row
        /\ \A q \in Probers : prober'[q] = IF q = p THEN x ELSE prober[q]
    BY ProberRows
  <1>2. \A q \in Probers : On(q, c)' <=> IF q = p THEN x.pc \in Mid /\ x.c = c ELSE On(q, c)
    BY <1>1 DEF On
  <1>3. row[c].at = "absent" => told[c] = "unknown"
    BY DEF Chained
  <1>4. Stored(c) =>
            /\ \A q \in Probers : On(q, c) /\ prober[q].pc # "emit"
                                      => prober[q].old = row[c].status
            /\ \A q \in Probers : On(q, c) /\ prober[q].pc = "emit"
                   => prober[q].new = row[c].status /\ prober[q].old = told[c]
            /\ (\A q \in Probers : ~(On(q, c) /\ prober[q].pc = "emit"))
                   => told[c] = row[c].status
    BY DEF Chained
  <1>5. \A q, r \in Probers : On(q, c) /\ On(r, c) => q = r
    BY DEF Lonely
  <1>6. CASE Passes(p, x) \/ FailsToRead(p, x)
    <2>1. told' = told /\ row' = row /\ x.pc \notin Mid /\ prober[p].pc # "emit"
      BY <1>6 DEF Passes, FailsToRead
    <2>2. QED
      BY <1>1, <1>2, <1>3, <1>4, <2>1
  <1>7. CASE Reads(p, x)
    <2>1. /\ told' = told /\ row' = row /\ x.pc = "dial" /\ prober[p].pc = "get"
          /\ x.old = row[x.c].status
      BY <1>7 DEF Reads
    <2>2. QED
      BY <1>1, <1>2, <1>3, <1>4, <2>1
  <1>8. CASE Asks(p, x) \/ Concludes(p, x)
    <2>1. /\ told' = told /\ row' = row
          /\ x.pc \in Mid /\ x.pc # "emit" /\ x.c = prober[p].c /\ x.old = prober[p].old
          /\ prober[p].pc \in Mid /\ prober[p].pc # "emit"
      BY <1>8 DEF Asks, Concludes, Mid
    <2>2. On(p, c) <=> x.c = c
      BY <2>1 DEF On
    <2>3. QED
      BY <1>1, <1>2, <1>3, <1>4, <2>1, <2>2
  <1>9. CASE Writes(p, x)
    <2>1. /\ told' = told /\ x.pc = "emit" /\ prober[p].pc = "write"
          /\ x.c = prober[p].c /\ x.old = prober[p].old /\ x.new = prober[p].new
      BY <1>9 DEF Writes
    <2>2. On(p, c) <=> x.c = c
      BY <2>1 DEF On, Mid
    <2>3. x.c \in Clusters /\ x.new \in Statuses
      BY <2>1, MidCluster DEF Mid
    <2>4. CASE x.c = c
      <3>1. SetStatus(c, x.new)
        BY <1>9, <2>4 DEF Writes
      <3>2. Stored(c) => row'[c].status = x.new
        BY <2>3, <2>4, <3>1, TypeParts, SetStatusTyped
      <3>3. \A q \in Probers \ {p} : ~On(q, c)
        BY <1>5, <2>2, <2>4
      <3>4. Stored(c) => told[c] = row[c].status /\ x.old = row[c].status
        BY <1>4, <2>1, <2>2, <2>4, <3>3
      <3>5. "emit" \in Mid
        BY DEF Mid
      <3>6. QED
        BY <1>1, <1>2, <1>3, <2>1, <2>4, <3>2, <3>3, <3>4, <3>5
    <2>5. CASE x.c # c
      <3>1. row'[c] = row[c]
        BY <1>9, <2>3, <2>5, TypeParts, SetStatusTyped DEF Writes
      <3>2. ~On(p, c)
        BY <2>2, <2>5
      <3>3. QED
        BY <1>1, <1>2, <1>3, <1>4, <2>1, <2>5, <3>1, <3>2
    <2>6. QED
      BY <2>4, <2>5
  <1>10. CASE Tells(p, x)
    <2>1. row' = row /\ prober[p].pc = "emit" /\ x.pc \notin Mid
      BY <1>10, <1>1 DEF Tells, Writes
    <2>2. prober[p].c \in Clusters /\ prober[p].new \in Statuses
      BY <2>1, MidCluster DEF Mid
    <2>3. CASE prober[p].c = c
      <3>1. On(p, c)
        BY <2>1, <2>3 DEF On, Mid
      <3>2. \A q \in Probers \ {p} : ~On(q, c)
        BY <1>5, <3>1
      <3>3. Stored(c) => prober[p].new = row[c].status /\ prober[p].old = told[c]
        BY <1>4, <2>1, <3>1
      <3>4. prober[p].old # prober[p].new => wired
        BY <1>10, <2>3 DEF Tells
      <3>5. Stored(c) => told'[c] = row[c].status
        BY <1>10, <2>2, <2>3, <3>3, <3>4, TypeParts DEF Tells, TypedRest
      <3>6. row[c].at # "absent"
        BY <2>1, <2>3 DEF Known, Mid
      <3>7. QED
        BY <1>1, <1>2, <2>1, <3>2, <3>5, <3>6
    <2>4. CASE prober[p].c # c
      <3>1. told'[c] = told[c] /\ ~On(p, c)
        BY <1>10, <2>4, TypeParts DEF Tells, TypedRest, On
      <3>2. QED
        BY <1>1, <1>2, <1>3, <1>4, <2>1, <3>1
    <2>5. QED
      BY <2>3, <2>4
  <1>11. CASE GivesUp(p, x)
    <2>1. /\ told' = told /\ row' = row
          /\ x.c = prober[p].c /\ prober[p].pc \in Mid
          /\ muddled' = muddled \cup {x.c}
      BY <1>11 DEF GivesUp, Mid
    <2>2. x.c # c /\ ~On(p, c)
      BY <2>1 DEF On
    <2>3. QED
      BY <1>1, <1>2, <1>3, <1>4, <2>1, <2>2
  <1>12. QED
    BY <1>6, <1>7, <1>8, <1>9, <1>10, <1>11 DEF ProberShape

LEMMA ChainedStep ==
    ASSUME IInv, Next
    PROVE  Chained'
  <1> TypeOK /\ Known /\ Created /\ Lonely /\ Chained
    BY DEF IInv
  <1>0. muddled \subseteq muddled' /\ unheard \subseteq unheard'
    BY LonelyStep
  <1>1. ASSUME NEW p \in Probers, NEW x, ProberShape(p, x)
        PROVE  Chained'
    <2>1. \A c \in Clusters \ (muddled' \cup unheard') :
              /\ row'[c].at = "absent" => told'[c] = "unknown"
              /\ Stored(c)' =>
                  /\ \A q \in Probers : On(q, c)' /\ prober'[q].pc # "emit"
                                            => prober'[q].old = row'[c].status
                  /\ \A q \in Probers : On(q, c)' /\ prober'[q].pc = "emit"
                         => prober'[q].new = row'[c].status /\ prober'[q].old = told'[c]
                  /\ (\A q \in Probers : ~(On(q, c)' /\ prober'[q].pc = "emit"))
                         => told'[c] = row'[c].status
      BY <1>0, <1>1, ChainedByProber
    <2>2. QED
      BY <2>1 DEF Chained
  <1>2. ASSUME AdminShape
        PROVE  Chained'
    <2>1. ASSUME NEW c \in Clusters, CreateCluster(c)
          PROVE  Chained'
      <3>1. PICK s \in Setups :
                row' = [row EXCEPT ![c] = [at |-> "stored", setup |-> s, status |-> "unknown"]]
        BY <2>1 DEF CreateCluster
      <3>2. /\ row'[c].at = "stored" /\ row'[c].status = "unknown"
            /\ \A d \in Clusters \ {c} : row'[d] = row[d]
        BY <3>1, TypeParts DEF TypedRows
      <3>3. row[c].at = "absent" /\ \A q \in Probers : ~On(q, c)
        BY <2>1 DEF CreateCluster, Known, Absent, On
      <3>4. c \notin muddled \cup unheard => told[c] = "unknown"
        BY <3>3 DEF Chained
      <3>5. UNCHANGED <<prober, told, muddled, unheard>>
        BY <2>1 DEF CreateCluster
      <3>6. QED
        BY <3>2, <3>3, <3>4, <3>5 DEF Chained, Stored, On
    <2>2. ASSUME NEW c \in Clusters, Registered(c)
          PROVE  Chained'
      <3>1. /\ \A d \in Clusters : row'[d].at = row[d].at
            /\ \A d \in Clusters \ {c} : row'[d] = row[d]
            /\ Stored(c) => row'[c].status = "connected"
        BY <2>2, TypeParts, SetStatusTyped DEF Registered, Statuses
      <3>2. told' = [told EXCEPT ![c] = "connected"] /\ told \in [Clusters -> Statuses]
        BY <2>2, TypeParts DEF Registered, TypedRest
      <3>3. row[c].at # "absent" /\ (c \notin muddled => \A q \in Probers : ~On(q, c))
        BY <2>2 DEF Registered, Created, Lonely
      <3>4. UNCHANGED <<prober, muddled, unheard>>
        BY <2>2 DEF Registered
      <3>5. QED
        BY <3>1, <3>2, <3>3, <3>4 DEF Chained, Stored, On
    <2>3. ASSUME NEW c \in Clusters, DeleteCluster(c)
          PROVE  Chained'
      <3>1. row'[c].at = "gone" /\ \A d \in Clusters \ {c} : row'[d] = row[d]
        BY <2>3, TypeParts DEF DeleteCluster, TypedRows, Gone
      <3>2. QED
        BY <2>3, <3>1 DEF DeleteCluster, Chained, Stored, On
    <2>4. ASSUME NEW c \in Clusters, MoodChanges(c) \/ RegisteredUnwritten(c)
          PROVE  Chained'
      BY <2>4 DEF MoodChanges, RegisteredUnwritten, Chained, Stored, On
    <2>5. CASE Wire
      BY <2>5 DEF Wire, Chained, Stored, On
    <2>6. CASE Restart
      <3>1. \A q \in Probers : prober'[q].pc = "idle"
        BY <2>6 DEF Restart, Idle
      <3>2. \A c \in Clusters : c \notin muddled' =>
                \A q \in Probers : ~(On(q, c) /\ prober[q].pc = "emit")
        BY <2>6 DEF Restart, On, At
      <3>3. UNCHANGED <<row, told, unheard>>
        BY <2>6 DEF Restart
      <3>4. ASSUME NEW c \in Clusters \ (muddled' \cup unheard')
            PROVE  /\ row[c].at = "absent" => told[c] = "unknown"
                   /\ Stored(c) => told[c] = row[c].status
        BY <1>0, <3>2, <3>4 DEF Chained
      <3>5. \A q \in Probers, c \in Clusters : ~On(q, c)'
        BY <3>1 DEF On, Mid
      <3>6. QED
        BY <3>3, <3>4, <3>5 DEF Chained, Stored
    <2>7. QED
      BY <1>2, <2>1, <2>2, <2>3, <2>4, <2>5, <2>6 DEF AdminShape
  <1>3. QED
    BY <1>1, <1>2, StepShapes

LEMMA Inductive == IInv /\ [Next]_vars => IInv'
  <1> SUFFICES ASSUME IInv, [Next]_vars
               PROVE  IInv'
    OBVIOUS
  <1>1. CASE Next
    <2>1. TypeOK'
      BY <1>1, TypeStep DEF IInv
    <2>2. QED
      BY <1>1, <2>1, KnownStep, UsableStep, LonelyStep, ChainedStep DEF IInv
  <1>2. CASE UNCHANGED vars
    <2>1. TypeOK'
      BY <1>2, TypeStep DEF IInv
    <2>2. QED
      BY <1>2, <2>1 DEF vars, IInv, Known, Judged, Created, ConnectedIsUsable, Lonely, Chained,
         Stored, On
  <1>3. QED
    BY <1>1, <1>2

LEMMA Invariant == Spec => []IInv
  BY Initially, Inductive, PTL DEF Spec

-----------------------------------------------------------------------------

\* No cluster is stored as connected of whose record the router refuses to make
\* a client, however probes, registrations, deletions and restarts interleave.
THEOREM ConnectedClustersAreUsable == Spec => []ConnectedIsUsable
  <1>1. IInv => ConnectedIsUsable
    BY DEF IInv
  <1>2. QED
    BY <1>1, Invariant, PTL

\* Of a cluster whose probes never overlapped, were all written and found the
\* callback set, the last call of emitStatusChange names the stored status.
THEOREM CallsFollowTheStatus == Spec => []CallsChain
  <1>1. IInv => CallsChain
    <2> SUFFICES ASSUME IInv, NEW c \in Clusters \ (muddled \cup unheard), Stored(c),
                        \A p \in Probers : ~(At(p, "emit") /\ prober[p].c = c)
                 PROVE  told[c] = row[c].status
      BY DEF CallsChain
    <2>1. \A p \in Probers : ~(On(p, c) /\ prober[p].pc = "emit")
      BY DEF On, At
    <2>2. QED
      BY <2>1 DEF IInv, Chained
  <1>2. QED
    BY <1>1, Invariant, PTL

=============================================================================
