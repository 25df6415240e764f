--------------------------- MODULE ClusterProber ---------------------------
(***************************************************************************)
(* The health of remote clusters.  A loop probes every registered cluster  *)
(* each minute, and an administrator may have one probed at any time.  A   *)
(* probe reads the record, asks the cluster, writes the status it found    *)
(* and, if that differs from the one it read, calls the notification       *)
(* centre.  Probes of one cluster may overlap, the cluster may be deleted  *)
(* under a probe, and the process may stop between any two steps.  The     *)
(* loop is started before the callback is set, and a change that is seen   *)
(* until then is not told.                                                 *)
(*                                                                         *)
(* What a status says of version, nodes and reason is left out.  The local *)
(* cluster is not probed.  What becomes of a call is Emit of Notifications.*)
(***************************************************************************)
EXTENDS Naturals, FiniteSets

CONSTANTS Clusters,    \* identifiers; each is used once
          Setups,      \* what may be stored of a cluster
          Loop,        \* the prober's loop
          Testers,     \* handleTestCluster's requests
          MaxMoods,    \* bound on changes of the clusters' health
          MaxFaults    \* bound on failed database calls and stops

ASSUME ClusterProberAssumption ==
    /\ Loop \notin Testers
    /\ {MaxMoods, MaxFaults} \subseteq Nat

VARIABLES row,       \* the stored record of each cluster
          mood,      \* what a cluster would answer
          wired,     \* SetStatusChangeFunc has been called
          prober,    \* where each probe is
          creating,  \* clusters whose registration has yet to write their status
          moods,     \* changes of health so far
          faults,    \* faults so far
          told,      \* the status the last call named: history
          muddled,   \* clusters whose probes overlapped or failed to write: history
          unheard    \* clusters of which a change was found before the callback was set: history

vars == <<row, mood, wired, prober, creating, moods, faults, told, muddled, unheard>>

-----------------------------------------------------------------------------

Statuses == {"unknown", "connected", "disconnected", "error", "blocked"}

Moods == {"well", "unreachable", "refusing", "private"}

Absent == [at |-> "absent"]

Gone == [at |-> "gone"]

Rows == [at: {"stored"}, setup: Setups, status: Statuses]

Probers == Testers \cup {Loop}

Idle == [pc |-> "idle"]

TypeOK ==
    /\ row \in [Clusters -> {Absent, Gone} \cup Rows]
    /\ mood \in [Clusters -> Moods]
    /\ wired \in BOOLEAN
    /\ prober \in [Probers ->
           {Idle} \cup [pc: {"next"}, todo: SUBSET Clusters]
                  \cup [pc: {"get"}, todo: SUBSET Clusters, c: Clusters]
                  \cup [pc: {"dial", "version", "rights"}, todo: SUBSET Clusters, c: Clusters,
                        setup: Setups, old: Statuses]
                  \cup [pc: {"write", "emit"}, todo: SUBSET Clusters, c: Clusters,
                        old: Statuses, new: Statuses]
                  \cup [pc: {"reread"}, todo: SUBSET Clusters, c: Clusters]]
    /\ \A t \in Testers : prober[t] # Idle => prober[t].pc # "next" /\ prober[t].todo = {}
    /\ creating \subseteq Clusters
    /\ moods \in 0 .. MaxMoods
    /\ faults \in 0 .. MaxFaults
    /\ told \in [Clusters -> Statuses]
    /\ muddled \subseteq Clusters
    /\ unheard \subseteq Clusters

Stored(c) == row[c].at = "stored"

Init ==
    /\ row \in [Clusters -> {Absent} \cup [at: {"stored"}, setup: Setups, status: {"unknown"}]]
    /\ mood = [c \in Clusters |-> "well"]
    /\ wired = FALSE
    /\ prober = [p \in Probers |-> Idle]
    /\ creating = {}
    /\ moods = 0
    /\ faults = 0
    /\ told = [c \in Clusters |-> "unknown"]
    /\ muddled = {}
    /\ unheard = {}

-----------------------------------------------------------------------------

At(p, pc) == prober[p].pc = pc

Busy(p) == prober[p] # Idle

\* MUTANT of Ends: a request goes on as if it were the loop.
EndsAsLoop(p) == prober' = [prober EXCEPT ![p] = [pc |-> "next", todo |-> prober[p].todo]]

\* A probe that ends: the loop goes on, a request is answered.
Ends(p) ==
    prober' = [prober EXCEPT ![p] =
        IF p = Loop THEN [pc |-> "next", todo |-> prober[p].todo] ELSE Idle]

\* A probe that has found a status.
Finds(p, status) ==
    prober' = [prober EXCEPT ![p] =
        [pc |-> "write", todo |-> @.todo, c |-> @.c, old |-> @.old, new |-> status]]

\* probeAll lists the clusters there are and takes them one after the other.
ListClusters ==
    /\ prober[Loop] = Idle
    /\ prober' = [prober EXCEPT ![Loop] = [pc |-> "next", todo |-> {c \in Clusters : Stored(c)}]]
    /\ UNCHANGED <<row, mood, wired, creating, moods, faults, told, muddled, unheard>>

NextCluster ==
    /\ At(Loop, "next")
    /\ \E c \in prober[Loop].todo :
           prober' = [prober EXCEPT ![Loop] =
               [pc |-> "get", todo |-> prober[Loop].todo \ {c}, c |-> c]]
    /\ UNCHANGED <<row, mood, wired, creating, moods, faults, told, muddled, unheard>>

SweepEnds ==
    /\ At(Loop, "next")
    /\ prober[Loop].todo = {}
    /\ prober' = [prober EXCEPT ![Loop] = Idle]
    /\ UNCHANGED <<row, mood, wired, creating, moods, faults, told, muddled, unheard>>

\* handleTestCluster, for a cluster that may be gone.
Test(t, c) ==
    /\ prober[t] = Idle
    /\ row[c] # Absent
    /\ prober' = [prober EXCEPT ![t] = [pc |-> "get", todo |-> {}, c |-> c]]
    /\ UNCHANGED <<row, mood, wired, creating, moods, faults, told, muddled, unheard>>

\* Another probe, or the registration, is between its reading and its last step.
Overlapped(p, c) ==
    \/ c \in creating
    \/ \E q \in Probers \ {p} : prober[q].pc \in {"dial", "version", "rights", "write", "emit"}
                                  /\ prober[q].c = c

\* MUTANT of Get: clusters that were refused before are passed over.
GetWilling(p) ==
    /\ At(p, "get")
    /\ LET c == prober[p].c
       IN  IF Stored(c) /\ row[c].status # "blocked"
           THEN /\ prober' = [prober EXCEPT ![p] =
                      [pc |-> "dial", todo |-> prober[p].todo, c |-> c,
                       setup |-> row[c].setup, old |-> row[c].status]]
                /\ muddled' = IF Overlapped(p, c) THEN muddled \cup {c} ELSE muddled
           ELSE /\ Ends(p)
                /\ UNCHANGED muddled
    /\ UNCHANGED <<row, mood, wired, creating, moods, faults, told, unheard>>

\* Get: the record with its status.
Get(p) ==
    /\ At(p, "get")
    /\ LET c == prober[p].c
       IN  IF Stored(c)
           THEN /\ prober' = [prober EXCEPT ![p] =
                      [pc |-> "dial", todo |-> prober[p].todo, c |-> c,
                       setup |-> row[c].setup, old |-> row[c].status]]
                /\ muddled' = IF Overlapped(p, c) THEN muddled \cup {c} ELSE muddled
           ELSE /\ Ends(p)
                /\ UNCHANGED muddled
    /\ UNCHANGED <<row, mood, wired, creating, moods, faults, told, unheard>>

GetFails(p) ==
    /\ At(p, "get")
    /\ faults < MaxFaults
    /\ faults' = faults + 1
    /\ Ends(p)
    /\ UNCHANGED <<row, mood, wired, creating, moods, told, muddled, unheard>>

\* Both secrets decrypt, a CA parses, and without a CA the cluster opted in.
Usable(s) == s.token /\ s.ca # "broken" /\ (s.ca # "none" \/ s.insecure)

\* MUTANT of Dial: the policy for clusters without a CA is left out.
DialUntrusted(p) ==
    /\ At(p, "dial")
    /\ \/ /\ mood[prober[p].c] = "private"
          /\ Finds(p, "blocked")
       \/ /\ mood[prober[p].c] # "private"
          /\ prober' = [prober EXCEPT ![p].pc = "version"]
    /\ UNCHANGED <<row, mood, wired, creating, moods, faults, told, muddled, unheard>>

\* The address is looked up first, then the client is made.
Dial(p) ==
    /\ At(p, "dial")
    /\ \/ /\ mood[prober[p].c] = "private"
          /\ Finds(p, "blocked")
       \/ /\ mood[prober[p].c] # "private"
          /\ ~Usable(prober[p].setup)
          /\ Finds(p, "error")
       \/ /\ mood[prober[p].c] # "private"
          /\ Usable(prober[p].setup)
          /\ prober' = [prober EXCEPT ![p].pc = "version"]
    /\ UNCHANGED <<row, mood, wired, creating, moods, faults, told, muddled, unheard>>

AskVersion(p) ==
    /\ At(p, "version")
    /\ IF mood[prober[p].c] = "unreachable"
       THEN Finds(p, "disconnected")
       ELSE prober' = [prober EXCEPT ![p].pc = "rights"]
    /\ UNCHANGED <<row, mood, wired, creating, moods, faults, told, muddled, unheard>>

\* ProbeImpersonateRights.
AskRights(p) ==
    /\ At(p, "rights")
    /\ Finds(p, IF mood[prober[p].c] \in {"unreachable", "refusing"} THEN "disconnected"
                                                                     ELSE "connected")
    /\ UNCHANGED <<row, mood, wired, creating, moods, faults, told, muddled, unheard>>

\* UpdateStatus of a record that is gone changes nothing.
SetStatus(c, status) ==
    row' = IF Stored(c) THEN [row EXCEPT ![c].status = status] ELSE row

ToEmit(p) == prober' = [prober EXCEPT ![p].pc = "emit"]

Write(p) ==
    /\ At(p, "write")
    /\ SetStatus(prober[p].c, prober[p].new)
    /\ ToEmit(p)
    /\ UNCHANGED <<mood, wired, creating, moods, faults, told, muddled, unheard>>

\* The error of UpdateStatus is dropped.
WriteFails(p) ==
    /\ At(p, "write")
    /\ faults < MaxFaults
    /\ faults' = faults + 1
    /\ muddled' = muddled \cup {prober[p].c}
    /\ ToEmit(p)
    /\ UNCHANGED <<row, mood, wired, creating, moods, told, unheard>>

\* The request is cancelled or out of time, or the loop's context ends before the
\* process does: the database refuses the probe from then on, and so does a
\* healthy cluster the question for its rights.  The callback is still called.
Abandon(p) ==
    /\ IF p = Loop THEN faults < MaxFaults /\ faults' = faults + 1 ELSE UNCHANGED faults
    /\ \/ /\ At(p, "get")
          /\ Ends(p)
          /\ UNCHANGED muddled
       \/ /\ At(p, "rights")
          /\ prober' = [prober EXCEPT ![p] =
                 [pc |-> "emit", todo |-> @.todo, c |-> @.c, old |-> @.old,
                  new |-> "disconnected"]]
          /\ muddled' = muddled \cup {prober[p].c}
       \/ /\ At(p, "write")
          /\ ToEmit(p)
          /\ muddled' = muddled \cup {prober[p].c}
    /\ UNCHANGED <<row, mood, wired, creating, moods, told, unheard>>

\* MUTANT of Emit: only failures are told.
EmitAlarms(p) ==
    /\ At(p, "emit")
    /\ LET c == prober[p].c
           changed == prober[p].old # prober[p].new /\ prober[p].new # "connected"
       IN  /\ told' = IF changed /\ wired THEN [told EXCEPT ![c] = prober[p].new] ELSE told
           /\ unheard' = IF changed /\ ~wired THEN unheard \cup {c} ELSE unheard
           /\ IF prober[p].new = "connected"
              THEN prober' = [prober EXCEPT ![p] =
                       [pc |-> "reread", todo |-> prober[p].todo, c |-> c]]
              ELSE Ends(p)
    /\ UNCHANGED <<row, mood, wired, creating, moods, faults, muddled>>

\* Only a probe that connected reads the record again.
Emit(p) ==
    /\ At(p, "emit")
    /\ LET c == prober[p].c
           changed == prober[p].old # prober[p].new
       IN  /\ told' = IF changed /\ wired THEN [told EXCEPT ![c] = prober[p].new] ELSE told
           /\ unheard' = IF changed /\ ~wired THEN unheard \cup {c} ELSE unheard
           /\ IF prober[p].new = "connected"
              THEN prober' = [prober EXCEPT ![p] =
                       [pc |-> "reread", todo |-> prober[p].todo, c |-> c]]
              ELSE Ends(p)
    /\ UNCHANGED <<row, mood, wired, creating, moods, faults, muddled>>

Reread(p) ==
    /\ At(p, "reread")
    /\ Ends(p)
    /\ UNCHANGED <<row, mood, wired, creating, moods, faults, told, muddled, unheard>>

-----------------------------------------------------------------------------

\* handleCreateCluster, once the cluster has answered its test: the record with
\* the default status, then "connected", whatever a probe has written meanwhile.
CreateCluster(c) ==
    /\ row[c] = Absent
    /\ \E s \in Setups :
           /\ Usable(s)
           /\ row' = [row EXCEPT ![c] = [at |-> "stored", setup |-> s, status |-> "unknown"]]
    /\ creating' = creating \cup {c}
    /\ UNCHANGED <<mood, wired, prober, moods, faults, told, muddled, unheard>>

\* A registration is told to nobody: what is said of a cluster starts here.
Registered(c) ==
    /\ c \in creating
    /\ SetStatus(c, "connected")
    /\ creating' = creating \ {c}
    /\ told' = [told EXCEPT ![c] = "connected"]
    /\ UNCHANGED <<mood, wired, prober, moods, faults, muddled, unheard>>

\* The error of its UpdateStatus is dropped.
RegisteredUnwritten(c) ==
    /\ c \in creating
    /\ creating' = creating \ {c}
    /\ UNCHANGED <<row, mood, wired, prober, moods, faults, told, muddled, unheard>>

DeleteCluster(c) ==
    /\ Stored(c)
    /\ row' = [row EXCEPT ![c] = Gone]
    /\ UNCHANGED <<mood, wired, prober, creating, moods, faults, told, muddled, unheard>>

\* main sets the callback some time after it has started the loop.
Wire ==
    /\ ~wired
    /\ wired' = TRUE
    /\ UNCHANGED <<row, mood, prober, creating, moods, faults, told, muddled, unheard>>

\* The process stops and starts again.  A probe or a registration that was under
\* way leaves what it has written.
Restart ==
    /\ faults < MaxFaults
    /\ faults' = faults + 1
    /\ wired' = FALSE
    /\ prober' = [p \in Probers |-> Idle]
    /\ creating' = {}
    /\ muddled' = muddled \cup {prober[p].c : p \in {q \in Probers : At(q, "emit")}}
    /\ UNCHANGED <<row, mood, moods, told, unheard>>

\* A cluster's health, or what its name resolves to, changes.
MoodChanges(c) ==
    /\ moods < MaxMoods
    /\ \E m \in Moods \ {mood[c]} : mood' = [mood EXCEPT ![c] = m]
    /\ moods' = moods + 1
    /\ UNCHANGED <<row, wired, prober, creating, faults, told, muddled, unheard>>

LoopStep ==
    \/ ListClusters
    \/ NextCluster
    \/ SweepEnds

ProbeStep(p) ==
    Get(p) \/ Dial(p) \/ AskVersion(p) \/ AskRights(p) \/ Write(p) \/ Emit(p) \/ Reread(p)

Next ==
    \/ LoopStep
    \/ \E p \in Probers : ProbeStep(p) \/ GetFails(p) \/ WriteFails(p) \/ Abandon(p)
    \/ \E t \in Testers, c \in Clusters : Test(t, c)
    \/ \E c \in Clusters : CreateCluster(c) \/ Registered(c) \/ RegisteredUnwritten(c)
                           \/ DeleteCluster(c) \/ MoodChanges(c)
    \/ Wire
    \/ Restart

Spec == Init /\ [][Next]_vars

\* The ticker makes the loop go on.  The calls of a cluster have time limits; that
\* the database answers the loop, whose calls have none, is assumed.
FairSpec ==
    /\ Spec
    /\ WF_vars(LoopStep)
    /\ \A p \in Probers : WF_vars(ProbeStep(p))
    /\ \A c \in Clusters : WF_vars(Registered(c))

-----------------------------------------------------------------------------
(* Properties.                                                             *)

\* What the loop would find of a cluster that stays as it is.
Finding(c) ==
    CASE mood[c] = "private" -> "blocked"
      [] mood[c] # "private" /\ ~Usable(row[c].setup) -> "error"
      [] mood[c] = "well" /\ Usable(row[c].setup) -> "connected"
      [] OTHER -> "disconnected"

\* Where probes of a cluster did not overlap, each was written (none was cancelled)
\* and the callback was set, the last call names the status that is stored: the calls of
\* emitStatusChange chain up to the history of the statuses.
CallsChain ==
    \A c \in Clusters \ (muddled \cup unheard) :
        Stored(c) /\ c \notin creating /\ (\A p \in Probers : ~(At(p, "emit") /\ prober[p].c = c))
            => told[c] = row[c].status

\* A cluster is never shown as connected whose record the router refuses to make
\* a client of (ProbeOne's comment: the policy must match buildRemoteConfig's).
ConnectedIsUsable ==
    \A c \in Clusters : Stored(c) /\ row[c].status = "connected" => Usable(row[c].setup)

\* The stored status of a cluster settles on what it is, whatever late probes,
\* failures and stops there were.
StatusSettles ==
    \A c \in Clusters :
        <>[](~Stored(c) \/ c \in creating \/ row[c].status = Finding(c))

\* Every change of a stored status that is found once the callback is set is told:
\* "StatusChangeFunc is called when a cluster's probe status transitions"
\* (cluster_prober.go:52).
ChangesTold ==
    \A c \in Clusters \ unheard :
        Stored(c) /\ c \notin creating /\ (\A p \in Probers : ~Busy(p))
            => told[c] = row[c].status

=============================================================================
