-------------------------------- MODULE WsHub --------------------------------
(***************************************************************************)
(* The WebSocket hub: internal/websocket/{hub,client,events}.go and the    *)
(* upgrade handler of internal/server/handle_ws.go.                        *)
(*                                                                         *)
(* One goroutine (Run) owns the client and subscription maps and selects   *)
(* over its channels; every connection has a reader (ReadPump) and a       *)
(* writer (WritePump) goroutine.  register and unregister are unbuffered,  *)
(* so a send on them is a joint step with the hub; addSub, unsubByID and   *)
(* events are buffered.  Each client has a bounded send channel which the  *)
(* hub closes when it removes the client: a later send on it panics, and   *)
(* Run, unlike the pumps, has no recover.                                  *)
(*                                                                         *)
(* Left out: the bytes of a message, the ping ticker (WriterExit stands    *)
(* for its failure), origin validation, the aliases of kinds.              *)
(***************************************************************************)
EXTENDS Integers, Sequences, FiniteSets

CONSTANTS
    Clients,          \* the connections that may be opened, each used once
    Kinds,            \* resource kinds that may be subscribed to
    AlwaysAllow,      \* alwaysAllowKinds: no RBAC check, no revalidation
    Namespaces,       \* namespaces of the cluster
    AllNs,            \* the empty namespace: "all", or a cluster-scoped object
    SubIDs,           \* subscription ids chosen by the peer
    NoSub,            \* the client has no subscription under a key
    MaxClients,       \* hub.go MaxClients (1000)
    MaxSubscriptions, \* client.go maxSubscriptions (25)
    SendBuffer,       \* client.go sendBufferSize (256)
    SubBuffer,        \* capacity of addSub and of unsubByID (256)
    EventBuffer,      \* capacity of events (1024)
    MaxEvents         \* bound on the informer events of a behaviour

ASSUME ConstantsOK ==
    /\ IsFiniteSet(Clients)
    /\ AlwaysAllow \subseteq Kinds
    /\ AllNs \notin Namespaces
    /\ NoSub \notin SubIDs
    /\ MaxClients \in Nat \ {0}
    /\ MaxSubscriptions \in Nat \ {0}
    /\ SendBuffer \in Nat \ {0}
    /\ SubBuffer \in Nat \ {0}
    /\ EventBuffer \in Nat \ {0}
    /\ MaxEvents \in Nat

\* subKey: kind and namespace.
Key == Kinds \X (Namespaces \cup {AllNs})

Messages == {"subscribed", "error", "event", "resync", "revoked"}

VARIABLES
    \* the hub goroutine
    hub,          \* where Run is: its select, or inside one of its handlers
    clients,      \* h.clients
    clientCount,  \* h.clientCount, read by the upgrade handler
    subs,         \* h.subscriptions
    targets,      \* broadcastEvent: the subscribers still to be served
    current,      \* broadcastEvent: the client sendResync is called for
    toCheck,      \* revalidateSubscriptions: pairs not yet checked
    removals,     \* revalidateSubscriptions: pairs found without access
    \* channels
    addSub, unsubByID, events,
    send, sendClosed,
    \* one connection
    handler,      \* handleWSResources
    reader,       \* ReadPump
    writer,       \* WritePump
    conn,         \* the network connection
    subCount,     \* c.subCount
    pending,      \* the message the reader is handling
    \* environment
    access,       \* what the API server would answer to an access review
    granted,      \* AccessChecker.cache: the unexpired entries that say yes
    reviews,      \* the answers yes that their callers have not stored yet
    emitted       \* number of informer events so far

hubVars  == <<hub, clients, clientCount, subs, targets, current, toCheck, removals>>
chanVars == <<addSub, unsubByID, events, send, sendClosed>>
connVars == <<handler, reader, writer, conn, subCount, pending>>
envVars  == <<access, granted, reviews, emitted>>
vars     == <<hubVars, chanVars, connVars, envVars>>

\* A subscribe message being handled by a reader.
Request == [key : Key, id : SubIDs]
NoRequest == <<>>
NoClient == <<>>

TypeOK ==
    /\ hub \in {"select", "fanout", "resync", "revalidate",
                "stopped", "sendPanic", "closePanic"}
    /\ clients \subseteq Clients
    /\ clientCount \in Int
    /\ subs \in [Key -> [Clients -> SubIDs \cup {NoSub}]]
    /\ targets \subseteq Clients
    /\ current \in Clients \cup {NoClient}
    /\ toCheck \subseteq Key \X Clients
    /\ removals \subseteq Key \X Clients
    /\ addSub \in Seq([client : Clients, key : Key, id : SubIDs])
    /\ unsubByID \in Seq([client : Clients, id : SubIDs])
    /\ events \in Seq(Key)
    /\ send \in [Clients -> Seq(Messages)]
    /\ sendClosed \subseteq Clients
    /\ handler \in [Clients -> {"idle", "registering", "registered", "served"}]
    /\ reader \in [Clients -> {"none", "auth", "loop", "subscribing", "acking",
                               "exiting", "done"}]
    /\ writer \in [Clients -> {"none", "running", "done"}]
    /\ conn \in [Clients -> {"none", "open", "closed"}]
    /\ subCount \in [Clients -> 0..MaxSubscriptions]
    /\ pending \in [Clients -> Request \cup {NoRequest}]
    /\ access \subseteq Clients \X Key
    /\ granted \subseteq Clients \X Key
    /\ reviews \subseteq Clients \X Key
    /\ emitted \in 0..MaxEvents

Init ==
    /\ hub = "select"
    /\ clients = {}
    /\ clientCount = 0
    /\ subs = [k \in Key |-> [c \in Clients |-> NoSub]]
    /\ targets = {}
    /\ current = NoClient
    /\ toCheck = {}
    /\ removals = {}
    /\ addSub = <<>>
    /\ unsubByID = <<>>
    /\ events = <<>>
    /\ send = [c \in Clients |-> <<>>]
    /\ sendClosed = {}
    /\ handler = [c \in Clients |-> "idle"]
    /\ reader = [c \in Clients |-> "none"]
    /\ writer = [c \in Clients |-> "none"]
    /\ conn = [c \in Clients |-> "none"]
    /\ subCount = [c \in Clients |-> 0]
    /\ pending = [c \in Clients |-> NoRequest]
    /\ access = Clients \X Key
    /\ granted = {}
    /\ reviews = {}
    /\ emitted = 0

(***************************************************************************)
(* Operators                                                               *)
(***************************************************************************)

Full(c) == Len(send[c]) >= SendBuffer

\* A non-blocking send: select { case c.send <- data: default: }
Offered(c, m) == IF Full(c) THEN send ELSE [send EXCEPT ![c] = Append(@, m)]

\* The subscriptions without client c.
WithoutClient(c) == [k \in Key |-> [subs[k] EXCEPT ![c] = NoSub]]

\* MUTANT of RemoveClient: the client stays in the map.
RemoveClientKeepsEntry(c, next) ==
    /\ subs' = WithoutClient(c)
    /\ clients' = clients
    /\ clientCount' = clientCount - 1
    /\ sendClosed' = sendClosed \cup {c}
    /\ hub' = IF c \in sendClosed THEN "closePanic" ELSE next

\* removeClient: forget the client and close its send channel.  Closing a
\* closed channel panics.
RemoveClient(c, next) ==
    /\ subs' = WithoutClient(c)
    /\ clients' = clients \ {c}
    /\ clientCount' = clientCount - 1
    /\ sendClosed' = sendClosed \cup {c}
    /\ hub' = IF c \in sendClosed THEN "closePanic" ELSE next

\* Subscribers of an event: under its exact key or under all namespaces.
Subscribers(k) ==
    {c \in Clients : \/ subs[k][c] # NoSub
                     \/ subs[<<k[1], AllNs>>][c] # NoSub}

(***************************************************************************)
(* The access checker, shared by the readers, the hub and the HTTP         *)
(* requests of the same users.  Access is only ever lost here, so that an  *)
(* answer yes can be out of date and an answer no cannot: a cached no is   *)
(* the same as a review made now, and only the yes entries are kept.       *)
(***************************************************************************)

\* The API server allows what it is asked for a caller who found no entry.
\* That caller, or several of them, may store the answer at any later time,
\* whatever has changed or was stored meanwhile.
Review(c, k) ==
    /\ k[1] \notin AlwaysAllow
    /\ <<c, k>> \in access
    /\ reviews' = reviews \cup {<<c, k>>}
    /\ UNCHANGED <<hubVars, chanVars, connVars, access, granted, emitted>>

\* A caller stores its answer; the entry is good for accessCacheTTL.
StoreReview(c, k) ==
    /\ <<c, k>> \in reviews
    /\ granted' = granted \cup {<<c, k>>}
    /\ UNCHANGED <<hubVars, chanVars, connVars, access, reviews, emitted>>

\* The last caller with this answer has stored it or was cancelled.
ReviewEnds(c, k) ==
    /\ <<c, k>> \in reviews
    /\ reviews' = reviews \ {<<c, k>>}
    /\ UNCHANGED <<hubVars, chanVars, connVars, access, granted, emitted>>

\* accessCacheTTL has passed, or a review that said no replaced the entry.
GrantExpires(c, k) ==
    /\ <<c, k>> \in granted
    /\ granted' = granted \ {<<c, k>>}
    /\ UNCHANGED <<hubVars, chanVars, connVars, access, reviews, emitted>>

(***************************************************************************)
(* The upgrade handler, handleWSResources                                  *)
(***************************************************************************)

\* The connection limit is read here, and the client registered later.
Upgrade(c) ==
    /\ handler[c] = "idle"
    /\ clientCount < MaxClients
    /\ handler' = [handler EXCEPT ![c] = "registering"]
    /\ conn' = [conn EXCEPT ![c] = "open"]
    /\ UNCHANGED <<hubVars, chanVars, reader, writer, subCount, pending, envVars>>

StartPumps(c) ==
    /\ handler[c] = "registered"
    /\ handler' = [handler EXCEPT ![c] = "served"]
    /\ reader' = [reader EXCEPT ![c] = "auth"]
    /\ writer' = [writer EXCEPT ![c] = "running"]
    /\ UNCHANGED <<hubVars, chanVars, conn, subCount, pending, envVars>>

(***************************************************************************)
(* The reader, ReadPump                                                    *)
(***************************************************************************)

\* waitForAuth succeeds; auth_ok is written to the connection directly.
Authenticate(c) ==
    /\ reader[c] = "auth"
    /\ conn[c] = "open"
    /\ reader' = [reader EXCEPT ![c] = "loop"]
    /\ UNCHANGED <<hubVars, chanVars, handler, writer, conn, subCount, pending, envVars>>

\* MUTANT of ReadFails: the reader returns without the deferred unregister.
ReadFailsSilently(c) ==
    /\ \/ reader[c] = "auth"
       \/ reader[c] = "loop" /\ conn[c] = "closed"
    /\ reader' = [reader EXCEPT ![c] = "done"]
    /\ UNCHANGED <<hubVars, chanVars, handler, writer, conn, subCount, pending, envVars>>

\* waitForAuth fails (bad token, timeout), or ReadMessage returns an error.
ReadFails(c) ==
    /\ \/ reader[c] = "auth"
       \/ reader[c] = "loop" /\ conn[c] = "closed"
    /\ reader' = [reader EXCEPT ![c] = "exiting"]
    /\ UNCHANGED <<hubVars, chanVars, handler, writer, conn, subCount, pending, envVars>>

\* handleSubscribe up to the send on addSub: limit, then the access check,
\* answered from the cache or by a review whose answer is stored.
ReadSubscribe(c, k, id) ==
    /\ reader[c] = "loop"
    /\ conn[c] = "open"
    /\ subCount[c] < MaxSubscriptions
    /\ \/ k[1] \in AlwaysAllow /\ UNCHANGED granted
       \/ <<c, k>> \in granted /\ UNCHANGED granted
       \/ <<c, k>> \in reviews /\ granted' = granted \cup {<<c, k>>}
    /\ subCount' = [subCount EXCEPT ![c] = @ + 1]
    /\ pending' = [pending EXCEPT ![c] = [key |-> k, id |-> id]]
    /\ reader' = [reader EXCEPT ![c] = "subscribing"]
    /\ UNCHANGED <<hubVars, chanVars, handler, writer, conn, access, reviews, emitted>>

\* c.hub.addSub <- ...: blocks while the channel is full.
SendAddSub(c) ==
    /\ reader[c] = "subscribing"
    /\ Len(addSub) < SubBuffer
    /\ addSub' = Append(addSub, [client |-> c, key |-> pending[c].key, id |-> pending[c].id])
    /\ pending' = [pending EXCEPT ![c] = NoRequest]
    /\ reader' = [reader EXCEPT ![c] = "acking"]
    /\ UNCHANGED <<hubVars, unsubByID, events, send, sendClosed, handler, writer, conn, subCount, envVars>>

\* A reply of the reader on its own send channel.  If the hub has closed it
\* the send panics; ReadPump recovers and exits.
Reply(c, m) ==
    IF c \in sendClosed
    THEN /\ reader' = [reader EXCEPT ![c] = "exiting"]
         /\ UNCHANGED send
    ELSE /\ reader' = [reader EXCEPT ![c] = "loop"]
         /\ send' = Offered(c, m)

SendSubscribed(c) ==
    /\ reader[c] = "acking"
    /\ Reply(c, "subscribed")
    /\ UNCHANGED <<hubVars, addSub, unsubByID, events, sendClosed, handler, writer, conn, subCount, pending, envVars>>

\* sendError: a malformed or unknown message, too many subscriptions, no
\* access, or a failed access check.
ReadReject(c) ==
    /\ reader[c] = "loop"
    /\ conn[c] = "open"
    /\ Reply(c, "error")
    /\ UNCHANGED <<hubVars, addSub, unsubByID, events, sendClosed, handler, writer, conn, subCount, pending, envVars>>

\* MUTANT of ReadUnsubscribe: the count drops below zero.
ReadUnsubscribeUnguarded(c, id) ==
    /\ reader[c] = "loop"
    /\ conn[c] = "open"
    /\ Len(unsubByID) < SubBuffer
    /\ unsubByID' = Append(unsubByID, [client |-> c, id |-> id])
    /\ subCount' = [subCount EXCEPT ![c] = @ - 1]
    /\ UNCHANGED <<hubVars, addSub, events, send, sendClosed, handler, reader, writer,
                   conn, pending, envVars>>

\* handleUnsubscribe: the hub looks the id up; the count drops regardless.
\* A full channel blocks the reader, as if it had not read the message yet.
ReadUnsubscribe(c, id) ==
    /\ reader[c] = "loop"
    /\ conn[c] = "open"
    /\ Len(unsubByID) < SubBuffer
    /\ unsubByID' = Append(unsubByID, [client |-> c, id |-> id])
    /\ subCount' = [subCount EXCEPT ![c] = IF @ > 0 THEN @ - 1 ELSE @]
    /\ UNCHANGED <<hubVars, addSub, events, send, sendClosed, handler, reader, writer,
                   conn, pending, envVars>>

(***************************************************************************)
(* The writer, WritePump, and the network                                  *)
(***************************************************************************)

WriterSend(c) ==
    /\ writer[c] = "running"
    /\ conn[c] = "open"
    /\ send[c] # <<>>
    /\ send' = [send EXCEPT ![c] = Tail(@)]
    /\ UNCHANGED <<hubVars, addSub, unsubByID, events, sendClosed, connVars, envVars>>

\* MUTANT of WriterExit: the closed channel is not noticed.
WriterExitOnErrorOnly(c) ==
    /\ writer[c] = "running"
    /\ conn[c] = "closed"
    /\ writer' = [writer EXCEPT ![c] = "done"]
    /\ UNCHANGED <<hubVars, chanVars, handler, reader, conn, subCount, pending, envVars>>

\* The channel is closed and drained, or a write fails: close and return.
WriterExit(c) ==
    /\ writer[c] = "running"
    /\ \/ c \in sendClosed /\ send[c] = <<>>
       \/ conn[c] = "closed"
    /\ writer' = [writer EXCEPT ![c] = "done"]
    /\ conn' = [conn EXCEPT ![c] = "closed"]
    /\ UNCHANGED <<hubVars, chanVars, handler, reader, subCount, pending, envVars>>

\* The peer goes away, or a read or write deadline passes.
ConnectionLost(c) ==
    /\ conn[c] = "open"
    /\ conn' = [conn EXCEPT ![c] = "closed"]
    /\ UNCHANGED <<hubVars, chanVars, handler, reader, writer, subCount, pending, envVars>>

(***************************************************************************)
(* The environment                                                         *)
(***************************************************************************)

\* An informer callback, HandleEvent: dropped when the channel is full.
InformerEvent(k) ==
    /\ emitted < MaxEvents
    /\ emitted' = emitted + 1
    /\ events' = IF Len(events) < EventBuffer THEN Append(events, k) ELSE events
    /\ UNCHANGED <<hubVars, addSub, unsubByID, send, sendClosed, connVars,
                   access, granted, reviews>>

RevokeAccess(c, k) ==
    /\ k[1] \notin AlwaysAllow
    /\ <<c, k>> \in access
    /\ access' = access \ {<<c, k>>}
    /\ UNCHANGED <<hubVars, chanVars, connVars, granted, reviews, emitted>>

(***************************************************************************)
(* The hub, Run: one case of its select per action                         *)
(***************************************************************************)

HubRegister(c) ==
    /\ hub = "select"
    /\ handler[c] = "registering"
    /\ clients' = clients \cup {c}
    /\ clientCount' = clientCount + 1
    /\ handler' = [handler EXCEPT ![c] = "registered"]
    /\ UNCHANGED <<hub, subs, targets, current, toCheck, removals, chanVars,
                   reader, writer, conn, subCount, pending, envVars>>

\* The reader hands its client over and then closes the connection.  A
\* client the hub has removed already is ignored.
HubUnregister(c) ==
    /\ hub = "select"
    /\ reader[c] = "exiting"
    /\ IF c \in clients
       THEN RemoveClient(c, "select")
       ELSE UNCHANGED <<hub, clients, clientCount, subs, sendClosed>>
    /\ reader' = [reader EXCEPT ![c] = "done"]
    /\ conn' = [conn EXCEPT ![c] = "closed"]
    /\ UNCHANGED <<targets, current, toCheck, removals, addSub, unsubByID, events,
                   send, handler, writer, subCount, pending, envVars>>

\* No look at clients: the client may be gone by now.
HubAddSub ==
    /\ hub = "select"
    /\ addSub # <<>>
    /\ LET change == Head(addSub)
       IN  subs' = [subs EXCEPT ![change.key][change.client] = change.id]
    /\ addSub' = Tail(addSub)
    /\ UNCHANGED <<hub, clients, clientCount, targets, current, toCheck, removals,
                   unsubByID, events, send, sendClosed, connVars, envVars>>

\* Removes the first match in the iteration order of a Go map: any match.
HubUnsub ==
    /\ hub = "select"
    /\ unsubByID # <<>>
    /\ LET req     == Head(unsubByID)
           matches == {k \in Key : subs[k][req.client] = req.id}
       IN  IF matches = {}
           THEN UNCHANGED subs
           ELSE \E k \in matches : subs' = [subs EXCEPT ![k][req.client] = NoSub]
    /\ unsubByID' = Tail(unsubByID)
    /\ UNCHANGED <<hub, clients, clientCount, targets, current, toCheck, removals,
                   addSub, events, send, sendClosed, connVars, envVars>>

\* broadcastEvent up to its loop.
HubEvent ==
    /\ hub = "select"
    /\ events # <<>>
    /\ targets' = Subscribers(Head(events))
    /\ hub' = IF targets' = {} THEN "select" ELSE "fanout"
    /\ events' = Tail(events)
    /\ UNCHANGED <<clients, clientCount, subs, current, toCheck, removals,
                   addSub, unsubByID, send, sendClosed, connVars, envVars>>

Rest(c) == IF targets \ {c} = {} THEN "select" ELSE "fanout"

\* One turn of broadcastEvent's loop: the non-blocking send of the event.
FanoutSend(c) ==
    /\ hub = "fanout"
    /\ c \in targets
    /\ \/ /\ c \in sendClosed
          /\ hub' = "sendPanic"
          /\ UNCHANGED <<targets, current, send>>
       \/ /\ c \notin sendClosed
          /\ ~Full(c)
          /\ send' = Offered(c, "event")
          /\ targets' = targets \ {c}
          /\ hub' = Rest(c)
          /\ UNCHANGED current
       \/ /\ c \notin sendClosed
          /\ Full(c)
          /\ current' = c
          /\ hub' = "resync"
          /\ UNCHANGED <<targets, send>>
    /\ UNCHANGED <<clients, clientCount, subs, toCheck, removals, addSub, unsubByID,
                   events, sendClosed, connVars, envVars>>

\* MUTANT of Resync: a client without room is left alone.
ResyncDrops ==
    /\ hub = "resync"
    /\ targets' = targets \ {current}
    /\ current' = NoClient
    /\ send' = Offered(current, "resync")
    /\ hub' = Rest(current)
    /\ UNCHANGED <<clients, clientCount, subs, sendClosed, toCheck, removals,
                   addSub, unsubByID, events, connVars, envVars>>

\* sendResync: the writer may have made room since; if not, disconnect.
Resync ==
    /\ hub = "resync"
    /\ targets' = targets \ {current}
    /\ current' = NoClient
    /\ IF Full(current)
       THEN /\ RemoveClient(current, Rest(current))
            /\ UNCHANGED send
       ELSE /\ send' = Offered(current, "resync")
            /\ hub' = Rest(current)
            /\ UNCHANGED <<clients, clientCount, subs, sendClosed>>
    /\ UNCHANGED <<toCheck, removals, addSub, unsubByID, events, connVars, envVars>>

\* The RBAC ticker: revalidateSubscriptions.
HubTick ==
    /\ hub = "select"
    /\ toCheck' = {p \in Key \X Clients : /\ p[1][1] \notin AlwaysAllow
                                          /\ subs[p[1]][p[2]] # NoSub}
    /\ toCheck' # {}
    /\ hub' = "revalidate"
    /\ UNCHANGED <<clients, clientCount, subs, targets, current, removals,
                   chanVars, connVars, envVars>>

\* One access check that says yes or fails: the subscription is kept.  The
\* answer of its own review is stored by StoreReview.
CheckPasses(k, c) ==
    /\ hub = "revalidate"
    /\ <<k, c>> \in toCheck
    /\ toCheck' = toCheck \ {<<k, c>>}
    /\ UNCHANGED <<hub, clients, clientCount, subs, targets, current, removals,
                   chanVars, connVars, envVars>>

\* One access check that says no: no entry says otherwise.
CheckDenied(k, c) ==
    /\ hub = "revalidate"
    /\ <<k, c>> \in toCheck
    /\ <<c, k>> \notin access \cup granted
    /\ toCheck' = toCheck \ {<<k, c>>}
    /\ removals' = removals \cup {<<k, c>>}
    /\ UNCHANGED <<hub, clients, clientCount, subs, targets, current,
                   chanVars, connVars, envVars>>

\* MUTANT of Revoke: the subscription stays when the notice has no room.
RevokeIfRoom(k, c) ==
    /\ hub = "revalidate"
    /\ toCheck = {}
    /\ <<k, c>> \in removals
    /\ removals' = removals \ {<<k, c>>}
    /\ subs' = IF Full(c) THEN subs ELSE [subs EXCEPT ![k][c] = NoSub]
    /\ IF c \in sendClosed
       THEN /\ hub' = "sendPanic"
            /\ UNCHANGED send
       ELSE /\ send' = Offered(c, "revoked")
            /\ UNCHANGED hub
    /\ UNCHANGED <<clients, clientCount, targets, current, toCheck, addSub, unsubByID,
                   events, sendClosed, connVars, envVars>>

\* The removal of one denied subscription, with a best-effort notice.
Revoke(k, c) ==
    /\ hub = "revalidate"
    /\ toCheck = {}
    /\ <<k, c>> \in removals
    /\ removals' = removals \ {<<k, c>>}
    /\ subs' = [subs EXCEPT ![k][c] = NoSub]
    /\ IF c \in sendClosed
       THEN /\ hub' = "sendPanic"
            /\ UNCHANGED send
       ELSE /\ send' = Offered(c, "revoked")
            /\ UNCHANGED hub
    /\ UNCHANGED <<clients, clientCount, targets, current, toCheck, addSub, unsubByID,
                   events, sendClosed, connVars, envVars>>

RevalidateEnds ==
    /\ hub = "revalidate"
    /\ toCheck = {}
    /\ removals = {}
    /\ hub' = "select"
    /\ UNCHANGED <<clients, clientCount, subs, targets, current, toCheck, removals,
                   chanVars, connVars, envVars>>

\* MUTANT of HubStop: the counter is left as it was.
HubStopKeepsCount ==
    /\ hub = "select"
    /\ hub' = "stopped"
    /\ subs' = [k \in Key |-> [c \in Clients |-> IF c \in clients THEN NoSub ELSE subs[k][c]]]
    /\ sendClosed' = sendClosed \cup clients
    /\ clients' = {}
    /\ UNCHANGED <<clientCount, targets, current, toCheck, removals, addSub, unsubByID,
                   events, send, connVars, envVars>>

\* ctx.Done: shutdown removes every registered client, and Run returns.
HubStop ==
    /\ hub = "select"
    /\ hub' = "stopped"
    /\ subs' = [k \in Key |-> [c \in Clients |-> IF c \in clients THEN NoSub ELSE subs[k][c]]]
    /\ sendClosed' = sendClosed \cup clients
    /\ clientCount' = clientCount - Cardinality(clients)
    /\ clients' = {}
    /\ UNCHANGED <<targets, current, toCheck, removals, addSub, unsubByID, events,
                   send, connVars, envVars>>

-----------------------------------------------------------------------------

\* A panic in Run ends the process.
Panicked == hub \in {"sendPanic", "closePanic"}

Connection(c) ==
    \/ Upgrade(c) \/ StartPumps(c)
    \/ Authenticate(c) \/ ReadFails(c)
    \/ \E k \in Key, id \in SubIDs : ReadSubscribe(c, k, id)
    \/ SendAddSub(c) \/ SendSubscribed(c) \/ ReadReject(c)
    \/ \E id \in SubIDs : ReadUnsubscribe(c, id)
    \/ WriterSend(c) \/ WriterExit(c) \/ ConnectionLost(c)

Hub ==
    \/ \E c \in Clients : HubRegister(c) \/ HubUnregister(c) \/ FanoutSend(c)
    \/ HubAddSub \/ HubUnsub \/ HubEvent \/ Resync
    \/ HubTick \/ RevalidateEnds \/ HubStop
    \/ \E k \in Key, c \in Clients : CheckPasses(k, c) \/ CheckDenied(k, c) \/ Revoke(k, c)

AccessChecker ==
    \E c \in Clients, k \in Key :
        Review(c, k) \/ StoreReview(c, k) \/ ReviewEnds(c, k) \/ GrantExpires(c, k)

Environment ==
    \/ \E k \in Key : InformerEvent(k)
    \/ \E c \in Clients, k \in Key : RevokeAccess(c, k)

Next ==
    /\ ~Panicked
    /\ \/ \E c \in Clients : Connection(c)
       \/ Hub
       \/ AccessChecker
       \/ Environment

Spec == Init /\ [][Next]_vars

\* Go schedules every runnable goroutine, a write to the network ends within
\* writeWait, and select picks among its ready cases at random: a case that
\* is ready again and again is taken.  This is assumed where a property below
\* needs it.  Nothing is assumed of the peers, the informers, the upgrade of
\* new connections, or of who loses access.  Of the access checks: the hub's
\* do not fail for ever, a cached answer expires, and no request holds its
\* answer for ever.
Fairness ==
    /\ \A c \in Clients :
          /\ WF_vars(StartPumps(c))
          /\ WF_vars(ReadFails(c))
          /\ WF_vars(SendSubscribed(c))
          /\ SF_vars(SendAddSub(c))
          /\ WF_vars(WriterSend(c) \/ WriterExit(c))
          /\ SF_vars(HubUnregister(c))
          /\ WF_vars(FanoutSend(c))
    /\ SF_vars(HubAddSub)
    /\ WF_vars(Resync)
    /\ SF_vars(HubTick) /\ WF_vars(RevalidateEnds)
    /\ \A k \in Key, c \in Clients :
          /\ WF_vars(CheckPasses(k, c) \/ CheckDenied(k, c))
          /\ SF_vars(CheckDenied(k, c))
          /\ WF_vars(ReviewEnds(c, k)) /\ WF_vars(GrantExpires(c, k))
          /\ WF_vars(Revoke(k, c))

FairSpec == Spec /\ Fairness

-----------------------------------------------------------------------------
(***************************************************************************)
(* Properties                                                              *)
(***************************************************************************)

\* While a client is registered the hub has not closed its send channel, so
\* that neither a fan-out to it nor its own replies can panic (hub.go
\* removeClient is the only place that closes, and it also unregisters).
RegisteredMeansOpen == clients \cap sendClosed = {}

\* No send channel is closed twice, although removeClient is reached from
\* three places: the reader's unregister, a failed resync, and shutdown.
NoDoubleClose == hub # "closePanic"

\* The counter the upgrade handler reads without the hub agrees with the
\* client map: no removal is counted twice or missed.
CountMatches == clientCount = Cardinality(clients)

\* A subscriber chosen for an event gets the event or a resync_required, or
\* is disconnected: a slow client never misses an event silently
\* (broadcastEvent and sendResync).
ServedOrDisconnected ==
    [][\A c \in targets \ targets' : \/ Len(send'[c]) > Len(send[c])
                                     \/ c \in sendClosed']_vars

\* The peer of a client the hub has removed is disconnected: the writer sees
\* the closed channel and closes the connection (WritePump).
RemovedIsDisconnected ==
    \A c \in Clients : c \in sendClosed ~> (writer[c] = "done" /\ conn[c] = "closed")
                                            \/ Panicked

\* A lost connection leaves nothing behind in a running hub: the reader ends
\* and the client is unregistered (ReadPump's deferred unregister).
LostIsUnregistered ==
    \A c \in Clients : (reader[c] = "loop" /\ conn[c] = "closed")
        ~> \/ reader[c] = "done" /\ c \notin clients
           \/ hub \notin {"select", "fanout", "resync", "revalidate"}

\* After access is revoked the subscription is dropped for good at some time.
\* A request queued on addSub at the revocation, and those accepted later
\* because a cached or a belated answer still says yes, even after the hub has
\* removed the subscription once, get in again, but no longer once those
\* answers have expired (revalidateSubscriptions, accessCacheTTL).
RevocationSticks ==
    \A c \in Clients, k \in Key :
        (<<c, k>> \notin access)
            ~> [](subs[k][c] = NoSub \/ hub = "stopped" \/ Panicked)

(***************************************************************************)
(* What the source says and the code does not keep                         *)
(***************************************************************************)

\* hub.go avoids a panic in Run because Run has no recover.
NoSendPanic == hub # "sendPanic"

\* hub.go: MaxClients is the maximum number of concurrent connections.
ConnectionLimit == Cardinality(clients) <= MaxClients

\* client.go: subCount tracks the number of active subscriptions.  Stated
\* where no request of the client is on its way to the hub.
SubCountExact ==
    \A c \in clients :
        (hub = "select" /\ reader[c] = "loop" /\ addSub = <<>> /\ unsubByID = <<>>)
            => subCount[c] = Cardinality({k \in Key : subs[k][c] # NoSub})
=============================================================================
