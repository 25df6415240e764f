----------------------------- MODULE WsHub_proofs -----------------------------
(***************************************************************************)
(* Proofs about the WebSocket hub, for any number of connections and any   *)
(* buffer sizes.  The point of the argument: a client is closed at most    *)
(* once because sendResync is only ever reached for a client whose channel *)
(* was just seen open and full, and an open client of a connection that    *)
(* has started is a registered one.                                        *)
(***************************************************************************)
EXTENDS WsHub, FiniteSetTheorems, SequenceTheorems, TLAPS

\* The connection was registered at some time.
Started(c) == c \in clients \cup sendClosed

\* Everything that names a client names one that was registered.
NamesStarted ==
    /\ \A c \in Clients : handler[c] \in {"idle", "registering"} <=> ~Started(c)
    /\ \A c \in Clients : reader[c] # "none" => Started(c)
    /\ \A k \in Key, c \in Clients : subs[k][c] # NoSub => Started(c)
    /\ \A i \in 1..Len(addSub) : Started(addSub[i].client)
    /\ \A c \in targets : Started(c)

\* sendResync works on a target whose channel is still open.
ResyncOpen == hub = "resync" => current \in targets /\ current \notin sendClosed

\* Outside a fan-out nobody is waiting for an event.
NoLeftovers == hub \in {"select", "revalidate"} => targets = {}

\* A reader between the access check and addSub holds its request.
HoldsRequest == \A c \in Clients : reader[c] = "subscribing" => pending[c] \in Request

IInv ==
    /\ TypeOK
    /\ RegisteredMeansOpen
    /\ NoDoubleClose
    /\ CountMatches
    /\ NamesStarted
    /\ ResyncOpen
    /\ NoLeftovers
    /\ HoldsRequest

-----------------------------------------------------------------------------

\* The client map is finite, and grows and shrinks by one.
LEMMA ClientsFinite ==
    ASSUME TypeOK
    PROVE  /\ IsFiniteSet(clients)
           /\ Cardinality(clients) \in Nat
           /\ \A c \in Clients \ clients :
                 Cardinality(clients \cup {c}) = Cardinality(clients) + 1
           /\ \A c \in clients : Cardinality(clients \ {c}) = Cardinality(clients) - 1
<1>1. IsFiniteSet(clients)
  BY ConstantsOK, FS_Subset DEF ConstantsOK, TypeOK
<1> QED BY <1>1, FS_CardinalityType, FS_AddElement, FS_RemoveElement

LEMMA InitInvariant == Init => IInv
<1> SUFFICES ASSUME Init PROVE IInv
  OBVIOUS
<1>1. TypeOK
  BY ConstantsOK DEF Init, TypeOK, ConstantsOK, NoClient, NoRequest
<1>2. RegisteredMeansOpen /\ NoDoubleClose /\ ResyncOpen /\ NoLeftovers
      /\ HoldsRequest /\ NamesStarted
  BY DEF Init, RegisteredMeansOpen, NoDoubleClose, ResyncOpen, NoLeftovers,
        HoldsRequest, NamesStarted, Started
<1>3. CountMatches
  BY FS_EmptySet DEF Init, CountMatches
<1> QED BY <1>1, <1>2, <1>3 DEF IInv

\* What the operators on channels and subscriptions return.
LEMMA OfferedType ==
    ASSUME TypeOK, NEW c \in Clients, NEW m \in Messages
    PROVE  Offered(c, m) \in [Clients -> Seq(Messages)]
<1>1. send \in [Clients -> Seq(Messages)]
  BY DEF TypeOK
<1>2. send[c] \in Seq(Messages)
  BY <1>1
<1>3. Append(send[c], m) \in Seq(Messages)
  BY <1>2, AppendProperties
<1> QED BY <1>1, <1>3 DEF Offered

LEMMA TailType ==
    ASSUME NEW S, NEW s \in Seq(S), s # <<>>
    PROVE  Head(s) \in S /\ Tail(s) \in Seq(S) /\ Len(s) \in Nat
BY HeadTailProperties, LenProperties

LEMMA SubsType ==
    ASSUME TypeOK, NEW k \in Key, NEW c \in Clients, NEW id \in SubIDs \cup {NoSub}
    PROVE  [subs EXCEPT ![k][c] = id] \in [Key -> [Clients -> SubIDs \cup {NoSub}]]
BY DEF TypeOK

LEMMA WithoutClientType ==
    ASSUME TypeOK, NEW c \in Clients
    PROVE  WithoutClient(c) \in [Key -> [Clients -> SubIDs \cup {NoSub}]]
BY DEF TypeOK, WithoutClient

\* Appending to a queue, and taking its head, make up no elements.
LEMMA AppendNames ==
    ASSUME NEW S, NEW s \in Seq(S), NEW x \in S, NEW i \in 1..Len(Append(s, x))
    PROVE  Append(s, x)[i] = x \/ \E j \in 1..Len(s) : Append(s, x)[i] = s[j]
BY AppendProperties, LenProperties

LEMMA TailNames ==
    ASSUME NEW S, NEW s \in Seq(S), s # <<>>, NEW i \in 1..Len(Tail(s))
    PROVE  \E j \in 1..Len(s) : Tail(s)[i] = s[j]
<1>1. i + 1 \in 1..Len(s) /\ Tail(s)[i] = s[i + 1]
  BY HeadTailProperties, LenProperties
<1> QED BY <1>1

LEMMA HeadName ==
    ASSUME NEW S, NEW s \in Seq(S), s # <<>>
    PROVE  \E i \in 1..Len(s) : Head(s) = s[i]
<1>1. 1 \in 1..Len(s) /\ Head(s) = s[1]
  BY HeadTailProperties, LenProperties
<1> QED BY <1>1

\* The parts of the type invariant.
HubTypes ==
    /\ hub \in {"select", "fanout", "resync", "revalidate",
                "stopped", "sendPanic", "closePanic"}
    /\ clients \subseteq Clients
    /\ clientCount \in Int
    /\ subs \in [Key -> [Clients -> SubIDs \cup {NoSub}]]
    /\ targets \subseteq Clients
    /\ current \in Clients \cup {NoClient}
    /\ toCheck \subseteq Key \X Clients
    /\ removals \subseteq Key \X Clients

ChanTypes ==
    /\ addSub \in Seq([client : Clients, key : Key, id : SubIDs])
    /\ unsubByID \in Seq([client : Clients, id : SubIDs])
    /\ events \in Seq(Key)
    /\ send \in [Clients -> Seq(Messages)]
    /\ sendClosed \subseteq Clients

ConnTypes ==
    /\ handler \in [Clients -> {"idle", "registering", "registered", "served"}]
    /\ reader \in [Clients -> {"none", "auth", "loop", "subscribing", "acking",
                               "exiting", "done"}]
    /\ writer \in [Clients -> {"none", "running", "done"}]
    /\ conn \in [Clients -> {"none", "open", "closed"}]
    /\ subCount \in [Clients -> 0..MaxSubscriptions]
    /\ pending \in [Clients -> Request \cup {NoRequest}]

EnvTypes ==
    /\ access \subseteq Clients \X Key
    /\ granted \subseteq Clients \X Key
    /\ reviews \subseteq Clients \X Key
    /\ emitted \in 0..MaxEvents

LEMMA TypeParts ==
    /\ TypeOK <=> HubTypes /\ ChanTypes /\ ConnTypes /\ EnvTypes
    /\ TypeOK' <=> HubTypes' /\ ChanTypes' /\ ConnTypes' /\ EnvTypes'
BY DEF TypeOK, HubTypes, ChanTypes, ConnTypes, EnvTypes

\* The hub takes an entry from one of its buffered channels.
LEMMA TypeDequeue ==
    ASSUME TypeOK, HubAddSub \/ HubUnsub \/ HubEvent
    PROVE  TypeOK'
<1>0. HubTypes /\ ChanTypes /\ ConnTypes /\ EnvTypes
  BY TypeParts
<1>1. ConnTypes' /\ EnvTypes'
  BY <1>0 DEF HubAddSub, HubUnsub, HubEvent, ConnTypes, EnvTypes, connVars, envVars
<1>2. CASE HubAddSub
  <2>1. /\ Head(addSub) \in [client : Clients, key : Key, id : SubIDs]
        /\ Tail(addSub) \in Seq([client : Clients, key : Key, id : SubIDs])
    BY <1>0, <1>2, TailType DEF HubAddSub, ChanTypes
  <2>2. subs' \in [Key -> [Clients -> SubIDs \cup {NoSub}]]
    BY <1>2, <2>1, SubsType DEF HubAddSub
  <2>3. HubTypes' /\ ChanTypes'
    BY <1>0, <1>2, <2>1, <2>2 DEF HubAddSub, HubTypes, ChanTypes
  <2> QED BY <1>1, <2>3, TypeParts
<1>3. CASE HubUnsub
  <2>1. /\ Head(unsubByID) \in [client : Clients, id : SubIDs]
        /\ Tail(unsubByID) \in Seq([client : Clients, id : SubIDs])
    BY <1>0, <1>3, TailType DEF HubUnsub, ChanTypes
  <2>2. subs' \in [Key -> [Clients -> SubIDs \cup {NoSub}]]
    <3>1. CASE UNCHANGED subs
      BY <1>0, <3>1 DEF HubTypes
    <3>2. ASSUME NEW k \in Key, subs' = [subs EXCEPT ![k][Head(unsubByID).client] = NoSub]
          PROVE  subs' \in [Key -> [Clients -> SubIDs \cup {NoSub}]]
      BY <2>1, <3>2, SubsType
    <3> QED BY <1>3, <3>1, <3>2 DEF HubUnsub
  <2>3. /\ unsubByID' = Tail(unsubByID)
        /\ UNCHANGED <<hub, clients, clientCount, targets, current, toCheck, removals,
                       addSub, events, send, sendClosed>>
    BY <1>3 DEF HubUnsub
  <2>4. HubTypes' /\ ChanTypes'
    BY <1>0, <2>1, <2>2, <2>3 DEF HubTypes, ChanTypes
  <2> QED BY <1>1, <2>4, TypeParts
<1>4. CASE HubEvent
  <2>1. /\ events' = Tail(events)
        /\ UNCHANGED <<clients, clientCount, subs, current, toCheck, removals,
                       addSub, unsubByID, send, sendClosed>>
        /\ targets' \subseteq Clients /\ hub' \in {"select", "fanout"}
    BY <1>4 DEF HubEvent, Subscribers
  <2>2. Tail(events) \in Seq(Key)
    BY <1>0, <1>4, TailType DEF HubEvent, ChanTypes
  <2>3. HubTypes' /\ ChanTypes'
    BY <1>0, <2>1, <2>2 DEF HubTypes, ChanTypes
  <2> QED BY <1>1, <2>3, TypeParts
<1> QED BY <1>2, <1>3, <1>4

\* The hub tells a target to resynchronise, or gives it up.
LEMMA TypeResync ==
    ASSUME TypeOK, ResyncOpen, Resync
    PROVE  TypeOK'
<1>0. HubTypes /\ ChanTypes /\ ConnTypes /\ EnvTypes
  BY TypeParts
<1>1. current \in Clients
  BY <1>0 DEF Resync, ResyncOpen, HubTypes
<1>2. WithoutClient(current) \in [Key -> [Clients -> SubIDs \cup {NoSub}]]
  BY <1>1, WithoutClientType
<1>3. Offered(current, "resync") \in [Clients -> Seq(Messages)]
  BY <1>1, OfferedType DEF Messages
<1>4. HubTypes'
  <2>1. CASE Full(current)
    BY <1>0, <1>1, <1>2, <2>1 DEF Resync, RemoveClient, Rest, NoClient, HubTypes
  <2>2. CASE ~Full(current)
    BY <1>0, <1>1, <2>2 DEF Resync, Rest, NoClient, HubTypes
  <2> QED BY <2>1, <2>2
<1>5. ChanTypes'
  BY <1>0, <1>1, <1>3 DEF Resync, RemoveClient, ChanTypes
<1>6. ConnTypes' /\ EnvTypes'
  BY <1>0 DEF Resync, RemoveClient, ConnTypes, EnvTypes, connVars, envVars
<1> QED BY <1>4, <1>5, <1>6, TypeParts

\* The hub forgets a client.
LEMMA TypeUnregister ==
    ASSUME TypeOK, NEW c \in Clients, HubUnregister(c)
    PROVE  TypeOK'
<1>0. HubTypes /\ ChanTypes /\ ConnTypes /\ EnvTypes
  BY TypeParts
<1>1. WithoutClient(c) \in [Key -> [Clients -> SubIDs \cup {NoSub}]]
  BY WithoutClientType
<1>2. HubTypes'
  BY <1>0, <1>1 DEF HubUnregister, RemoveClient, HubTypes
<1>3. ChanTypes'
  BY <1>0 DEF HubUnregister, RemoveClient, ChanTypes
<1>4. ConnTypes' /\ EnvTypes'
  BY <1>0 DEF HubUnregister, RemoveClient, ConnTypes, EnvTypes, connVars, envVars
<1> QED BY <1>2, <1>3, <1>4, TypeParts

\* The reader answers its peer.
LEMMA TypeReply ==
    ASSUME TypeOK, NEW c \in Clients, SendSubscribed(c) \/ ReadReject(c)
    PROVE  TypeOK'
<1>0. HubTypes /\ ChanTypes /\ ConnTypes /\ EnvTypes
  BY TypeParts
<1>1. /\ \E m \in {"subscribed", "error"} : Reply(c, m)
      /\ UNCHANGED <<hubVars, addSub, unsubByID, events, sendClosed, handler, writer, conn,
                     subCount, pending, envVars>>
  BY DEF SendSubscribed, ReadReject
<1>2. HubTypes' /\ EnvTypes'
  BY <1>0, <1>1 DEF HubTypes, EnvTypes, hubVars, envVars
<1>3. PICK m \in {"subscribed", "error"} : Reply(c, m)
  BY <1>1
<1>4. send' \in [Clients -> Seq(Messages)]
  <2>1. Offered(c, m) \in [Clients -> Seq(Messages)]
    BY OfferedType DEF Messages
  <2> QED BY <1>0, <1>3, <2>1 DEF Reply, ChanTypes
<1>5. reader' = [reader EXCEPT ![c] = "exiting"] \/ reader' = [reader EXCEPT ![c] = "loop"]
  BY <1>3 DEF Reply
<1>6. ChanTypes'
  BY <1>0, <1>1, <1>4 DEF ChanTypes
<1>7. ConnTypes'
  BY <1>0, <1>1, <1>5 DEF ConnTypes
<1> QED BY <1>2, <1>6, <1>7, TypeParts

\* Every step keeps the type invariant.
LEMMA TypeStep ==
    ASSUME TypeOK, HoldsRequest, ResyncOpen, [Next]_vars
    PROVE  TypeOK'
<1> USE DEF TypeOK, vars, hubVars, chanVars, connVars, envVars
<1>1. ASSUME NEW c \in Clients, Connection(c) PROVE TypeOK'
  <2>1. CASE Upgrade(c)
    BY <2>1 DEF Upgrade
  <2>2. CASE StartPumps(c)
    BY <2>2 DEF StartPumps
  <2>3. CASE Authenticate(c)
    BY <2>3 DEF Authenticate
  <2>4. CASE ReadFails(c)
    BY <2>4 DEF ReadFails
  <2>5. ASSUME NEW k \in Key, NEW id \in SubIDs, ReadSubscribe(c, k, id) PROVE TypeOK'
    <3>1. subCount' \in [Clients -> 0..MaxSubscriptions]
      BY <2>5, ConstantsOK DEF ReadSubscribe, ConstantsOK
    <3>2. [key |-> k, id |-> id] \in Request
      BY DEF Request
    <3>3. pending' \in [Clients -> Request \cup {NoRequest}]
      BY <2>5, <3>2 DEF ReadSubscribe
    <3> QED BY <2>5, <3>1, <3>3, SMTT(30) DEF ReadSubscribe
  <2>6. CASE SendAddSub(c)
    BY <2>6, AppendProperties DEF SendAddSub, HoldsRequest, Request
  <2>7. CASE SendSubscribed(c)
    <3> HIDE DEF TypeOK
    <3> QED BY <2>7, TypeReply
  <2>8. CASE ReadReject(c)
    <3> HIDE DEF TypeOK
    <3> QED BY <2>8, TypeReply
  <2>9. ASSUME NEW id \in SubIDs, ReadUnsubscribe(c, id) PROVE TypeOK'
    BY <2>9, ConstantsOK, AppendProperties, SMTT(30) DEF ReadUnsubscribe, ConstantsOK
  <2>10. CASE WriterSend(c)
    BY <2>10, TailType DEF WriterSend
  <2>11. CASE WriterExit(c)
    BY <2>11 DEF WriterExit
  <2>12. CASE ConnectionLost(c)
    BY <2>12 DEF ConnectionLost
  <2> QED BY <1>1, <2>1, <2>2, <2>3, <2>4, <2>5, <2>6, <2>7, <2>8, <2>9, <2>10, <2>11, <2>12 DEF Connection
<1>2. ASSUME Hub PROVE TypeOK'
  <2>1. ASSUME NEW c \in Clients, HubRegister(c) PROVE TypeOK'
    BY <2>1 DEF HubRegister
  <2>2. ASSUME NEW c \in Clients, HubUnregister(c) PROVE TypeOK'
    <3> HIDE DEF TypeOK
    <3> QED BY <2>2, TypeUnregister
  <2>3. ASSUME NEW c \in Clients, FanoutSend(c) PROVE TypeOK'
    BY <2>3, OfferedType DEF FanoutSend, Messages, Rest
  <2>4. CASE HubAddSub
    <3> HIDE DEF TypeOK
    <3> QED BY <2>4, TypeDequeue
  <2>5. CASE HubUnsub
    <3> HIDE DEF TypeOK
    <3> QED BY <2>5, TypeDequeue
  <2>6. CASE HubEvent
    <3> HIDE DEF TypeOK
    <3> QED BY <2>6, TypeDequeue
  <2>7. CASE Resync
    <3> HIDE DEF TypeOK
    <3> QED BY <2>7, TypeResync
  <2>8. CASE HubTick
    BY <2>8 DEF HubTick
  <2>9. CASE RevalidateEnds
    BY <2>9 DEF RevalidateEnds
  <2>10. CASE HubStop
    <3>1. subs' \in [Key -> [Clients -> SubIDs \cup {NoSub}]]
      BY <2>10 DEF HubStop
    <3>2. clientCount' \in Int
      BY <2>10, ClientsFinite DEF HubStop
    <3> QED BY <2>10, <3>1, <3>2 DEF HubStop
  <2>11. ASSUME NEW k \in Key, NEW c \in Clients, CheckPasses(k, c) PROVE TypeOK'
    BY <2>11 DEF CheckPasses
  <2>12. ASSUME NEW k \in Key, NEW c \in Clients, CheckDenied(k, c) PROVE TypeOK'
    BY <2>12 DEF CheckDenied
  <2>13. ASSUME NEW k \in Key, NEW c \in Clients, Revoke(k, c) PROVE TypeOK'
    BY <2>13, OfferedType, SubsType DEF Revoke, Messages
  <2> QED BY <1>2, <2>1, <2>2, <2>3, <2>4, <2>5, <2>6, <2>7, <2>8, <2>9, <2>10, <2>11, <2>12, <2>13 DEF Hub
<1>3. ASSUME Environment PROVE TypeOK'
  <2>1. ASSUME NEW k \in Key, InformerEvent(k) PROVE TypeOK'
    BY <2>1, ConstantsOK, AppendProperties, SMTT(30) DEF InformerEvent, ConstantsOK
  <2>2. ASSUME NEW c \in Clients, NEW k \in Key, RevokeAccess(c, k) PROVE TypeOK'
    BY <2>2 DEF RevokeAccess
  <2> QED BY <1>3, <2>1, <2>2 DEF Environment
<1>4. ASSUME AccessChecker PROVE TypeOK'
  <2>1. ASSUME NEW c \in Clients, NEW k \in Key, Review(c, k) PROVE TypeOK'
    BY <2>1 DEF Review
  <2>2. ASSUME NEW c \in Clients, NEW k \in Key, StoreReview(c, k) PROVE TypeOK'
    BY <2>2 DEF StoreReview
  <2>3. ASSUME NEW c \in Clients, NEW k \in Key, ReviewEnds(c, k) PROVE TypeOK'
    BY <2>3 DEF ReviewEnds
  <2>4. ASSUME NEW c \in Clients, NEW k \in Key, GrantExpires(c, k) PROVE TypeOK'
    BY <2>4 DEF GrantExpires
  <2> QED BY <1>4, <2>1, <2>2, <2>3, <2>4 DEF AccessChecker
<1>5. CASE UNCHANGED vars
  BY <1>5
<1> QED BY <1>1, <1>2, <1>3, <1>4, <1>5 DEF Next

\* No step closes a channel twice, closes that of a registered client, or
\* miscounts.
LEMMA SafetyStep ==
    ASSUME IInv, TypeOK', [Next]_vars
    PROVE  RegisteredMeansOpen' /\ NoDoubleClose' /\ CountMatches'
<1> USE DEF IInv, RegisteredMeansOpen, NoDoubleClose, CountMatches, vars, hubVars, chanVars, connVars, envVars
<1>1. ASSUME NEW c \in Clients, Connection(c) PROVE RegisteredMeansOpen' /\ NoDoubleClose' /\ CountMatches'
  <2>1. CASE Upgrade(c)
    BY <2>1 DEF Upgrade
  <2>2. CASE StartPumps(c)
    BY <2>2 DEF StartPumps
  <2>3. CASE Authenticate(c)
    BY <2>3 DEF Authenticate
  <2>4. CASE ReadFails(c)
    BY <2>4 DEF ReadFails
  <2>5. ASSUME NEW k \in Key, NEW id \in SubIDs, ReadSubscribe(c, k, id) PROVE RegisteredMeansOpen' /\ NoDoubleClose' /\ CountMatches'
    BY <2>5 DEF ReadSubscribe
  <2>6. CASE SendAddSub(c)
    BY <2>6 DEF SendAddSub
  <2>7. CASE SendSubscribed(c)
    BY <2>7 DEF SendSubscribed
  <2>8. CASE ReadReject(c)
    BY <2>8 DEF ReadReject
  <2>9. ASSUME NEW id \in SubIDs, ReadUnsubscribe(c, id) PROVE RegisteredMeansOpen' /\ NoDoubleClose' /\ CountMatches'
    BY <2>9 DEF ReadUnsubscribe
  <2>10. CASE WriterSend(c)
    BY <2>10 DEF WriterSend
  <2>11. CASE WriterExit(c)
    BY <2>11 DEF WriterExit
  <2>12. CASE ConnectionLost(c)
    BY <2>12 DEF ConnectionLost
  <2> QED BY <1>1, <2>1, <2>2, <2>3, <2>4, <2>5, <2>6, <2>7, <2>8, <2>9, <2>10, <2>11, <2>12 DEF Connection
<1>2. ASSUME Hub PROVE RegisteredMeansOpen' /\ NoDoubleClose' /\ CountMatches'
  <2>1. ASSUME NEW c \in Clients, HubRegister(c) PROVE RegisteredMeansOpen' /\ NoDoubleClose' /\ CountMatches'
    BY <2>1, ClientsFinite DEF HubRegister, NamesStarted, Started
  <2>2. ASSUME NEW c \in Clients, HubUnregister(c) PROVE RegisteredMeansOpen' /\ NoDoubleClose' /\ CountMatches'
    BY <2>2, ClientsFinite DEF HubUnregister, RemoveClient
  <2>3. ASSUME NEW c \in Clients, FanoutSend(c) PROVE RegisteredMeansOpen' /\ NoDoubleClose' /\ CountMatches'
    BY <2>3 DEF FanoutSend, Rest
  <2>4. CASE HubAddSub
    BY <2>4 DEF HubAddSub
  <2>5. CASE HubUnsub
    BY <2>5 DEF HubUnsub
  <2>6. CASE HubEvent
    BY <2>6 DEF HubEvent
  <2>7. CASE Resync
    <3>1. current \in clients /\ current \notin sendClosed
      BY <2>7 DEF Resync, ResyncOpen, NamesStarted, Started
    <3>2. CASE Full(current)
      BY <2>7, <3>1, <3>2, ClientsFinite DEF Resync, RemoveClient, Rest, TypeOK
    <3>3. CASE ~Full(current)
      BY <2>7, <3>3 DEF Resync, Rest
    <3> QED BY <3>2, <3>3
  <2>8. CASE HubTick
    BY <2>8 DEF HubTick
  <2>9. CASE RevalidateEnds
    BY <2>9 DEF RevalidateEnds
  <2>10. CASE HubStop
    BY <2>10, ClientsFinite, FS_EmptySet DEF HubStop
  <2>11. ASSUME NEW k \in Key, NEW c \in Clients, CheckPasses(k, c) PROVE RegisteredMeansOpen' /\ NoDoubleClose' /\ CountMatches'
    BY <2>11 DEF CheckPasses
  <2>12. ASSUME NEW k \in Key, NEW c \in Clients, CheckDenied(k, c) PROVE RegisteredMeansOpen' /\ NoDoubleClose' /\ CountMatches'
    BY <2>12 DEF CheckDenied
  <2>13. ASSUME NEW k \in Key, NEW c \in Clients, Revoke(k, c) PROVE RegisteredMeansOpen' /\ NoDoubleClose' /\ CountMatches'
    BY <2>13 DEF Revoke
  <2> QED BY <1>2, <2>1, <2>2, <2>3, <2>4, <2>5, <2>6, <2>7, <2>8, <2>9, <2>10, <2>11, <2>12, <2>13 DEF Hub
<1>3. ASSUME Environment PROVE RegisteredMeansOpen' /\ NoDoubleClose' /\ CountMatches'
  <2>1. ASSUME NEW k \in Key, InformerEvent(k) PROVE RegisteredMeansOpen' /\ NoDoubleClose' /\ CountMatches'
    BY <2>1 DEF InformerEvent
  <2>2. ASSUME NEW c \in Clients, NEW k \in Key, RevokeAccess(c, k) PROVE RegisteredMeansOpen' /\ NoDoubleClose' /\ CountMatches'
    BY <2>2 DEF RevokeAccess
  <2> QED BY <1>3, <2>1, <2>2 DEF Environment
<1>4. ASSUME AccessChecker PROVE RegisteredMeansOpen' /\ NoDoubleClose' /\ CountMatches'
  <2>1. ASSUME NEW c \in Clients, NEW k \in Key, Review(c, k) PROVE RegisteredMeansOpen' /\ NoDoubleClose' /\ CountMatches'
    BY <2>1 DEF Review
  <2>2. ASSUME NEW c \in Clients, NEW k \in Key, StoreReview(c, k) PROVE RegisteredMeansOpen' /\ NoDoubleClose' /\ CountMatches'
    BY <2>2 DEF StoreReview
  <2>3. ASSUME NEW c \in Clients, NEW k \in Key, ReviewEnds(c, k) PROVE RegisteredMeansOpen' /\ NoDoubleClose' /\ CountMatches'
    BY <2>3 DEF ReviewEnds
  <2>4. ASSUME NEW c \in Clients, NEW k \in Key, GrantExpires(c, k) PROVE RegisteredMeansOpen' /\ NoDoubleClose' /\ CountMatches'
    BY <2>4 DEF GrantExpires
  <2> QED BY <1>4, <2>1, <2>2, <2>3, <2>4 DEF AccessChecker
<1>5. CASE UNCHANGED vars
  BY <1>5
<1> QED BY <1>1, <1>2, <1>3, <1>4, <1>5 DEF Next

\* A reader keeps the request it holds, and a client under resync stays open:
\* no other action of the hub comes between.
LEMMA HoldsStep ==
    ASSUME IInv, TypeOK', [Next]_vars
    PROVE  HoldsRequest' /\ ResyncOpen' /\ NoLeftovers'
<1> USE DEF IInv, TypeOK, HoldsRequest, ResyncOpen, NoLeftovers, vars, hubVars, chanVars, connVars, envVars
<1>1. ASSUME NEW c \in Clients, Connection(c) PROVE HoldsRequest' /\ ResyncOpen' /\ NoLeftovers'
  <2>1. CASE Upgrade(c)
    BY <2>1 DEF Upgrade
  <2>2. CASE StartPumps(c)
    BY <2>2 DEF StartPumps
  <2>3. CASE Authenticate(c)
    BY <2>3 DEF Authenticate
  <2>4. CASE ReadFails(c)
    BY <2>4 DEF ReadFails
  <2>5. ASSUME NEW k \in Key, NEW id \in SubIDs, ReadSubscribe(c, k, id) PROVE HoldsRequest' /\ ResyncOpen' /\ NoLeftovers'
    BY <2>5 DEF ReadSubscribe, Request
  <2>6. CASE SendAddSub(c)
    BY <2>6 DEF SendAddSub
  <2>7. CASE SendSubscribed(c)
    BY <2>7 DEF SendSubscribed, Reply
  <2>8. CASE ReadReject(c)
    BY <2>8 DEF ReadReject, Reply
  <2>9. ASSUME NEW id \in SubIDs, ReadUnsubscribe(c, id) PROVE HoldsRequest' /\ ResyncOpen' /\ NoLeftovers'
    BY <2>9 DEF ReadUnsubscribe
  <2>10. CASE WriterSend(c)
    BY <2>10 DEF WriterSend
  <2>11. CASE WriterExit(c)
    BY <2>11 DEF WriterExit
  <2>12. CASE ConnectionLost(c)
    BY <2>12 DEF ConnectionLost
  <2> QED BY <1>1, <2>1, <2>2, <2>3, <2>4, <2>5, <2>6, <2>7, <2>8, <2>9, <2>10, <2>11, <2>12 DEF Connection
<1>2. ASSUME Hub PROVE HoldsRequest' /\ ResyncOpen' /\ NoLeftovers'
  <2>1. ASSUME NEW c \in Clients, HubRegister(c) PROVE HoldsRequest' /\ ResyncOpen' /\ NoLeftovers'
    BY <2>1 DEF HubRegister
  <2>2. ASSUME NEW c \in Clients, HubUnregister(c) PROVE HoldsRequest' /\ ResyncOpen' /\ NoLeftovers'
    BY <2>2 DEF HubUnregister, RemoveClient
  <2>3. ASSUME NEW c \in Clients, FanoutSend(c) PROVE HoldsRequest' /\ ResyncOpen' /\ NoLeftovers'
    BY <2>3 DEF FanoutSend, Rest, NamesStarted, Started
  <2>4. CASE HubAddSub
    BY <2>4 DEF HubAddSub
  <2>5. CASE HubUnsub
    BY <2>5 DEF HubUnsub
  <2>6. CASE HubEvent
    BY <2>6 DEF HubEvent
  <2>7. CASE Resync
    BY <2>7 DEF Resync, RemoveClient, Rest
  <2>8. CASE HubTick
    BY <2>8 DEF HubTick
  <2>9. CASE RevalidateEnds
    BY <2>9 DEF RevalidateEnds
  <2>10. CASE HubStop
    BY <2>10 DEF HubStop
  <2>11. ASSUME NEW k \in Key, NEW c \in Clients, CheckPasses(k, c) PROVE HoldsRequest' /\ ResyncOpen' /\ NoLeftovers'
    BY <2>11 DEF CheckPasses
  <2>12. ASSUME NEW k \in Key, NEW c \in Clients, CheckDenied(k, c) PROVE HoldsRequest' /\ ResyncOpen' /\ NoLeftovers'
    BY <2>12 DEF CheckDenied
  <2>13. ASSUME NEW k \in Key, NEW c \in Clients, Revoke(k, c) PROVE HoldsRequest' /\ ResyncOpen' /\ NoLeftovers'
    BY <2>13 DEF Revoke
  <2> QED BY <1>2, <2>1, <2>2, <2>3, <2>4, <2>5, <2>6, <2>7, <2>8, <2>9, <2>10, <2>11, <2>12, <2>13 DEF Hub
<1>3. ASSUME Environment PROVE HoldsRequest' /\ ResyncOpen' /\ NoLeftovers'
  <2>1. ASSUME NEW k \in Key, InformerEvent(k) PROVE HoldsRequest' /\ ResyncOpen' /\ NoLeftovers'
    BY <2>1 DEF InformerEvent
  <2>2. ASSUME NEW c \in Clients, NEW k \in Key, RevokeAccess(c, k) PROVE HoldsRequest' /\ ResyncOpen' /\ NoLeftovers'
    BY <2>2 DEF RevokeAccess
  <2> QED BY <1>3, <2>1, <2>2 DEF Environment
<1>4. ASSUME AccessChecker PROVE HoldsRequest' /\ ResyncOpen' /\ NoLeftovers'
  <2>1. ASSUME NEW c \in Clients, NEW k \in Key, Review(c, k) PROVE HoldsRequest' /\ ResyncOpen' /\ NoLeftovers'
    BY <2>1 DEF Review
  <2>2. ASSUME NEW c \in Clients, NEW k \in Key, StoreReview(c, k) PROVE HoldsRequest' /\ ResyncOpen' /\ NoLeftovers'
    BY <2>2 DEF StoreReview
  <2>3. ASSUME NEW c \in Clients, NEW k \in Key, ReviewEnds(c, k) PROVE HoldsRequest' /\ ResyncOpen' /\ NoLeftovers'
    BY <2>3 DEF ReviewEnds
  <2>4. ASSUME NEW c \in Clients, NEW k \in Key, GrantExpires(c, k) PROVE HoldsRequest' /\ ResyncOpen' /\ NoLeftovers'
    BY <2>4 DEF GrantExpires
  <2> QED BY <1>4, <2>1, <2>2, <2>3, <2>4 DEF AccessChecker
<1>5. CASE UNCHANGED vars
  BY <1>5
<1> QED BY <1>1, <1>2, <1>3, <1>4, <1>5 DEF Next

\* A client once registered is registered or closed from then on, and nothing
\* refers to any other.
LEMMA NamesStep ==
    ASSUME IInv, TypeOK', [Next]_vars
    PROVE  NamesStarted'
<1> USE DEF IInv, TypeOK, NamesStarted, Started, vars, hubVars, chanVars, connVars, envVars
<1>1. ASSUME NEW c \in Clients, Connection(c) PROVE NamesStarted'
  <2>1. CASE Upgrade(c)
    BY <2>1 DEF Upgrade
  <2>2. CASE StartPumps(c)
    BY <2>2 DEF StartPumps
  <2>3. CASE Authenticate(c)
    BY <2>3 DEF Authenticate
  <2>4. CASE ReadFails(c)
    BY <2>4 DEF ReadFails
  <2>5. ASSUME NEW k \in Key, NEW id \in SubIDs, ReadSubscribe(c, k, id) PROVE NamesStarted'
    BY <2>5 DEF ReadSubscribe
  <2>6. CASE SendAddSub(c)
    <3> HIDE DEF IInv, TypeOK, NamesStarted, Started
    <3> DEFINE new == [client |-> c, key |-> pending[c].key, id |-> pending[c].id]
    <3>1. /\ addSub \in Seq([client : Clients, key : Key, id : SubIDs])
          /\ pending[c] \in Request
      BY <2>6 DEF IInv, TypeOK, HoldsRequest, SendAddSub
    <3>2. addSub' = Append(addSub, new) /\ new \in [client : Clients, key : Key, id : SubIDs]
      BY <2>6, <3>1 DEF SendAddSub, Request
    <3>3. /\ UNCHANGED <<clients, sendClosed, handler, subs, targets>>
          /\ reader' = [reader EXCEPT ![c] = "acking"]
          /\ reader[c] = "subscribing"
      BY <2>6 DEF SendAddSub, hubVars
    <3>4. \A d : Started(d)' <=> Started(d)
      BY <3>3 DEF Started
    <3>5. Started(c) /\ \A i \in 1..Len(addSub) : Started(addSub[i].client)
      BY <3>3 DEF IInv, NamesStarted
    <3>6. ASSUME NEW i \in 1..Len(addSub') PROVE Started(addSub[i].client)'
      <4> HIDE DEF new
      <4>1. CASE addSub'[i] = new
        BY <3>4, <3>5, <4>1 DEF new
      <4>2. CASE \E l \in 1..Len(addSub) : addSub'[i] = addSub[l]
        <5>1. PICK l \in 1..Len(addSub) : addSub'[i] = addSub[l]
          BY <4>2
        <5> QED BY <3>4, <3>5, <5>1
      <4> QED BY <3>1, <3>2, <4>1, <4>2, AppendNames
    <3>7. \A d \in Clients : reader'[d] # "none" => Started(d)'
      BY <3>3, <3>4, <3>5 DEF IInv, NamesStarted, TypeOK
    <3>8. \A d \in Clients : handler'[d] \in {"idle", "registering"} <=> ~Started(d)'
      BY <3>3, <3>4 DEF IInv, NamesStarted
    <3>9. \A l \in Key, d \in Clients : subs'[l][d] # NoSub => Started(d)'
      BY <3>3, <3>4 DEF IInv, NamesStarted
    <3>10. \A d \in targets' : Started(d)'
      BY <3>3, <3>4 DEF IInv, NamesStarted, TypeOK
    <3> QED BY <3>6, <3>7, <3>8, <3>9, <3>10 DEF NamesStarted
  <2>7. CASE SendSubscribed(c)
    BY <2>7 DEF SendSubscribed, Reply
  <2>8. CASE ReadReject(c)
    BY <2>8 DEF ReadReject, Reply
  <2>9. ASSUME NEW id \in SubIDs, ReadUnsubscribe(c, id) PROVE NamesStarted'
    BY <2>9 DEF ReadUnsubscribe
  <2>10. CASE WriterSend(c)
    BY <2>10 DEF WriterSend
  <2>11. CASE WriterExit(c)
    BY <2>11 DEF WriterExit
  <2>12. CASE ConnectionLost(c)
    BY <2>12 DEF ConnectionLost
  <2> QED BY <1>1, <2>1, <2>2, <2>3, <2>4, <2>5, <2>6, <2>7, <2>8, <2>9, <2>10, <2>11, <2>12 DEF Connection
<1>2. ASSUME Hub PROVE NamesStarted'
  <2>1. ASSUME NEW c \in Clients, HubRegister(c) PROVE NamesStarted'
    BY <2>1 DEF HubRegister
  <2>2. ASSUME NEW c \in Clients, HubUnregister(c) PROVE NamesStarted'
    BY <2>2, SMTT(30) DEF HubUnregister, RemoveClient, WithoutClient
  <2>3. ASSUME NEW c \in Clients, FanoutSend(c) PROVE NamesStarted'
    BY <2>3 DEF FanoutSend, Rest
  <2>4. CASE HubAddSub
    <3> HIDE DEF IInv, TypeOK, NamesStarted, Started
    <3> DEFINE change == Head(addSub)
    <3>1. /\ addSub \in Seq([client : Clients, key : Key, id : SubIDs])
          /\ subs \in [Key -> [Clients -> SubIDs \cup {NoSub}]]
      BY DEF IInv, TypeOK
    <3>2. /\ addSub # <<>> /\ addSub' = Tail(addSub)
          /\ subs' = [subs EXCEPT ![change.key][change.client] = change.id]
          /\ UNCHANGED <<clients, sendClosed, handler, reader, targets>>
      BY <2>4 DEF HubAddSub, connVars
    <3>3. \A d : Started(d)' <=> Started(d)
      BY <3>2 DEF Started
    <3>4. \A i \in 1..Len(addSub) : Started(addSub[i].client)
      BY DEF IInv, NamesStarted
    <3>5. change \in [client : Clients, key : Key, id : SubIDs] /\ \E i \in 1..Len(addSub) : change = addSub[i]
      BY <3>1, <3>2, HeadName, TailType
    <3>6. Started(change.client)
      BY <3>4, <3>5
    <3>7. ASSUME NEW l \in Key, NEW d \in Clients, subs'[l][d] # NoSub PROVE Started(d)'
      <4> HIDE DEF change
      <4>1. subs[l][d] # NoSub \/ d = change.client
        BY <3>1, <3>2, <3>5, <3>7
      <4> QED BY <3>3, <3>6, <4>1 DEF IInv, NamesStarted
    <3>8. ASSUME NEW i \in 1..Len(addSub') PROVE Started(addSub[i].client)'
      <4>1. PICK l \in 1..Len(addSub) : addSub'[i] = addSub[l]
        BY <3>1, <3>2, TailNames
      <4> QED BY <3>3, <3>4, <4>1
    <3> QED BY <3>2, <3>3, <3>7, <3>8 DEF IInv, NamesStarted
  <2>5. CASE HubUnsub
    <3>0. unsubByID \in Seq([client : Clients, id : SubIDs])
      BY <2>5
    <3>1. Head(unsubByID) \in [client : Clients, id : SubIDs]
      <4> HIDE DEF TypeOK, IInv, NamesStarted
      <4> QED BY <2>5, <3>0, TailType DEF HubUnsub
    <3>2. \A k \in Key, c \in Clients : subs'[k][c] # NoSub => subs[k][c] # NoSub
      <4>1. CASE UNCHANGED subs
        BY <4>1
      <4>2. ASSUME NEW k \in Key, subs' = [subs EXCEPT ![k][Head(unsubByID).client] = NoSub]
            PROVE  \A l \in Key, c \in Clients : subs'[l][c] # NoSub => subs[l][c] # NoSub
        BY <3>1, <4>2
      <4> QED BY <2>5, <4>1, <4>2 DEF HubUnsub
    <3> QED BY <2>5, <3>2 DEF HubUnsub
  <2>6. CASE HubEvent
    <3>1. Head(events) \in Key
      BY <2>6, TailType DEF HubEvent
    <3>2. <<Head(events)[1], AllNs>> \in Key
      BY <3>1 DEF Key
    <3>3. \A c \in targets' : Started(c)
      BY <2>6, <3>1, <3>2 DEF HubEvent, Subscribers
    <3> QED BY <2>6, <3>3 DEF HubEvent
  <2>7. CASE Resync
    <3>1. UNCHANGED <<handler, reader, addSub>> /\ targets' \subseteq targets
      BY <2>7 DEF Resync
    <3>2. current \in Clients /\ Started(current)
      BY <2>7 DEF Resync, ResyncOpen
    <3>3. CASE Full(current)
      <4>1. /\ subs' = WithoutClient(current)
            /\ clients' = clients \ {current}
            /\ sendClosed' = sendClosed \cup {current}
        BY <2>7, <3>3 DEF Resync, RemoveClient
      <4>2. \A k \in Key, c \in Clients : subs'[k][c] # NoSub => subs[k][c] # NoSub
        <5> HIDE DEF IInv, NamesStarted
        <5> QED BY <3>2, <4>1 DEF WithoutClient
      <4>3. clients' \cup sendClosed' = clients \cup sendClosed
        BY <3>2, <4>1
      <4> QED BY <3>1, <4>2, <4>3, ZenonT(60)
    <3>4. CASE ~Full(current)
      BY <2>7, <3>1, <3>4 DEF Resync
    <3> QED BY <3>3, <3>4
  <2>8. CASE HubTick
    BY <2>8 DEF HubTick
  <2>9. CASE RevalidateEnds
    BY <2>9 DEF RevalidateEnds
  <2>10. CASE HubStop
    BY <2>10 DEF HubStop
  <2>11. ASSUME NEW k \in Key, NEW c \in Clients, CheckPasses(k, c) PROVE NamesStarted'
    BY <2>11 DEF CheckPasses
  <2>12. ASSUME NEW k \in Key, NEW c \in Clients, CheckDenied(k, c) PROVE NamesStarted'
    BY <2>12 DEF CheckDenied
  <2>13. ASSUME NEW k \in Key, NEW c \in Clients, Revoke(k, c) PROVE NamesStarted'
    BY <2>13 DEF Revoke
  <2> QED BY <1>2, <2>1, <2>2, <2>3, <2>4, <2>5, <2>6, <2>7, <2>8, <2>9, <2>10, <2>11, <2>12, <2>13 DEF Hub
<1>3. ASSUME Environment PROVE NamesStarted'
  <2>1. ASSUME NEW k \in Key, InformerEvent(k) PROVE NamesStarted'
    BY <2>1 DEF InformerEvent
  <2>2. ASSUME NEW c \in Clients, NEW k \in Key, RevokeAccess(c, k) PROVE NamesStarted'
    BY <2>2 DEF RevokeAccess
  <2> QED BY <1>3, <2>1, <2>2 DEF Environment
<1>4. ASSUME AccessChecker PROVE NamesStarted'
  <2>1. ASSUME NEW c \in Clients, NEW k \in Key, Review(c, k) PROVE NamesStarted'
    BY <2>1 DEF Review
  <2>2. ASSUME NEW c \in Clients, NEW k \in Key, StoreReview(c, k) PROVE NamesStarted'
    BY <2>2 DEF StoreReview
  <2>3. ASSUME NEW c \in Clients, NEW k \in Key, ReviewEnds(c, k) PROVE NamesStarted'
    BY <2>3 DEF ReviewEnds
  <2>4. ASSUME NEW c \in Clients, NEW k \in Key, GrantExpires(c, k) PROVE NamesStarted'
    BY <2>4 DEF GrantExpires
  <2> QED BY <1>4, <2>1, <2>2, <2>3, <2>4 DEF AccessChecker
<1>5. CASE UNCHANGED vars
  BY <1>5
<1> QED BY <1>1, <1>2, <1>3, <1>4, <1>5 DEF Next

LEMMA Inductive == IInv /\ [Next]_vars => IInv'
<1> SUFFICES ASSUME IInv, [Next]_vars PROVE IInv'
  OBVIOUS
<1>1. TypeOK'
  BY TypeStep DEF IInv
<1>2. RegisteredMeansOpen' /\ NoDoubleClose' /\ CountMatches'
  BY <1>1, SafetyStep
<1>3. HoldsRequest' /\ ResyncOpen' /\ NoLeftovers'
  BY <1>1, HoldsStep
<1>4. NamesStarted'
  BY <1>1, NamesStep
<1> QED BY <1>1, <1>2, <1>3, <1>4 DEF IInv

LEMMA Invariance == Spec => []IInv
BY InitInvariant, Inductive, PTL DEF Spec

-----------------------------------------------------------------------------

\* Every variable keeps its type (the counter of subscriptions stays within
\* its bound).
THEOREM TypeCorrect == Spec => []TypeOK
<1>1. IInv => TypeOK
  BY DEF IInv
<1> QED BY <1>1, Invariance, PTL

\* A registered client's channel is open (hub.go removeClient).
THEOREM RegisteredClientsAreOpen == Spec => []RegisteredMeansOpen
<1>1. IInv => RegisteredMeansOpen
  BY DEF IInv
<1> QED BY <1>1, Invariance, PTL

\* No send channel is closed twice: Run never panics in removeClient.
THEOREM ClosedOnce == Spec => []NoDoubleClose
<1>1. IInv => NoDoubleClose
  BY DEF IInv
<1> QED BY <1>1, Invariance, PTL

\* The atomic counter read by the upgrade handler equals the number of
\* registered clients (hub.go clientCount).
THEOREM CountIsExact == Spec => []CountMatches
<1>1. IInv => CountMatches
  BY DEF IInv
<1> QED BY <1>1, Invariance, PTL

\* A subscriber chosen for an event is served or disconnected: no step of
\* the hub drops a target silently (broadcastEvent, sendResync).
THEOREM SubscribersServed == Spec => ServedOrDisconnected
<1>1. ASSUME IInv, Next
      PROVE  \A c \in targets \ targets' : \/ Len(send'[c]) > Len(send[c])
                                           \/ c \in sendClosed'
  <2>1. CASE Resync
    BY <1>1, <2>1, AppendProperties DEF IInv, ResyncOpen, TypeOK, Resync, RemoveClient, Offered
  <2>2. ASSUME NEW c \in Clients, FanoutSend(c)
        PROVE  \A d \in targets \ targets' : Len(send'[d]) > Len(send[d])
    BY <1>1, <2>2, AppendProperties DEF IInv, TypeOK, FanoutSend, Offered, Messages
  <2>3. CASE HubEvent
    BY <1>1, <2>3 DEF IInv, NoLeftovers, HubEvent
  <2>4. CASE targets' = targets
    BY <2>4
  <2>5. \/ Resync \/ HubEvent \/ targets' = targets
        \/ \E c \in Clients : FanoutSend(c)
    <3>1. ASSUME NEW c \in Clients, Connection(c)
          PROVE  targets' = targets
      <4>1. CASE SendSubscribed(c) \/ ReadReject(c)
        BY <4>1 DEF SendSubscribed, ReadReject, hubVars
      <4>2. CASE ~(SendSubscribed(c) \/ ReadReject(c))
        BY <3>1, <4>2 DEF Connection, hubVars, Upgrade, StartPumps, Authenticate, ReadFails,
           ReadSubscribe, SendAddSub, ReadUnsubscribe, WriterSend, WriterExit,
           ConnectionLost
      <4> QED BY <4>1, <4>2
    <3>2. CASE Hub
      BY <3>2 DEF Hub, HubRegister, HubUnregister, HubAddSub, HubUnsub, HubTick,
         RevalidateEnds, HubStop, CheckPasses, CheckDenied, Revoke
    <3>3. CASE AccessChecker \/ Environment
      BY <3>3 DEF AccessChecker, Environment, hubVars, Review, StoreReview, ReviewEnds,
         GrantExpires, InformerEvent, RevokeAccess
    <3> QED BY <1>1, <3>1, <3>2, <3>3 DEF Next
  <2> QED BY <2>1, <2>2, <2>3, <2>4, <2>5
<1> QED BY <1>1, Invariance, PTL DEF Spec, ServedOrDisconnected
=============================================================================
