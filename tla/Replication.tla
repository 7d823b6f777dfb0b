------------------------------ MODULE Replication ------------------------------
(***************************************************************************)
(* The server and one of its clients, end to end: the handlers of          *)
(* EntityTracking, the NetworkGameSystem of GameClient in the process      *)
(* "me", and between them one reliable, ordered stream in each direction,  *)
(* which ends with the connection.  (A stream stands for the queues and    *)
(* the network together; ServerTick shows that the server's queues keep    *)
(* the order and lose nothing.)  The other connections send the server     *)
(* what they like.                                                         *)
(***************************************************************************)
EXTENDS EntityTracking

CONSTANTS
    me,             \* the connection of the client
    MyRequests,     \* the requests of the client
    OthersRequests, \* the requests of the other connections
    FirstEntityID, MaxEntityID, Origin, TenthSecond, DeltaTimes,  \* of the client
    MaxRequests,    \* bound: requests on their way to the server
    MaxInbox,       \* bound: messages on their way to the client
    MaxLists,       \* bound: lists of savegames the main menu takes up
    MaxJoins        \* bound: savegames the player loads

ASSUME ReplicationAssumption ==
    /\ me \in Conns
    /\ MyRequests \subseteq Requests
    /\ OthersRequests \subseteq Requests
    /\ MaxRequests \in Nat
    /\ MaxInbox \in Nat
    /\ MaxLists \in Nat
    /\ MaxJoins \in Nat
    /\ FirstEntityID \in Nat
    /\ MaxEntityID \in Nat
    /\ Origin \in Int
    /\ TenthSecond \in Nat \ {0}
    /\ DeltaTimes \subseteq Nat \ {0}

VARIABLES
    phase, hasTriedToConnect, pInterface, FullyConnected,
    hasEnqueuedLoadLastCheckpoint, networkedEntitiesLookup, interpolationData,
    lastTeleportCommand, leaked, timeSinceLastPlayerPositionSync, outgoing, link,
    statusChanges, inbox, entities, AutoContinueUsed, lists, loads, greetings, answered,
    told,
                 \* of the client, as in GameClient
    toServer,    \* requests on their way to the server
    toClient,    \* packets on their way to the client
    joins        \* history: how many PlayerJoinWorlds were sent after InitAuth

Client == INSTANCE GameClient WITH NetworkedIds <- Ids, Places <- Positions

streams == <<toServer, toClient>>
session == <<hasTriedToConnect, pInterface, FullyConnected, hasEnqueuedLoadLastCheckpoint,
             loads, timeSinceLastPlayerPositionSync, AutoContinueUsed, lists, greetings>>
puppets == <<networkedEntitiesLookup, interpolationData, lastTeleportCommand, leaked, entities>>
client == <<phase, session, puppets, outgoing, link, statusChanges, inbox, answered, told>>
replicationVars == <<vars, client, streams, joins>>

-----------------------------------------------------------------------------
(* A message sent while the connection is there joins the stream.          *)
Send ==
    \/ /\ outgoing' # <<>>
       /\ link' \in {"connecting", "connected"}
       /\ Len(toServer) < MaxRequests
       /\ \E request \in MyRequests :
            /\ request.type = outgoing'[1]
            /\ toServer' = Append(toServer, request)
    \/ /\ outgoing' # <<>>
       /\ link' \notin {"connecting", "connected"}
       /\ UNCHANGED toServer
    \/ /\ outgoing' = <<>>
       /\ UNCHANGED toServer

CountJoin ==
    joins' = IF outgoing' = <<"PlayerJoinWorld">> /\ link = "connected" /\ greetings > 0
             THEN joins + 1
             ELSE joins

ClientFrame ==
    /\ UNCHANGED <<vars, toClient, joins>>
    /\ Client!OnNetworkUpdate \/ Client!NextFrame
    /\ Send

BetweenFrames ==
    /\ \/ \E entityId \in DOMAIN entities : Client!Attach(entityId)
       \/ \E isPreGame \in BOOLEAN, savesCount \in {0, 1} :
            Client!OnSavesForLoadReady(isPreGame, savesCount)
       \/ Client!OnUninitialize
       \/ joins < MaxJoins /\ Client!OnGameRestored
       \/ Client!OnPlayerAction
    /\ Send
    /\ CountJoin
    /\ UNCHANGED <<vars, toClient>>

-----------------------------------------------------------------------------
(* What a handler enqueues for the client joins its stream; the tracker    *)
(* itself knows nothing of connections that are gone.                      *)
Reply == toClient' = IF link = "connected" THEN toClient \o enqueued'[me] ELSE <<>>

ServeMe ==
    /\ toServer # <<>>
    /\ toServer' = Tail(toServer)
    /\ UNCHANGED <<client, joins>>
    /\ Handle(me, Head(toServer))
    /\ Reply

ServeOthers ==
    /\ Len(toClient) < MaxInbox
    /\ UNCHANGED <<client, toServer, joins>>
    /\ \E c \in Conns \ {me} :
         \/ EndConnection(c)
         \/ \E request \in OthersRequests :
              /\ request.type = "InitAuth" => c \notin greeted
              /\ Handle(c, request)
    /\ Reply

(* A connected player's client repeats its position.                       *)
ResendOthers ==
    /\ Len(toClient) < MaxInbox
    /\ UNCHANGED <<client, toServer, joins>>
    /\ \E c \in Conns \ {me} : Resend(c)
    /\ Reply

(* The server learns of the end of the client's connection.                *)
EndMe ==
    /\ link = "closed"
    /\ EndConnection(me)
    /\ Reply
    /\ UNCHANGED <<client, toServer, joins>>

-----------------------------------------------------------------------------
(* The network. *)

Deliver ==
    /\ link = "connected"
    /\ toClient # <<>>
    /\ Len(inbox) < MaxInbox
    /\ toClient' = Tail(toClient)
    /\ LET message == Head(toClient)
       IN  /\ inbox' = Append(inbox, message)
           /\ answered' = IF message.type = "InitAuthResult" THEN message.result ELSE answered
           /\ told' = CASE message.type \in {"SpawnEntity", "TeleportEntity"} ->
                             [id \in DOMAIN told \cup {message.id} |->
                                 IF id = message.id THEN message.pos ELSE told[id]]
                        [] message.type = "DestroyEntity" ->
                             [id \in DOMAIN told \ {message.id} |-> told[id]]
                        [] OTHER -> told
    /\ outgoing' = <<>>
    /\ UNCHANGED <<vars, phase, session, puppets, link, statusChanges, toServer, joins>>

Connected ==
    /\ Client!Link({"connecting"}, "connected")
    /\ UNCHANGED <<vars, streams, joins>>

(* The end takes what is on its way to the client and the last of what is   *)
(* on its way to the server.                                               *)
Disconnect ==
    /\ Client!Link({"connecting", "connected"}, "closed")
    /\ \E n \in 0 .. Len(toServer) : toServer' = SubSeq(toServer, 1, n)
    /\ toClient' = <<>>
    /\ UNCHANGED <<vars, joins>>

ReplicationInit ==
    /\ Init
    /\ Client!Init
    /\ toServer = <<>>
    /\ toClient = <<>>
    /\ joins = 0

ReplicationNext ==
    \/ ClientFrame
    \/ BetweenFrames
    \/ ServeMe
    \/ ServeOthers
    \/ ResendOthers
    \/ EndMe
    \/ Deliver
    \/ Connected
    \/ Disconnect

ReplicationSpec == ReplicationInit /\ [][ReplicationNext]_replicationVars

MyPuppets ==
    {id \in OwnedBy(SpawnedEntities, me) : SpawnedEntities[id].record = Puppet}

(* Another player's entity, near and not faulty, while this player is in    *)
(* the world.                                                              *)
Beside(id) ==
    /\ link = "connected"
    /\ MyPuppets # {}
    /\ id \in DOMAIN SpawnedEntities
    /\ LET entity == SpawnedEntities[id]
       IN  /\ entity.owner \notin closed \cup {me}
           /\ entity.pos # FaultyPosition
           /\ \A own \in OwnedBy(SpawnedEntities, me) :
                Near(SpawnedEntities[own].pos, entity.pos)

(* A request of the client waits, and the bound leaves room for what it    *)
(* creates.                                                                *)
CanServe ==
    /\ toServer # <<>>
    /\ Head(toServer).type = "PlayerJoinWorld" /\ me \in ConnectedPlayers
         => entityIdCounter < MaxEntities

(* The next report of some player is one to be sent on to the client.      *)
CanResend ==
    /\ Len(toClient) < MaxInbox
    /\ \E id \in Ids : Beside(id)

(* Both threads keep running and the network delivers while it is up.  For *)
(* the server the guards of the weak fairness are spelled out: CanServe    *)
(* says when ServeMe is enabled, CanResend implies that ResendOthers is.   *)
FairReplicationSpec ==
    /\ ReplicationSpec
    /\ WF_replicationVars(ClientFrame)
    /\ WF_replicationVars(Deliver)
    /\ <>[]CanServe => []<><<ServeMe>>_replicationVars
    /\ <>[]CanResend => []<><<ResendOthers>>_replicationVars

-----------------------------------------------------------------------------
(* The server keeps the stream that GameClient takes for granted: one       *)
(* answer and only to an InitAuth, nothing else unless it was Ok, spawns of *)
(* unknown entities, teleports and destroys of known ones.                 *)
ServerKeepsItsPart == Client!Spec

(* The client keeps the order that EntityTracking takes for granted: one    *)
(* InitAuth per connection, and no second end.                             *)
ClientKeepsItsPart == Spec

Quiet == toServer = <<>> /\ toClient = <<>> /\ inbox = <<>> /\ link = "connected"

Destination(entityId) ==
    IF entityId \in DOMAIN interpolationData
    THEN interpolationData[entityId].target
    ELSE entities[entityId].place

(* When nothing is on its way, the game has entities only for entities of   *)
(* the server's world that the server tracks for this client, and, while   *)
(* the player is in the world, they head for where the server has them.    *)
(* Left aside are those yet to be moved for the first time.                *)
QuietWorldsAgree ==
    Quiet =>
        \A e \in DOMAIN entities : Client!Current(e) =>
            LET id == entities[e].id
            IN  /\ id \in trackedEntities[me]
                /\ id \in DOMAIN SpawnedEntities
                /\ (MyPuppets # {} /\ Client!Exists(e)
                      /\ e \in DOMAIN interpolationData \cup lastTeleportCommand)
                     => Destination(e) = SpawnedEntities[id].pos

(* A client whose connection stays up is answered, and from then on counts  *)
(* itself as connected exactly if the answer was Ok: neither a status       *)
(* change reported late nor a message overtaken undoes it.                 *)
SignInSettles ==
    <>[](link = "connected") => <>[](answered # "none" /\ (FullyConnected <=> answered = "Ok"))

(* From one player's report to the other's screen: an entity that stays     *)
(* beside the player ends up in their game and stays there, unless it was   *)
(* despawned there before.                                                 *)
NeighbourAppears ==
    \A id \in Ids :
        <>[]Beside(id) => <>[](\/ Client!Shown(id)
                              \/ \E e \in DOMAIN entities :
                                   entities[e].id = id /\ ~Client!Current(e))

=============================================================================
