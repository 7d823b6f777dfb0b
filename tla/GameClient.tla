------------------------------ MODULE GameClient ------------------------------
(***************************************************************************)
(* One game client: NetworkGameSystem, which the game calls once per frame *)
(* (OnNetworkUpdate) and between frames (savegames listed, game restored). *)
(* A frame drains the incoming messages, reports the player's position,    *)
(* moves the puppets and then lets the network library report what became  *)
(* of the connection.                                                      *)
(*                                                                         *)
(* External, modelled from how the client uses them: the network library   *)
(* (messages in order, unread ones survive the end of the connection), the *)
(* game's dynamic entities (created now, attached later, their EntityIDs   *)
(* never reused) and the server, which promises this client a sound stream *)
(* (Replication shows that it does): one answer, then spawns of unknown    *)
(* entities, teleports and destroys of known ones.  Positions are points   *)
(* of a line and turning is left out (see Turning); the client was started *)
(* with a server's address.  The game makes the client object by its class *)
(* descriptor, which value-initialises it (no constructor is declared), so *)
(* members without an initializer start as zero.                           *)
(***************************************************************************)
EXTENDS Integers, Sequences, FiniteSets, Functions, SequencesExt

CONSTANTS
    NetworkedIds,   \* the server's entity ids, natural numbers
    FirstEntityID,  \* EntityIDs count up from here
    MaxEntityID,    \* bound: the game creates entities up to here
    Places,         \* where entities are told to be
    Origin,         \* (0, 0, 0)
    TenthSecond,    \* ticks in 0.1 s: position updates and interpolations
    DeltaTimes,     \* ticks a frame takes
    MaxInbox,       \* bound: messages on their way to the client
    MaxLists        \* bound: lists of savegames the main menu takes up

ASSUME ClientConstants ==
    /\ NetworkedIds \subseteq Nat
    /\ FirstEntityID \in Nat
    /\ MaxEntityID \in Nat
    /\ Places \subseteq Int
    /\ Origin \in Int
    /\ TenthSecond \in Nat \ {0}
    /\ DeltaTimes \subseteq Nat \ {0}
    /\ MaxInbox \in Nat
    /\ MaxLists \in Nat

VARIABLES
    phase,              \* poll, callbacks: within OnNetworkUpdate; game: between
    hasTriedToConnect,
    pInterface,         \* whether m_pInterface is set
    FullyConnected,
    hasEnqueuedLoadLastCheckpoint,
    networkedEntitiesLookup,          \* from networked ids to EntityIDs
    interpolationData,                \* from EntityIDs to interpolations
    lastTeleportCommand,              \* the EntityIDs with an AI command
    leaked,             \* the ids of messages that were never released
    timeSinceLastPlayerPositionSync,
    outgoing,           \* the messages the last step sent
    link,               \* the library: the connection m_hConnection stands for
    statusChanges,      \* the library: changes RunCallbacks has yet to report
    inbox,              \* the library: messages the client has not received
    entities,           \* the game: every dynamic entity it ever created
    AutoContinueUsed,   \* Redscript: a savegame menu has been closed
    lists,              \* history: lists of savegames that were to load one
    loads,              \* the game: calls of LoadLastCheckpoint
    greetings,          \* the server: how often InitAuth was sent
    answered,           \* the server: the answer to it
    told                \* the server: where the client was told entities are

session == <<FullyConnected, hasEnqueuedLoadLastCheckpoint, loads>>
puppets == <<networkedEntitiesLookup, interpolationData, lastTeleportCommand, leaked, entities>>
connecting == <<hasTriedToConnect, pInterface>>
menu == <<AutoContinueUsed, lists>>
server == <<greetings, answered, told>>
vars == <<phase, connecting, session, puppets, timeSinceLastPlayerPositionSync,
          outgoing, link, statusChanges, inbox, menu, server>>

-----------------------------------------------------------------------------
(* The server and the network, at any moment.                              *)

Tell(message) ==
    /\ link = "connected"
    /\ Len(inbox) < MaxInbox
    /\ inbox' = Append(inbox, message)
    /\ UNCHANGED <<phase, connecting, session, puppets, timeSinceLastPlayerPositionSync,
                   link, statusChanges, menu, greetings>>
    /\ outgoing' = <<>>

Answer(result) ==
    /\ greetings > 0
    /\ answered = "none"
    /\ answered' = result
    /\ Tell([type |-> "InitAuthResult", result |-> result])
    /\ UNCHANGED told

TellSpawn(id, place) ==
    /\ answered = "Ok"
    /\ id \notin DOMAIN told
    /\ told' = [i \in DOMAIN told \cup {id} |-> IF i = id THEN place ELSE told[i]]
    /\ Tell([type |-> "SpawnEntity", id |-> id, pos |-> place])
    /\ UNCHANGED answered

TellTeleport(id, place) ==
    /\ id \in DOMAIN told
    /\ told' = [told EXCEPT ![id] = place]
    /\ Tell([type |-> "TeleportEntity", id |-> id, pos |-> place])
    /\ UNCHANGED answered

TellDestroy(id) ==
    /\ id \in DOMAIN told
    /\ told' = Restrict(told, DOMAIN told \ {id})
    /\ Tell([type |-> "DestroyEntity", id |-> id])
    /\ UNCHANGED answered

Link(from, to) ==
    /\ link \in from
    /\ link' = to
    /\ statusChanges' = Append(statusChanges, to)
    /\ outgoing' = <<>>
    /\ UNCHANGED <<phase, connecting, session, puppets, timeSinceLastPlayerPositionSync,
                   inbox, menu, server>>

Network ==
    \/ Link({"connecting"}, "connected")
    \/ Link({"connecting", "connected"}, "closed")
    \/ \E result \in {"Ok", "VersionMismatch"} : Answer(result)
    \/ \E id \in NetworkedIds :
         \/ TellDestroy(id)
         \/ \E place \in Places : TellSpawn(id, place) \/ TellTeleport(id, place)

-----------------------------------------------------------------------------
(* The first frame connects.  An address that does not parse leaves no     *)
(* interface; a connection that cannot be created leaves it set.           *)
ConnectToServer ==
    \/ /\ pInterface' = TRUE
       /\ link' = "connecting"
       /\ statusChanges' = <<"connecting">>
    \/ /\ pInterface' \in BOOLEAN
       /\ UNCHANGED <<link, statusChanges>>

FirstUpdate ==
    /\ phase = "poll"
    /\ ~hasTriedToConnect
    /\ hasTriedToConnect' = TRUE
    /\ ConnectToServer
    /\ outgoing' = <<>>
    /\ UNCHANGED <<phase, session, puppets, timeSinceLastPlayerPositionSync,
                   inbox, menu, server>>

IdleUpdate ==
    /\ phase = "poll"
    /\ hasTriedToConnect
    /\ ~pInterface
    /\ phase' = "game"
    /\ outgoing' = <<>>
    /\ UNCHANGED <<connecting, session, puppets, timeSinceLastPlayerPositionSync,
                   link, statusChanges, inbox, menu, server>>

-----------------------------------------------------------------------------
(* The game's dynamic entities. *)

NextEntityID == FirstEntityID + Cardinality(DOMAIN entities)

Exists(entityId) == entityId \in DOMAIN entities /\ entities[entityId].state = "attached"

(* SetEntityPosition moves an entity that is there.                        *)
SetEntityPosition(moved, place) ==
    LET found == {entityId \in moved : Exists(entityId)}
    IN  /\ entities' = [entityId \in DOMAIN entities |->
                            IF entityId \in found
                            THEN [entities[entityId] EXCEPT !.place = place[entityId]]
                            ELSE entities[entityId]]
        /\ lastTeleportCommand' = lastTeleportCommand \cup found

-----------------------------------------------------------------------------
(* PollIncomingMessages: one turn of its loop. *)

LoadLastCheckpoint == loads' = loads + 1

(* Mutant: what was enqueued in the menu is forgotten.                     *)
SignInOnly(result) ==
    /\ FullyConnected' = (result = "Ok" \/ FullyConnected)
    /\ UNCHANGED <<hasEnqueuedLoadLastCheckpoint, loads, puppets>>

AuthResult(result) ==
    /\ \/ /\ result = "Ok"
          /\ FullyConnected' = TRUE
          /\ \/ hasEnqueuedLoadLastCheckpoint /\ LoadLastCheckpoint
             \/ ~hasEnqueuedLoadLastCheckpoint /\ UNCHANGED loads
       \/ /\ result # "Ok"
          /\ UNCHANGED <<FullyConnected, loads>>
    /\ UNCHANGED <<hasEnqueuedLoadLastCheckpoint, puppets>>

(* SpawnTransientEntity: the game creates the entity and attaches it later. *)
CreateEntity(id, place) ==
    /\ NextEntityID <= MaxEntityID
    /\ entities' = [entityId \in DOMAIN entities \cup {NextEntityID} |->
           IF entityId = NextEntityID
           THEN [state |-> "pending", place |-> place, id |-> id]
           ELSE entities[entityId]]

(* Mutant: key and value are swapped.                                      *)
InsertSwapped(id) ==
    networkedEntitiesLookup' =
        [i \in DOMAIN networkedEntitiesLookup \cup {NextEntityID} |->
            IF i \in DOMAIN networkedEntitiesLookup
            THEN networkedEntitiesLookup[i]
            ELSE id]

(* std::map::insert: a key that is there keeps its value.                  *)
Insert(id) ==
    networkedEntitiesLookup' =
        [i \in DOMAIN networkedEntitiesLookup \cup {id} |->
            IF i \in DOMAIN networkedEntitiesLookup
            THEN networkedEntitiesLookup[i]
            ELSE NextEntityID]

(* Mutant: an entity is created even for an id that has one.               *)
SpawnAlways(id, place) ==
    /\ CreateEntity(id, place)
    /\ Insert(id)
    /\ UNCHANGED <<session, interpolationData, lastTeleportCommand, leaked>>

(* continue, without Release.                                              *)
ContinueWithMessage(id) == leaked' = leaked \cup {id}

Spawn(id, place) ==
    /\ \/ /\ id \in DOMAIN networkedEntitiesLookup
          /\ ContinueWithMessage(id)
          /\ UNCHANGED <<entities, networkedEntitiesLookup>>
       \/ /\ id \notin DOMAIN networkedEntitiesLookup
          /\ CreateEntity(id, place)
          /\ Insert(id)
          /\ UNCHANGED leaked
    /\ UNCHANGED <<session, interpolationData, lastTeleportCommand>>

(* Mutant: an interpolation under way is kept.                             *)
KeepInterpolation(entityId, place) ==
    interpolationData' =
        [e \in DOMAIN interpolationData \cup {entityId} |->
            IF e \in DOMAIN interpolationData
            THEN interpolationData[e]
            ELSE [source |-> entities[e].place, target |-> place, elapsed |-> 0]]

NewInterpolation(entityId, place) ==
    interpolationData' =
        [e \in DOMAIN interpolationData \cup {entityId} |->
            IF e = entityId
            THEN [source |-> entities[e].place, target |-> place, elapsed |-> 0]
            ELSE interpolationData[e]]

(* A puppet that is not there yet is skipped, one that still seems to be at *)
(* the origin is put in place at once, any other starts to move.           *)
TeleportEntity(id, place) ==
    /\ \/ /\ id \in DOMAIN networkedEntitiesLookup => ~Exists(networkedEntitiesLookup[id])
          /\ UNCHANGED puppets
       \/ /\ id \in DOMAIN networkedEntitiesLookup
          /\ LET entityId == networkedEntitiesLookup[id]
             IN  /\ Exists(entityId)
                 /\ \/ /\ entities[entityId].place = Origin
                       /\ SetEntityPosition({entityId}, [e \in {entityId} |-> place])
                       /\ UNCHANGED interpolationData
                    \/ /\ entities[entityId].place # Origin
                       /\ NewInterpolation(entityId, place)
                       /\ UNCHANGED <<entities, lastTeleportCommand>>
          /\ UNCHANGED <<networkedEntitiesLookup, leaked>>
    /\ UNCHANGED session

(* m_networkedEntitiesLookup.erase(entityId) takes the EntityID, a number, *)
(* for a networked id.                                                     *)
Destroy(id) ==
    /\ \/ /\ id \in DOMAIN networkedEntitiesLookup
          /\ LET entityId == networkedEntitiesLookup[id]
             IN  /\ entities' = [entities EXCEPT ![entityId].state = "deleted"]
                 /\ networkedEntitiesLookup' =
                        Restrict(networkedEntitiesLookup,
                                 DOMAIN networkedEntitiesLookup \ {entityId})
          /\ UNCHANGED leaked
       \/ /\ id \notin DOMAIN networkedEntitiesLookup
          /\ ContinueWithMessage(id)
          /\ UNCHANGED <<entities, networkedEntitiesLookup>>
    /\ UNCHANGED <<session, interpolationData, lastTeleportCommand>>

ReceiveMessage ==
    /\ phase = "poll"
    /\ pInterface
    /\ inbox # <<>>
    /\ inbox' = Tail(inbox)
    /\ LET message == Head(inbox)
       IN  \/ message.type = "InitAuthResult" /\ AuthResult(message.result)
           \/ message.type = "SpawnEntity" /\ Spawn(message.id, message.pos)
           \/ message.type = "TeleportEntity" /\ TeleportEntity(message.id, message.pos)
           \/ message.type = "DestroyEntity" /\ Destroy(message.id)
    /\ outgoing' = <<>>
    /\ UNCHANGED <<phase, connecting, timeSinceLastPlayerPositionSync,
                   link, statusChanges, menu, server>>

-----------------------------------------------------------------------------
(* The rest of the frame. *)

(* EnqueueMessage reaches the server unless the connection is gone.         *)
EnqueueMessage(message) == outgoing' = <<message>>

(* Mutant: the time is never reset.                                        *)
TrackWithoutReset(deltaTime) ==
    /\ timeSinceLastPlayerPositionSync' = timeSinceLastPlayerPositionSync + deltaTime
    /\ IF timeSinceLastPlayerPositionSync' >= TenthSecond
       THEN EnqueueMessage("PlayerPositionUpdate")
       ELSE outgoing' = <<>>

(* Mutant: the time is reset by every frame.                               *)
TrackFullFramesOnly(deltaTime) ==
    /\ timeSinceLastPlayerPositionSync' = 0
    /\ IF deltaTime >= TenthSecond
       THEN EnqueueMessage("PlayerPositionUpdate")
       ELSE outgoing' = <<>>

TrackPlayerPosition(deltaTime) ==
    LET time == timeSinceLastPlayerPositionSync + deltaTime
    IN  \/ /\ time < TenthSecond
           /\ timeSinceLastPlayerPositionSync' = time
           /\ outgoing' = <<>>
        \/ /\ time >= TenthSecond
           /\ timeSinceLastPlayerPositionSync' = 0
           /\ EnqueueMessage("PlayerPositionUpdate")

(* Mutant: progress is that of this frame alone.                           *)
OneFrameElapsed(interpolator, deltaTime) == deltaTime

CalcElapsed(interpolator, deltaTime) == interpolator.elapsed + deltaTime

LerpLocal(from, to, elapsed) ==
    from + ((to - from) * (IF elapsed < TenthSecond THEN elapsed ELSE TenthSecond))
             \div TenthSecond

InterpolatePuppets(deltaTime) ==
    LET elapsed == [e \in DOMAIN interpolationData |->
                        CalcElapsed(interpolationData[e], deltaTime)]
        destination == [e \in DOMAIN interpolationData |->
                            LerpLocal(interpolationData[e].source,
                                      interpolationData[e].target, elapsed[e])]
    IN  /\ SetEntityPosition(DOMAIN interpolationData, destination)
        /\ interpolationData' =
               [e \in {e \in DOMAIN interpolationData : elapsed[e] < TenthSecond} |->
                   [interpolationData[e] EXCEPT !.elapsed = elapsed[e]]]
        /\ UNCHANGED <<networkedEntitiesLookup, leaked>>

TrackAndInterpolate(deltaTime) ==
    /\ phase = "poll"
    /\ pInterface
    /\ inbox = <<>>
    /\ TrackPlayerPosition(deltaTime)
    /\ InterpolatePuppets(deltaTime)
    /\ phase' = "callbacks"
    /\ UNCHANGED <<connecting, session, link, statusChanges, inbox, menu, server>>

(* Mutant: whatever is not an end is greeted.                              *)
GreetsUnlessClosed(state) == state # "closed"

(* Mutant: the greeting goes out before the connection is up.               *)
GreetsEarly(state) == state = "connecting"

Greets(state) == state = "connected"

ConnectionStatusChangedCallback(state) ==
    \/ /\ Greets(state)
       /\ EnqueueMessage("InitAuth")
       /\ greetings' = greetings + 1
       /\ UNCHANGED FullyConnected
    \/ /\ ~Greets(state)
       /\ FullyConnected' = FALSE
       /\ outgoing' = <<>>
       /\ UNCHANGED greetings

RunCallbacks ==
    /\ phase = "callbacks"
    /\ \/ /\ statusChanges # <<>>
          /\ ConnectionStatusChangedCallback(Head(statusChanges))
          /\ statusChanges' = Tail(statusChanges)
          /\ UNCHANGED phase
       \/ /\ statusChanges = <<>>
          /\ phase' = "game"
          /\ outgoing' = <<>>
          /\ UNCHANGED <<FullyConnected, greetings, statusChanges>>
    /\ UNCHANGED <<connecting, hasEnqueuedLoadLastCheckpoint, loads, puppets,
                   timeSinceLastPlayerPositionSync, link, inbox, menu,
                   answered, told>>

OnNetworkUpdate ==
    \/ FirstUpdate
    \/ IdleUpdate
    \/ ReceiveMessage
    \/ \E deltaTime \in DeltaTimes : TrackAndInterpolate(deltaTime)
    \/ RunCallbacks

-----------------------------------------------------------------------------
(* The game, between frames. *)

NextFrame ==
    /\ phase = "game"
    /\ phase' = "poll"
    /\ outgoing' = <<>>
    /\ UNCHANGED <<connecting, session, puppets, timeSinceLastPlayerPositionSync,
                   link, statusChanges, inbox, menu, server>>

(* A created entity is attached, and for a while may seem to be at (0, 0, 0). *)
Attach(entityId) ==
    /\ phase = "game"
    /\ entities[entityId].state = "pending"
    /\ \E place \in {Origin, entities[entityId].place} :
         entities' = [entities EXCEPT ![entityId].state = "attached",
                                      ![entityId].place = place]
    /\ outgoing' = <<>>
    /\ UNCHANGED <<phase, connecting, session, networkedEntitiesLookup, interpolationData,
                   lastTeleportCommand, leaked, timeSinceLastPlayerPositionSync, link,
                   statusChanges, inbox, menu, server>>

EnqueueLoadLastCheckpoint == hasEnqueuedLoadLastCheckpoint' = TRUE

(* A menu lists the savegames, as often as it likes.  The main menu loads  *)
(* one, or has it loaded after the sign-in, until a menu was closed.       *)
OnSavesForLoadReady(isPreGame, savesCount) ==
    /\ phase = "game"
    /\ \/ /\ isPreGame /\ savesCount > 0 /\ ~AutoContinueUsed
          /\ lists < MaxLists
          /\ lists' = lists + 1
          /\ \/ FullyConnected /\ LoadLastCheckpoint /\ UNCHANGED hasEnqueuedLoadLastCheckpoint
             \/ ~FullyConnected /\ EnqueueLoadLastCheckpoint /\ UNCHANGED loads
       \/ /\ ~isPreGame \/ savesCount = 0 \/ AutoContinueUsed
          /\ UNCHANGED <<hasEnqueuedLoadLastCheckpoint, loads, lists>>
    /\ outgoing' = <<>>
    /\ UNCHANGED <<phase, connecting, FullyConnected, puppets, AutoContinueUsed,
                   timeSinceLastPlayerPositionSync, link, statusChanges, inbox, server>>

(* A savegame menu is closed: the main one, or one within the game.        *)
OnUninitialize ==
    /\ phase = "game"
    /\ AutoContinueUsed' = TRUE
    /\ outgoing' = <<>>
    /\ UNCHANGED <<phase, connecting, session, puppets, timeSinceLastPlayerPositionSync,
                   link, statusChanges, inbox, lists, server>>

(* The player is in the world, be the client signed in or not; and then    *)
(* mounts, equips, shoots, jumps.                                          *)
(* Without an interface the code calls through a null pointer: the model    *)
(* ends there, and these actions are those of a client with an address.    *)
Report(message) ==
    /\ phase = "game"
    /\ pInterface
    /\ EnqueueMessage(message)
    /\ UNCHANGED <<phase, connecting, session, puppets, timeSinceLastPlayerPositionSync,
                   link, statusChanges, inbox, menu, server>>

Actions == {"PlayerActionTracked", "PlayerShoot", "PlayerSpawnCar", "PlayerUnmountCar",
            "PlayerEquipItem"}

OnGameRestored == Report("PlayerJoinWorld")
OnPlayerAction == \E action \in Actions : Report(action)

Game ==
    \/ NextFrame
    \/ \E entityId \in DOMAIN entities : Attach(entityId)
    \/ \E isPreGame \in BOOLEAN, savesCount \in {0, 1} :
         OnSavesForLoadReady(isPreGame, savesCount)
    \/ OnUninitialize
    \/ OnGameRestored
    \/ OnPlayerAction

(* m_pInterface and the position timer have no initializer and start as     *)
(* null and 0, which ConnectToServer and OnNetworkUpdate count on.         *)
Init ==
    /\ phase = "poll"
    /\ hasTriedToConnect = FALSE
    /\ pInterface = FALSE
    /\ FullyConnected = FALSE
    /\ hasEnqueuedLoadLastCheckpoint = FALSE
    /\ networkedEntitiesLookup = [id \in {} |-> 0]
    /\ interpolationData = [entityId \in {} |-> 0]
    /\ lastTeleportCommand = {}
    /\ leaked = {}
    /\ timeSinceLastPlayerPositionSync = 0
    /\ outgoing = <<>>
    /\ link = "none"
    /\ statusChanges = <<>>
    /\ inbox = <<>>
    /\ entities = [entityId \in {} |-> 0]
    /\ AutoContinueUsed = FALSE
    /\ lists = 0
    /\ loads = 0
    /\ greetings = 0
    /\ answered = "none"
    /\ told = [id \in {} |-> 0]

Next == OnNetworkUpdate \/ Game \/ Network

Spec == Init /\ [][Next]_vars

(* The game's thread keeps running frames; the server and the network owe  *)
(* nothing.                                                                *)
FairSpec == Spec /\ WF_vars(OnNetworkUpdate) /\ WF_vars(NextFrame)

-----------------------------------------------------------------------------
Messages ==
    [type : {"InitAuthResult"}, result : {"Ok", "VersionMismatch"}]
      \cup [type : {"SpawnEntity", "TeleportEntity"}, id : NetworkedIds, pos : Places]
      \cup [type : {"DestroyEntity"}, id : NetworkedIds]

EntityIDs == FirstEntityID .. MaxEntityID

(* The maps hold EntityIDs the game gave out, created in order, and a      *)
(* position update is never overdue.                                       *)
TypeOK ==
    /\ phase \in {"poll", "callbacks", "game"}
    /\ {hasTriedToConnect, pInterface, FullyConnected, hasEnqueuedLoadLastCheckpoint,
        AutoContinueUsed} \subseteq BOOLEAN
    /\ lists \in 0 .. MaxLists
    /\ networkedEntitiesLookup \in [DOMAIN networkedEntitiesLookup -> DOMAIN entities]
    /\ DOMAIN networkedEntitiesLookup \cup leaked \subseteq NetworkedIds
    /\ interpolationData \in [DOMAIN interpolationData ->
           [source : Int, target : Places, elapsed : 0 .. TenthSecond - 1]]
    /\ DOMAIN interpolationData \cup lastTeleportCommand \subseteq DOMAIN entities
    /\ timeSinceLastPlayerPositionSync \in 0 .. TenthSecond - 1
    /\ outgoing \in Seq({"InitAuth", "PlayerJoinWorld", "PlayerPositionUpdate"} \cup Actions)
    /\ link \in {"none", "connecting", "connected", "closed"}
    /\ statusChanges \in Seq({"connecting", "connected", "closed"})
    /\ inbox \in Seq(Messages)
    /\ DOMAIN entities = FirstEntityID .. NextEntityID - 1
    /\ entities \in [DOMAIN entities -> [state : {"pending", "attached", "deleted"},
                                         place : Int, id : NetworkedIds]]
    /\ answered \in {"none", "Ok", "VersionMismatch"}
    /\ told \in [DOMAIN told -> Places]
    /\ DOMAIN told \subseteq NetworkedIds

(* The server relies on it (ConnectedPlayers.Add throws the second time):   *)
(* a client sends InitAuth once at most, and counts as connected only      *)
(* after the server's Ok.                                                  *)
GreetsOnce ==
    /\ greetings <= 1
    /\ FullyConnected => answered = "Ok"

(* The list of savegames and the server's Ok come in either order, any     *)
(* number of lists, the connection may end in between: nothing is loaded    *)
(* before the Ok or more often than it was asked for, and nothing that was *)
(* asked for is forgotten ("we will _enqueue_ the LoadLastCheckpoint call, *)
(* that Redscript had otherwise done, had we connected fast enough",       *)
(* NetworkGameSystem.h).                                                   *)
ListAndOkLoad ==
    /\ loads <= lists
    /\ loads > 0 => answered = "Ok"
    /\ FullyConnected /\ lists > 0 => loads > 0

Current(entityId) == entities[entityId].state # "deleted"

(* When the client has caught up, every entity the game still has for it   *)
(* is one the server has it see, and the one its teleports and its         *)
(* destroy will find: no second puppet and none that stays behind.         *)
NoGhosts ==
    inbox = <<>> =>
        \A entityId \in DOMAIN entities : Current(entityId) =>
            LET id == entities[entityId].id
            IN  /\ id \in DOMAIN told
                /\ id \in DOMAIN networkedEntitiesLookup
                /\ networkedEntitiesLookup[id] = entityId

Shown(id) ==
    /\ id \in DOMAIN networkedEntitiesLookup
    /\ Current(networkedEntitiesLookup[id])

(* A message that is not released keeps its memory in the network library. *)
(* That happens to none about an entity that comes, moves and goes for the *)
(* first time: messages leak only of one that was destroyed before.        *)
OnlyRespawnsLeak ==
    \A id \in leaked : \E e \in DOMAIN entities :
        entities[e].id = id /\ ~Current(e)

(* When the client has caught up, every entity the server has it see is in *)
(* the game, if it is there for the first time.                            *)
FirstSpawnsAreSeen ==
    inbox = <<>> =>
        \A id \in DOMAIN told :
            (\A e \in DOMAIN entities : entities[e].id = id => Current(e)) => Shown(id)

(* "Trust the server to properly track the entity state ... the server     *)
(* will only re-spawn them when they have been properly despawned"         *)
(* (NetworkGameSystem.reds): every entity the server has the client see is *)
(* in the game, the first time and after every despawn.                    *)
RespawnsAreSeen == inbox = <<>> => \A id \in DOMAIN told : Shown(id)

(* When the client has caught up, a puppet heads for where the server says *)
(* it is, however teleports, frames and the arrival of the entity in the   *)
(* game interleave, unless every teleport so far came before the entity.   *)
HeadsForTold ==
    inbox = <<>> =>
        \A id \in DOMAIN told \cap DOMAIN networkedEntitiesLookup :
            LET entityId == networkedEntitiesLookup[id]
            IN  Exists(entityId) =>
                    \/ /\ entityId \in DOMAIN interpolationData
                       /\ interpolationData[entityId].target = told[id]
                    \/ /\ entityId \notin DOMAIN interpolationData
                       /\ entityId \in lastTeleportCommand => entities[entityId].place = told[id]

(* A client whose frames end reports its position again and again, even to *)
(* a server that never answers: what the server's views rest on            *)
(* (Resend in EntityTracking).                                             *)
RepeatsPosition ==
    <>[]pInterface /\ []<>(phase = "game")
        => []<>(outgoing = <<"PlayerPositionUpdate">>)

(* When the server has no news of an entity, its puppet comes to rest where *)
(* it was last told to be.                                                 *)
PuppetsComeToRest ==
    \A id \in NetworkedIds, place \in Places :
        LET shown == networkedEntitiesLookup[id]
            Settled == /\ inbox = <<>>
                       /\ id \in DOMAIN told /\ told[id] = place
                       /\ id \in DOMAIN networkedEntitiesLookup /\ Exists(shown)
                       /\ shown \in DOMAIN interpolationData \cup lastTeleportCommand
        IN  <>[]Settled => <>[](Settled /\ entities[shown].place = place)

=============================================================================
