--------------------------- MODULE GameClientProofs ---------------------------
(***************************************************************************)
(* Proofs about GameClient, for any entity ids, places, durations and      *)
(* number of messages under way.                                           *)
(***************************************************************************)
EXTENDS GameClient, FiniteSetTheorems, SequenceTheorems, TLAPS

-----------------------------------------------------------------------------
(* Types. *)

Typed == TypeOK /\ IsFiniteSet(DOMAIN entities)

(* A new entity gets the next EntityID.                                    *)
LEMMA CreateCounts ==
    ASSUME Typed, NEW id \in NetworkedIds, NEW place \in Places, CreateEntity(id, place)
    PROVE  /\ NextEntityID \in Int /\ NextEntityID \notin DOMAIN entities
           /\ NextEntityID \in EntityIDs
           /\ DOMAIN entities' = DOMAIN entities \cup {NextEntityID}
           /\ IsFiniteSet(DOMAIN entities')
           /\ DOMAIN entities' = FirstEntityID .. NextEntityID' - 1
           /\ entities' \in [DOMAIN entities' -> [state : {"pending", "attached", "deleted"},
                                                  place : Int, id : NetworkedIds]]
  <1>1. Cardinality(DOMAIN entities) \in Nat
    BY FS_CardinalityType DEF Typed
  <1>2. NextEntityID \in Int /\ NextEntityID \notin DOMAIN entities
    BY <1>1, ClientConstants, SMTT(30) DEF Typed, TypeOK, NextEntityID
  <1>3. DOMAIN entities' = DOMAIN entities \cup {NextEntityID}
    BY DEF CreateEntity
  <1>4. /\ IsFiniteSet(DOMAIN entities')
        /\ Cardinality(DOMAIN entities') = Cardinality(DOMAIN entities) + 1
    BY <1>2, <1>3, FS_AddElement DEF Typed
  <1>5. NextEntityID' = NextEntityID + 1
    BY <1>1, <1>4, ClientConstants DEF NextEntityID
  <1>6. NextEntityID >= FirstEntityID
    BY <1>1, ClientConstants DEF NextEntityID
  <1>7. DOMAIN entities' = FirstEntityID .. NextEntityID' - 1
    BY <1>2, <1>3, <1>5, <1>6, ClientConstants, SMTT(30) DEF Typed, TypeOK
  <1>8. [state |-> "pending", place |-> place, id |-> id]
           \in [state : {"pending", "attached", "deleted"}, place : Int, id : NetworkedIds]
    BY ClientConstants
  <1>9. entities' \in [DOMAIN entities' -> [state : {"pending", "attached", "deleted"},
                                            place : Int, id : NetworkedIds]]
    BY <1>2, <1>3, <1>8 DEF CreateEntity, Typed, TypeOK
  <1> QED  BY <1>2, <1>3, <1>4, <1>6, <1>7, <1>9, ClientConstants
             DEF CreateEntity, EntityIDs

LEMMA LerpStaysBetween ==
    ASSUME NEW from \in Int, NEW to \in Int, NEW elapsed \in Nat
    PROVE  /\ LerpLocal(from, to, elapsed) \in Int
           /\ from <= to => LerpLocal(from, to, elapsed) \in from .. to
           /\ to <= from => LerpLocal(from, to, elapsed) \in to .. from
           /\ elapsed >= TenthSecond => LerpLocal(from, to, elapsed) = to
  <1> DEFINE progress == IF elapsed < TenthSecond THEN elapsed ELSE TenthSecond
             step == ((to - from) * progress) \div TenthSecond
  <1>1. TenthSecond \in Nat \ {0}
    BY ClientConstants
  <1>2. progress \in 0 .. TenthSecond
    BY <1>1
  <1>3. /\ step \in Int
        /\ to - from >= 0 => step \in 0 .. to - from
        /\ to - from <= 0 => step \in to - from .. 0
    <2> HIDE DEF progress
    <2> DEFINE way == to - from
    <2>1. way \in Int
      OBVIOUS
    <2> HIDE DEF way
    <2>2. /\ (way * progress) \div TenthSecond \in Int
          /\ way >= 0 => (way * progress) \div TenthSecond \in 0 .. way
          /\ way <= 0 => (way * progress) \div TenthSecond \in way .. 0
      BY <1>1, <1>2, <2>1
    <2> QED  BY <2>2 DEF way
  <1>4. elapsed >= TenthSecond => step = to - from
    BY <1>1
  <1>5. LerpLocal(from, to, elapsed) = from + step
    BY DEF LerpLocal
  <1> HIDE DEF step
  <1> QED  BY <1>3, <1>4, <1>5

(* The fields of a message go with its type.                               *)
LEMMA MessageFields ==
    ASSUME NEW message \in Messages
    PROVE  /\ message.type \in {"InitAuthResult", "SpawnEntity", "TeleportEntity", "DestroyEntity"}
           /\ message.type = "InitAuthResult" => message.result \in {"Ok", "VersionMismatch"}
           /\ message.type # "InitAuthResult" => message.id \in NetworkedIds
           /\ message.type \in {"SpawnEntity", "TeleportEntity"} => message.pos \in Places
  BY DEF Messages

(* What SetEntityPosition leaves as it was.                                *)
LEMMA MovesOnlyPlaces ==
    ASSUME Typed, NEW moved, NEW place, \A e \in moved : place[e] \in Int,
           SetEntityPosition(moved, place)
    PROVE  /\ DOMAIN entities' = DOMAIN entities
           /\ entities' \in [DOMAIN entities' -> [state : {"pending", "attached", "deleted"},
                                                  place : Int, id : NetworkedIds]]
           /\ \A e \in DOMAIN entities :
                /\ entities'[e].state = entities[e].state
                /\ entities'[e].id = entities[e].id
                /\ e \in moved /\ Exists(e) => entities'[e].place = place[e]
                /\ ~(e \in moved /\ Exists(e)) => entities'[e].place = entities[e].place
           /\ lastTeleportCommand' = lastTeleportCommand \cup {e \in moved : Exists(e)}
           /\ lastTeleportCommand' \subseteq DOMAIN entities
  <1> DEFINE found == {e \in moved : Exists(e)}
  <1>1. found \subseteq DOMAIN entities
    BY DEF Exists
  <1>2. /\ entities' = [e \in DOMAIN entities |->
                          IF e \in found THEN [entities[e] EXCEPT !.place = place[e]]
                          ELSE entities[e]]
        /\ lastTeleportCommand' = lastTeleportCommand \cup found
    BY DEF SetEntityPosition
  <1>3. \A e \in DOMAIN entities : entities[e] \in
            [state : {"pending", "attached", "deleted"}, place : Int, id : NetworkedIds]
    BY DEF Typed, TypeOK
  <1>4. ASSUME NEW e \in DOMAIN entities
        PROVE  /\ entities'[e] \in
                    [state : {"pending", "attached", "deleted"}, place : Int, id : NetworkedIds]
               /\ entities'[e].state = entities[e].state
               /\ entities'[e].id = entities[e].id
               /\ e \in found => entities'[e].place = place[e]
               /\ e \notin found => entities'[e].place = entities[e].place
    BY <1>2, <1>3
  <1>5. lastTeleportCommand' \subseteq DOMAIN entities
    BY <1>1, <1>2 DEF Typed, TypeOK
  <1> QED  BY <1>2, <1>4, <1>5

(* The part of TypeOK about the puppets.                                   *)
PuppetsTyped ==
    /\ networkedEntitiesLookup \in [DOMAIN networkedEntitiesLookup -> DOMAIN entities]
    /\ DOMAIN networkedEntitiesLookup \cup leaked \subseteq NetworkedIds
    /\ interpolationData \in [DOMAIN interpolationData ->
           [source : Int, target : Places, elapsed : 0 .. TenthSecond - 1]]
    /\ DOMAIN interpolationData \cup lastTeleportCommand \subseteq DOMAIN entities
    /\ DOMAIN entities = FirstEntityID .. NextEntityID - 1
    /\ IsFiniteSet(DOMAIN entities)
    /\ entities \in [DOMAIN entities -> [state : {"pending", "attached", "deleted"},
                                         place : Int, id : NetworkedIds]]

LEMMA InitTyped ==
    ASSUME Init
    PROVE  Typed
  <1>1. DOMAIN entities = {}
    BY DEF Init
  <1>2. /\ IsFiniteSet(DOMAIN entities)
        /\ Cardinality(DOMAIN entities) = 0
    BY <1>1, FS_EmptySet
  <1>3. DOMAIN entities = FirstEntityID .. NextEntityID - 1
    BY <1>1, <1>2, ClientConstants DEF NextEntityID
  <1>4. /\ outgoing \in Seq({"InitAuth", "PlayerJoinWorld", "PlayerPositionUpdate"} \cup Actions)
        /\ statusChanges \in Seq({"connecting", "connected", "closed"})
        /\ inbox \in Seq(Messages)
    BY EmptySeq DEF Init
  <1>5. {hasTriedToConnect, pInterface, FullyConnected, hasEnqueuedLoadLastCheckpoint,
         AutoContinueUsed} \subseteq BOOLEAN
    BY DEF Init
  <1>8. lists \in 0 .. MaxLists
    BY ClientConstants DEF Init
  <1>6. PuppetsTyped
    BY <1>1, <1>2, <1>3 DEF Init, PuppetsTyped
  <1>7. /\ timeSinceLastPlayerPositionSync \in 0 .. TenthSecond - 1
        /\ told \in [DOMAIN told -> Places] /\ DOMAIN told \subseteq NetworkedIds
    BY ClientConstants DEF Init
  <1> QED  BY <1>2, <1>4, <1>5, <1>6, <1>7, <1>8 DEF Init, Typed, TypeOK, PuppetsTyped

(* Receiving a message.                                                    *)
LEMMA AuthResultTyped ==
    ASSUME Typed, NEW result, AuthResult(result)
    PROVE  FullyConnected' \in BOOLEAN /\ UNCHANGED <<puppets, hasEnqueuedLoadLastCheckpoint>>
  BY DEF Typed, TypeOK, AuthResult

LEMMA SpawnTyped ==
    ASSUME Typed, NEW id \in NetworkedIds, NEW place \in Places, Spawn(id, place)
    PROVE  PuppetsTyped'
  <1>1. CASE id \in DOMAIN networkedEntitiesLookup
    BY <1>1 DEF Spawn, ContinueWithMessage, Typed, TypeOK, PuppetsTyped, NextEntityID
  <1>2. CASE id \notin DOMAIN networkedEntitiesLookup
    <2>1. CreateEntity(id, place) /\ Insert(id)
          /\ UNCHANGED <<leaked, interpolationData, lastTeleportCommand>>
      BY <1>2 DEF Spawn
    <2>2. networkedEntitiesLookup' \in [DOMAIN networkedEntitiesLookup' -> DOMAIN entities']
      BY <2>1, CreateCounts DEF Insert, Typed, TypeOK
    <2>3. DOMAIN networkedEntitiesLookup' = DOMAIN networkedEntitiesLookup \cup {id}
      BY <2>1 DEF Insert
    <2> QED  BY <2>1, <2>2, <2>3, CreateCounts DEF Typed, TypeOK, PuppetsTyped
  <1> QED  BY <1>1, <1>2

LEMMA TeleportTyped ==
    ASSUME Typed, NEW id \in NetworkedIds, NEW place \in Places, TeleportEntity(id, place)
    PROVE  PuppetsTyped'
  <1>1. CASE UNCHANGED puppets
    BY <1>1 DEF puppets, Typed, TypeOK, PuppetsTyped, NextEntityID
  <1> DEFINE entityId == networkedEntitiesLookup[id]
  <1>2. CASE /\ SetEntityPosition({entityId}, [e \in {entityId} |-> place])
             /\ UNCHANGED <<interpolationData, networkedEntitiesLookup, leaked>>
    BY <1>2, MovesOnlyPlaces, ClientConstants DEF Typed, TypeOK, PuppetsTyped, NextEntityID
  <1>3. CASE /\ id \in DOMAIN networkedEntitiesLookup
             /\ NewInterpolation(entityId, place)
             /\ UNCHANGED <<entities, lastTeleportCommand, networkedEntitiesLookup, leaked>>
    <2>1. entityId \in DOMAIN entities /\ entities[entityId].place \in Int
      BY <1>3 DEF Typed, TypeOK
    <2>2. /\ interpolationData' \in [DOMAIN interpolationData' ->
                 [source : Int, target : Places, elapsed : 0 .. TenthSecond - 1]]
          /\ DOMAIN interpolationData' = DOMAIN interpolationData \cup {entityId}
      BY <1>3, <2>1, ClientConstants DEF NewInterpolation, Typed, TypeOK
    <2> QED  BY <1>3, <2>1, <2>2 DEF Typed, TypeOK, PuppetsTyped, NextEntityID
  <1> QED  BY <1>1, <1>2, <1>3 DEF TeleportEntity

LEMMA DestroyTyped ==
    ASSUME Typed, NEW id \in NetworkedIds, Destroy(id)
    PROVE  PuppetsTyped'
  <1>1. CASE id \notin DOMAIN networkedEntitiesLookup
    BY <1>1 DEF Destroy, ContinueWithMessage, Typed, TypeOK, PuppetsTyped, NextEntityID
  <1>2. CASE id \in DOMAIN networkedEntitiesLookup
    <2> DEFINE entityId == networkedEntitiesLookup[id]
    <2>1. /\ entities' = [entities EXCEPT ![entityId].state = "deleted"]
          /\ networkedEntitiesLookup' =
                [i \in DOMAIN networkedEntitiesLookup \ {entityId} |-> networkedEntitiesLookup[i]]
          /\ UNCHANGED <<leaked, interpolationData, lastTeleportCommand>>
      BY <1>2 DEF Destroy, Restrict
    <2>2. entityId \in DOMAIN entities
      BY <1>2 DEF Typed, TypeOK
    <2>3. /\ DOMAIN entities' = DOMAIN entities
          /\ entities' \in [DOMAIN entities' -> [state : {"pending", "attached", "deleted"},
                                                 place : Int, id : NetworkedIds]]
      BY <2>1, <2>2 DEF Typed, TypeOK
    <2>4. /\ networkedEntitiesLookup' \in [DOMAIN networkedEntitiesLookup' -> DOMAIN entities']
          /\ DOMAIN networkedEntitiesLookup' \subseteq DOMAIN networkedEntitiesLookup
      BY <2>1, <2>3 DEF Typed, TypeOK
    <2> QED  BY <2>1, <2>3, <2>4 DEF Typed, TypeOK, PuppetsTyped, NextEntityID
  <1> QED  BY <1>1, <1>2

(* The rest of TypeOK.                                                     *)
SessionTyped ==
    /\ phase \in {"poll", "callbacks", "game"}
    /\ {hasTriedToConnect, pInterface, FullyConnected, hasEnqueuedLoadLastCheckpoint,
        AutoContinueUsed} \subseteq BOOLEAN
    /\ lists \in 0 .. MaxLists
    /\ timeSinceLastPlayerPositionSync \in 0 .. TenthSecond - 1
    /\ outgoing \in Seq({"InitAuth", "PlayerJoinWorld", "PlayerPositionUpdate"} \cup Actions)
    /\ link \in {"none", "connecting", "connected", "closed"}
    /\ statusChanges \in Seq({"connecting", "connected", "closed"})
    /\ inbox \in Seq(Messages)
    /\ answered \in {"none", "Ok", "VersionMismatch"}
    /\ told \in [DOMAIN told -> Places]
    /\ DOMAIN told \subseteq NetworkedIds

LEMMA TypedParts ==
    /\ Typed <=> SessionTyped /\ PuppetsTyped
    /\ Typed' <=> SessionTyped' /\ PuppetsTyped'
  <1>1. Typed <=> SessionTyped /\ PuppetsTyped
    BY DEF Typed, TypeOK, SessionTyped, PuppetsTyped
  <1>2. Typed' <=> SessionTyped' /\ PuppetsTyped'
    BY DEF Typed, TypeOK, SessionTyped, PuppetsTyped
  <1> QED  BY <1>1, <1>2

LEMMA PuppetsStayTyped ==
    ASSUME Typed, UNCHANGED puppets
    PROVE  PuppetsTyped'
  BY DEF puppets, Typed, TypeOK, PuppetsTyped, NextEntityID

LEMMA TellTyped ==
    ASSUME Typed, NEW message \in Messages, Tell(message),
           answered' \in {"none", "Ok", "VersionMismatch"},
           told' \in [DOMAIN told' -> Places], DOMAIN told' \subseteq NetworkedIds
    PROVE  Typed'
  <1>1. PuppetsTyped'
    BY PuppetsStayTyped DEF Tell
  <1>2. inbox' \in Seq(Messages)
    BY DEF Tell, Typed, TypeOK
  <1>3. outgoing' \in Seq({"InitAuth", "PlayerJoinWorld", "PlayerPositionUpdate"} \cup Actions)
    BY EmptySeq DEF Tell
  <1>4. SessionTyped'
    BY <1>2, <1>3 DEF Tell, connecting, menu, session, Typed, TypeOK, SessionTyped
  <1> QED  BY <1>1, <1>4, TypedParts

LEMMA NetworkTyped ==
    ASSUME Typed, Network
    PROVE  Typed'
  <1>1. ASSUME NEW from, NEW to \in {"connected", "closed"}, Link(from, to)
        PROVE  Typed'
    <2>1. PuppetsTyped'
      BY <1>1, PuppetsStayTyped DEF Link
    <2>2. outgoing' \in Seq({"InitAuth", "PlayerJoinWorld", "PlayerPositionUpdate"} \cup Actions)
      BY <1>1, EmptySeq DEF Link
    <2>3. SessionTyped'
      BY <1>1, <2>2 DEF Link, connecting, menu, session, server, Typed, TypeOK, SessionTyped
    <2> QED  BY <2>1, <2>3, TypedParts
  <1>2. ASSUME NEW result \in {"Ok", "VersionMismatch"}, Answer(result)
        PROVE  Typed'
    <2>1. [type |-> "InitAuthResult", result |-> result] \in Messages
      BY DEF Messages
    <2> QED  BY <1>2, <2>1, TellTyped DEF Answer, Typed, TypeOK
  <1>3. ASSUME NEW id \in NetworkedIds, TellDestroy(id)
        PROVE  Typed'
    <2>1. [type |-> "DestroyEntity", id |-> id] \in Messages
      BY DEF Messages
    <2>2. told' \in [DOMAIN told' -> Places] /\ DOMAIN told' \subseteq NetworkedIds
      BY <1>3 DEF TellDestroy, Restrict, Typed, TypeOK
    <2> QED  BY <1>3, <2>1, <2>2, TellTyped DEF TellDestroy, Typed, TypeOK
  <1>4. ASSUME NEW id \in NetworkedIds, NEW place \in Places, TellSpawn(id, place)
        PROVE  Typed'
    <2>1. [type |-> "SpawnEntity", id |-> id, pos |-> place] \in Messages
      BY DEF Messages
    <2>2. told' \in [DOMAIN told' -> Places] /\ DOMAIN told' \subseteq NetworkedIds
      BY <1>4 DEF TellSpawn, Typed, TypeOK
    <2> QED  BY <1>4, <2>1, <2>2, TellTyped DEF TellSpawn, Typed, TypeOK
  <1>5. ASSUME NEW id \in NetworkedIds, NEW place \in Places, TellTeleport(id, place)
        PROVE  Typed'
    <2>1. [type |-> "TeleportEntity", id |-> id, pos |-> place] \in Messages
      BY DEF Messages
    <2>2. told' \in [DOMAIN told' -> Places] /\ DOMAIN told' \subseteq NetworkedIds
      BY <1>5 DEF TellTeleport, Typed, TypeOK
    <2> QED  BY <1>5, <2>1, <2>2, TellTyped DEF TellTeleport, Typed, TypeOK
  <1> QED  BY <1>1, <1>2, <1>3, <1>4, <1>5 DEF Network

(* The messages a step may send.                                           *)
LEMMA OutgoingTyped ==
    LET Sent == {"InitAuth", "PlayerJoinWorld", "PlayerPositionUpdate"} \cup Actions
    IN  /\ <<>> \in Seq(Sent)
        /\ \A message \in Sent : <<message>> \in Seq(Sent)
  OBVIOUS

LEMMA ReceiveTyped ==
    ASSUME Typed, ReceiveMessage
    PROVE  Typed'
  <1> DEFINE message == Head(inbox)
  <1>1. message \in Messages /\ inbox' \in Seq(Messages)
    BY HeadTailProperties DEF ReceiveMessage, Typed, TypeOK
  <1> HIDE DEF message
  <1>2. \/ message.type = "InitAuthResult" /\ AuthResult(message.result)
        \/ message.type = "SpawnEntity" /\ Spawn(message.id, message.pos)
        \/ message.type = "TeleportEntity" /\ TeleportEntity(message.id, message.pos)
        \/ message.type = "DestroyEntity" /\ Destroy(message.id)
    BY DEF ReceiveMessage, message
  <1>3. /\ FullyConnected' \in BOOLEAN
        /\ UNCHANGED hasEnqueuedLoadLastCheckpoint
        /\ PuppetsTyped'
    <2>1. CASE message.type = "InitAuthResult" /\ AuthResult(message.result)
      BY <2>1, AuthResultTyped, PuppetsStayTyped
    <2>2. CASE message.type = "SpawnEntity" /\ Spawn(message.id, message.pos)
      BY <1>1, <2>2, SpawnTyped, MessageFields DEF Spawn, session, menu, Typed, TypeOK
    <2>3. CASE message.type = "TeleportEntity" /\ TeleportEntity(message.id, message.pos)
      BY <1>1, <2>3, TeleportTyped, MessageFields DEF TeleportEntity, session, menu, Typed, TypeOK
    <2>4. CASE message.type = "DestroyEntity" /\ Destroy(message.id)
      BY <1>1, <2>4, DestroyTyped, MessageFields DEF Destroy, session, menu, Typed, TypeOK
    <2> QED  BY <1>2, <2>1, <2>2, <2>3, <2>4
  <1>4. SessionTyped'
    BY <1>1, <1>3, OutgoingTyped
       DEF ReceiveMessage, connecting, menu, server, Typed, TypeOK, SessionTyped
  <1> QED  BY <1>3, <1>4, TypedParts

LEMMA TrackTyped ==
    ASSUME Typed, NEW deltaTime \in DeltaTimes, TrackAndInterpolate(deltaTime)
    PROVE  Typed'
  <1>1. /\ timeSinceLastPlayerPositionSync' \in 0 .. TenthSecond - 1
        /\ outgoing' \in {<<>>, <<"PlayerPositionUpdate">>}
    BY ClientConstants DEF TrackAndInterpolate, TrackPlayerPosition, EnqueueMessage, Typed, TypeOK
  <1> DEFINE elapsed == [e \in DOMAIN interpolationData |->
                            CalcElapsed(interpolationData[e], deltaTime)]
             destination == [e \in DOMAIN interpolationData |->
                                LerpLocal(interpolationData[e].source,
                                          interpolationData[e].target, elapsed[e])]
             unfinished == {e \in DOMAIN interpolationData : elapsed[e] < TenthSecond}
  <1>2. /\ SetEntityPosition(DOMAIN interpolationData, destination)
        /\ interpolationData' = [e \in unfinished |->
               [interpolationData[e] EXCEPT !.elapsed = elapsed[e]]]
        /\ UNCHANGED <<networkedEntitiesLookup, leaked>>
    BY DEF TrackAndInterpolate, InterpolatePuppets
  <1>3. \A e \in DOMAIN interpolationData :
          /\ interpolationData[e] \in [source : Int, target : Places,
                                       elapsed : 0 .. TenthSecond - 1]
          /\ elapsed[e] \in Nat
    BY ClientConstants, SMTT(30) DEF CalcElapsed, Typed, TypeOK
  <1> HIDE DEF elapsed
  <1>4. \A e \in DOMAIN interpolationData : destination[e] \in Int
    BY <1>3, LerpStaysBetween, ClientConstants
  <1> HIDE DEF destination
  <1>5. interpolationData' \in [DOMAIN interpolationData' ->
             [source : Int, target : Places, elapsed : 0 .. TenthSecond - 1]]
        /\ DOMAIN interpolationData' \subseteq DOMAIN interpolationData
    BY <1>2, <1>3, ClientConstants
  <1>6. PuppetsTyped'
    BY <1>2, <1>4, <1>5, MovesOnlyPlaces DEF Typed, TypeOK, PuppetsTyped, NextEntityID
  <1>7. SessionTyped'
    BY <1>1, OutgoingTyped
       DEF TrackAndInterpolate, connecting, menu, session, server, Typed, TypeOK, SessionTyped
  <1> QED  BY <1>6, <1>7, TypedParts

LEMMA CallbacksTyped ==
    ASSUME Typed, RunCallbacks
    PROVE  Typed'
  <1>1. PuppetsTyped'
    BY PuppetsStayTyped DEF RunCallbacks
  <1>2. statusChanges' \in Seq({"connecting", "connected", "closed"})
    <2>1. statusChanges \in Seq({"connecting", "connected", "closed"})
      BY DEF Typed, TypeOK
    <2>2. \/ UNCHANGED statusChanges
          \/ statusChanges # <<>> /\ statusChanges' = Tail(statusChanges)
      BY DEF RunCallbacks
    <2> QED  BY <2>1, <2>2, HeadTailProperties
  <1>3. /\ FullyConnected' \in BOOLEAN
        /\ outgoing' \in {<<>>, <<"InitAuth">>}
        /\ phase' \in {"callbacks", "game"}
    BY DEF RunCallbacks, ConnectionStatusChangedCallback, EnqueueMessage, Typed, TypeOK
  <1>4. SessionTyped'
    BY <1>2, <1>3, OutgoingTyped DEF RunCallbacks, connecting, menu, Typed, TypeOK, SessionTyped
  <1> QED  BY <1>1, <1>4, TypedParts

LEMMA UpdatesTyped ==
    ASSUME Typed, FirstUpdate \/ IdleUpdate \/ NextFrame
    PROVE  Typed'
  <1>1. PuppetsTyped'
    BY PuppetsStayTyped DEF FirstUpdate, IdleUpdate, NextFrame
  <1>2. CASE FirstUpdate
    <2>1. statusChanges' \in Seq({"connecting", "connected", "closed"})
      <3>1. <<"connecting">> \in Seq({"connecting", "connected", "closed"})
        OBVIOUS
      <3> QED  BY <1>2, <3>1 DEF FirstUpdate, ConnectToServer, Typed, TypeOK
    <2>2. SessionTyped'
      BY <1>2, <2>1, OutgoingTyped
         DEF FirstUpdate, ConnectToServer, session, menu, server, Typed, TypeOK, SessionTyped
    <2> QED  BY <1>1, <2>2, TypedParts
  <1>3. CASE IdleUpdate \/ NextFrame
    <2>1. SessionTyped'
      BY <1>3, OutgoingTyped
         DEF IdleUpdate, NextFrame, connecting, menu, session, server, Typed, TypeOK, SessionTyped
    <2> QED  BY <1>1, <2>1, TypedParts
  <1> QED  BY <1>2, <1>3

LEMMA AttachTyped ==
    ASSUME Typed, NEW entityId \in DOMAIN entities, Attach(entityId)
    PROVE  Typed'
  <1>1. PICK place \in {Origin, entities[entityId].place} :
          entities' = [entities EXCEPT ![entityId].state = "attached",
                                       ![entityId].place = place]
    BY DEF Attach
  <1>2. place \in Int
    BY ClientConstants DEF Typed, TypeOK
  <1>3. /\ DOMAIN entities' = DOMAIN entities
        /\ entities' \in [DOMAIN entities' -> [state : {"pending", "attached", "deleted"},
                                               place : Int, id : NetworkedIds]]
    <2> DEFINE attached == [entities EXCEPT ![entityId].state = "attached"]
    <2>1. entities' = [attached EXCEPT ![entityId].place = place]
      BY <1>1
    <2>2. /\ DOMAIN attached = DOMAIN entities
          /\ attached \in [DOMAIN entities -> [state : {"pending", "attached", "deleted"},
                                               place : Int, id : NetworkedIds]]
      BY DEF Typed, TypeOK
    <2> HIDE DEF attached
    <2> QED  BY <1>2, <2>1, <2>2
  <1>4. PuppetsTyped'
    BY <1>3 DEF Attach, Typed, TypeOK, PuppetsTyped, NextEntityID
  <1>5. SessionTyped'
    BY OutgoingTyped DEF Attach, connecting, menu, session, server, Typed, TypeOK, SessionTyped
  <1> QED  BY <1>4, <1>5, TypedParts

LEMMA GameTyped ==
    ASSUME Typed, Game
    PROVE  Typed'
  <1>1. ASSUME NEW isPreGame, NEW savesCount, OnSavesForLoadReady(isPreGame, savesCount)
        PROVE  Typed'
    <2>1. PuppetsTyped'
      BY <1>1, PuppetsStayTyped DEF OnSavesForLoadReady
    <2>2. hasEnqueuedLoadLastCheckpoint' \in BOOLEAN
      BY <1>1, Zenon DEF OnSavesForLoadReady, EnqueueLoadLastCheckpoint, Typed, TypeOK
    <2>4. lists' \in 0 .. MaxLists
      BY <1>1, ClientConstants DEF OnSavesForLoadReady, Typed, TypeOK
    <2>3. SessionTyped'
      BY <1>1, <2>2, <2>4, OutgoingTyped
         DEF OnSavesForLoadReady, connecting, menu, server, Typed, TypeOK, SessionTyped
    <2> QED  BY <2>1, <2>3, TypedParts
  <1>3. ASSUME OnUninitialize
        PROVE  Typed'
    <2>1. PuppetsTyped'
      BY <1>3, PuppetsStayTyped DEF OnUninitialize
    <2>2. SessionTyped'
      BY <1>3, OutgoingTyped
         DEF OnUninitialize, connecting, menu, session, server, Typed, TypeOK, SessionTyped
    <2> QED  BY <2>1, <2>2, TypedParts
  <1>2. ASSUME NEW message \in {"PlayerJoinWorld"} \cup Actions, Report(message)
        PROVE  Typed'
    <2>1. PuppetsTyped'
      BY <1>2, PuppetsStayTyped DEF Report
    <2>2. SessionTyped'
      BY <1>2, OutgoingTyped
         DEF Report, EnqueueMessage, connecting, menu, session, server, Typed, TypeOK, SessionTyped
    <2> QED  BY <2>1, <2>2, TypedParts
  <1> QED  BY <1>1, <1>2, <1>3, UpdatesTyped, AttachTyped DEF Game, OnGameRestored, OnPlayerAction

LEMMA StepTyped ==
    ASSUME Typed, [Next]_vars
    PROVE  Typed'
  <1>1. CASE UNCHANGED vars
    <2>1. PuppetsTyped'
      BY <1>1, PuppetsStayTyped DEF vars
    <2>2. SessionTyped'
      BY <1>1 DEF vars, connecting, menu, session, server, Typed, TypeOK, SessionTyped
    <2> QED  BY <2>1, <2>2, TypedParts
  <1> QED  BY <1>1, UpdatesTyped, ReceiveTyped, TrackTyped, CallbacksTyped, GameTyped,
             NetworkTyped DEF Next, OnNetworkUpdate

(* Every id, EntityID and position the client keeps is one it was told or   *)
(* the game gave out, for any stream the server may send.                  *)
THEOREM TypeCorrect == Spec => []TypeOK
  <1>1. Init => Typed
    BY InitTyped
  <1>2. Typed /\ [Next]_vars => Typed'
    BY StepTyped
  <1>3. Typed => TypeOK
    BY DEF Typed
  <1> QED  BY <1>1, <1>2, <1>3, PTL DEF Spec

-----------------------------------------------------------------------------
(* Signing in. *)

(* The change to Connected comes once, and so does the greeting.           *)
Greeting ==
    /\ ~hasTriedToConnect => link = "none"
    /\ greetings \in {0, 1}
    /\ link \in {"none", "connecting"} => greetings = 0
    /\ \A k \in DOMAIN statusChanges : statusChanges[k] = "connected" =>
         /\ link \notin {"none", "connecting"}
         /\ greetings = 0
         /\ \A j \in DOMAIN statusChanges : statusChanges[j] = "connected" => j = k

AnswerAt(k) == inbox[k].type = "InitAuthResult"

(* The answer comes once: it is on its way or was received.                *)
Answering ==
    /\ \A k \in DOMAIN inbox : AnswerAt(k) =>
         /\ answered # "none"
         /\ inbox[k].result = answered
         /\ ~FullyConnected
         /\ loads = 0
         /\ \A j \in DOMAIN inbox : AnswerAt(j) => j = k
    /\ FullyConnected => answered = "Ok"
    /\ loads > 0 => answered = "Ok"

(* A list that came first has enqueued the loading, which the Ok then       *)
(* brings about.                                                           *)
Loading ==
    /\ lists \in Nat
    /\ loads \in 0 .. lists
    /\ hasEnqueuedLoadLastCheckpoint => lists > 0
    /\ lists > 0 /\ loads = 0 => hasEnqueuedLoadLastCheckpoint
    /\ lists > 0 /\ FullyConnected => loads > 0

SignsIn == Greeting /\ Answering /\ Loading

ListsSaves ==
    \E isPreGame \in BOOLEAN, savesCount \in {0, 1} : OnSavesForLoadReady(isPreGame, savesCount)

(* What the first message leaves behind.                                   *)
LEMMA TailOfSeq ==
    ASSUME NEW S, NEW seq \in Seq(S), seq # <<>>
    PROVE  /\ Head(seq) = seq[1] /\ 1 \in DOMAIN seq
           /\ Tail(seq) \in Seq(S)
           /\ \A k \in DOMAIN Tail(seq) :
                /\ k + 1 \in DOMAIN seq /\ k \in Nat \ {0}
                /\ Tail(seq)[k] = seq[k + 1]
  BY HeadTailProperties, EmptySeq

LEMMA AppendToSeq ==
    ASSUME NEW S, NEW seq \in Seq(S), NEW last \in S
    PROVE  /\ Append(seq, last) \in Seq(S)
           /\ DOMAIN Append(seq, last) = DOMAIN seq \cup {Len(seq) + 1}
           /\ Len(seq) + 1 \notin DOMAIN seq
           /\ \A k \in DOMAIN seq : Append(seq, last)[k] = seq[k]
           /\ Append(seq, last)[Len(seq) + 1] = last
  BY AppendProperties, LenProperties

LEMMA GreetingPreserved ==
    ASSUME Typed, Greeting, [Next]_vars
    PROVE  Greeting'
  <1> DEFINE States == {"connecting", "connected", "closed"}
  <1>0. statusChanges \in Seq(States)
    BY DEF Typed, TypeOK
  <1>1. CASE UNCHANGED <<hasTriedToConnect, greetings, link, statusChanges>>
    BY <1>1 DEF Greeting
  <1>2. CASE FirstUpdate
    <2>1. link = "none" /\ greetings = 0 /\ hasTriedToConnect' /\ UNCHANGED greetings
      BY <1>2 DEF FirstUpdate, Greeting, server
    <2>2. CASE link' = "connecting" /\ statusChanges' = <<"connecting">>
      BY <2>1, <2>2 DEF Greeting
    <2>3. CASE UNCHANGED <<link, statusChanges>>
      BY <2>1, <2>3 DEF Greeting
    <2> QED  BY <1>2, <2>2, <2>3 DEF FirstUpdate, ConnectToServer
  <1>3. CASE RunCallbacks /\ statusChanges # <<>>
    <2>1. /\ statusChanges' = Tail(statusChanges)
          /\ UNCHANGED <<link, hasTriedToConnect>>
          /\ IF Head(statusChanges) = "connected" THEN greetings' = greetings + 1
             ELSE UNCHANGED greetings
      BY <1>3 DEF RunCallbacks, ConnectionStatusChangedCallback, Greets, connecting
    <2>2. /\ Head(statusChanges) = statusChanges[1] /\ 1 \in DOMAIN statusChanges
          /\ \A k \in DOMAIN statusChanges' :
               /\ k + 1 \in DOMAIN statusChanges /\ k + 1 # 1
               /\ statusChanges'[k] = statusChanges[k + 1]
               /\ k \in Nat
      BY <1>0, <1>3, <2>1, TailOfSeq
    <2>3. ASSUME NEW k \in DOMAIN statusChanges', statusChanges'[k] = "connected"
          PROVE  /\ link' \notin {"none", "connecting"}
                 /\ greetings' = 0
                 /\ \A j \in DOMAIN statusChanges' : statusChanges'[j] = "connected" => j = k
      <3>1. statusChanges[k + 1] = "connected" /\ k + 1 \in DOMAIN statusChanges
        BY <2>2, <2>3
      <3>2. Head(statusChanges) # "connected"
        BY <2>2, <2>3, <3>1 DEF Greeting
      <3>3. \A j \in DOMAIN statusChanges' : statusChanges'[j] = "connected" => j + 1 = k + 1
        BY <2>2, <3>1 DEF Greeting
      <3> QED  BY <2>1, <2>2, <3>1, <3>2, <3>3 DEF Greeting
    <2>4. greetings' \in {0, 1} /\ (link' \in {"none", "connecting"} => greetings' = 0)
      BY <2>1, <2>2 DEF Greeting
    <2> QED  BY <2>1, <2>3, <2>4 DEF Greeting
  <1>4. ASSUME NEW to \in {"connected", "closed"},
               Link({"connecting"}, to) \/ Link({"connecting", "connected"}, to),
               to = "connected" => link = "connecting"
        PROVE  Greeting'
    <2>1. /\ link' = to /\ statusChanges' = Append(statusChanges, to)
          /\ link \in {"connecting", "connected"}
          /\ UNCHANGED <<hasTriedToConnect, greetings>>
      BY <1>4 DEF Link, connecting, menu, server
    <2>2. /\ DOMAIN statusChanges' = DOMAIN statusChanges \cup {Len(statusChanges) + 1}
          /\ Len(statusChanges) + 1 \notin DOMAIN statusChanges
          /\ \A k \in DOMAIN statusChanges : statusChanges'[k] = statusChanges[k]
          /\ statusChanges'[Len(statusChanges) + 1] = to
      BY <1>0, <2>1, AppendToSeq
    <2>3. CASE to = "connected"
      <3>1. link = "connecting" /\ greetings = 0
        BY <1>4, <2>3 DEF Greeting
      <3>2. \A k \in DOMAIN statusChanges : statusChanges[k] # "connected"
        BY <3>1 DEF Greeting
      <3> QED  BY <2>1, <2>2, <2>3, <3>1, <3>2 DEF Greeting
    <2>4. CASE to = "closed"
      BY <2>1, <2>2, <2>4 DEF Greeting
    <2> QED  BY <2>3, <2>4
  <1>5. CASE RunCallbacks /\ statusChanges = <<>>
    BY <1>1, <1>5 DEF RunCallbacks, connecting
  <1>6. CASE Network
    <2>1. ASSUME NEW from, NEW to, Link(from, to)
          PROVE  link \in from
      BY <2>1 DEF Link
    <2> QED  BY <1>1, <1>4, <1>6, <2>1 DEF Network, Answer, TellDestroy, TellSpawn, TellTeleport,
                                          Tell, connecting
  <1>7. CASE Game
    BY <1>1, <1>7 DEF Game, NextFrame, Attach, OnSavesForLoadReady, OnUninitialize,
                      OnGameRestored, OnPlayerAction, Report, connecting, menu, server
  <1>8. CASE IdleUpdate \/ ReceiveMessage
             \/ \E deltaTime \in DeltaTimes : TrackAndInterpolate(deltaTime)
    BY <1>1, <1>8 DEF IdleUpdate, ReceiveMessage, TrackAndInterpolate, connecting, menu, server
  <1>9. CASE UNCHANGED vars
    BY <1>1, <1>9 DEF vars, connecting, menu, server
  <1> QED  BY <1>2, <1>3, <1>5, <1>6, <1>7, <1>8, <1>9 DEF Next, OnNetworkUpdate

LEMMA AnsweringPreserved ==
    ASSUME Typed, Greeting, Answering, Loading, [Next]_vars
    PROVE  Answering' /\ Loading'
  <1>0. inbox \in Seq(Messages)
    BY DEF Typed, TypeOK
  <1>1. CASE UNCHANGED <<inbox, answered, FullyConnected, loads, lists,
                         hasEnqueuedLoadLastCheckpoint>>
    BY <1>1 DEF Answering, AnswerAt, Loading
  <1>2. CASE ReceiveMessage
    <2> DEFINE message == Head(inbox)
    <2>1. /\ message = inbox[1] /\ 1 \in DOMAIN inbox
          /\ \A k \in DOMAIN inbox' :
               /\ k + 1 \in DOMAIN inbox /\ k + 1 # 1
               /\ inbox'[k] = inbox[k + 1]
               /\ k \in Nat
      BY <1>0, <1>2, TailOfSeq DEF ReceiveMessage
    <2> HIDE DEF message
    <2>2. UNCHANGED <<answered, lists, hasEnqueuedLoadLastCheckpoint>>
          /\ \/ UNCHANGED <<FullyConnected, loads>>
             \/ /\ message.type = "InitAuthResult" /\ message.result = "Ok"
                /\ FullyConnected' = TRUE
                /\ IF hasEnqueuedLoadLastCheckpoint THEN loads' = loads + 1 ELSE UNCHANGED loads
      BY <1>2 DEF ReceiveMessage, AuthResult, LoadLastCheckpoint, Spawn, TeleportEntity, Destroy,
                  session, menu, server, message
    <2>3. CASE UNCHANGED <<FullyConnected, loads>>
      <3>1. ASSUME NEW k \in DOMAIN inbox', AnswerAt(k)'
            PROVE  /\ answered' # "none" /\ inbox'[k].result = answered'
                   /\ ~FullyConnected' /\ loads' = 0
                   /\ \A j \in DOMAIN inbox' : AnswerAt(j)' => j = k
        <4>1. AnswerAt(k + 1) /\ k + 1 \in DOMAIN inbox /\ inbox'[k] = inbox[k + 1]
          BY <2>1, <3>1 DEF AnswerAt
        <4>2. \A j \in DOMAIN inbox' : AnswerAt(j)' => j + 1 = k + 1
          BY <2>1, <4>1 DEF AnswerAt, Answering
        <4> QED  BY <2>1, <2>2, <2>3, <4>1, <4>2 DEF Answering
      <3> QED  BY <2>2, <2>3, <3>1 DEF Answering, Loading
    <2>4. CASE /\ message.type = "InitAuthResult" /\ message.result = "Ok"
               /\ FullyConnected' = TRUE
               /\ IF hasEnqueuedLoadLastCheckpoint THEN loads' = loads + 1 ELSE UNCHANGED loads
      <3>1. /\ AnswerAt(1)
            /\ answered = "Ok" /\ ~FullyConnected /\ loads = 0
            /\ \A j \in DOMAIN inbox : AnswerAt(j) => j = 1
        BY <2>1, <2>4 DEF AnswerAt, Answering
      <3>2. \A k \in DOMAIN inbox' : ~AnswerAt(k)'
        BY <2>1, <3>1 DEF AnswerAt
      <3>3. Answering'
        BY <2>2, <2>4, <3>1, <3>2 DEF Answering
      <3>4. Loading'
        BY <2>2, <2>4, <3>1 DEF Loading, Typed, TypeOK
      <3> QED  BY <3>3, <3>4
    <2> QED  BY <2>2, <2>3, <2>4
  <1>3. ASSUME NEW message \in Messages, Tell(message),
               \/ message.type # "InitAuthResult" /\ UNCHANGED answered
               \/ /\ message.type = "InitAuthResult" /\ message.result # "none"
                  /\ answered = "none" /\ answered' = message.result
        PROVE  Answering' /\ Loading'
    <2>1. /\ inbox' = Append(inbox, message)
          /\ UNCHANGED <<FullyConnected, loads, lists, hasEnqueuedLoadLastCheckpoint>>
      BY <1>3 DEF Tell, session, menu
    <2>2. /\ DOMAIN inbox' = DOMAIN inbox \cup {Len(inbox) + 1}
          /\ Len(inbox) + 1 \notin DOMAIN inbox
          /\ \A k \in DOMAIN inbox : inbox'[k] = inbox[k]
          /\ inbox'[Len(inbox) + 1] = message
      BY <1>0, <2>1, AppendToSeq
    <2>3. Answering'
      BY <1>3, <2>1, <2>2 DEF Answering, AnswerAt, Loading
    <2> QED  BY <2>1, <2>3 DEF Loading
  <1>4. CASE Network
    <2>1. ASSUME NEW from, NEW to, Link(from, to)
          PROVE  Answering' /\ Loading'
      BY <1>1, <2>1 DEF Link, session, menu, server
    <2>2. ASSUME NEW result \in {"Ok", "VersionMismatch"}, Answer(result)
          PROVE  Answering' /\ Loading'
      <3>1. [type |-> "InitAuthResult", result |-> result] \in Messages
        BY DEF Messages
      <3> QED  BY <1>3, <2>2, <3>1 DEF Answer
    <2>3. ASSUME NEW id \in NetworkedIds, TellDestroy(id)
          PROVE  Answering' /\ Loading'
      <3>1. [type |-> "DestroyEntity", id |-> id] \in Messages
        BY DEF Messages
      <3> QED  BY <1>3, <2>3, <3>1 DEF TellDestroy
    <2>4. ASSUME NEW id \in NetworkedIds, NEW place \in Places,
                 TellSpawn(id, place) \/ TellTeleport(id, place)
          PROVE  Answering' /\ Loading'
      <3>1. /\ [type |-> "SpawnEntity", id |-> id, pos |-> place] \in Messages
            /\ [type |-> "TeleportEntity", id |-> id, pos |-> place] \in Messages
        BY DEF Messages
      <3>2. CASE TellSpawn(id, place)
        BY <1>3, <3>1, <3>2 DEF TellSpawn
      <3>3. CASE TellTeleport(id, place)
        BY <1>3, <3>1, <3>3 DEF TellTeleport
      <3> QED  BY <2>4, <3>2, <3>3
    <2> QED  BY <1>4, <2>1, <2>2, <2>3, <2>4 DEF Network
  <1>5. CASE RunCallbacks
    <2>1. /\ UNCHANGED <<inbox, answered, loads, lists, hasEnqueuedLoadLastCheckpoint>>
          /\ UNCHANGED FullyConnected \/ FullyConnected' = FALSE
      BY <1>5 DEF RunCallbacks, ConnectionStatusChangedCallback, menu, server
    <2> QED  BY <2>1 DEF Answering, AnswerAt, Loading
  <1>6. CASE ListsSaves
    <2>1. UNCHANGED <<inbox, answered, FullyConnected>>
      BY <1>6 DEF ListsSaves, OnSavesForLoadReady, server
    <2>2. CASE UNCHANGED <<hasEnqueuedLoadLastCheckpoint, loads, lists>>
      BY <2>1, <2>2 DEF Answering, AnswerAt, Loading
    <2>3. CASE /\ lists' = lists + 1
               /\ \/ FullyConnected /\ loads' = loads + 1 /\ UNCHANGED hasEnqueuedLoadLastCheckpoint
                  \/ ~FullyConnected /\ hasEnqueuedLoadLastCheckpoint' /\ UNCHANGED loads
      BY <2>1, <2>3 DEF Answering, AnswerAt, Loading
    <2> QED  BY <1>6, <2>2, <2>3
             DEF ListsSaves, OnSavesForLoadReady, LoadLastCheckpoint, EnqueueLoadLastCheckpoint
  <1>7. CASE FirstUpdate \/ IdleUpdate \/ NextFrame
             \/ \E deltaTime \in DeltaTimes : TrackAndInterpolate(deltaTime)
    BY <1>1, <1>7 DEF FirstUpdate, IdleUpdate, NextFrame, TrackAndInterpolate, session, menu, server
  <1>8. CASE Game /\ ~ListsSaves
    BY <1>1, <1>7, <1>8
       DEF Game, ListsSaves, Attach, OnUninitialize, OnGameRestored, OnPlayerAction, Report,
           session, menu, server
  <1>9. CASE UNCHANGED vars
    BY <1>1, <1>9 DEF vars, session, menu, server
  <1> QED  BY <1>2, <1>4, <1>5, <1>6, <1>7, <1>8, <1>9 DEF Next, OnNetworkUpdate

LEMMA SignsInAlways == Spec => [](Typed /\ SignsIn)
  <1>1. ASSUME Init
        PROVE  Typed /\ SignsIn
    <2>1. Typed
      BY <1>1, InitTyped
    <2>2. DOMAIN inbox = {} /\ DOMAIN statusChanges = {}
      BY <1>1 DEF Init
    <2> QED  BY <1>1, <2>1, <2>2 DEF Init, SignsIn, Greeting, Answering, Loading
  <1>2. Typed /\ SignsIn /\ [Next]_vars => (Typed /\ SignsIn)'
    BY StepTyped, GreetingPreserved, AnsweringPreserved DEF SignsIn
  <1> QED  BY <1>1, <1>2, PTL DEF Spec

(* One connection is greeted once at most and is fully connected only after *)
(* the server's Ok, however late the changes of the link are reported.     *)
THEOREM GreetedOnce == Spec => []GreetsOnce
  <1>1. SignsIn => GreetsOnce
    BY DEF SignsIn, Greeting, Answering, GreetsOnce
  <1> QED  BY <1>1, SignsInAlways, PTL

(* However often the main menu lists the savegames, before the answer and   *)
(* after it, and whatever becomes of the connection: there is a loading for *)
(* a list and the Ok, none without, and no more than were asked for.       *)
THEOREM ListAndOkMeet == Spec => []ListAndOkLoad
  <1>1. SignsIn => ListAndOkLoad
    BY DEF SignsIn, Answering, Loading, ListAndOkLoad
  <1> QED  BY <1>1, SignsInAlways, PTL

-----------------------------------------------------------------------------
(* The puppets.  The client is behind the server by the messages it has yet *)
(* to receive: between what the server has told and what the client knows   *)
(* lies one stage per message.                                             *)

(* What a message makes of where the client was told entities are.         *)
Says(before, message, after) ==
    \/ /\ message.type = "InitAuthResult"
       /\ after = before
    \/ /\ message.type = "SpawnEntity"
       /\ message.id \notin DOMAIN before
       /\ after = [i \in DOMAIN before \cup {message.id} |->
                      IF i = message.id THEN message.pos ELSE before[i]]
    \/ /\ message.type = "TeleportEntity"
       /\ message.id \in DOMAIN before
       /\ after = [before EXCEPT ![message.id] = message.pos]
    \/ /\ message.type = "DestroyEntity"
       /\ message.id \in DOMAIN before
       /\ after = Restrict(before, DOMAIN before \ {message.id})

Retells(stages) ==
    /\ DOMAIN stages = 1 .. Len(inbox) + 1
    /\ stages[Len(inbox) + 1] = told
    /\ \A k \in DOMAIN inbox : Says(stages[k], inbox[k], stages[k + 1])

(* The puppets of a client that was told what it has received: the table    *)
(* finds the one live puppet of every entity in sight, or a dead one of     *)
(* earlier times, which no spawn replaces; ids leak of the dead only.       *)
Mirrors(seen) ==
    /\ \A e \in DOMAIN entities :
         /\ entities[e].id \in DOMAIN networkedEntitiesLookup
         /\ Current(e) => /\ entities[e].id \in DOMAIN seen
                          /\ networkedEntitiesLookup[entities[e].id] = e
    /\ \A id \in DOMAIN networkedEntitiesLookup :
         entities[networkedEntitiesLookup[id]].id = id
    /\ DOMAIN seen \subseteq DOMAIN networkedEntitiesLookup
    /\ DOMAIN entities \subseteq EntityIDs
    /\ OnlyRespawnsLeak

(* A puppet on its way keeps the last word on where to, and never passes    *)
(* the origin, where a teleport would be taken for its first.               *)
Away(place) ==
    IF \E p \in Places : p > Origin THEN place > Origin ELSE place < Origin

Heads(seen) ==
    /\ \A id \in DOMAIN seen \cap DOMAIN networkedEntitiesLookup :
         LET e == networkedEntitiesLookup[id]
         IN  Exists(e) =>
                 \/ e \in DOMAIN interpolationData /\ interpolationData[e].target = seen[id]
                 \/ /\ e \notin DOMAIN interpolationData
                    /\ e \in lastTeleportCommand => entities[e].place = seen[id]
    /\ \A e \in DOMAIN entities :
         /\ entities[e].place = Origin \/ Away(entities[e].place)
         /\ entities[e].state = "pending" =>
                e \notin DOMAIN interpolationData \cup lastTeleportCommand
    /\ \A e \in DOMAIN interpolationData :
         Away(interpolationData[e].source) /\ Away(entities[e].place)

(* No EntityID is a networked id: Destroy takes the one for the other.      *)
DistinctIds == NetworkedIds \cap EntityIDs = {}

(* All places lie on one side of the origin, so that no way leads through   *)
(* it.                                                                      *)
OneSide == (\A p \in Places : p > Origin) \/ (\A p \in Places : p < Origin)

Lagging ==
    \E stages : /\ Retells(stages)
                /\ Mirrors(stages[1])
                /\ OneSide => Heads(stages[1])

LEMMA AwayFacts ==
    ASSUME OneSide
    PROVE  /\ \A place \in Places : Away(place)
           /\ ~Away(Origin)
           /\ \A from \in Int, to \in Int, elapsed \in Nat :
                Away(from) /\ Away(to) => Away(LerpLocal(from, to, elapsed))
  <1>1. Origin \in Int /\ Places \subseteq Int
    BY ClientConstants
  <1>2. ASSUME NEW from \in Int, NEW to \in Int, NEW elapsed \in Nat,
               Away(from), Away(to)
        PROVE  Away(LerpLocal(from, to, elapsed))
    <2>1. /\ LerpLocal(from, to, elapsed) \in Int
          /\ from <= to => LerpLocal(from, to, elapsed) \in from .. to
          /\ to <= from => LerpLocal(from, to, elapsed) \in to .. from
      BY LerpStaysBetween
    <2>2. CASE \E p \in Places : p > Origin
      BY <1>1, <1>2, <2>1, <2>2 DEF Away
    <2>3. CASE ~\E p \in Places : p > Origin
      BY <1>1, <1>2, <2>1, <2>3 DEF Away
    <2> QED  BY <2>2, <2>3
  <1>3. \A place \in Places : Away(place)
    BY <1>1 DEF Away, OneSide
  <1>4. ~Away(Origin)
    BY <1>1 DEF Away
  <1> QED  BY <1>2, <1>3, <1>4

(* What a message brings, received by a client that knew everything before. *)
LEMMA SpawnFollows ==
    ASSUME Typed, NEW before, Mirrors(before), NEW after,
           NEW id \in NetworkedIds, NEW place \in Places, Spawn(id, place),
           id \notin DOMAIN before,
           after = [i \in DOMAIN before \cup {id} |-> IF i = id THEN place ELSE before[i]]
    PROVE  /\ Mirrors(after)'
           /\ OneSide /\ Heads(before) => Heads(after)'
  <1>0. /\ networkedEntitiesLookup \in [DOMAIN networkedEntitiesLookup -> DOMAIN entities]
        /\ DOMAIN interpolationData \cup lastTeleportCommand \subseteq DOMAIN entities
    BY DEF Typed, TypeOK
  <1>1. UNCHANGED <<interpolationData, lastTeleportCommand>>
    BY DEF Spawn
  <1>2. CASE /\ id \in DOMAIN networkedEntitiesLookup
             /\ ContinueWithMessage(id)
             /\ UNCHANGED <<entities, networkedEntitiesLookup>>
    <2>1. ~Current(networkedEntitiesLookup[id])
      BY <1>0, <1>2 DEF Mirrors
    <2>2. OnlyRespawnsLeak'
      BY <1>0, <1>2, <2>1 DEF Mirrors, OnlyRespawnsLeak, ContinueWithMessage, Current
    <2>3. Mirrors(after)'
      BY <1>2, <2>2 DEF Mirrors, Current
    <2>4. ~Exists(networkedEntitiesLookup[id])
      BY <2>1 DEF Exists, Current
    <2>5. Heads(before) => Heads(after)'
      BY <1>1, <1>2, <2>4 DEF Heads, Exists
    <2> QED  BY <2>3, <2>5
  <1>3. CASE /\ id \notin DOMAIN networkedEntitiesLookup
             /\ CreateEntity(id, place)
             /\ Insert(id)
             /\ UNCHANGED leaked
    <2> DEFINE new == NextEntityID
    <2>1. new \notin DOMAIN entities /\ new \in EntityIDs
      BY <1>3, CreateCounts
    <2> HIDE DEF new
    <2>2. /\ DOMAIN entities' = DOMAIN entities \cup {new}
          /\ entities'[new] = [state |-> "pending", place |-> place, id |-> id]
          /\ \A e \in DOMAIN entities : entities'[e] = entities[e]
      BY <1>3, <2>1 DEF CreateEntity, new
    <2>3. /\ DOMAIN networkedEntitiesLookup' = DOMAIN networkedEntitiesLookup \cup {id}
          /\ networkedEntitiesLookup'[id] = new
          /\ \A i \in DOMAIN networkedEntitiesLookup :
               networkedEntitiesLookup'[i] = networkedEntitiesLookup[i]
      BY <1>3 DEF Insert, new
    <2>4. OnlyRespawnsLeak'
      BY <1>3, <2>2 DEF Mirrors, OnlyRespawnsLeak, Current
    <2>5. Mirrors(after)'
      BY <1>0, <1>3, <2>1, <2>2, <2>3, <2>4 DEF Mirrors, Current
    <2>6. ASSUME OneSide, Heads(before)
          PROVE  Heads(after)'
      <3>1. Away(place)
        BY <2>6, AwayFacts
      <3>2. ASSUME NEW e \in DOMAIN entities'
            PROVE  /\ entities'[e].place = Origin \/ Away(entities'[e].place)
                   /\ entities'[e].state = "pending" =>
                         e \notin DOMAIN interpolationData \cup lastTeleportCommand
        BY <1>0, <2>1, <2>2, <2>6, <3>1 DEF Heads
      <3>3. ASSUME NEW e \in DOMAIN interpolationData
            PROVE  Away(interpolationData[e].source) /\ Away(entities'[e].place)
        BY <1>0, <2>2, <2>6 DEF Heads
      <3>4. ASSUME NEW i \in DOMAIN after \cap DOMAIN networkedEntitiesLookup',
                   Exists(networkedEntitiesLookup[i])'
            PROVE  LET e == networkedEntitiesLookup'[i]
                   IN  \/ e \in DOMAIN interpolationData /\ interpolationData[e].target = after[i]
                       \/ /\ e \notin DOMAIN interpolationData
                          /\ e \in lastTeleportCommand => entities'[e].place = after[i]
        <4>1. i # id
          BY <2>2, <2>3, <3>4 DEF Exists
        <4>2. /\ i \in DOMAIN before \cap DOMAIN networkedEntitiesLookup
              /\ after[i] = before[i]
              /\ networkedEntitiesLookup'[i] = networkedEntitiesLookup[i]
              /\ networkedEntitiesLookup[i] \in DOMAIN entities
          BY <1>0, <2>3, <3>4, <4>1
        <4>3. Exists(networkedEntitiesLookup[i])
          BY <2>2, <3>4, <4>2 DEF Exists
        <4> QED  BY <2>2, <2>6, <4>2, <4>3 DEF Heads
      <3> QED  BY <1>1, <3>2, <3>3, <3>4 DEF Heads
    <2> QED  BY <2>5, <2>6
  <1> QED  BY <1>2, <1>3 DEF Spawn

LEMMA DestroyFollows ==
    ASSUME DistinctIds, Typed, NEW before, Mirrors(before), NEW after,
           NEW id \in NetworkedIds, Destroy(id), id \in DOMAIN before,
           after = Restrict(before, DOMAIN before \ {id})
    PROVE  /\ Mirrors(after)'
           /\ Heads(before) => Heads(after)'
  <1>1. PICK gone : gone = networkedEntitiesLookup[id]
    OBVIOUS
  <1>2. /\ networkedEntitiesLookup \in [DOMAIN networkedEntitiesLookup -> DOMAIN entities]
        /\ DOMAIN networkedEntitiesLookup \subseteq NetworkedIds
        /\ DOMAIN entities \subseteq EntityIDs
        /\ \A e \in DOMAIN entities : entities[e] \in
              [state : {"pending", "attached", "deleted"}, place : Int, id : NetworkedIds]
    BY DEF Typed, TypeOK, Mirrors
  <1>3. /\ id \in DOMAIN networkedEntitiesLookup
        /\ gone \in DOMAIN entities
        /\ entities[gone].id = id
    BY <1>2, <1>1 DEF Mirrors
  <1>4. /\ entities' = [entities EXCEPT ![gone].state = "deleted"]
        /\ networkedEntitiesLookup' =
              Restrict(networkedEntitiesLookup, DOMAIN networkedEntitiesLookup \ {gone})
        /\ UNCHANGED <<leaked, interpolationData, lastTeleportCommand>>
    BY <1>1, <1>3 DEF Destroy
  <1>5. DOMAIN networkedEntitiesLookup \ {gone} = DOMAIN networkedEntitiesLookup
    BY <1>2, <1>3 DEF DistinctIds
  <1>6. UNCHANGED networkedEntitiesLookup
    BY <1>2, <1>4, <1>5 DEF Restrict
  <1>7. /\ DOMAIN entities' = DOMAIN entities
        /\ entities'[gone].state = "deleted"
        /\ \A e \in DOMAIN entities :
             /\ entities'[e].id = entities[e].id
             /\ entities'[e].place = entities[e].place
             /\ e # gone => entities'[e].state = entities[e].state
    BY <1>2, <1>4, <1>3
  <1>8. /\ DOMAIN after = DOMAIN before \ {id}
        /\ \A i \in DOMAIN after : after[i] = before[i]
    BY DEF Restrict
  <1>9. OnlyRespawnsLeak'
    BY <1>4, <1>7 DEF Mirrors, OnlyRespawnsLeak, Current
  <1>10. ASSUME NEW e \in DOMAIN entities', Current(e)'
        PROVE  /\ entities'[e].id \in DOMAIN after
               /\ networkedEntitiesLookup[entities'[e].id] = e
    <2>1. e # gone /\ Current(e)
      BY <1>7, <1>10 DEF Current
    <2>2. entities[e].id # id
      BY <1>1, <1>7, <1>10, <2>1 DEF Mirrors
    <2> QED  BY <1>7, <1>8, <1>10, <2>1, <2>2 DEF Mirrors
  <1>11. Mirrors(after)'
    BY <1>2, <1>6, <1>7, <1>8, <1>9, <1>10 DEF Mirrors
  <1>12. \A e : Exists(e)' => Exists(e)
    BY <1>7 DEF Exists
  <1>13. ASSUME Heads(before), NEW e \in DOMAIN entities'
         PROVE  /\ entities'[e].place = Origin \/ Away(entities'[e].place)
                /\ entities'[e].state = "pending" =>
                      e \notin DOMAIN interpolationData \cup lastTeleportCommand
    BY <1>7, <1>13 DEF Heads
  <1>14. ASSUME Heads(before), NEW e \in DOMAIN interpolationData
         PROVE  Away(interpolationData[e].source) /\ Away(entities'[e].place)
    BY <1>7, <1>14 DEF Heads, Typed, TypeOK
  <1>15. ASSUME Heads(before),
                NEW i \in DOMAIN after \cap DOMAIN networkedEntitiesLookup,
                Exists(networkedEntitiesLookup[i])'
         PROVE  LET e == networkedEntitiesLookup[i]
                IN  \/ e \in DOMAIN interpolationData /\ interpolationData[e].target = after[i]
                    \/ /\ e \notin DOMAIN interpolationData
                       /\ e \in lastTeleportCommand => entities'[e].place = after[i]
    BY <1>2, <1>6, <1>7, <1>8, <1>12, <1>15 DEF Heads
  <1> QED  BY <1>4, <1>6, <1>11, <1>13, <1>14, <1>15 DEF Heads

LEMMA TeleportFollows ==
    ASSUME Typed, NEW before, Mirrors(before), NEW after,
           NEW id \in NetworkedIds, NEW place \in Places, TeleportEntity(id, place),
           id \in DOMAIN before,
           after = [before EXCEPT ![id] = place]
    PROVE  /\ Mirrors(after)'
           /\ OneSide /\ Heads(before) => Heads(after)'
  <1>1. PICK e : e = networkedEntitiesLookup[id]
    OBVIOUS
  <1>2. /\ networkedEntitiesLookup \in [DOMAIN networkedEntitiesLookup -> DOMAIN entities]
        /\ DOMAIN interpolationData \cup lastTeleportCommand \subseteq DOMAIN entities
        /\ id \in DOMAIN networkedEntitiesLookup
        /\ e \in DOMAIN entities
        /\ \A i \in DOMAIN networkedEntitiesLookup : networkedEntitiesLookup[i] = e => i = id
    BY <1>1 DEF Typed, TypeOK, Mirrors
  <1>3. /\ DOMAIN after = DOMAIN before
        /\ after[id] = place
        /\ \A i \in DOMAIN before : i # id => after[i] = before[i]
    OBVIOUS
  <1>4. UNCHANGED <<networkedEntitiesLookup, leaked>>
    BY <1>1 DEF TeleportEntity, puppets
  <1>5. CASE ~Exists(e) /\ UNCHANGED puppets
    <2>1. /\ UNCHANGED <<entities, interpolationData, lastTeleportCommand>>
          /\ ~Exists(networkedEntitiesLookup[id])
      BY <1>1, <1>5 DEF puppets
    <2>2. OnlyRespawnsLeak'
      BY <1>4, <2>1 DEF Mirrors, OnlyRespawnsLeak, Current
    <2>3. Mirrors(after)'
      BY <1>3, <1>4, <2>1, <2>2 DEF Mirrors, Current
    <2>4. ASSUME Heads(before) PROVE Heads(after)'
      <3>1. ASSUME NEW i \in DOMAIN after \cap DOMAIN networkedEntitiesLookup,
                   Exists(networkedEntitiesLookup[i])
            PROVE  i # id /\ after[i] = before[i]
        BY <1>3, <2>1, <3>1
      <3> QED  BY <1>3, <1>4, <2>1, <2>4, <3>1 DEF Heads, Exists
    <2> QED  BY <2>3, <2>4
  <1>6. CASE /\ Exists(e)
             /\ entities[e].place = Origin
             /\ SetEntityPosition({e}, [x \in {e} |-> place])
             /\ UNCHANGED interpolationData
    <2>1. \A x \in {e} : [y \in {e} |-> place][x] = place /\ place \in Int
      BY ClientConstants
    <2>2. /\ DOMAIN entities' = DOMAIN entities
          /\ \A x \in DOMAIN entities :
               /\ entities'[x].state = entities[x].state
               /\ entities'[x].id = entities[x].id
               /\ x = e => entities'[x].place = place
               /\ x # e => entities'[x].place = entities[x].place
          /\ lastTeleportCommand' = lastTeleportCommand \cup {e}
      BY <1>6, <2>1, MovesOnlyPlaces
    <2>3. OnlyRespawnsLeak'
      BY <1>4, <2>2 DEF Mirrors, OnlyRespawnsLeak, Current
    <2>4. Mirrors(after)'
      <3>1. \A x \in DOMAIN entities :
              /\ entities'[x].id \in DOMAIN networkedEntitiesLookup
              /\ Current(x)' => /\ entities'[x].id \in DOMAIN after
                                /\ networkedEntitiesLookup[entities'[x].id] = x
        BY <1>3, <2>2 DEF Mirrors, Current
      <3>2. \A i \in DOMAIN networkedEntitiesLookup :
              entities'[networkedEntitiesLookup[i]].id = i
        BY <1>2, <2>2 DEF Mirrors
      <3> QED  BY <1>3, <1>4, <2>2, <2>3, <3>1, <3>2 DEF Mirrors
    <2>5. ASSUME OneSide, Heads(before) PROVE Heads(after)'
      <3>1. Away(place) /\ ~Away(Origin)
        BY <2>5, AwayFacts
      <3>2. e \notin DOMAIN interpolationData
        BY <1>6, <2>5, <3>1 DEF Heads
      <3>3. ASSUME NEW i \in DOMAIN after \cap DOMAIN networkedEntitiesLookup,
                   Exists(networkedEntitiesLookup[i])'
            PROVE  LET x == networkedEntitiesLookup[i]
                   IN  \/ x \in DOMAIN interpolationData /\ interpolationData[x].target = after[i]
                       \/ /\ x \notin DOMAIN interpolationData
                          /\ x \in lastTeleportCommand' => entities'[x].place = after[i]
        <4>1. CASE i = id
          BY <1>1, <1>2, <1>3, <2>2, <3>2, <4>1
        <4>2. CASE i # id
          <5>1. networkedEntitiesLookup[i] # e /\ Exists(networkedEntitiesLookup[i])
            BY <1>2, <1>4, <2>2, <3>3, <4>2 DEF Exists
          <5> QED  BY <1>2, <1>3, <2>2, <2>5, <3>3, <4>2, <5>1 DEF Heads
        <4> QED  BY <4>1, <4>2
      <3>4. \A x \in DOMAIN entities :
              /\ entities'[x].place = Origin \/ Away(entities'[x].place)
              /\ entities'[x].state = "pending" =>
                    x \notin DOMAIN interpolationData \cup lastTeleportCommand'
        BY <1>6, <2>2, <2>5, <3>1 DEF Heads, Exists
      <3>5. \A x \in DOMAIN interpolationData :
              Away(interpolationData[x].source) /\ Away(entities'[x].place)
        BY <1>2, <2>2, <2>5, <3>2 DEF Heads
      <3> QED  BY <1>4, <1>6, <2>2, <3>3, <3>4, <3>5 DEF Heads
    <2> QED  BY <2>4, <2>5
  <1>7. CASE /\ Exists(e)
             /\ entities[e].place # Origin
             /\ NewInterpolation(e, place)
             /\ UNCHANGED <<entities, lastTeleportCommand>>
    <2>1. /\ DOMAIN interpolationData' = DOMAIN interpolationData \cup {e}
          /\ interpolationData'[e].target = place
          /\ interpolationData'[e].source = entities[e].place
          /\ \A x \in DOMAIN interpolationData :
               x # e => interpolationData'[x] = interpolationData[x]
      BY <1>7 DEF NewInterpolation
    <2>2. OnlyRespawnsLeak'
      BY <1>4, <1>7 DEF Mirrors, OnlyRespawnsLeak, Current
    <2>3. Mirrors(after)'
      BY <1>3, <1>4, <1>7, <2>2 DEF Mirrors, Current
    <2>4. ASSUME OneSide, Heads(before) PROVE Heads(after)'
      <3>1. ASSUME NEW i \in DOMAIN after \cap DOMAIN networkedEntitiesLookup,
                   Exists(networkedEntitiesLookup[i])
            PROVE  LET x == networkedEntitiesLookup[i]
                   IN  \/ /\ x \in DOMAIN interpolationData'
                          /\ interpolationData'[x].target = after[i]
                       \/ /\ x \notin DOMAIN interpolationData'
                          /\ x \in lastTeleportCommand => entities[x].place = after[i]
        <4>1. CASE i = id
          BY <1>1, <1>3, <2>1, <4>1
        <4>2. CASE i # id
          <5>1. networkedEntitiesLookup[i] # e
            BY <1>2, <3>1, <4>2
          <5> QED  BY <1>3, <2>1, <2>4, <3>1, <4>2, <5>1 DEF Heads
        <4> QED  BY <4>1, <4>2
      <3>2. Away(entities[e].place) /\ entities[e].state # "pending"
        BY <1>2, <1>7, <2>4 DEF Heads, Exists
      <3>3. \A x \in DOMAIN entities :
              /\ entities[x].place = Origin \/ Away(entities[x].place)
              /\ entities[x].state = "pending" =>
                    x \notin DOMAIN interpolationData' \cup lastTeleportCommand
        BY <2>1, <2>4, <3>2 DEF Heads
      <3>4. \A x \in DOMAIN interpolationData' :
              Away(interpolationData'[x].source) /\ Away(entities[x].place)
        BY <2>1, <2>4, <3>2 DEF Heads
      <3> QED  BY <1>4, <1>7, <3>1, <3>3, <3>4 DEF Heads, Exists
    <2> QED  BY <2>3, <2>4
  <1> QED  BY <1>1, <1>2, <1>5, <1>6, <1>7 DEF TeleportEntity

(* What other steps do to the puppets, told or not.                        *)
LEMMA PuppetsFollow ==
    ASSUME NEW seen, Mirrors(seen), UNCHANGED puppets
    PROVE  Mirrors(seen)' /\ (Heads(seen) => Heads(seen)')
  <1>1. UNCHANGED <<networkedEntitiesLookup, interpolationData, lastTeleportCommand, leaked,
                    entities>>
    BY DEF puppets
  <1>2. Mirrors(seen)'
    BY <1>1 DEF Mirrors, OnlyRespawnsLeak, Current
  <1>3. Heads(seen) => Heads(seen)'
    BY <1>1 DEF Heads, Exists
  <1> QED  BY <1>2, <1>3

LEMMA AttachFollows ==
    ASSUME Typed, NEW seen, Mirrors(seen), NEW new \in DOMAIN entities, Attach(new)
    PROVE  Mirrors(seen)' /\ (Heads(seen) => Heads(seen)')
  <1>1. /\ UNCHANGED <<networkedEntitiesLookup, interpolationData, lastTeleportCommand, leaked>>
        /\ DOMAIN entities' = DOMAIN entities
        /\ entities[new].state = "pending" /\ entities'[new].state = "attached"
        /\ entities'[new].place \in {Origin, entities[new].place}
        /\ \A e \in DOMAIN entities :
             /\ entities'[e].id = entities[e].id
             /\ e # new => entities'[e] = entities[e]
    <2>1. PICK place \in {Origin, entities[new].place} :
             entities' = [entities EXCEPT ![new].state = "attached", ![new].place = place]
      BY DEF Attach
    <2>2. \A e \in DOMAIN entities : entities[e] \in
             [state : {"pending", "attached", "deleted"}, place : Int, id : NetworkedIds]
      BY DEF Typed, TypeOK
    <2>3. DOMAIN entities' = DOMAIN entities
      BY <2>1
    <2>4. entities'[new] = [state |-> "attached", place |-> place, id |-> entities[new].id]
      BY <2>1, <2>2
    <2>5. \A e \in DOMAIN entities : e # new => entities'[e] = entities[e]
      BY <2>1
    <2>6. /\ entities'[new].state = "attached" /\ entities'[new].place = place
          /\ entities'[new].id = entities[new].id
      BY <2>4
    <2>7. /\ UNCHANGED <<networkedEntitiesLookup, interpolationData, lastTeleportCommand, leaked>>
          /\ entities[new].state = "pending"
      BY DEF Attach
    <2>8. \A e \in DOMAIN entities : entities'[e].id = entities[e].id
      BY <2>5, <2>6
    <2> QED  BY <2>3, <2>5, <2>6, <2>7, <2>8
  <1>2. OnlyRespawnsLeak'
    BY <1>1 DEF Mirrors, OnlyRespawnsLeak, Current
  <1>3. Mirrors(seen)'
    <2>1. \A e \in DOMAIN entities : Current(e)' => Current(e)
      BY <1>1 DEF Current
    <2>2. \A id \in DOMAIN networkedEntitiesLookup : networkedEntitiesLookup[id] \in DOMAIN entities
      BY DEF Typed, TypeOK
    <2> QED  BY <1>1, <1>2, <2>1, <2>2 DEF Mirrors
  <1>4. ASSUME Heads(seen) PROVE Heads(seen)'
    <2>1. new \notin DOMAIN interpolationData \cup lastTeleportCommand
      BY <1>1, <1>4 DEF Heads
    <2>2. \A e \in DOMAIN entities : e # new => (Exists(e)' <=> Exists(e))
      BY <1>1 DEF Exists
    <2>3. ASSUME NEW id \in DOMAIN seen \cap DOMAIN networkedEntitiesLookup,
                 Exists(networkedEntitiesLookup[id])'
          PROVE  LET e == networkedEntitiesLookup[id]
                 IN  \/ e \in DOMAIN interpolationData /\ interpolationData[e].target = seen[id]
                     \/ /\ e \notin DOMAIN interpolationData
                        /\ e \in lastTeleportCommand => entities'[e].place = seen[id]
      <3>1. networkedEntitiesLookup[id] \in DOMAIN entities
        BY <1>1, <2>3 DEF Exists
      <3> QED  BY <1>1, <1>4, <2>1, <2>2, <2>3, <3>1 DEF Heads
    <2>4. \A e \in DOMAIN entities :
             /\ entities'[e].place = Origin \/ Away(entities'[e].place)
             /\ entities'[e].state = "pending" =>
                   e \notin DOMAIN interpolationData \cup lastTeleportCommand
      BY <1>1, <1>4 DEF Heads
    <2>5. \A e \in DOMAIN interpolationData :
             Away(interpolationData[e].source) /\ Away(entities'[e].place)
      <3>1. DOMAIN interpolationData \subseteq DOMAIN entities
        BY DEF Typed, TypeOK
      <3> QED  BY <1>1, <1>4, <2>1, <3>1 DEF Heads
    <2> QED  BY <1>1, <2>3, <2>4, <2>5 DEF Heads
  <1> QED  BY <1>3, <1>4

LEMMA FrameFollows ==
    ASSUME Typed, NEW seen, Mirrors(seen), NEW deltaTime \in DeltaTimes,
           InterpolatePuppets(deltaTime)
    PROVE  Mirrors(seen)' /\ (OneSide /\ Heads(seen) => Heads(seen)')
  <1> DEFINE elapsed == [e \in DOMAIN interpolationData |->
                           CalcElapsed(interpolationData[e], deltaTime)]
             destination == [e \in DOMAIN interpolationData |->
                               LerpLocal(interpolationData[e].source,
                                         interpolationData[e].target, elapsed[e])]
  <1>0. /\ DOMAIN interpolationData \subseteq DOMAIN entities
        /\ TenthSecond \in Nat
        /\ \A id \in DOMAIN networkedEntitiesLookup : networkedEntitiesLookup[id] \in DOMAIN entities
        /\ \A e \in DOMAIN interpolationData :
             /\ interpolationData[e] \in
                   [source : Int, target : Places, elapsed : 0 .. TenthSecond - 1]
             /\ interpolationData[e].source \in Int
             /\ interpolationData[e].target \in Places
             /\ interpolationData[e].target \in Int
             /\ interpolationData[e].elapsed \in Nat
    BY ClientConstants, SMTT(30) DEF Typed, TypeOK
  <1>1. \A e \in DOMAIN interpolationData :
          /\ elapsed[e] \in Nat
          /\ destination[e] = LerpLocal(interpolationData[e].source,
                                        interpolationData[e].target, elapsed[e])
    BY <1>0, ClientConstants DEF CalcElapsed
  <1>2. \A e \in DOMAIN interpolationData :
          /\ destination[e] \in Int
          /\ elapsed[e] >= TenthSecond => destination[e] = interpolationData[e].target
    BY <1>0, <1>1, LerpStaysBetween, ZenonT(60)
  <1>3. /\ SetEntityPosition(DOMAIN interpolationData, destination)
        /\ interpolationData' =
               [e \in {e \in DOMAIN interpolationData : elapsed[e] < TenthSecond} |->
                   [interpolationData[e] EXCEPT !.elapsed = elapsed[e]]]
        /\ UNCHANGED <<networkedEntitiesLookup, leaked>>
    BY DEF InterpolatePuppets
  <1> HIDE DEF elapsed, destination
  <1>4. /\ DOMAIN entities' = DOMAIN entities
        /\ \A e \in DOMAIN entities :
             /\ entities'[e].state = entities[e].state
             /\ entities'[e].id = entities[e].id
             /\ e \in DOMAIN interpolationData /\ Exists(e) =>
                   entities'[e].place = destination[e]
             /\ ~(e \in DOMAIN interpolationData /\ Exists(e)) =>
                   entities'[e].place = entities[e].place
        /\ lastTeleportCommand' =
               lastTeleportCommand \cup {e \in DOMAIN interpolationData : Exists(e)}
    BY <1>2, <1>3, MovesOnlyPlaces
  <1>5. /\ \A e \in DOMAIN interpolationData' :
             /\ e \in DOMAIN interpolationData
             /\ interpolationData'[e].source = interpolationData[e].source
             /\ interpolationData'[e].target = interpolationData[e].target
        /\ \A e \in DOMAIN interpolationData :
             e \notin DOMAIN interpolationData' => elapsed[e] >= TenthSecond
    BY <1>0, <1>1, <1>3
  <1>6. OnlyRespawnsLeak'
    BY <1>3, <1>4 DEF Mirrors, OnlyRespawnsLeak, Current
  <1>7. Mirrors(seen)'
    <2>1. \A e \in DOMAIN entities : Current(e)' <=> Current(e)
      BY <1>4 DEF Current
    <2> QED  BY <1>0, <1>3, <1>4, <1>6, <2>1 DEF Mirrors
  <1>8. ASSUME OneSide, Heads(seen) PROVE Heads(seen)'
    <2>1. \A e : Exists(e)' <=> Exists(e)
      BY <1>4 DEF Exists
    <2>2. \A e \in DOMAIN interpolationData : Away(destination[e])
      BY <1>0, <1>1, <1>8, AwayFacts DEF Heads
    <2>3. ASSUME NEW id \in DOMAIN seen \cap DOMAIN networkedEntitiesLookup,
                 NEW e \in DOMAIN entities, e = networkedEntitiesLookup[id], Exists(e)
          PROVE  \/ e \in DOMAIN interpolationData' /\ interpolationData'[e].target = seen[id]
                 \/ /\ e \notin DOMAIN interpolationData'
                    /\ e \in lastTeleportCommand' => entities'[e].place = seen[id]
      <3>1. CASE e \in DOMAIN interpolationData
        <4>1. interpolationData[e].target = seen[id]
          BY <1>8, <2>3, <3>1 DEF Heads
        <4> QED  BY <1>2, <1>4, <1>5, <2>3, <3>1, <4>1
      <3>2. CASE e \notin DOMAIN interpolationData
        BY <1>4, <1>5, <1>8, <2>3, <3>2 DEF Heads
      <3> QED  BY <3>1, <3>2
    <2>4. \A e \in DOMAIN entities :
             /\ entities'[e].place = Origin \/ Away(entities'[e].place)
             /\ entities'[e].state = "pending" =>
                   e \notin DOMAIN interpolationData' \cup lastTeleportCommand'
      BY <1>4, <1>5, <1>8, <2>2 DEF Heads, Exists
    <2>5. \A e \in DOMAIN interpolationData' :
             Away(interpolationData'[e].source) /\ Away(entities'[e].place)
      BY <1>0, <1>4, <1>5, <1>8, <2>2 DEF Heads
    <2> QED  BY <1>0, <1>3, <1>4, <2>1, <2>3, <2>4, <2>5 DEF Heads
  <1> QED  BY <1>7, <1>8

(* The client takes the next message: what it knows is the next stage.     *)
LEMMA ReceiveLags ==
    ASSUME DistinctIds, Typed, Lagging, ReceiveMessage
    PROVE  Lagging'
  <1>1. PICK stages : /\ Retells(stages)
                      /\ Mirrors(stages[1])
                      /\ OneSide => Heads(stages[1])
    BY DEF Lagging
  <1>2. inbox \in Seq(Messages) /\ inbox # <<>> /\ inbox' = Tail(inbox) /\ UNCHANGED told
    BY DEF Typed, TypeOK, ReceiveMessage, server
  <1>3. /\ Head(inbox) = inbox[1] /\ 1 \in DOMAIN inbox
        /\ DOMAIN inbox = 1 .. Len(inbox) /\ Len(inbox) \in Nat
        /\ inbox' \in Seq(Messages) /\ Len(inbox') = Len(inbox) - 1
        /\ DOMAIN inbox' = 1 .. Len(inbox) - 1
        /\ \A k \in DOMAIN inbox' : k + 1 \in DOMAIN inbox /\ inbox'[k] = inbox[k + 1]
    BY <1>2, HeadTailProperties, LenProperties, EmptySeq
  <1>4. PICK message \in Messages : message = inbox[1]
    BY <1>2, <1>3
  <1>5. Says(stages[1], message, stages[2])
    BY <1>1, <1>3, <1>4 DEF Retells
  <1>6. /\ Mirrors(stages[2])'
        /\ OneSide => Heads(stages[2])'
    <2>1. CASE message.type = "InitAuthResult"
      <3>1. stages[2] = stages[1] /\ UNCHANGED puppets
        BY <1>3, <1>4, <1>5, <2>1 DEF Says, ReceiveMessage, AuthResult
      <3> QED  BY <1>1, <3>1, PuppetsFollow
    <2>2. CASE message.type = "SpawnEntity"
      <3>1. message.id \in NetworkedIds /\ message.pos \in Places
        BY <2>2, MessageFields
      <3>2. Spawn(message.id, message.pos)
        BY <1>3, <1>4, <2>2 DEF ReceiveMessage
      <3>3. /\ message.id \notin DOMAIN stages[1]
            /\ stages[2] = [i \in DOMAIN stages[1] \cup {message.id} |->
                              IF i = message.id THEN message.pos ELSE stages[1][i]]
        BY <1>5, <2>2 DEF Says
      <3> QED  BY <1>1, <3>1, <3>2, <3>3, SpawnFollows
    <2>3. CASE message.type = "TeleportEntity"
      <3>1. message.id \in NetworkedIds /\ message.pos \in Places
        BY <2>3, MessageFields
      <3>2. TeleportEntity(message.id, message.pos)
        BY <1>3, <1>4, <2>3 DEF ReceiveMessage
      <3>3. /\ message.id \in DOMAIN stages[1]
            /\ stages[2] = [stages[1] EXCEPT ![message.id] = message.pos]
        BY <1>5, <2>3 DEF Says
      <3> QED  BY <1>1, <3>1, <3>2, <3>3, TeleportFollows
    <2>4. CASE message.type = "DestroyEntity"
      <3>1. message.id \in NetworkedIds
        BY <2>4, MessageFields
      <3>2. Destroy(message.id)
        BY <1>3, <1>4, <2>4 DEF ReceiveMessage
      <3>3. /\ message.id \in DOMAIN stages[1]
            /\ stages[2] = Restrict(stages[1], DOMAIN stages[1] \ {message.id})
        BY <1>5, <2>4 DEF Says
      <3> QED  BY <1>1, <3>1, <3>2, <3>3, DestroyFollows
    <2> QED  BY <2>1, <2>2, <2>3, <2>4, MessageFields
  <1>7. PICK rest : rest = [k \in 1 .. Len(inbox) |-> stages[k + 1]]
    OBVIOUS
  <1>8. rest[1] = stages[2] /\ DOMAIN rest = 1 .. Len(inbox') + 1
    BY <1>3, <1>7
  <1>9. Retells(rest)'
    <2>1. rest[Len(inbox') + 1] = told'
      BY <1>1, <1>2, <1>3, <1>7 DEF Retells
    <2>2. ASSUME NEW k \in DOMAIN inbox'
          PROVE  Says(rest[k], inbox'[k], rest[k + 1])
      <3>1. k + 1 \in DOMAIN inbox /\ rest[k] = stages[k + 1] /\ rest[k + 1] = stages[(k + 1) + 1]
        BY <1>3, <1>7
      <3>2. Says(stages[k + 1], inbox[k + 1], stages[(k + 1) + 1])
        BY <1>1, <3>1 DEF Retells
      <3> QED  BY <1>3, <3>1, <3>2
    <2> QED  BY <1>8, <2>1, <2>2 DEF Retells, Says
  <1> QED  BY <1>6, <1>8, <1>9 DEF Lagging

(* The server says something: one more stage.                              *)
LEMMA TellLags ==
    ASSUME Typed, Lagging, NEW message \in Messages, Tell(message), Says(told, message, told')
    PROVE  Lagging'
  <1>1. PICK stages : /\ Retells(stages)
                      /\ Mirrors(stages[1])
                      /\ OneSide => Heads(stages[1])
    BY DEF Lagging
  <1>2. /\ inbox \in Seq(Messages)
        /\ inbox' = Append(inbox, message)
        /\ UNCHANGED puppets
    BY DEF Typed, TypeOK, Tell
  <1>3. /\ Len(inbox) \in Nat
        /\ DOMAIN inbox = 1 .. Len(inbox)
        /\ DOMAIN inbox' = DOMAIN inbox \cup {Len(inbox) + 1}
        /\ Len(inbox') = Len(inbox) + 1
        /\ \A k \in DOMAIN inbox : inbox'[k] = inbox[k]
        /\ inbox'[Len(inbox) + 1] = message
    BY <1>2, AppendProperties, LenProperties
  <1>4. PICK after : after = told'
    OBVIOUS
  <1>5. PICK longer : longer = [k \in 1 .. Len(inbox) + 2 |->
                                  IF k = Len(inbox) + 2 THEN after ELSE stages[k]]
    OBVIOUS
  <1>6. /\ DOMAIN longer = 1 .. Len(inbox') + 1
        /\ longer[1] = stages[1]
        /\ longer[Len(inbox) + 2] = told'
        /\ \A k \in 1 .. Len(inbox) + 1 : longer[k] = stages[k]
    BY <1>3, <1>4, <1>5
  <1>7. Retells(longer)'
    <2>1. longer[Len(inbox') + 1] = told'
      BY <1>3, <1>6
    <2>2. ASSUME NEW k \in DOMAIN inbox'
          PROVE  Says(longer[k], inbox'[k], longer[k + 1])
      <3>1. CASE k \in DOMAIN inbox
        <4>1. longer[k] = stages[k] /\ longer[k + 1] = stages[k + 1]
          BY <1>3, <1>6, <3>1
        <4>2. Says(stages[k], inbox[k], stages[k + 1])
          BY <1>1, <3>1 DEF Retells
        <4> QED  BY <1>3, <3>1, <4>1, <4>2
      <3>2. CASE k = Len(inbox) + 1
        <4>1. longer[k] = told
          BY <1>1, <1>3, <1>6, <3>2 DEF Retells
        <4>2. longer[k + 1] = told'
          BY <1>3, <1>6, <3>2
        <4> QED  BY <1>3, <3>2, <4>1, <4>2
      <3> QED  BY <1>3, <3>1, <3>2
    <2> QED  BY <1>6, <2>1, <2>2 DEF Retells, Says
  <1>8. Mirrors(stages[1])' /\ (OneSide => Heads(stages[1])')
    BY <1>1, <1>2, PuppetsFollow
  <1> QED  BY <1>6, <1>7, <1>8 DEF Lagging

(* Steps of the client's own.                                              *)
LEMMA OwnStepLags ==
    ASSUME Lagging, UNCHANGED <<inbox, told>>,
           \A seen : Mirrors(seen) => Mirrors(seen)' /\ (OneSide /\ Heads(seen) => Heads(seen)')
    PROVE  Lagging'
  <1>1. PICK stages : /\ Retells(stages)
                      /\ Mirrors(stages[1])
                      /\ OneSide => Heads(stages[1])
    BY DEF Lagging
  <1>2. Retells(stages)'
    BY <1>1 DEF Retells, Says
  <1>3. PICK seen : seen = stages[1]
    OBVIOUS
  <1>4. Mirrors(seen)' /\ (OneSide => Heads(seen)')
    BY <1>1, <1>3
  <1> QED  BY <1>2, <1>3, <1>4 DEF Lagging

LEMMA LaggingPreserved ==
    ASSUME DistinctIds, Typed, Lagging, [Next]_vars
    PROVE  Lagging'
  <1>1. CASE UNCHANGED <<inbox, told>> /\ UNCHANGED puppets
    <2>1. \A seen : Mirrors(seen) => Mirrors(seen)' /\ (OneSide /\ Heads(seen) => Heads(seen)')
      BY <1>1, PuppetsFollow
    <2> QED  BY <1>1, <2>1, OwnStepLags
  <1>2. CASE ReceiveMessage
    BY <1>2, ReceiveLags
  <1>3. ASSUME NEW deltaTime \in DeltaTimes, TrackAndInterpolate(deltaTime)
        PROVE  Lagging'
    <2>1. InterpolatePuppets(deltaTime) /\ UNCHANGED <<inbox, told>>
      BY <1>3 DEF TrackAndInterpolate, server
    <2>2. \A seen : Mirrors(seen) => Mirrors(seen)' /\ (OneSide /\ Heads(seen) => Heads(seen)')
      BY <2>1, FrameFollows
    <2> QED  BY <2>1, <2>2, OwnStepLags
  <1>4. ASSUME NEW entityId \in DOMAIN entities, Attach(entityId)
        PROVE  Lagging'
    <2>1. UNCHANGED <<inbox, told>>
      BY <1>4 DEF Attach, server
    <2>2. \A seen : Mirrors(seen) => Mirrors(seen)' /\ (OneSide /\ Heads(seen) => Heads(seen)')
      BY <1>4, AttachFollows
    <2> QED  BY <2>1, <2>2, OwnStepLags
  <1>5. CASE Network
    <2>1. ASSUME NEW from, NEW to, Link(from, to)
          PROVE  Lagging'
      BY <1>1, <2>1 DEF Link, server
    <2>2. ASSUME NEW result \in {"Ok", "VersionMismatch"}, Answer(result)
          PROVE  Lagging'
      <3>1. PICK message \in Messages : message = [type |-> "InitAuthResult", result |-> result]
        BY DEF Messages
      <3>2. Tell(message) /\ Says(told, message, told')
        BY <2>2, <3>1 DEF Answer, Says
      <3> QED  BY <3>2, TellLags
    <2>3. ASSUME NEW id \in NetworkedIds, TellDestroy(id)
          PROVE  Lagging'
      <3>1. PICK message \in Messages : message = [type |-> "DestroyEntity", id |-> id]
        BY DEF Messages
      <3>2. Tell(message) /\ Says(told, message, told')
        BY <2>3, <3>1 DEF TellDestroy, Says
      <3> QED  BY <3>2, TellLags
    <2>4. ASSUME NEW id \in NetworkedIds, NEW place \in Places, TellSpawn(id, place)
          PROVE  Lagging'
      <3>1. PICK message \in Messages :
               message = [type |-> "SpawnEntity", id |-> id, pos |-> place]
        BY DEF Messages
      <3>2. Tell(message) /\ Says(told, message, told')
        BY <2>4, <3>1 DEF TellSpawn, Says
      <3> QED  BY <3>2, TellLags
    <2>5. ASSUME NEW id \in NetworkedIds, NEW place \in Places, TellTeleport(id, place)
          PROVE  Lagging'
      <3>1. PICK message \in Messages :
               message = [type |-> "TeleportEntity", id |-> id, pos |-> place]
        BY DEF Messages
      <3>2. Tell(message) /\ Says(told, message, told')
        BY <2>5, <3>1 DEF TellTeleport, Says
      <3> QED  BY <3>2, TellLags
    <2> QED  BY <1>5, <2>1, <2>2, <2>3, <2>4, <2>5 DEF Network
  <1>6. CASE FirstUpdate \/ IdleUpdate \/ RunCallbacks \/ NextFrame \/ ListsSaves \/ OnUninitialize
    BY <1>1, <1>6 DEF FirstUpdate, IdleUpdate, RunCallbacks, NextFrame, ListsSaves,
                      OnSavesForLoadReady, OnUninitialize, server
  <1>7. CASE OnGameRestored \/ OnPlayerAction
    BY <1>1, <1>7 DEF OnGameRestored, OnPlayerAction, Report, server
  <1>8. CASE UNCHANGED vars
    BY <1>1, <1>8 DEF vars, server
  <1> QED  BY <1>2, <1>3, <1>4, <1>5, <1>6, <1>7, <1>8 DEF Next, OnNetworkUpdate, Game, ListsSaves

LEMMA InitLags ==
    ASSUME Init
    PROVE  Lagging
  <1>1. PICK stages : stages = [k \in 1 .. 1 |-> [id \in {} |-> 0]]
    OBVIOUS
  <1>2. DOMAIN inbox = {} /\ Len(inbox) = 0
    BY DEF Init
  <1>3. DOMAIN stages = 1 .. 0 + 1 /\ stages[0 + 1] = [id \in {} |-> 0] /\ DOMAIN stages[1] = {}
    BY <1>1
  <1>4. Retells(stages)
    BY <1>2, <1>3 DEF Init, Retells
  <1>5. /\ DOMAIN entities = {} /\ DOMAIN networkedEntitiesLookup = {} /\ leaked = {}
        /\ DOMAIN interpolationData = {}
    BY DEF Init
  <1>6. Mirrors(stages[1])
    BY <1>3, <1>5 DEF Mirrors, OnlyRespawnsLeak
  <1>7. Heads(stages[1])
    BY <1>3, <1>5 DEF Heads
  <1> QED  BY <1>4, <1>6, <1>7 DEF Lagging

LEMMA LagsAlways ==
    ASSUME DistinctIds
    PROVE  Spec => [](Typed /\ Lagging)
  <1>1. Init => Typed /\ Lagging
    BY InitTyped, InitLags
  <1>2. Typed /\ Lagging /\ [Next]_vars => (Typed /\ Lagging)'
    BY StepTyped, LaggingPreserved
  <1> QED  BY <1>1, <1>2, PTL DEF Spec

LEMMA CaughtUp ==
    ASSUME Typed, Lagging, inbox = <<>>
    PROVE  Mirrors(told) /\ (OneSide => Heads(told))
  <1>1. Len(inbox) + 1 = 1
    OBVIOUS
  <1> QED  BY <1>1 DEF Lagging, Retells

(* No puppet stays behind and none is doubled, however messages, frames and *)
(* arrivals interleave.                                                    *)
THEOREM NobodyStaysBehind ==
    ASSUME DistinctIds
    PROVE  Spec => []NoGhosts
  <1>1. Typed /\ Lagging => NoGhosts
    BY CaughtUp DEF NoGhosts, Mirrors
  <1> QED  BY <1>1, LagsAlways, PTL

(* Whoever comes for the first time is in the game.                        *)
THEOREM NewcomersAreSeen ==
    ASSUME DistinctIds
    PROVE  Spec => []FirstSpawnsAreSeen
  <1>1. Typed /\ Lagging => FirstSpawnsAreSeen
    <2>1. Typed => \A id \in DOMAIN networkedEntitiesLookup :
                      networkedEntitiesLookup[id] \in DOMAIN entities
      BY DEF Typed, TypeOK
    <2> QED  BY <2>1, CaughtUp DEF FirstSpawnsAreSeen, Shown, Mirrors
  <1> QED  BY <1>1, LagsAlways, PTL

(* Only messages about an entity that was destroyed before are not released. *)
THEOREM FirstTimesAreReleased ==
    ASSUME DistinctIds
    PROVE  Spec => []OnlyRespawnsLeak
  <1>1. Lagging => OnlyRespawnsLeak
    BY DEF Lagging, Mirrors
  <1> QED  BY <1>1, LagsAlways, PTL

(* A puppet keeps the last word on where to go, as long as no way leads     *)
(* through the origin.                                                     *)
THEOREM LastWordCounts ==
    ASSUME DistinctIds, OneSide
    PROVE  Spec => []HeadsForTold
  <1>1. Typed /\ Lagging => HeadsForTold
    BY CaughtUp DEF HeadsForTold, Heads
  <1> QED  BY <1>1, LagsAlways, PTL

=============================================================================
