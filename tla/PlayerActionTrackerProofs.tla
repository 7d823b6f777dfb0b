--------------------- MODULE PlayerActionTrackerProofs ---------------------
(***************************************************************************)
(* Proofs about PlayerActionTracker: what the events of the game become    *)
(* once the server has caught up, however many requests are on their way   *)
(* and whatever else the player does.                                      *)
(***************************************************************************)
EXTENDS PlayerActionTracker, EntityTrackingProofs

-----------------------------------------------------------------------------
(* What the server will do with the requests that are on their way.        *)

RideTypes == {"PlayerSpawnCar", "PlayerUnmountCar"}

TrackerTyped ==
    /\ riding \in BOOLEAN
    /\ connected \in BOOLEAN
    /\ missed \in BOOLEAN
    /\ joins \in Nat
    /\ toServer \in Seq(Requests)

(* Entities are vehicles only if they are cars: neither a puppet nor an     *)
(* item goes when a player gets off.                                       *)
VehiclesAreCars ==
    \A id \in DOMAIN SpawnedEntities :
        SpawnedEntities[id].isVehicle => SpawnedEntities[id].record = Car

IsInitAuth(i) == toServer[i].type = "InitAuth"

(* The greeting is sent once, when the connection is made: from then on it  *)
(* is on its way until it is handled.                                      *)
GreetsOnTheWay ==
    /\ ~connected => me \notin greeted /\ joins = 0
    /\ \A i \in DOMAIN toServer : IsInitAuth(i) => connected /\ me \notin greeted
    /\ \A i, j \in DOMAIN toServer : IsInitAuth(i) /\ IsInitAuth(j) => i = j
    /\ connected /\ me \notin greeted => \E i \in DOMAIN toServer : IsInitAuth(i)

JoinsAfter(queue, n) == {i \in DOMAIN queue : i > n /\ queue[i].type = "PlayerJoinWorld"}

(* The PlayerJoinWorlds that count are those behind the greeting: each is   *)
(* on its way or has become a puppet.                                      *)
JoinsCounted ==
    /\ \A i \in DOMAIN toServer :
         IsInitAuth(i) => joins = Cardinality(JoinsAfter(toServer, i))
    /\ me \in ConnectedPlayers =>
         joins = Cardinality(Puppets(me)) + Cardinality(JoinsAfter(toServer, 0))

IsRideRequest(request) == request.type \in RideTypes

NoRide(queue) == \A i \in DOMAIN queue : ~IsRideRequest(queue[i])

(* The last ride request of a queue is to spawn a car, or to remove it.     *)
LastRide(queue, mounts) ==
    \E i \in DOMAIN queue :
        /\ IsRideRequest(queue[i])
        /\ \A j \in DOMAIN queue : j > i => ~IsRideRequest(queue[j])
        /\ queue[i].type = "PlayerSpawnCar" <=> mounts

(* It says whether the player rides, or the vehicles do if there is none.   *)
RideIsKnown ==
    ~missed => \/ NoRide(toServer) /\ (riding <=> VehiclesOf(me) # {})
               \/ LastRide(toServer, riding)

TrackerInv ==
    /\ IInv
    /\ TrackerTyped
    /\ VehiclesAreCars
    /\ GreetsOnTheWay
    /\ JoinsCounted
    /\ RideIsKnown

-----------------------------------------------------------------------------
(* The kinds of steps.                                                     *)

Quiet ==
    /\ UNCHANGED <<vars, connected, joins, toServer>>
    /\ riding' \in BOOLEAN
    /\ UNCHANGED <<riding, missed>> \/ missed' = TRUE

Says(request) ==
    /\ request.type \notin RideTypes \cup {"InitAuth", "PlayerJoinWorld"}
    /\ UNCHANGED <<riding, connected, missed, joins>>

Rides(request) ==
    /\ request.type \in RideTypes
    /\ riding' \in BOOLEAN
    /\ riding' <=> request.type = "PlayerSpawnCar"
    /\ missed' = FALSE
    /\ UNCHANGED <<connected, joins>>

Greets(request) ==
    /\ request.type = "InitAuth"
    /\ ~connected
    /\ connected' = TRUE
    /\ UNCHANGED <<riding, missed, joins>>

Joins(request) ==
    /\ request.type = "PlayerJoinWorld"
    /\ \/ connected /\ joins' = joins + 1
       \/ ~connected /\ UNCHANGED joins
    /\ UNCHANGED <<riding, connected, missed>>

Sends(request) ==
    /\ UNCHANGED vars
    /\ toServer' = Append(toServer, request)
    /\ Says(request) \/ Rides(request) \/ Greets(request) \/ Joins(request)

LEMMA KindsOfSteps ==
    ASSUME TrackerTyped, TrackerNext
    PROVE  HandleHead \/ Quiet \/ \E request \in Requests : Sends(request)
<1> USE DEF EnqueueMessage
<1>1. ASSUME NEW actionName, NEW actionType, RecordPlayerAction(actionName, actionType)
      PROVE  Quiet \/ \E request \in Requests : Sends(request)
  <2>1. CASE UNCHANGED toServer
    BY <1>1, <2>1 DEF RecordPlayerAction, Quiet, TrackerTyped
  <2>2. CASE EnqueueMessage([type |-> "PlayerActionTracked"])
    <3>1. PICK request \in Requests : request = [type |-> "PlayerActionTracked"]
      BY DEF Requests
    <3>2. Sends(request)
      BY <1>1, <2>2, <3>1 DEF RecordPlayerAction, Sends, Says, RideTypes
    <3> QED  BY <3>2
  <2> QED  BY <1>1, <2>1, <2>2 DEF RecordPlayerAction
<1>2. ASSUME OnShoot
      PROVE  \E request \in Requests : Sends(request)
  <2>1. PICK request \in Requests : request = [type |-> "PlayerShoot"]
    BY DEF Requests
  <2>2. Sends(request)
    BY <1>2, <2>1 DEF OnShoot, Sends, Says, RideTypes
  <2> QED  BY <2>2
<1>3. ASSUME ConnectionStatusChangedCallback
      PROVE  \E request \in Requests : Sends(request)
  <2>1. PICK versionMatches \in BOOLEAN :
          EnqueueMessage([type |-> "InitAuth", versionMatches |-> versionMatches])
    BY <1>3 DEF ConnectionStatusChangedCallback
  <2>2. PICK request \in Requests :
          request = [type |-> "InitAuth", versionMatches |-> versionMatches]
    BY DEF Requests
  <2>3. Sends(request)
    BY <1>3, <2>1, <2>2 DEF ConnectionStatusChangedCallback, Sends, Greets
  <2> QED  BY <2>3
<1>4. ASSUME NEW position \in Positions, OnGameRestored(position)
      PROVE  \E request \in Requests : Sends(request)
  <2>1. PICK request \in Requests : request = [type |-> "PlayerJoinWorld", pos |-> position]
    BY DEF Requests
  <2>2. Sends(request)
    BY <1>4, <2>1 DEF OnGameRestored, Sends, Joins
  <2> QED  BY <2>2
<1>5. ASSUME NEW position \in Positions, TrackPlayerPosition(position)
      PROVE  \E request \in Requests : Sends(request)
  <2>1. PICK request \in Requests : request = [type |-> "PlayerPositionUpdate", pos |-> position]
    BY DEF Requests
  <2>2. Sends(request)
    BY <1>5, <2>1 DEF TrackPlayerPosition, Sends, Says, RideTypes
  <2> QED  BY <2>2
<1>6. ASSUME NEW item \in Items, OnItem(item)
      PROVE  \E request \in Requests : Sends(request)
  <2>1. PICK isUnequipping \in BOOLEAN :
          EnqueueMessage([type |-> "PlayerEquipItem", item |-> item,
                          isUnequipping |-> isUnequipping])
    BY <1>6 DEF OnItem
  <2>2. PICK request \in Requests :
          request = [type |-> "PlayerEquipItem", item |-> item,
                     isUnequipping |-> isUnequipping]
    BY DEF Requests
  <2>3. Sends(request)
    BY <1>6, <2>1, <2>2 DEF OnItem, Sends, Says, RideTypes
  <2> QED  BY <2>3
<1>7. ASSUME NEW other, NEW relationship, NEW expired \in BOOLEAN,
             OnUnmounting(other, relationship, expired)
      PROVE  Quiet \/ \E request \in Requests : Sends(request)
  <2>1. CASE ~IsRide(other, relationship) \/ expired
    BY <1>7, <2>1 DEF OnUnmounting, IsRide, Quiet, TrackerTyped
  <2>2. CASE IsRide(other, relationship) /\ ~expired
    <3>1. PICK request \in Requests : request = [type |-> "PlayerUnmountCar"]
      BY DEF Requests
    <3>2. Sends(request)
      BY <1>7, <2>2, <3>1 DEF OnUnmounting, IsRide, Sends, Rides, RideTypes
    <3> QED  BY <3>2
  <2> QED  BY <2>1, <2>2
<1>8. ASSUME NEW other, NEW relationship, NEW expired \in BOOLEAN, NEW position \in Positions,
             OnMounting(other, relationship, expired, position)
      PROVE  Quiet \/ \E request \in Requests : Sends(request)
  <2>1. CASE ~IsRide(other, relationship) \/ expired
    BY <1>8, <2>1 DEF OnMounting, IsRide, Quiet, TrackerTyped
  <2>2. CASE IsRide(other, relationship) /\ ~expired
    <3>1. PICK request \in Requests : request = [type |-> "PlayerSpawnCar", pos |-> position]
      BY DEF Requests
    <3>2. Sends(request)
      BY <1>8, <2>2, <3>1 DEF OnMounting, IsRide, Sends, Rides, RideTypes
    <3> QED  BY <3>2
  <2> QED  BY <2>1, <2>2
<1> QED  BY <1>1, <1>2, <1>3, <1>4, <1>5, <1>6, <1>7, <1>8 DEF TrackerNext

-----------------------------------------------------------------------------
(* What the handlers do to the player's vehicles and puppets.              *)

(* An entity of the player is added to what is left of the dictionary.     *)
LEMMA CreationChanges ==
    ASSUME IInv, VehiclesAreCars, NEW gone \in SUBSET OwnedBy(SpawnedEntities, me),
           NEW entity, entity.owner = me, entity.isVehicle => entity.record = Car,
           SpawnedEntities' = CreateEntity(Without(SpawnedEntities, gone), entity)
    PROVE  /\ VehiclesAreCars'
           /\ VehiclesOf(me)' = (VehiclesOf(me) \ gone)
                                  \cup {id \in {entityIdCounter} : entity.isVehicle}
           /\ Puppets(me)' = (Puppets(me) \ gone)
                               \cup {id \in {entityIdCounter} : entity.record = Puppet}
<1>1. entityIdCounter \notin DOMAIN SpawnedEntities
  BY DEF IInv, TypeOK
<1>2. /\ DOMAIN SpawnedEntities' = (DOMAIN SpawnedEntities \ gone) \cup {entityIdCounter}
      /\ \A id \in DOMAIN SpawnedEntities \ gone : SpawnedEntities'[id] = SpawnedEntities[id]
      /\ SpawnedEntities'[entityIdCounter] = entity
  BY <1>1 DEF CreateEntity, Without
<1>3. VehiclesAreCars'
  BY <1>2 DEF VehiclesAreCars
<1>4. VehiclesOf(me)' = (VehiclesOf(me) \ gone)
                          \cup {id \in {entityIdCounter} : entity.isVehicle}
  BY <1>1, <1>2 DEF VehiclesOf, OwnedBy
<1>5. Puppets(me)' = (Puppets(me) \ gone)
                       \cup {id \in {entityIdCounter} : entity.record = Puppet}
  BY <1>1, <1>2 DEF Puppets, OwnedBy
<1> QED  BY <1>3, <1>4, <1>5

LEMMA RemovalChanges ==
    ASSUME VehiclesAreCars, NEW gone \in SUBSET OwnedBy(SpawnedEntities, me),
           SpawnedEntities' = Without(SpawnedEntities, gone)
    PROVE  /\ VehiclesAreCars'
           /\ VehiclesOf(me)' = VehiclesOf(me) \ gone
           /\ Puppets(me)' = Puppets(me) \ gone
<1>1. /\ DOMAIN SpawnedEntities' = DOMAIN SpawnedEntities \ gone
      /\ \A id \in DOMAIN SpawnedEntities' : SpawnedEntities'[id] = SpawnedEntities[id]
  BY DEF Without
<1>2. VehiclesAreCars'
  BY <1>1 DEF VehiclesAreCars
<1>3. VehiclesOf(me)' = VehiclesOf(me) \ gone
  BY <1>1 DEF VehiclesOf, OwnedBy
<1>4. Puppets(me)' = Puppets(me) \ gone
  BY <1>1 DEF Puppets, OwnedBy
<1> QED  BY <1>2, <1>3, <1>4

(* A player has a vehicle after a ride request exactly if it was to mount,  *)
(* and keeps what they have otherwise; a puppet comes with PlayerJoinWorld  *)
(* if the player is one, and never goes.                                   *)
Changes(request) ==
    /\ VehiclesAreCars'
    /\ UNCHANGED ConnectedPlayers
    /\ VehiclesOf(me)' # {} <=> IF IsRideRequest(request)
                                THEN request.type = "PlayerSpawnCar"
                                ELSE VehiclesOf(me) # {}
    /\ Puppets(me)' = IF request.type = "PlayerJoinWorld" /\ me \in ConnectedPlayers
                      THEN Puppets(me) \cup {entityIdCounter}
                      ELSE Puppets(me)

LEMMA IdlingChanges ==
    ASSUME VehiclesAreCars, NothingHappens, NEW request \in Requests,
           ~IsRideRequest(request),
           request.type = "PlayerJoinWorld" => me \notin ConnectedPlayers
    PROVE  Changes(request)
<1>1. UNCHANGED <<ConnectedPlayers, SpawnedEntities>>
  BY DEF NothingHappens, managed
<1>2. VehiclesAreCars' /\ VehiclesOf(me)' = VehiclesOf(me) /\ Puppets(me)' = Puppets(me)
  BY <1>1 DEF VehiclesAreCars, VehiclesOf, Puppets, OwnedBy
<1> QED  BY <1>1, <1>2 DEF Changes

LEMMA JoinWorldChanges ==
    ASSUME IInv, VehiclesAreCars, NEW request \in Requests,
           request.type = "PlayerJoinWorld", HandleJoinWorld(me, request.pos)
    PROVE  Changes(request)
<1>1. CASE me \notin ConnectedPlayers
  BY <1>1, IdlingChanges DEF HandleJoinWorld, IsRideRequest, RideTypes
<1>2. CASE me \in ConnectedPlayers
  <2> DEFINE entity == [owner |-> me, record |-> Puppet, pos |-> request.pos,
                        isVehicle |-> FALSE]
             gone == {}
  <2>1. SpawnedEntities' = CreateEntity(SpawnedEntities, entity) /\ UNCHANGED ConnectedPlayers
    BY <1>2 DEF HandleJoinWorld
  <2>2. Without(SpawnedEntities, gone) = SpawnedEntities
    BY DEF Without, IInv, TypeOK
  <2>3. /\ gone \in SUBSET OwnedBy(SpawnedEntities, me)
        /\ entity.owner = me /\ ~entity.isVehicle /\ entity.record = Puppet
    OBVIOUS
  <2> HIDE DEF gone, entity
  <2>4. /\ VehiclesAreCars'
        /\ VehiclesOf(me)' = (VehiclesOf(me) \ gone)
                               \cup {id \in {entityIdCounter} : entity.isVehicle}
        /\ Puppets(me)' = (Puppets(me) \ gone)
                            \cup {id \in {entityIdCounter} : entity.record = Puppet}
    BY <2>1, <2>2, <2>3, CreationChanges
  <2>5. gone = {}
    BY DEF gone
  <2>6. VehiclesOf(me)' = VehiclesOf(me)
    BY <2>3, <2>4, <2>5
  <2>7. Puppets(me)' = Puppets(me) \cup {entityIdCounter}
    BY <2>3, <2>4, <2>5
  <2> QED  BY <1>2, <2>1, <2>4, <2>6, <2>7 DEF Changes, IsRideRequest, RideTypes
<1> QED  BY <1>1, <1>2

LEMMA PositionUpdateChanges ==
    ASSUME IInv, VehiclesAreCars, NEW request \in Requests,
           request.type = "PlayerPositionUpdate", HandlePositionUpdate(me, request.pos)
    PROVE  Changes(request)
<1>1. CASE request.pos = FaultyPosition
  BY <1>1, IdlingChanges DEF HandlePositionUpdate, IsRideRequest, RideTypes
<1>2. CASE request.pos # FaultyPosition
  <2>1. /\ UNCHANGED ConnectedPlayers
        /\ SpawnedEntities' = [id \in DOMAIN SpawnedEntities |->
              IF id \in OwnedBy(SpawnedEntities, me)
              THEN [SpawnedEntities[id] EXCEPT !.pos = request.pos]
              ELSE SpawnedEntities[id]]
    BY <1>2 DEF HandlePositionUpdate
  <2>2. \A id \in DOMAIN SpawnedEntities : SpawnedEntities[id] \in Entity
    BY DEF IInv, TypeOK
  <2>3. /\ DOMAIN SpawnedEntities' = DOMAIN SpawnedEntities
        /\ \A id \in DOMAIN SpawnedEntities :
             /\ SpawnedEntities'[id].owner = SpawnedEntities[id].owner
             /\ SpawnedEntities'[id].isVehicle = SpawnedEntities[id].isVehicle
             /\ SpawnedEntities'[id].record = SpawnedEntities[id].record
    BY <2>1, <2>2 DEF Entity
  <2>4. VehiclesAreCars' /\ VehiclesOf(me)' = VehiclesOf(me) /\ Puppets(me)' = Puppets(me)
    BY <2>3 DEF VehiclesAreCars, VehiclesOf, Puppets, OwnedBy
  <2> QED  BY <2>1, <2>4 DEF Changes, IsRideRequest, RideTypes
<1> QED  BY <1>1, <1>2

LEMMA SpawnCarChanges ==
    ASSUME IInv, VehiclesAreCars, NEW request \in Requests,
           request.type = "PlayerSpawnCar", HandleSpawnCar(me, request.pos)
    PROVE  Changes(request)
<1> DEFINE entity == [owner |-> me, record |-> Car, pos |-> request.pos, isVehicle |-> TRUE]
<1>1. /\ SpawnedEntities' = CreateEntity(Without(SpawnedEntities, VehiclesOf(me)), entity)
      /\ UNCHANGED ConnectedPlayers
  BY DEF HandleSpawnCar
<1>2. VehiclesOf(me) \in SUBSET OwnedBy(SpawnedEntities, me)
  BY DEF VehiclesOf
<1>3. entity.owner = me /\ entity.isVehicle /\ entity.record = Car /\ Car # Puppet
  BY ConstantsAssumption
<1> HIDE DEF entity
<1>4. /\ VehiclesAreCars'
      /\ VehiclesOf(me)' = (VehiclesOf(me) \ VehiclesOf(me))
                             \cup {id \in {entityIdCounter} : entity.isVehicle}
      /\ Puppets(me)' = (Puppets(me) \ VehiclesOf(me))
                          \cup {id \in {entityIdCounter} : entity.record = Puppet}
  BY <1>1, <1>2, <1>3, CreationChanges
<1>5. Puppets(me) \cap VehiclesOf(me) = {}
  BY ConstantsAssumption DEF VehiclesAreCars, Puppets, VehiclesOf, OwnedBy
<1>6. VehiclesOf(me)' = {entityIdCounter}
  BY <1>3, <1>4
<1>7. Puppets(me)' = Puppets(me)
  BY <1>3, <1>4, <1>5
<1> QED  BY <1>1, <1>4, <1>6, <1>7 DEF Changes, IsRideRequest, RideTypes

LEMMA UnmountCarChanges ==
    ASSUME VehiclesAreCars, NEW request \in Requests,
           request.type = "PlayerUnmountCar", HandleUnmountCar(me)
    PROVE  Changes(request)
<1>1. /\ SpawnedEntities' = Without(SpawnedEntities, VehiclesOf(me))
      /\ UNCHANGED ConnectedPlayers
  BY DEF HandleUnmountCar
<1>2. VehiclesOf(me) \in SUBSET OwnedBy(SpawnedEntities, me)
  BY DEF VehiclesOf
<1>3. /\ VehiclesAreCars'
      /\ VehiclesOf(me)' = VehiclesOf(me) \ VehiclesOf(me)
      /\ Puppets(me)' = Puppets(me) \ VehiclesOf(me)
  BY <1>1, <1>2, RemovalChanges
<1>4. Puppets(me) \cap VehiclesOf(me) = {}
  BY ConstantsAssumption DEF VehiclesAreCars, Puppets, VehiclesOf, OwnedBy
<1> QED  BY <1>1, <1>3, <1>4 DEF Changes, IsRideRequest, RideTypes

LEMMA EquipChanges ==
    ASSUME IInv, VehiclesAreCars, NEW request \in Requests,
           request.type = "PlayerEquipItem",
           HandleEquip(me, request.item, request.isUnequipping)
    PROVE  Changes(request)
<1>1. PICK item \in Items : item = request.item
  BY DEF Requests
<1>2. item # Car /\ item # Puppet
  BY ConstantsAssumption
<1>3. ~IsRideRequest(request) /\ request.type # "PlayerJoinWorld"
  BY DEF IsRideRequest, RideTypes
<1>4. CASE UnequipItem(me, item)
  <2>1. /\ SpawnedEntities' = Without(SpawnedEntities, ItemsOf(me, item))
        /\ UNCHANGED ConnectedPlayers
    BY <1>4 DEF UnequipItem
  <2>2. ItemsOf(me, item) \in SUBSET OwnedBy(SpawnedEntities, me)
    BY DEF ItemsOf
  <2>3. /\ VehiclesAreCars'
        /\ VehiclesOf(me)' = VehiclesOf(me) \ ItemsOf(me, item)
        /\ Puppets(me)' = Puppets(me) \ ItemsOf(me, item)
    BY <2>1, <2>2, RemovalChanges
  <2>4. /\ VehiclesOf(me) \cap ItemsOf(me, item) = {}
        /\ Puppets(me) \cap ItemsOf(me, item) = {}
    BY <1>2 DEF VehiclesAreCars, Puppets, VehiclesOf, ItemsOf, OwnedBy
  <2> QED  BY <1>3, <2>1, <2>3, <2>4 DEF Changes
<1>5. CASE EquipItem(me, item) /\ OwnedBy(SpawnedEntities, me) = {}
  BY <1>3, <1>5, IdlingChanges DEF EquipItem
<1>6. CASE EquipItem(me, item) /\ OwnedBy(SpawnedEntities, me) # {}
  <2> DEFINE Copy(id) == [owner |-> me, record |-> item,
                          pos |-> SpawnedEntities[id].pos, isVehicle |-> FALSE]
             gone == {}
  <2>1. PICK playerEntity : SpawnedEntities' = CreateEntity(SpawnedEntities, Copy(playerEntity))
    BY <1>6 DEF EquipItem
  <2>2. UNCHANGED ConnectedPlayers
    BY <1>6 DEF EquipItem
  <2>3. PICK entity : entity = Copy(playerEntity)
    OBVIOUS
  <2>4. /\ gone \in SUBSET OwnedBy(SpawnedEntities, me)
        /\ entity.owner = me /\ ~entity.isVehicle /\ entity.record # Puppet
    BY <1>2, <2>3
  <2>5. Without(SpawnedEntities, gone) = SpawnedEntities
    BY DEF Without, IInv, TypeOK
  <2> HIDE DEF Copy, gone
  <2>6. /\ VehiclesAreCars'
        /\ VehiclesOf(me)' = (VehiclesOf(me) \ gone)
                               \cup {id \in {entityIdCounter} : entity.isVehicle}
        /\ Puppets(me)' = (Puppets(me) \ gone)
                            \cup {id \in {entityIdCounter} : entity.record = Puppet}
    BY <2>1, <2>3, <2>4, <2>5, CreationChanges
  <2>7. VehiclesOf(me)' = VehiclesOf(me) /\ Puppets(me)' = Puppets(me)
    BY <2>4, <2>6 DEF gone
  <2> QED  BY <1>3, <2>2, <2>6, <2>7 DEF Changes
<1> QED  BY <1>1, <1>4, <1>5, <1>6 DEF HandleEquip

LEMMA SignInChanges ==
    ASSUME VehiclesAreCars, NEW versionMatches, HandleInitAuth(me, versionMatches)
    PROVE  /\ VehiclesAreCars'
           /\ VehiclesOf(me)' = VehiclesOf(me)
           /\ Puppets(me)' = Puppets(me)
<1>1. UNCHANGED SpawnedEntities
  BY DEF HandleInitAuth
<1> QED  BY <1>1 DEF VehiclesAreCars, VehiclesOf, Puppets, OwnedBy

LEMMA RequestChanges ==
    ASSUME IInv, VehiclesAreCars, NEW request \in Requests, Handle(me, request),
           request.type # "InitAuth"
    PROVE  Changes(request) /\ UNCHANGED greeted
<1>1. UNCHANGED greeted
  BY DEF Handle
<1>2. CASE request.type = "PlayerJoinWorld"
  BY <1>2, JoinWorldChanges DEF Handle
<1>3. CASE request.type = "PlayerPositionUpdate"
  BY <1>3, PositionUpdateChanges DEF Handle
<1>4. CASE request.type = "PlayerSpawnCar"
  BY <1>4, SpawnCarChanges DEF Handle
<1>5. CASE request.type = "PlayerUnmountCar"
  BY <1>5, UnmountCarChanges DEF Handle
<1>6. CASE request.type = "PlayerEquipItem"
  BY <1>6, EquipChanges DEF Handle
<1>7. CASE request.type \in {"PlayerShoot", "PlayerActionTracked"}
  <2>1. NothingHappens
    BY <1>7 DEF Handle, HandleShoot
  <2>2. ~IsRideRequest(request) /\ request.type # "PlayerJoinWorld"
    BY <1>7 DEF IsRideRequest, RideTypes
  <2>3. request.type = "PlayerJoinWorld" => me \notin ConnectedPlayers
    BY <2>2
  <2>4. Changes(request)
    BY <2>1, <2>2, <2>3, IdlingChanges
  <2> QED  BY <1>1, <2>4
<1> QED  BY <1>1, <1>2, <1>3, <1>4, <1>5, <1>6, <1>7 DEF Requests

-----------------------------------------------------------------------------
(* The queue at its two ends.                                              *)

LEMMA JoinsAfterFinite ==
    ASSUME NEW T, NEW queue \in Seq(T), NEW n \in Nat
    PROVE  IsFiniteSet(JoinsAfter(queue, n)) /\ Cardinality(JoinsAfter(queue, n)) \in Nat
<1>1. DOMAIN queue = 1 .. Len(queue) /\ Len(queue) \in Nat
  BY LenProperties
<1>2. JoinsAfter(queue, n) \in SUBSET (1 .. Len(queue))
  BY <1>1 DEF JoinsAfter
<1>3. IsFiniteSet(1 .. Len(queue))
  BY <1>1, FS_Interval
<1>4. IsFiniteSet(JoinsAfter(queue, n))
  BY <1>2, <1>3, FS_Subset
<1> QED  BY <1>4, FS_CardinalityType

(* A request at the end comes after all that are there.                    *)
LEMMA JoinsAfterAppend ==
    ASSUME NEW T, NEW queue \in Seq(T), NEW x \in T, NEW n \in 0 .. Len(queue)
    PROVE  Cardinality(JoinsAfter(Append(queue, x), n))
             = IF x.type = "PlayerJoinWorld"
               THEN Cardinality(JoinsAfter(queue, n)) + 1
               ELSE Cardinality(JoinsAfter(queue, n))
<1>1. PICK last, longer : last = Len(queue) + 1 /\ longer = Append(queue, x)
  OBVIOUS
<1>2. /\ DOMAIN queue = 1 .. Len(queue) /\ Len(queue) \in Nat
      /\ last \notin DOMAIN queue /\ last > n
      /\ DOMAIN longer = DOMAIN queue \cup {last}
      /\ \A i \in DOMAIN queue : longer[i] = queue[i]
      /\ longer[last] = x
  <2>1. DOMAIN queue = 1 .. Len(queue) /\ Len(queue) \in Nat
    BY LenProperties
  <2>2. last > n
    BY <1>1, <2>1
  <2> QED  BY <1>1, <2>1, <2>2, AppendAddsLast
<1>3. IsFiniteSet(JoinsAfter(queue, n)) /\ last \notin JoinsAfter(queue, n)
  BY <1>2, JoinsAfterFinite DEF JoinsAfter
<1>4. CASE x.type = "PlayerJoinWorld"
  <2>1. JoinsAfter(longer, n) = JoinsAfter(queue, n) \cup {last}
    BY <1>2, <1>4 DEF JoinsAfter
  <2>2. Cardinality(JoinsAfter(queue, n) \cup {last}) = Cardinality(JoinsAfter(queue, n)) + 1
    BY <1>3, FS_AddElement
  <2> QED  BY <1>1, <1>4, <2>1, <2>2
<1>5. CASE x.type # "PlayerJoinWorld"
  <2>1. JoinsAfter(longer, n) = JoinsAfter(queue, n)
    BY <1>2, <1>5 DEF JoinsAfter
  <2> QED  BY <1>1, <1>5, <2>1
<1> QED  BY <1>4, <1>5

(* Nothing comes after the end.                                            *)
LEMMA NoneAfterLast ==
    ASSUME NEW T, NEW queue \in Seq(T)
    PROVE  Cardinality(JoinsAfter(queue, Len(queue))) = 0
<1>1. DOMAIN queue = 1 .. Len(queue) /\ Len(queue) \in Nat
  BY LenProperties
<1>2. JoinsAfter(queue, Len(queue)) = {}
  BY <1>1 DEF JoinsAfter
<1> QED  BY <1>2, FS_EmptySet

(* All move up when the first is taken.                                    *)
LEMMA TailIsBehind ==
    ASSUME NEW T, NEW queue \in Seq(T), queue # <<>>
    PROVE  /\ Tail(queue) \in Seq(T)
           /\ Len(queue) \in Nat \ {0}
           /\ DOMAIN queue = 1 .. Len(queue)
           /\ DOMAIN Tail(queue) = 1 .. Len(queue) - 1
           /\ \A i \in 1 .. Len(queue) - 1 : Tail(queue)[i] = queue[i + 1]
           /\ Head(queue) = queue[1]
           /\ Head(queue) \in T
  OBVIOUS

LEMMA JoinsAfterTail ==
    ASSUME NEW T, NEW queue \in Seq(T), queue # <<>>, NEW n \in Nat
    PROVE  Cardinality(JoinsAfter(Tail(queue), n)) = Cardinality(JoinsAfter(queue, n + 1))
<1>1. PICK shorter, length : shorter = Tail(queue) /\ length = Len(queue)
  OBVIOUS
<1>2. /\ shorter \in Seq(T) /\ length \in Nat \ {0}
      /\ DOMAIN queue = 1 .. length
      /\ DOMAIN shorter = 1 .. length - 1
      /\ \A i \in 1 .. length - 1 : shorter[i] = queue[i + 1]
  BY <1>1, TailIsBehind
<1> DEFINE S == JoinsAfter(shorter, n)
           R == JoinsAfter(queue, n + 1)
           up == [i \in S |-> i + 1]
<1>3. \A i \in S : i \in 1 .. length - 1 /\ i > n /\ shorter[i].type = "PlayerJoinWorld"
  BY <1>2 DEF JoinsAfter
<1>4. \A i \in S : i + 1 \in R
  BY <1>2, <1>3 DEF JoinsAfter
<1>5. \A i \in R : i - 1 \in S /\ (i - 1) + 1 = i
  <2> SUFFICES ASSUME NEW i \in R
               PROVE  i - 1 \in S /\ (i - 1) + 1 = i
    OBVIOUS
  <2>1. i \in 1 .. length /\ i > n + 1 /\ queue[i].type = "PlayerJoinWorld"
    BY <1>2 DEF JoinsAfter
  <2>2. i - 1 \in 1 .. length - 1 /\ i - 1 > n /\ (i - 1) + 1 = i
    BY <1>2, <2>1
  <2>3. shorter[i - 1] = queue[i]
    BY <1>2, <2>2
  <2> QED  BY <1>2, <2>1, <2>2, <2>3 DEF JoinsAfter
<1>6. \A i, j \in S : i + 1 = j + 1 => i = j
  BY <1>3
<1>7. IsFiniteSet(S)
  BY <1>2, JoinsAfterFinite
<1> HIDE DEF S, R
<1>8. up \in Bijection(S, R)
  <2>1. up \in [S -> R]
    BY <1>4
  <2>2. \A t \in R : \E i \in S : up[i] = t
    BY <1>5
  <2> QED  BY <1>6, <2>1, <2>2 DEF Bijection, Injection, Surjection, IsInjective
<1>9. Cardinality(R) = Cardinality(S)
  BY <1>7, <1>8, FS_Bijection DEF ExistsBijection
<1> QED  BY <1>1, <1>9 DEF S, R

(* The first of the queue counts, or does not.                             *)
LEMMA JoinsAfterFirst ==
    ASSUME NEW T, NEW queue \in Seq(T), queue # <<>>
    PROVE  Cardinality(JoinsAfter(queue, 0))
             = IF Head(queue).type = "PlayerJoinWorld"
               THEN Cardinality(JoinsAfter(Tail(queue), 0)) + 1
               ELSE Cardinality(JoinsAfter(Tail(queue), 0))
<1>1. /\ Len(queue) \in Nat \ {0}
      /\ DOMAIN queue = 1 .. Len(queue)
      /\ Head(queue) = queue[1]
  BY TailIsBehind
<1>2. Cardinality(JoinsAfter(Tail(queue), 0)) = Cardinality(JoinsAfter(queue, 1))
  BY JoinsAfterTail
<1>3. IsFiniteSet(JoinsAfter(queue, 1)) /\ 1 \notin JoinsAfter(queue, 1)
  BY JoinsAfterFinite DEF JoinsAfter
<1>4. CASE queue[1].type = "PlayerJoinWorld"
  <2>1. JoinsAfter(queue, 0) = JoinsAfter(queue, 1) \cup {1}
    BY <1>1, <1>4 DEF JoinsAfter
  <2> QED  BY <1>1, <1>2, <1>3, <1>4, <2>1, FS_AddElement
<1>5. CASE queue[1].type # "PlayerJoinWorld"
  <2>1. JoinsAfter(queue, 0) = JoinsAfter(queue, 1)
    BY <1>1, <1>5 DEF JoinsAfter
  <2> QED  BY <1>1, <1>2, <1>5, <2>1
<1> QED  BY <1>4, <1>5

-----------------------------------------------------------------------------
(* Sending.                                                                *)

LEMMA PuppetsAreFinite ==
    ASSUME IInv
    PROVE  IsFiniteSet(Puppets(me)) /\ Cardinality(Puppets(me)) \in Nat
<1>1. Puppets(me) \in SUBSET (0 .. entityIdCounter - 1) /\ entityIdCounter \in Nat
  BY ConstantsAssumption DEF Puppets, OwnedBy, IInv, TypeOK
<1>2. IsFiniteSet(0 .. entityIdCounter - 1)
  BY <1>1, FS_Interval
<1>3. IsFiniteSet(Puppets(me))
  BY <1>1, <1>2, FS_Subset
<1> QED  BY <1>3, FS_CardinalityType

LEMMA SendingKeepsTypes ==
    ASSUME TrackerTyped, NEW request \in Requests, Sends(request)
    PROVE  TrackerTyped'
<1>1. toServer' \in Seq(Requests)
  BY AppendAddsLast DEF Sends, TrackerTyped
<1>2. joins' \in Nat
  BY DEF Sends, Says, Rides, Greets, Joins, TrackerTyped
<1>3. riding' \in BOOLEAN
  BY Zenon DEF Sends, Says, Rides, Greets, Joins, TrackerTyped
<1>4. connected' \in BOOLEAN
  BY Zenon DEF Sends, Says, Rides, Greets, Joins, TrackerTyped
<1>5. missed' \in BOOLEAN
  BY Zenon DEF Sends, Says, Rides, Greets, Joins, TrackerTyped
<1> QED  BY <1>1, <1>2, <1>3, <1>4, <1>5 DEF TrackerTyped

(* The queue, with the request at its end.                                 *)
LEMMA Sent ==
    ASSUME TrackerTyped, NEW request \in Requests, Sends(request)
    PROVE  \E last :
             /\ last = Len(toServer) + 1
             /\ last \notin DOMAIN toServer
             /\ DOMAIN toServer' = DOMAIN toServer \cup {last}
             /\ \A i \in DOMAIN toServer : toServer'[i] = toServer[i] /\ last > i /\ i \in Nat
             /\ toServer'[last] = request
             /\ last \in Nat
<1>1. toServer \in Seq(Requests) /\ toServer' = Append(toServer, request)
  BY DEF Sends, TrackerTyped
<1>2. PICK last : last = Len(toServer) + 1
  OBVIOUS
<1>3. DOMAIN toServer = 1 .. Len(toServer) /\ Len(toServer) \in Nat
  BY <1>1, LenProperties
<1>4. /\ last \notin DOMAIN toServer
      /\ DOMAIN toServer' = DOMAIN toServer \cup {last}
      /\ \A i \in DOMAIN toServer : toServer'[i] = toServer[i]
      /\ toServer'[last] = request
  BY <1>1, <1>2, AppendAddsLast
<1>5. last \in Nat /\ \A i \in DOMAIN toServer : last > i /\ i \in Nat
  BY <1>2, <1>3
<1> QED  BY <1>2, <1>4, <1>5

LEMMA SendingGreetsOnce ==
    ASSUME IInv, TrackerTyped, GreetsOnTheWay, NEW request \in Requests, Sends(request)
    PROVE  GreetsOnTheWay'
<1>1. PICK last :
        /\ last \notin DOMAIN toServer
        /\ DOMAIN toServer' = DOMAIN toServer \cup {last}
        /\ \A i \in DOMAIN toServer : toServer'[i] = toServer[i]
        /\ toServer'[last] = request
  BY Sent
<1>2. UNCHANGED greeted
  BY DEF Sends, vars
<1>3. \A i \in DOMAIN toServer : IsInitAuth(i)' <=> IsInitAuth(i)
  BY <1>1 DEF IsInitAuth
<1>4. IsInitAuth(last)' <=> request.type = "InitAuth"
  BY <1>1 DEF IsInitAuth
<1>5. CASE request.type = "InitAuth"
  <2>1. ~connected /\ connected' = TRUE
    BY <1>5 DEF Sends, Says, Rides, Greets, Joins, RideTypes
  <2>2. me \notin greeted /\ \A i \in DOMAIN toServer : ~IsInitAuth(i)
    BY <2>1 DEF GreetsOnTheWay
  <2>3. me \notin greeted'
    BY <1>2, <2>2
  <2>4. \A i \in DOMAIN toServer' : IsInitAuth(i)' <=> i = last
    BY <1>1, <1>3, <1>4, <1>5, <2>2
  <2> QED  BY <1>1, <2>1, <2>3, <2>4 DEF GreetsOnTheWay
<1>6. CASE request.type # "InitAuth"
  <2>1. UNCHANGED connected /\ (~connected => UNCHANGED joins)
    BY <1>6 DEF Sends, Says, Rides, Greets, Joins
  <2>2. \A i \in DOMAIN toServer' : IsInitAuth(i)' => i \in DOMAIN toServer /\ IsInitAuth(i)
    BY <1>1, <1>3, <1>4, <1>6
  <2>3. \A i \in DOMAIN toServer : IsInitAuth(i) => i \in DOMAIN toServer' /\ IsInitAuth(i)'
    BY <1>1, <1>3
  <2> QED  BY <1>2, <2>1, <2>2, <2>3 DEF GreetsOnTheWay
<1> QED  BY <1>5, <1>6

LEMMA SendingCountsJoins ==
    ASSUME IInv, TrackerTyped, GreetsOnTheWay, JoinsCounted,
           NEW request \in Requests, Sends(request)
    PROVE  JoinsCounted'
<1>1. PICK last :
        /\ last = Len(toServer) + 1
        /\ last \notin DOMAIN toServer
        /\ DOMAIN toServer' = DOMAIN toServer \cup {last}
        /\ \A i \in DOMAIN toServer : toServer'[i] = toServer[i] /\ last > i /\ i \in Nat
        /\ toServer'[last] = request
        /\ last \in Nat
  BY Sent
<1>2. /\ UNCHANGED <<ConnectedPlayers, greeted, SpawnedEntities>>
      /\ toServer \in Seq(Requests) /\ toServer' = Append(toServer, request)
      /\ toServer' \in Seq(Requests)
  BY SendingKeepsTypes DEF Sends, vars, managed, TrackerTyped
<1>3. Puppets(me)' = Puppets(me)
  BY <1>2 DEF Puppets, OwnedBy
<1>4. \A n \in 0 .. Len(toServer) :
        Cardinality(JoinsAfter(toServer', n))
          = IF request.type = "PlayerJoinWorld"
            THEN Cardinality(JoinsAfter(toServer, n)) + 1
            ELSE Cardinality(JoinsAfter(toServer, n))
  BY <1>2, JoinsAfterAppend
<1>5. /\ 0 \in 0 .. Len(toServer)
      /\ \A i \in DOMAIN toServer : i \in 0 .. Len(toServer)
  BY <1>2, LenProperties
<1>6. \A i \in DOMAIN toServer : IsInitAuth(i)' <=> IsInitAuth(i)
  BY <1>1 DEF IsInitAuth
<1>7. CASE request.type = "InitAuth"
  <2>1. ~connected /\ UNCHANGED joins
    BY <1>7 DEF Sends, Says, Rides, Greets, Joins, RideTypes
  <2>2. me \notin greeted /\ joins = 0 /\ \A i \in DOMAIN toServer : ~IsInitAuth(i)
    BY <2>1 DEF GreetsOnTheWay
  <2>3. me \notin ConnectedPlayers'
    BY <1>2, <2>2 DEF IInv, TypeOK
  <2>4. Len(toServer') = last
    BY <1>1, <1>2
  <2>5. Cardinality(JoinsAfter(toServer', last)) = 0
    BY <1>2, <2>4, NoneAfterLast
  <2>6. \A i \in DOMAIN toServer' : IsInitAuth(i)' => i = last
    BY <1>1, <1>6, <2>2
  <2> QED  BY <2>1, <2>2, <2>3, <2>5, <2>6 DEF JoinsCounted
<1>8. CASE request.type = "PlayerJoinWorld" /\ connected
  <2>1. joins' = joins + 1
    BY <1>8 DEF Sends, Says, Rides, Greets, Joins, RideTypes
  <2>2. \A i \in DOMAIN toServer' : IsInitAuth(i)' => i \in DOMAIN toServer /\ IsInitAuth(i)
    BY <1>1, <1>6, <1>8 DEF IsInitAuth
  <2>3. \A i \in DOMAIN toServer' : IsInitAuth(i)' => joins' = Cardinality(JoinsAfter(toServer', i))
    BY <1>4, <1>5, <1>8, <2>1, <2>2 DEF JoinsCounted
  <2>4. ASSUME me \in ConnectedPlayers'
        PROVE  joins' = Cardinality(Puppets(me)') + Cardinality(JoinsAfter(toServer', 0))
    <3>1. joins = Cardinality(Puppets(me)) + Cardinality(JoinsAfter(toServer, 0))
      BY <1>2, <2>4 DEF JoinsCounted
    <3>2. Cardinality(JoinsAfter(toServer', 0)) = Cardinality(JoinsAfter(toServer, 0)) + 1
      BY <1>4, <1>5, <1>8
    <3>3. Cardinality(JoinsAfter(toServer, 0)) \in Nat /\ Cardinality(Puppets(me)) \in Nat
      BY <1>2, JoinsAfterFinite, PuppetsAreFinite
    <3> QED  BY <1>3, <2>1, <3>1, <3>2, <3>3
  <2> QED  BY <2>3, <2>4 DEF JoinsCounted
<1>9. CASE request.type = "PlayerJoinWorld" /\ ~connected
  <2>1. me \notin greeted /\ \A i \in DOMAIN toServer : ~IsInitAuth(i)
    BY <1>9 DEF GreetsOnTheWay
  <2>2. me \notin ConnectedPlayers'
    BY <1>2, <2>1 DEF IInv, TypeOK
  <2>3. \A i \in DOMAIN toServer' : ~IsInitAuth(i)'
    BY <1>1, <1>6, <1>9, <2>1 DEF IsInitAuth
  <2> QED  BY <2>2, <2>3 DEF JoinsCounted
<1>10. CASE request.type \notin {"InitAuth", "PlayerJoinWorld"}
  <2>1. UNCHANGED joins
    BY <1>10 DEF Sends, Says, Rides, Greets, Joins
  <2>2. \A i \in DOMAIN toServer' : IsInitAuth(i)' => i \in DOMAIN toServer /\ IsInitAuth(i)
    BY <1>1, <1>6, <1>10 DEF IsInitAuth
  <2>3. \A n \in 0 .. Len(toServer) :
          Cardinality(JoinsAfter(toServer', n)) = Cardinality(JoinsAfter(toServer, n))
    BY <1>4, <1>10
  <2>4. \A i \in DOMAIN toServer' : IsInitAuth(i)' => joins' = Cardinality(JoinsAfter(toServer', i))
    BY <1>5, <2>1, <2>2, <2>3 DEF JoinsCounted
  <2>5. me \in ConnectedPlayers' =>
          joins' = Cardinality(Puppets(me)') + Cardinality(JoinsAfter(toServer', 0))
    BY <1>2, <1>3, <1>5, <2>1, <2>3 DEF JoinsCounted
  <2> QED  BY <2>4, <2>5 DEF JoinsCounted
<1> QED  BY <1>7, <1>8, <1>9, <1>10

LEMMA SendingKeepsRide ==
    ASSUME TrackerTyped, RideIsKnown, NEW request \in Requests, Sends(request)
    PROVE  RideIsKnown'
<1>1. PICK last :
        /\ last = Len(toServer) + 1
        /\ last \notin DOMAIN toServer
        /\ DOMAIN toServer' = DOMAIN toServer \cup {last}
        /\ \A i \in DOMAIN toServer : toServer'[i] = toServer[i] /\ last > i /\ i \in Nat
        /\ toServer'[last] = request
        /\ last \in Nat
  BY Sent
<1>2. UNCHANGED SpawnedEntities
  BY DEF Sends, vars, managed
<1>3. VehiclesOf(me)' = VehiclesOf(me)
  BY <1>2 DEF VehiclesOf, OwnedBy
<1>4. PICK queue : queue = toServer'
  OBVIOUS
<1>5. CASE IsRideRequest(request)
  <2>1. riding' \in BOOLEAN /\ riding' <=> request.type = "PlayerSpawnCar"
    BY <1>5 DEF Sends, Says, Rides, Greets, Joins, IsRideRequest, RideTypes
  <2>2. /\ last \in DOMAIN queue /\ queue[last] = request
        /\ \A j \in DOMAIN queue : ~(j > last)
    BY <1>1, <1>4
  <2>3. LastRide(queue, riding')
    BY <1>5, <2>1, <2>2 DEF LastRide
  <2> QED  BY <1>4, <2>3 DEF RideIsKnown
<1>6. CASE ~IsRideRequest(request)
  <2>1. UNCHANGED <<riding, missed>>
    BY <1>6 DEF Sends, Says, Rides, Greets, Joins, IsRideRequest
  <2>2. ASSUME NoRide(toServer)
        PROVE  NoRide(queue)
    BY <1>1, <1>4, <1>6, <2>2 DEF NoRide
  <2>3. ASSUME LastRide(toServer, riding)
        PROVE  LastRide(queue, riding)
    <3>1. PICK i \in DOMAIN toServer :
            /\ IsRideRequest(toServer[i])
            /\ \A j \in DOMAIN toServer : j > i => ~IsRideRequest(toServer[j])
            /\ toServer[i].type = "PlayerSpawnCar" <=> riding
      BY <2>3 DEF LastRide
    <3>2. i \in DOMAIN queue /\ queue[i] = toServer[i]
      BY <1>1, <1>4
    <3>3. \A j \in DOMAIN queue : j > i => ~IsRideRequest(queue[j])
      BY <1>1, <1>4, <1>6, <3>1
    <3> QED  BY <3>1, <3>2, <3>3 DEF LastRide
  <2> QED  BY <1>3, <1>4, <2>1, <2>2, <2>3 DEF RideIsKnown
<1> QED  BY <1>5, <1>6

-----------------------------------------------------------------------------
(* Handling.                                                               *)

LEMMA HandlingKeepsGreeting ==
    ASSUME TrackerTyped, GreetsOnTheWay, HandleHead
    PROVE  /\ Head(toServer) \in Requests
           /\ Head(toServer).type = "InitAuth" => me \notin greeted
           /\ GreetsOnTheWay'
<1>1. /\ toServer \in Seq(Requests) /\ toServer # <<>>
      /\ toServer' = Tail(toServer)
      /\ UNCHANGED <<connected, joins>>
      /\ Handle(me, Head(toServer))
  BY DEF HandleHead, TrackerTyped
<1>2. PICK length : length = Len(toServer)
  OBVIOUS
<1>3. /\ length \in Nat \ {0}
      /\ DOMAIN toServer = 1 .. length
      /\ DOMAIN toServer' = 1 .. length - 1
      /\ \A i \in 1 .. length - 1 : toServer'[i] = toServer[i + 1]
      /\ Head(toServer) = toServer[1]
      /\ Head(toServer) \in Requests
  BY <1>1, <1>2, TailIsBehind
<1>4. \A i \in 1 .. length - 1 : (IsInitAuth(i)' <=> IsInitAuth(i + 1)) /\ i + 1 \in 1 .. length
  BY <1>3 DEF IsInitAuth
<1>5. 1 \in 1 .. length /\ (IsInitAuth(1) <=> Head(toServer).type = "InitAuth")
  BY <1>3 DEF IsInitAuth
<1>6. \A i \in 1 .. length : i # 1 => i - 1 \in 1 .. length - 1 /\ (i - 1) + 1 = i
  BY <1>3
<1>7. CASE Head(toServer).type = "InitAuth"
  <2>1. connected /\ me \notin greeted /\ \A i \in 1 .. length : IsInitAuth(i) => i = 1
    BY <1>3, <1>5, <1>7 DEF GreetsOnTheWay
  <2>2. me \in greeted'
    BY <1>1, <1>7 DEF Handle
  <2>3. \A i \in 1 .. length - 1 : ~IsInitAuth(i)'
    <3>1. \A i \in 1 .. length - 1 : i + 1 # 1
      BY <1>3
    <3> QED  BY <1>4, <2>1, <3>1
  <2> QED  BY <1>1, <1>3, <2>1, <2>2, <2>3 DEF GreetsOnTheWay
<1>8. CASE Head(toServer).type # "InitAuth"
  <2>1. UNCHANGED greeted
    BY <1>1, <1>8 DEF Handle
  <2>2. \A i \in 1 .. length : IsInitAuth(i) => i - 1 \in 1 .. length - 1 /\ IsInitAuth(i - 1)'
    <3> SUFFICES ASSUME NEW i \in 1 .. length, IsInitAuth(i)
                 PROVE  i - 1 \in 1 .. length - 1 /\ IsInitAuth(i - 1)'
      OBVIOUS
    <3>1. i # 1
      BY <1>5, <1>8
    <3>2. PICK k \in 1 .. length - 1 : k = i - 1 /\ k + 1 = i
      BY <1>6, <3>1
    <3>3. IsInitAuth(k)'
      BY <1>4, <3>2
    <3> QED  BY <3>2, <3>3 DEF IsInitAuth
  <2>3. \A i, j \in 1 .. length - 1 : IsInitAuth(i)' /\ IsInitAuth(j)' => i = j
    <3> SUFFICES ASSUME NEW i \in 1 .. length - 1, NEW j \in 1 .. length - 1,
                        IsInitAuth(i)', IsInitAuth(j)'
                 PROVE  i = j
      OBVIOUS
    <3>1. i + 1 = j + 1
      BY <1>3, <1>4 DEF GreetsOnTheWay
    <3> QED  BY <1>3, <3>1
  <2>4. \A i \in 1 .. length - 1 : IsInitAuth(i)' => connected' /\ me \notin greeted'
    BY <1>1, <1>3, <1>4, <2>1 DEF GreetsOnTheWay
  <2>5. connected' /\ me \notin greeted' => \E i \in 1 .. length - 1 : IsInitAuth(i)'
    <3>1. SUFFICES ASSUME connected', me \notin greeted'
                   PROVE  \E i \in 1 .. length - 1 : IsInitAuth(i)'
      OBVIOUS
    <3>2. PICK i \in 1 .. length : IsInitAuth(i)
      BY <1>1, <1>3, <2>1, <3>1 DEF GreetsOnTheWay
    <3>3. PICK k \in 1 .. length - 1 : k = i - 1
      BY <2>2, <3>2
    <3>4. IsInitAuth(k)'
      BY <2>2, <3>2, <3>3 DEF IsInitAuth
    <3> QED  BY <3>4
  <2>6. ~connected' => me \notin greeted' /\ joins' = 0
    BY <1>1, <2>1 DEF GreetsOnTheWay
  <2>7. GreetsOnTheWay'
    BY <1>3, <2>3, <2>4, <2>5, <2>6 DEF GreetsOnTheWay
  <2> QED  BY <1>3, <1>8, <2>7
<1> QED  BY <1>3, <1>7, <1>8

LEMMA HandlingIsAStep ==
    ASSUME TrackerTyped, GreetsOnTheWay, HandleHead
    PROVE  Next
<1>1. PICK request \in Requests : request = Head(toServer)
  BY HandlingKeepsGreeting
<1>2. Handle(me, request)
  BY <1>1 DEF HandleHead
<1>3. request.type = "InitAuth" => me \notin greeted
  BY <1>1, HandlingKeepsGreeting
<1> QED  BY <1>2, <1>3, TrackerAssumption, HandleIsAStep

LEMMA HandlingCountsJoins ==
    ASSUME IInv, IInv', TrackerTyped, VehiclesAreCars, GreetsOnTheWay, JoinsCounted, HandleHead
    PROVE  JoinsCounted'
<1>1. /\ toServer \in Seq(Requests) /\ toServer # <<>>
      /\ toServer' = Tail(toServer)
      /\ UNCHANGED <<connected, joins>>
      /\ Handle(me, Head(toServer))
  BY DEF HandleHead, TrackerTyped
<1>2. PICK length, request : length = Len(toServer) /\ request = Head(toServer)
  OBVIOUS
<1>3. /\ length \in Nat \ {0}
      /\ DOMAIN toServer = 1 .. length
      /\ DOMAIN toServer' = 1 .. length - 1
      /\ \A i \in 1 .. length - 1 : toServer'[i] = toServer[i + 1]
      /\ request = toServer[1]
      /\ request \in Requests
  BY <1>1, <1>2, TailIsBehind
<1>4. \A i \in 1 .. length - 1 : (IsInitAuth(i)' <=> IsInitAuth(i + 1)) /\ i + 1 \in 1 .. length
  BY <1>3 DEF IsInitAuth
<1>5. ASSUME NEW i \in DOMAIN toServer', IsInitAuth(i)'
      PROVE  joins' = Cardinality(JoinsAfter(toServer', i))
  <2>1. i \in Nat /\ i + 1 \in 1 .. length /\ IsInitAuth(i + 1)
    BY <1>3, <1>4, <1>5
  <2>2. joins = Cardinality(JoinsAfter(toServer, i + 1))
    BY <1>3, <2>1 DEF JoinsCounted
  <2>3. Cardinality(JoinsAfter(Tail(toServer), i)) = Cardinality(JoinsAfter(toServer, i + 1))
    BY <1>1, <2>1, JoinsAfterTail
  <2> QED  BY <1>1, <2>2, <2>3
<1>6. ASSUME me \in ConnectedPlayers'
      PROVE  joins' = Cardinality(Puppets(me)') + Cardinality(JoinsAfter(toServer', 0))
  <2>1. Cardinality(JoinsAfter(toServer, 0))
          = IF request.type = "PlayerJoinWorld"
            THEN Cardinality(JoinsAfter(toServer', 0)) + 1
            ELSE Cardinality(JoinsAfter(toServer', 0))
    BY <1>1, <1>2, JoinsAfterFirst
  <2>2. /\ Cardinality(JoinsAfter(toServer, 0)) \in Nat
        /\ Cardinality(JoinsAfter(toServer', 0)) \in Nat
    BY <1>1, TailIsBehind, JoinsAfterFinite
  <2>3. IsFiniteSet(Puppets(me)) /\ Cardinality(Puppets(me)) \in Nat
    BY PuppetsAreFinite
  <2>4. CASE request.type = "InitAuth"
    <3>1. me \notin greeted
      BY <1>2, <2>4, HandlingKeepsGreeting
    <3>2. Puppets(me) = {}
      BY <3>1 DEF Puppets, OwnedBy, IInv, TypeOK, PuppetsBelongToPlayers
    <3>3. Puppets(me)' = Puppets(me)
      BY <1>1, <1>2, <2>4, SignInChanges DEF Handle
    <3>4. Cardinality(Puppets(me)') = 0
      BY <3>2, <3>3, FS_EmptySet
    <3>5. joins = Cardinality(JoinsAfter(toServer, 1))
      BY <1>3, <2>4 DEF JoinsCounted, IsInitAuth
    <3>6. Cardinality(JoinsAfter(Tail(toServer), 0)) = Cardinality(JoinsAfter(toServer, 0 + 1))
      BY <1>1, JoinsAfterTail
    <3> QED  BY <1>1, <2>2, <3>4, <3>5, <3>6
  <2>5. CASE request.type # "InitAuth"
    <3>1. Changes(request)
      BY <1>1, <1>2, <1>3, <2>5, RequestChanges
    <3>2. me \in ConnectedPlayers
      BY <1>6, <3>1 DEF Changes
    <3>3. joins = Cardinality(Puppets(me)) + Cardinality(JoinsAfter(toServer, 0))
      BY <3>2 DEF JoinsCounted
    <3>4. CASE request.type = "PlayerJoinWorld"
      <4>1. Puppets(me)' = Puppets(me) \cup {entityIdCounter}
        BY <3>1, <3>2, <3>4 DEF Changes
      <4>2. entityIdCounter \notin Puppets(me)
        BY DEF Puppets, OwnedBy, IInv, TypeOK
      <4>3. Cardinality(Puppets(me) \cup {entityIdCounter}) = Cardinality(Puppets(me)) + 1
        BY <2>3, <4>2, FS_AddElement
      <4> QED  BY <1>1, <2>1, <2>2, <2>3, <3>3, <3>4, <4>1, <4>3
    <3>5. CASE request.type # "PlayerJoinWorld"
      <4>1. Puppets(me)' = Puppets(me)
        BY <3>1, <3>5 DEF Changes
      <4> QED  BY <1>1, <2>1, <3>3, <3>5, <4>1
    <3> QED  BY <3>4, <3>5
  <2> QED  BY <2>4, <2>5
<1> QED  BY <1>5, <1>6 DEF JoinsCounted

LEMMA HandlingKeepsRide ==
    ASSUME IInv, TrackerTyped, VehiclesAreCars, RideIsKnown, HandleHead
    PROVE  VehiclesAreCars' /\ RideIsKnown'
<1>1. /\ toServer \in Seq(Requests) /\ toServer # <<>>
      /\ toServer' = Tail(toServer)
      /\ UNCHANGED <<riding, missed>>
      /\ Handle(me, Head(toServer))
  BY DEF HandleHead, TrackerTyped
<1>2. PICK length, request : length = Len(toServer) /\ request = Head(toServer)
  OBVIOUS
<1>3. /\ length \in Nat \ {0}
      /\ DOMAIN toServer = 1 .. length
      /\ DOMAIN toServer' = 1 .. length - 1
      /\ \A i \in 1 .. length - 1 : toServer'[i] = toServer[i + 1]
      /\ request = toServer[1]
      /\ request \in Requests
  BY <1>1, <1>2, TailIsBehind
<1>4. /\ VehiclesAreCars'
      /\ VehiclesOf(me)' # {} <=> IF IsRideRequest(request)
                                  THEN request.type = "PlayerSpawnCar"
                                  ELSE VehiclesOf(me) # {}
  <2>1. CASE request.type = "InitAuth"
    <3>1. VehiclesAreCars' /\ VehiclesOf(me)' = VehiclesOf(me)
      BY <1>1, <1>2, <2>1, SignInChanges DEF Handle
    <3> QED  BY <2>1, <3>1 DEF IsRideRequest, RideTypes
  <2>2. CASE request.type # "InitAuth"
    BY <1>1, <1>2, <1>3, <2>2, RequestChanges DEF Changes
  <2> QED  BY <2>1, <2>2
<1>5. PICK queue, rest : queue = toServer /\ rest = toServer'
  OBVIOUS
<1>6. ASSUME NoRide(queue), riding <=> VehiclesOf(me) # {}
      PROVE  NoRide(rest) /\ (riding <=> VehiclesOf(me)' # {})
  <2>1. ~IsRideRequest(request)
    BY <1>3, <1>5, <1>6 DEF NoRide
  <2>2. \A i \in 1 .. length - 1 : i + 1 \in 1 .. length
    BY <1>3
  <2>3. NoRide(rest)
    BY <1>3, <1>5, <1>6, <2>2 DEF NoRide
  <2> QED  BY <1>4, <1>6, <2>1, <2>3
<1>7. ASSUME LastRide(queue, riding)
      PROVE  \/ NoRide(rest) /\ (riding <=> VehiclesOf(me)' # {})
             \/ LastRide(rest, riding)
  <2>1. PICK i \in 1 .. length :
          /\ IsRideRequest(queue[i])
          /\ \A j \in 1 .. length : j > i => ~IsRideRequest(queue[j])
          /\ queue[i].type = "PlayerSpawnCar" <=> riding
    BY <1>3, <1>5, <1>7 DEF LastRide
  <2>2. CASE i = 1
    <3>1. \A j \in 1 .. length - 1 : j + 1 \in 1 .. length /\ j + 1 > i
      BY <1>3, <2>2
    <3>2. NoRide(rest)
      BY <1>3, <1>5, <2>1, <3>1 DEF NoRide
    <3>3. riding <=> VehiclesOf(me)' # {}
      BY <1>3, <1>4, <1>5, <2>1, <2>2
    <3> QED  BY <3>2, <3>3
  <2>3. CASE i # 1
    <3>1. PICK k \in 1 .. length - 1 : k + 1 = i
      <4>1. i - 1 \in 1 .. length - 1 /\ (i - 1) + 1 = i
        BY <1>3, <2>3
      <4> QED  BY <4>1
    <3>2. \A j \in 1 .. length - 1 : j > k => j + 1 \in 1 .. length /\ j + 1 > i
      BY <1>3, <3>1
    <3>3. IsRideRequest(rest[k]) /\ (rest[k].type = "PlayerSpawnCar" <=> riding)
      BY <1>3, <1>5, <2>1, <3>1
    <3>4. \A j \in 1 .. length - 1 : j > k => ~IsRideRequest(rest[j])
      BY <1>3, <1>5, <2>1, <3>2
    <3>5. LastRide(rest, riding)
      BY <1>3, <1>5, <3>3, <3>4 DEF LastRide
    <3> QED  BY <3>5
  <2> QED  BY <2>2, <2>3
<1> QED  BY <1>1, <1>4, <1>5, <1>6, <1>7 DEF RideIsKnown

-----------------------------------------------------------------------------
(* Every step keeps the invariant, and is one of the server's or none of    *)
(* its business.                                                           *)

LEMMA TrackerStepIsAStep ==
    ASSUME TrackerInv, [TrackerNext]_trackerVars
    PROVE  [Next]_vars
<1>1. CASE UNCHANGED trackerVars
  BY <1>1 DEF trackerVars
<1>2. CASE HandleHead
  BY <1>2, HandlingIsAStep DEF TrackerInv
<1>3. CASE Quiet \/ \E request \in Requests : Sends(request)
  BY <1>3 DEF Quiet, Sends
<1> QED  BY <1>1, <1>2, <1>3, KindsOfSteps DEF TrackerInv

LEMMA TrackerStepKeeps ==
    ASSUME TrackerInv, [TrackerNext]_trackerVars
    PROVE  TrackerInv'
<1>1. IInv'
  BY TrackerStepIsAStep, StepPreserves DEF TrackerInv
<1>2. ASSUME UNCHANGED <<vars, connected, joins, toServer>>,
             riding' \in BOOLEAN,
             UNCHANGED <<riding, missed>> \/ missed' = TRUE
      PROVE  TrackerInv'
  <2>1. UNCHANGED <<ConnectedPlayers, SpawnedEntities, greeted>>
    BY <1>2 DEF vars, managed
  <2>2. VehiclesAreCars' /\ VehiclesOf(me)' = VehiclesOf(me) /\ Puppets(me)' = Puppets(me)
    BY <2>1 DEF TrackerInv, VehiclesAreCars, VehiclesOf, Puppets, OwnedBy
  <2>3. TrackerTyped'
    <3>1. missed' \in BOOLEAN
      BY <1>2 DEF TrackerInv, TrackerTyped
    <3> QED  BY <1>2, <3>1 DEF TrackerInv, TrackerTyped
  <2>4. \A i : IsInitAuth(i)' <=> IsInitAuth(i)
    BY <1>2 DEF IsInitAuth
  <2>5. GreetsOnTheWay'
    BY <1>2, <2>1, <2>4 DEF TrackerInv, GreetsOnTheWay
  <2>6. JoinsCounted'
    BY <1>2, <2>1, <2>2, <2>4 DEF TrackerInv, JoinsCounted
  <2>7. RideIsKnown'
    <3>1. CASE missed' = TRUE
      BY <3>1 DEF RideIsKnown
    <3>2. CASE UNCHANGED <<riding, missed>>
      BY <1>2, <2>2, <3>2 DEF TrackerInv, RideIsKnown
    <3> QED  BY <1>2, <3>1, <3>2
  <2> QED  BY <1>1, <2>2, <2>3, <2>5, <2>6, <2>7 DEF TrackerInv
<1>3. CASE UNCHANGED trackerVars
  BY <1>2, <1>3 DEF trackerVars, TrackerInv, TrackerTyped
<1>4. CASE Quiet
  BY <1>2, <1>4 DEF Quiet
<1>5. ASSUME NEW request \in Requests, Sends(request)
      PROVE  TrackerInv'
  <2>1. TrackerTyped' /\ GreetsOnTheWay' /\ JoinsCounted' /\ RideIsKnown'
    BY <1>5, SendingKeepsTypes, SendingGreetsOnce, SendingCountsJoins, SendingKeepsRide
       DEF TrackerInv
  <2>2. VehiclesAreCars'
    BY <1>5 DEF Sends, vars, managed, TrackerInv, VehiclesAreCars
  <2> QED  BY <1>1, <2>1, <2>2 DEF TrackerInv
<1>6. CASE HandleHead
  <2>1. GreetsOnTheWay' /\ JoinsCounted' /\ VehiclesAreCars' /\ RideIsKnown'
    BY <1>1, <1>6, HandlingKeepsGreeting, HandlingCountsJoins, HandlingKeepsRide
       DEF TrackerInv
  <2>2. TrackerTyped'
    BY <1>6, TailDropsFirst DEF HandleHead, TrackerInv, TrackerTyped
  <2> QED  BY <1>1, <2>1, <2>2 DEF TrackerInv
<1> QED  BY <1>3, <1>4, <1>5, <1>6, KindsOfSteps DEF TrackerInv

LEMMA TrackerInitEstablishes ==
    ASSUME TrackerInit
    PROVE  TrackerInv
<1>1. /\ Init /\ riding = FALSE /\ connected = FALSE /\ missed = FALSE /\ joins = 0
      /\ toServer = <<>>
  BY DEF TrackerInit
<1>2. toServer \in Seq(Requests) /\ DOMAIN toServer = {}
  BY <1>1, EmptySeq
<1>3. /\ DOMAIN SpawnedEntities = {} /\ greeted = {} /\ ConnectedPlayers = {}
  BY <1>1 DEF Init
<1>4. IInv
  BY <1>1, InitEstablishes
<1>5. TrackerTyped
  BY <1>1, <1>2 DEF TrackerTyped
<1>6. VehiclesAreCars /\ GreetsOnTheWay /\ JoinsCounted
  BY <1>1, <1>2, <1>3 DEF VehiclesAreCars, GreetsOnTheWay, JoinsCounted
<1>7. VehiclesOf(me) = {}
  BY <1>3 DEF VehiclesOf, OwnedBy
<1>8. RideIsKnown
  BY <1>1, <1>2, <1>7 DEF RideIsKnown, NoRide
<1> QED  BY <1>4, <1>5, <1>6, <1>8 DEF TrackerInv

(* The inductive invariant.                                                *)
THEOREM TrackerInvariant == TrackerSpec => []TrackerInv
<1>1. TrackerInit => TrackerInv
  BY TrackerInitEstablishes
<1>2. TrackerInv /\ [TrackerNext]_trackerVars => TrackerInv'
  BY TrackerStepKeeps
<1> QED  BY <1>1, <1>2, PTL DEF TrackerSpec

(* The player drives the handlers as EntityTracking assumes its clients do: *)
(* what is proved of it holds here.                                        *)
THEOREM PlayerDrivesTheHandlers == TrackerSpec => Spec
<1>1. TrackerInit => Init
  BY DEF TrackerInit
<1>2. TrackerInv /\ [TrackerNext]_trackerVars => [Next]_vars
  BY TrackerStepIsAStep
<1> QED  BY <1>1, <1>2, TrackerInvariant, PTL DEF TrackerSpec, Spec

(* Once the server has caught up, it has a vehicle of the player exactly    *)
(* while they ride one.                                                    *)
THEOREM CarsFollow == TrackerSpec => []CarFollowsRide
<1>1. TrackerInv => CarFollowsRide
  <2>1. SUFFICES ASSUME TrackerInv, toServer = <<>>, ~missed
                 PROVE  riding <=> VehiclesOf(me) # {}
    BY DEF CarFollowsRide
  <2>2. DOMAIN toServer = {}
    BY <2>1, EmptySeq
  <2>3. ~LastRide(toServer, riding)
    BY <2>2 DEF LastRide
  <2> QED  BY <2>1, <2>3 DEF TrackerInv, RideIsKnown
<1> QED  BY <1>1, TrackerInvariant, PTL

(* Each PlayerJoinWorld sent after InitAuth has made a puppet of its own,   *)
(* and nothing takes it away.                                              *)
THEOREM PuppetsAreJoins == TrackerSpec => []PuppetPerJoin
<1>1. TrackerInv => PuppetPerJoin
  <2>1. SUFFICES ASSUME TrackerInv, toServer = <<>>
                 PROVE  Cardinality(MyPuppets) = IF me \in ConnectedPlayers THEN joins ELSE 0
    BY DEF PuppetPerJoin
  <2>2. MyPuppets = Puppets(me)
    BY DEF MyPuppets, Puppets
  <2>3. CASE me \in ConnectedPlayers
    <3>1. joins = Cardinality(Puppets(me)) + Cardinality(JoinsAfter(toServer, 0))
      BY <2>1, <2>3 DEF TrackerInv, JoinsCounted
    <3>2. JoinsAfter(toServer, 0) = {}
      <4>1. DOMAIN toServer = {}
        BY <2>1, EmptySeq
      <4> QED  BY <4>1 DEF JoinsAfter
    <3>3. Cardinality(Puppets(me)) \in Nat
      BY <2>1, PuppetsAreFinite DEF TrackerInv
    <3> QED  BY <2>2, <2>3, <3>1, <3>2, <3>3, FS_EmptySet
  <2>4. CASE me \notin ConnectedPlayers
    <3>1. Puppets(me) = {}
      BY <2>1, <2>4 DEF TrackerInv, IInv, PuppetsBelongToPlayers, Puppets, OwnedBy
    <3> QED  BY <2>2, <2>4, <3>1, FS_EmptySet
  <2> QED  BY <2>3, <2>4
<1> QED  BY <1>1, TrackerInvariant, PTL

=============================================================================
