------------------------ MODULE EntityTrackingProofs ------------------------
(***************************************************************************)
(* Proofs about EntityTracking, for any number of connections, positions   *)
(* and entities and any visibility filter.                                 *)
(***************************************************************************)
EXTENDS EntityTracking, SequenceFacts

-----------------------------------------------------------------------------
(* A loop of the tracker adds only ids it ran for.                         *)
LEMMA TrackedAfterBounds ==
    ASSUME NEW was, NEW loops
    PROVE  /\ TrackedAfter(was, loops) \subseteq was \cup DOMAIN loops
           /\ TrackedAfter(was, loops) \ DOMAIN loops = was \ DOMAIN loops
  BY DEF TrackedAfter

(* What every handler does to the dictionary on behalf of c: it takes      *)
(* "gone" from c's entities, may add the entity of the next id, leaves the *)
(* others' entities alone and changes at most the position of c's.  A new   *)
(* vehicle takes the place of the ones before, a new puppet is a player's.  *)
Rearranges(c, gone) ==
    /\ gone \subseteq OwnedBy(SpawnedEntities, c)
    /\ \/ entityIdCounter' = entityIdCounter
       \/ entityIdCounter' = entityIdCounter + 1
    /\ entityIdCounter' \in 0 .. MaxEntities
    /\ SpawnedEntities' \in [DOMAIN SpawnedEntities' -> Entity]
    /\ DOMAIN SpawnedEntities' =
         (DOMAIN SpawnedEntities \ gone) \cup (entityIdCounter .. entityIdCounter' - 1)
    /\ \A id \in DOMAIN SpawnedEntities' :
         IF id \in DOMAIN SpawnedEntities
         THEN /\ SpawnedEntities'[id].owner = SpawnedEntities[id].owner
              /\ SpawnedEntities'[id].isVehicle = SpawnedEntities[id].isVehicle
              /\ SpawnedEntities'[id].record = SpawnedEntities[id].record
              /\ id \notin OwnedBy(SpawnedEntities, c) =>
                   SpawnedEntities'[id] = SpawnedEntities[id]
         ELSE /\ SpawnedEntities'[id].owner = c
              /\ SpawnedEntities'[id].isVehicle => VehiclesOf(c) \subseteq gone
              /\ SpawnedEntities'[id].record = Puppet => c \in ConnectedPlayers

(* What every handler does to the views: a player's view stays within what *)
(* exists and is not theirs, and it changes only about c's entities unless *)
(* it is c's own.                                                          *)
Reviews(c) ==
    /\ trackedEntities' \in [Conns -> SUBSET (0 .. entityIdCounter' - 1)]
    /\ \A p \in Conns \ ConnectedPlayers : trackedEntities'[p] = trackedEntities[p]
    /\ \A p \in ConnectedPlayers :
         /\ trackedEntities'[p] \subseteq
              DOMAIN SpawnedEntities' \ OwnedBy(SpawnedEntities', p)
         /\ LET ofC == OwnedBy(SpawnedEntities, c) \cup OwnedBy(SpawnedEntities', c)
            IN  p # c => trackedEntities'[p] \ ofC = trackedEntities[p] \ ofC

-----------------------------------------------------------------------------
(* A broadcast about entities of c keeps every view right.                 *)
LEMMA BroadcastReviews ==
    ASSUME IInv,
           NEW c \in Conns, NEW order, NEW gone, NEW touched,
           Rearranges(c, gone),
           touched \subseteq OwnedBy(SpawnedEntities', c),
           Broadcast(SpawnedEntities', order, c, gone, touched)
    PROVE  Reviews(c)
  <1> DEFINE Loops(p) == [id \in Shows(p, c, touched) |->
                             FilteredComparisons(SpawnedEntities', order, p, id)]
             Kept(p) == trackedEntities[p] \ gone
  <1>1. trackedEntities' =
          [p \in Conns |-> IF p \in ConnectedPlayers
                           THEN TrackedAfter(Kept(p), Loops(p))
                           ELSE trackedEntities[p]]
    BY DEF Broadcast, Audience
  <1>2. \A p : DOMAIN Loops(p) = IF p = c THEN {} ELSE touched
    BY DEF Shows
  <1>3. ASSUME NEW p
        PROVE  /\ TrackedAfter(Kept(p), Loops(p)) \subseteq Kept(p) \cup DOMAIN Loops(p)
               /\ TrackedAfter(Kept(p), Loops(p)) \ DOMAIN Loops(p) = Kept(p) \ DOMAIN Loops(p)
    BY TrackedAfterBounds
  <1>4. ConnectedPlayers \subseteq Conns
    BY DEF IInv, TypeOK
  <1>5. \A p \in ConnectedPlayers : trackedEntities'[p] = TrackedAfter(Kept(p), Loops(p))
    BY <1>1, <1>4
  <1>6. \A p \in Conns \ ConnectedPlayers : trackedEntities'[p] = trackedEntities[p]
    BY <1>1
  <1> HIDE DEF Loops, Kept
  <1>7. ASSUME NEW p \in ConnectedPlayers
        PROVE  trackedEntities'[p] \subseteq
                 DOMAIN SpawnedEntities' \ OwnedBy(SpawnedEntities', p)
    <2>1. trackedEntities[p] \subseteq DOMAIN SpawnedEntities \ OwnedBy(SpawnedEntities, p)
      BY DEF IInv, NoDanglingTracking, NeverTracksOwn
    <2>2. Kept(p) \subseteq DOMAIN SpawnedEntities' \ OwnedBy(SpawnedEntities', p)
      BY <2>1 DEF Kept, Rearranges, OwnedBy
    <2>3. DOMAIN Loops(p) \subseteq DOMAIN SpawnedEntities' \ OwnedBy(SpawnedEntities', p)
      BY <1>2 DEF OwnedBy
    <2> QED  BY <1>3, <1>5, <2>2, <2>3
  <1>8. ASSUME NEW p \in ConnectedPlayers, p # c
        PROVE  LET ofC == OwnedBy(SpawnedEntities, c) \cup OwnedBy(SpawnedEntities', c)
               IN  trackedEntities'[p] \ ofC = trackedEntities[p] \ ofC
    <2>1. gone \subseteq OwnedBy(SpawnedEntities, c)
      BY DEF Rearranges
    <2>2. DOMAIN Loops(p) \subseteq OwnedBy(SpawnedEntities', c)
      BY <1>2
    <2>3. trackedEntities'[p] \ DOMAIN Loops(p) = Kept(p) \ DOMAIN Loops(p)
      BY <1>3, <1>5
    <2>4. Kept(p) = trackedEntities[p] \ gone
      BY DEF Kept
    <2> QED  BY <2>1, <2>2, <2>3, <2>4
  <1>9. trackedEntities' \in [Conns -> SUBSET (0 .. entityIdCounter' - 1)]
    <2>1. DOMAIN SpawnedEntities' \subseteq 0 .. entityIdCounter' - 1
      BY DEF IInv, TypeOK, Rearranges
    <2>2. \A p \in Conns \ ConnectedPlayers :
            trackedEntities'[p] \subseteq 0 .. entityIdCounter' - 1
      BY <1>6 DEF IInv, TypeOK, Rearranges
    <2>3. \A p \in Conns : trackedEntities'[p] \subseteq 0 .. entityIdCounter' - 1
      BY <1>7, <2>1, <2>2
    <2> QED  BY <1>1, <2>3
  <1> QED  BY <1>6, <1>7, <1>8, <1>9 DEF Reviews

-----------------------------------------------------------------------------
(* Each handler, as a rearrangement of the world and a review of views.    *)

(* Adding an entity of c to what is left when "gone" is removed.           *)
LEMMA CreateRearranges ==
    ASSUME IInv, NEW c \in Conns, NEW gone \in SUBSET OwnedBy(SpawnedEntities, c),
           NEW entity \in Entity, entity.owner = c,
           entity.isVehicle => VehiclesOf(c) \subseteq gone,
           entity.record = Puppet => c \in ConnectedPlayers,
           NEW left, DOMAIN left = DOMAIN SpawnedEntities \ gone,
           \A id \in DOMAIN left : left[id] = SpawnedEntities[id],
           entityIdCounter < MaxEntities, TakeId,
           SpawnedEntities' = CreateEntity(left, entity)
    PROVE  /\ Rearranges(c, gone)
           /\ entityIdCounter \in OwnedBy(SpawnedEntities', c)
  <1>1. /\ entityIdCounter \in 0 .. MaxEntities
        /\ DOMAIN SpawnedEntities \subseteq 0 .. entityIdCounter - 1
        /\ \A id \in DOMAIN SpawnedEntities : SpawnedEntities[id] \in Entity
    BY DEF IInv, TypeOK
  <1>2. entityIdCounter' = entityIdCounter + 1
    BY DEF TakeId
  <1>3. entityIdCounter' \in 0 .. MaxEntities
    BY <1>1, <1>2, ConstantsAssumption
  <1>4. DOMAIN SpawnedEntities' = (DOMAIN SpawnedEntities \ gone) \cup {entityIdCounter}
    BY DEF CreateEntity
  <1>5. entityIdCounter .. entityIdCounter' - 1 = {entityIdCounter}
    BY <1>1, <1>2
  <1>6. entityIdCounter \notin DOMAIN SpawnedEntities
    BY <1>1
  <1>7. \A id \in DOMAIN SpawnedEntities \ gone : SpawnedEntities'[id] = SpawnedEntities[id]
    BY <1>6 DEF CreateEntity
  <1>8. SpawnedEntities'[entityIdCounter] = entity
    BY DEF CreateEntity
  <1>9. SpawnedEntities' \in [DOMAIN SpawnedEntities' -> Entity]
    <2>1. \A id \in DOMAIN SpawnedEntities' : SpawnedEntities'[id] \in Entity
      BY <1>1, <1>4, <1>7, <1>8
    <2> QED  BY <2>1 DEF CreateEntity
  <1>10. Rearranges(c, gone)
    BY <1>2, <1>3, <1>4, <1>5, <1>6, <1>7, <1>8, <1>9 DEF Rearranges
  <1> QED  BY <1>4, <1>8, <1>10 DEF OwnedBy

(* Adding an entity of c that is no vehicle.                               *)
LEMMA AddRearranges ==
    ASSUME IInv, NEW c \in Conns,
           NEW entity \in Entity, entity.owner = c, ~entity.isVehicle,
           entity.record = Puppet => c \in ConnectedPlayers,
           entityIdCounter < MaxEntities, TakeId,
           SpawnedEntities' = CreateEntity(SpawnedEntities, entity)
    PROVE  /\ Rearranges(c, {})
           /\ entityIdCounter \in OwnedBy(SpawnedEntities', c)
  <1> DEFINE gone == {}
             left == SpawnedEntities
  <1>1. /\ gone \in SUBSET OwnedBy(SpawnedEntities, c)
        /\ entity.isVehicle => VehiclesOf(c) \subseteq gone
        /\ DOMAIN left = DOMAIN SpawnedEntities \ gone
        /\ \A id \in DOMAIN left : left[id] = SpawnedEntities[id]
    OBVIOUS
  <1>2. SpawnedEntities' = CreateEntity(left, entity)
    OBVIOUS
  <1> HIDE DEF gone, left
  <1>3. /\ Rearranges(c, gone)
        /\ entityIdCounter \in OwnedBy(SpawnedEntities', c)
    BY <1>1, <1>2, CreateRearranges
  <1> QED  BY <1>3 DEF gone

(* Removing entities of c.                                                 *)
LEMMA RemoveRearranges ==
    ASSUME IInv, NEW c \in Conns, NEW gone \in SUBSET OwnedBy(SpawnedEntities, c),
           UNCHANGED entityIdCounter,
           SpawnedEntities' = Without(SpawnedEntities, gone)
    PROVE  Rearranges(c, gone)
  <1>1. /\ DOMAIN SpawnedEntities' = DOMAIN SpawnedEntities \ gone
        /\ \A id \in DOMAIN SpawnedEntities' : SpawnedEntities'[id] = SpawnedEntities[id]
    BY DEF Without
  <1>2. SpawnedEntities' \in [DOMAIN SpawnedEntities' -> Entity]
    BY DEF Without, IInv, TypeOK
  <1> QED  BY <1>1, <1>2 DEF Rearranges, IInv, TypeOK

(* A handler that signs nobody in or out.                                  *)
Acted(c) ==
    /\ \E gone : Rearranges(c, gone)
    /\ Reviews(c)
    /\ UNCHANGED ConnectedPlayers

(* One that changes nothing is such a handler, too.                        *)
LEMMA IdlingActs ==
    ASSUME IInv, NEW c \in Conns, UNCHANGED managed
    PROVE  Acted(c)
  <1>1. entityIdCounter .. entityIdCounter' - 1 = {}
    BY ConstantsAssumption DEF managed, IInv, TypeOK
  <1>2. Rearranges(c, {})
    BY <1>1 DEF managed, IInv, TypeOK, Rearranges
  <1>3. Reviews(c)
    BY DEF managed, IInv, TypeOK, NoDanglingTracking, NeverTracksOwn, OwnedBy, Reviews
  <1> QED  BY <1>2, <1>3 DEF managed, Acted

LEMMA JoinWorldActs ==
    ASSUME IInv, NEW c \in Conns, NEW position \in Positions,
           HandleJoinWorld(c, position)
    PROVE  Acted(c)
  <1>1. CASE c \notin ConnectedPlayers
    BY <1>1, IdlingActs DEF HandleJoinWorld, NothingHappens
  <1>2. CASE c \in ConnectedPlayers
    <2> DEFINE entity == [owner |-> c, record |-> Puppet, pos |-> position,
                          isVehicle |-> FALSE]
               Loops(order) == [id \in DOMAIN SpawnedEntities' \ OwnedBy(SpawnedEntities', c) |->
                                   Comparisons(SpawnedEntities', order, c, id)]
    <2>1. PICK order :
            /\ SpawnedEntities' = CreateEntity(SpawnedEntities, entity)
            /\ trackedEntities' =
                 [trackedEntities EXCEPT ![c] = TrackedAfter(@, Loops(order))]
      BY <1>2 DEF HandleJoinWorld
    <2>2. entityIdCounter < MaxEntities /\ TakeId /\ UNCHANGED ConnectedPlayers
      BY <1>2 DEF HandleJoinWorld
    <2>3. /\ entity \in Entity /\ entity.owner = c /\ ~entity.isVehicle
          /\ entity.record = Puppet => c \in ConnectedPlayers
      BY <1>2 DEF Entity
    <2> HIDE DEF entity
    <2>4. Rearranges(c, {})
      BY <2>1, <2>2, <2>3, AddRearranges
    <2>5. Reviews(c)
      <3> DEFINE view == TrackedAfter(trackedEntities[c], Loops(order))
      <3>1. trackedEntities' = [trackedEntities EXCEPT ![c] = view]
        BY <2>1
      <3>2. view \subseteq trackedEntities[c] \cup DOMAIN Loops(order)
        BY TrackedAfterBounds
      <3>3. DOMAIN Loops(order) = DOMAIN SpawnedEntities' \ OwnedBy(SpawnedEntities', c)
        OBVIOUS
      <3> HIDE DEF view, Loops
      <3>4. \A p \in ConnectedPlayers : trackedEntities[p] \subseteq
              DOMAIN SpawnedEntities' \ OwnedBy(SpawnedEntities', p)
        BY <2>4 DEF Rearranges, OwnedBy, IInv, NoDanglingTracking, NeverTracksOwn
      <3>5. view \subseteq DOMAIN SpawnedEntities' \ OwnedBy(SpawnedEntities', c)
        BY <1>2, <3>2, <3>3, <3>4
      <3>6. DOMAIN SpawnedEntities' \subseteq 0 .. entityIdCounter' - 1
        BY <2>4 DEF IInv, TypeOK, Rearranges
      <3>7. trackedEntities \in [Conns -> SUBSET (0 .. entityIdCounter' - 1)]
        BY <2>4 DEF IInv, TypeOK, Rearranges
      <3> QED  BY <1>2, <3>1, <3>4, <3>5, <3>6, <3>7 DEF Reviews
    <2> QED  BY <2>2, <2>4, <2>5 DEF Acted
  <1> QED  BY <1>1, <1>2

LEMMA PositionUpdateActs ==
    ASSUME IInv, NEW c \in Conns, NEW position \in Positions,
           HandlePositionUpdate(c, position)
    PROVE  Acted(c)
  <1>1. CASE position = FaultyPosition
    BY <1>1, IdlingActs DEF HandlePositionUpdate, NothingHappens
  <1>2. CASE position # FaultyPosition
    <2> DEFINE moved == OwnedBy(SpawnedEntities, c)
    <2>1. PICK order :
            /\ SpawnedEntities' = [id \in DOMAIN SpawnedEntities |->
                  IF id \in moved
                  THEN [SpawnedEntities[id] EXCEPT !.pos = position]
                  ELSE SpawnedEntities[id]]
            /\ Broadcast(SpawnedEntities', order, c, {}, moved)
      BY <1>2 DEF HandlePositionUpdate
    <2>2. UNCHANGED <<ConnectedPlayers, entityIdCounter>>
      BY <1>2 DEF HandlePositionUpdate
    <2>3. \A id \in DOMAIN SpawnedEntities : SpawnedEntities[id] \in Entity
      BY DEF IInv, TypeOK
    <2>4. \A id \in DOMAIN SpawnedEntities :
            /\ SpawnedEntities'[id] \in Entity
            /\ SpawnedEntities'[id].owner = SpawnedEntities[id].owner
            /\ SpawnedEntities'[id].isVehicle = SpawnedEntities[id].isVehicle
            /\ SpawnedEntities'[id].record = SpawnedEntities[id].record
            /\ id \notin moved => SpawnedEntities'[id] = SpawnedEntities[id]
      BY <2>1, <2>3 DEF Entity
    <2>5. DOMAIN SpawnedEntities' = DOMAIN SpawnedEntities
      BY <2>1
    <2>6. SpawnedEntities' \in [DOMAIN SpawnedEntities' -> Entity]
      BY <2>1, <2>4, <2>5
    <2>7. Rearranges(c, {})
      <3>1. entityIdCounter' \in 0 .. MaxEntities /\ entityIdCounter .. entityIdCounter' - 1 = {}
        BY <2>2, ConstantsAssumption DEF IInv, TypeOK
      <3> QED  BY <2>2, <2>4, <2>5, <2>6, <3>1 DEF Rearranges
    <2>8. moved \subseteq OwnedBy(SpawnedEntities', c)
      BY <2>4, <2>5 DEF OwnedBy
    <2>9. Reviews(c)
      BY <2>1, <2>7, <2>8, BroadcastReviews
    <2> QED  BY <2>2, <2>7, <2>9 DEF Acted
  <1> QED  BY <1>1, <1>2

LEMMA SpawnCarActs ==
    ASSUME IInv, NEW c \in Conns, NEW position \in Positions,
           HandleSpawnCar(c, position)
    PROVE  Acted(c)
  <1> DEFINE left == Without(SpawnedEntities, VehiclesOf(c))
             entity == [owner |-> c, record |-> Car, pos |-> position, isVehicle |-> TRUE]
  <1>1. PICK order :
          /\ SpawnedEntities' = CreateEntity(left, entity)
          /\ Broadcast(SpawnedEntities', order, c, VehiclesOf(c), {entityIdCounter})
    BY DEF HandleSpawnCar
  <1>2. entityIdCounter < MaxEntities /\ TakeId /\ UNCHANGED ConnectedPlayers
    BY DEF HandleSpawnCar
  <1>3. entity \in Entity /\ entity.owner = c /\ entity.record # Puppet
    BY ConstantsAssumption DEF Entity
  <1>4. VehiclesOf(c) \in SUBSET OwnedBy(SpawnedEntities, c)
    BY DEF VehiclesOf
  <1>5. /\ DOMAIN left = DOMAIN SpawnedEntities \ VehiclesOf(c)
        /\ \A id \in DOMAIN left : left[id] = SpawnedEntities[id]
    BY DEF Without
  <1> HIDE DEF left, entity
  <1>6. /\ Rearranges(c, VehiclesOf(c))
        /\ entityIdCounter \in OwnedBy(SpawnedEntities', c)
    BY <1>1, <1>2, <1>3, <1>4, <1>5, CreateRearranges
  <1>7. Reviews(c)
    BY <1>1, <1>6, BroadcastReviews
  <1> QED  BY <1>2, <1>6, <1>7 DEF Acted

(* What UnmountCar and an unequip have in common.                          *)
LEMMA RemovalActs ==
    ASSUME IInv, NEW c \in Conns, NEW order,
           NEW gone \in SUBSET OwnedBy(SpawnedEntities, c),
           SpawnedEntities' = Without(SpawnedEntities, gone),
           Broadcast(SpawnedEntities', order, c, gone, {}),
           UNCHANGED entityIdCounter
    PROVE  Rearranges(c, gone) /\ Reviews(c)
  <1>1. Rearranges(c, gone)
    BY RemoveRearranges
  <1> QED  BY <1>1, BroadcastReviews

LEMMA UnmountCarActs ==
    ASSUME IInv, NEW c \in Conns, HandleUnmountCar(c)
    PROVE  Acted(c)
  <1>1. VehiclesOf(c) \in SUBSET OwnedBy(SpawnedEntities, c)
    BY DEF VehiclesOf
  <1>2. PICK order :
          /\ SpawnedEntities' = Without(SpawnedEntities, VehiclesOf(c))
          /\ Broadcast(SpawnedEntities', order, c, VehiclesOf(c), {})
    BY DEF HandleUnmountCar
  <1>3. UNCHANGED <<ConnectedPlayers, entityIdCounter>>
    BY DEF HandleUnmountCar
  <1> QED  BY <1>1, <1>2, <1>3, RemovalActs DEF Acted

LEMMA EquipActs ==
    ASSUME IInv, NEW c \in Conns, NEW item \in Items, NEW isUnequipping \in BOOLEAN,
           HandleEquip(c, item, isUnequipping)
    PROVE  Acted(c)
  <1>1. CASE UnequipItem(c, item)
    <2>1. ItemsOf(c, item) \in SUBSET OwnedBy(SpawnedEntities, c)
      BY DEF ItemsOf
    <2>2. PICK order :
            /\ SpawnedEntities' = Without(SpawnedEntities, ItemsOf(c, item))
            /\ Broadcast(SpawnedEntities', order, c, ItemsOf(c, item), {})
      BY <1>1 DEF UnequipItem
    <2>3. UNCHANGED <<ConnectedPlayers, entityIdCounter>>
      BY <1>1 DEF UnequipItem
    <2> QED  BY <2>1, <2>2, <2>3, RemovalActs DEF Acted
  <1>2. CASE EquipItem(c, item) /\ OwnedBy(SpawnedEntities, c) = {}
    BY <1>2, IdlingActs DEF EquipItem, NothingHappens
  <1>3. CASE EquipItem(c, item) /\ OwnedBy(SpawnedEntities, c) # {}
    <2> DEFINE Copy(id) == [owner |-> c, record |-> item,
                            pos |-> SpawnedEntities[id].pos, isVehicle |-> FALSE]
    <2>1. PICK order \in Orders(NewIds), playerEntity \in OwnedBy(SpawnedEntities, c) :
            /\ SpawnedEntities' = CreateEntity(SpawnedEntities, Copy(playerEntity))
            /\ Broadcast(SpawnedEntities', order, c, {}, {entityIdCounter})
      BY <1>3 DEF EquipItem
    <2>2. entityIdCounter < MaxEntities /\ TakeId /\ UNCHANGED ConnectedPlayers
      BY <1>3 DEF EquipItem
    <2>3. SpawnedEntities[playerEntity] \in Entity
      BY <2>1 DEF OwnedBy, IInv, TypeOK
    <2>4. Copy(playerEntity) \in Entity /\ Copy(playerEntity).owner = c
          /\ ~Copy(playerEntity).isVehicle /\ Copy(playerEntity).record # Puppet
      BY <2>3, ConstantsAssumption DEF Entity
    <2> HIDE DEF Copy
    <2>5. /\ Rearranges(c, {})
          /\ entityIdCounter \in OwnedBy(SpawnedEntities', c)
      BY <2>1, <2>2, <2>4, AddRearranges
    <2>6. Reviews(c)
      BY <2>1, <2>5, BroadcastReviews
    <2> QED  BY <2>2, <2>5, <2>6 DEF Acted
  <1> QED  BY <1>1, <1>2, <1>3 DEF HandleEquip

(* The end of a connection: an action of its player like the others, with  *)
(* which the player and all they own are gone.                             *)
Left(c) ==
    /\ c \in ConnectedPlayers
    /\ ConnectedPlayers' = ConnectedPlayers \ {c}
    /\ Rearranges(c, OwnedBy(SpawnedEntities, c))
    /\ UNCHANGED entityIdCounter
    /\ Reviews(c)

LEMMA ConnectionStateChangeActs ==
    ASSUME IInv, NEW c \in Conns, OnConnectionStateChange(c)
    PROVE  Left(c) \/ Acted(c)
  <1>1. CASE c \notin ConnectedPlayers
    BY <1>1, IdlingActs DEF OnConnectionStateChange, NothingHappens
  <1>2. CASE c \in ConnectedPlayers
    <2>1. PICK order :
            /\ SpawnedEntities' = Without(SpawnedEntities, OwnedBy(SpawnedEntities, c))
            /\ Broadcast(SpawnedEntities', order, c, OwnedBy(SpawnedEntities, c), {})
      BY <1>2 DEF OnConnectionStateChange
    <2>2. /\ ConnectedPlayers' = ConnectedPlayers \ {c}
          /\ UNCHANGED entityIdCounter
      BY <1>2 DEF OnConnectionStateChange
    <2> QED  BY <1>2, <2>1, <2>2, RemovalActs DEF Left
  <1> QED  BY <1>1, <1>2

(* Signing in adds at most the player.                                     *)
SignedIn(c) ==
    /\ c \notin greeted
    /\ greeted' = greeted \cup {c}
    /\ \/ ConnectedPlayers' = ConnectedPlayers \cup {c} /\ c \notin ConnectedPlayers
       \/ UNCHANGED ConnectedPlayers
    /\ UNCHANGED <<SpawnedEntities, entityIdCounter, trackedEntities, closed>>

LEMMA NextActs ==
    ASSUME IInv, [Next]_vars
    PROVE  \/ UNCHANGED vars
           \/ \E c \in Conns :
                /\ sender' = {c}
                /\ \/ SignedIn(c)
                   \/ Acted(c) /\ UNCHANGED greeted /\ closed' \subseteq Conns
                   \/ Left(c) /\ UNCHANGED greeted /\ closed' \subseteq Conns
  <1> USE DEF IInv, TypeOK
  <1>2. ASSUME NEW c \in Conns, SignIn(c)
        PROVE  SignedIn(c) /\ sender' = {c}
    BY <1>2 DEF SignIn, HandleInitAuth, SignedIn
  <1>3. ASSUME NEW c \in Conns, EndConnection(c)
        PROVE  /\ sender' = {c}
               /\ Left(c) \/ Acted(c)
               /\ UNCHANGED greeted /\ closed' \subseteq Conns
    BY <1>3, ConnectionStateChangeActs DEF EndConnection
  <1>4. ASSUME NEW c \in Conns, ProcessMessage(c), ~SignIn(c)
        PROVE  sender' = {c} /\ Acted(c) /\ UNCHANGED <<greeted, closed>>
    <2>1. CASE \E position \in Positions : Move(c, position)
      BY <2>1, PositionUpdateActs DEF Move
    <2>2. CASE /\ \/ \E position \in Positions :
                       HandleJoinWorld(c, position) \/ HandleSpawnCar(c, position)
                  \/ HandleUnmountCar(c)
                  \/ \E item \in Items, isUnequipping \in BOOLEAN :
                       HandleEquip(c, item, isUnequipping)
                  \/ HandleShoot
               /\ sender' = {c}
               /\ UNCHANGED <<greeted, closed>>
      <3>1. HandleShoot => Acted(c)
        BY IdlingActs DEF HandleShoot, NothingHappens
      <3> QED  BY <2>2, <3>1, JoinWorldActs, SpawnCarActs, UnmountCarActs, EquipActs
    <2> QED  BY <1>4, <2>1, <2>2 DEF ProcessMessage
  <1>5. CASE Next
    BY <1>2, <1>3, <1>4, <1>5 DEF Next
  <1> QED  BY <1>5

(* The handler of a request is a step, if it is no second sign-in.         *)
LEMMA HandleIsAStep ==
    ASSUME NEW c \in Conns, NEW request \in Requests, Handle(c, request),
           request.type = "InitAuth" => c \notin greeted
    PROVE  Next
  <1>1. CASE request.type = "InitAuth"
    <2>1. request.versionMatches \in BOOLEAN
      BY <1>1 DEF Requests
    <2>2. SignIn(c)
      BY <1>1, <2>1 DEF Handle, SignIn
    <2> QED  BY <2>2 DEF Next, ProcessMessage
  <1>2. CASE request.type = "PlayerPositionUpdate"
    <2>1. request.pos \in Positions
      BY <1>2 DEF Requests
    <2>2. Move(c, request.pos)
      BY <1>2 DEF Handle, Move
    <2> QED  BY <2>1, <2>2 DEF Next, ProcessMessage
  <1>3. CASE request.type \in {"PlayerJoinWorld", "PlayerSpawnCar"}
    <2>1. request.pos \in Positions
      BY <1>3 DEF Requests
    <2>2. HandleJoinWorld(c, request.pos) \/ HandleSpawnCar(c, request.pos)
      BY <1>3 DEF Handle
    <2>3. sender' = {c} /\ UNCHANGED <<greeted, closed>>
      BY <1>3 DEF Handle
    <2> QED  BY <2>1, <2>2, <2>3 DEF Next, ProcessMessage
  <1>4. CASE request.type = "PlayerEquipItem"
    <2>1. request.item \in Items /\ request.isUnequipping \in BOOLEAN
      BY <1>4 DEF Requests
    <2>2. HandleEquip(c, request.item, request.isUnequipping)
      BY <1>4 DEF Handle
    <2>3. sender' = {c} /\ UNCHANGED <<greeted, closed>>
      BY <1>4 DEF Handle
    <2> QED  BY <2>1, <2>2, <2>3 DEF Next, ProcessMessage
  <1>5. CASE request.type \in {"PlayerUnmountCar", "PlayerShoot", "PlayerActionTracked"}
    <2>1. HandleUnmountCar(c) \/ HandleShoot
      BY <1>5 DEF Handle, HandleShoot
    <2>2. sender' = {c} /\ UNCHANGED <<greeted, closed>>
      BY <1>5 DEF Handle
    <2> QED  BY <2>1, <2>2 DEF Next, ProcessMessage
  <1> QED  BY <1>1, <1>2, <1>3, <1>4, <1>5 DEF Requests

-----------------------------------------------------------------------------
(* The inductive invariant.                                                *)

LEMMA InitEstablishes ==
    ASSUME Init
    PROVE  IInv
  BY ConstantsAssumption
     DEF Init, IInv, TypeOK, StartsWithEmptyView, NoDanglingTracking, NeverTracksOwn,
         OneVehiclePerOwner, PuppetsBelongToPlayers, OwnedBy

LEMMA RearrangesKeeps ==
    ASSUME IInv, NEW c \in Conns, NEW gone, Rearranges(c, gone)
    PROVE  /\ entityIdCounter' \in 0 .. MaxEntities
           /\ DOMAIN SpawnedEntities' \subseteq 0 .. entityIdCounter' - 1
           /\ SpawnedEntities' \in [DOMAIN SpawnedEntities' -> Entity]
           /\ OneVehiclePerOwner'
  <1>1. /\ entityIdCounter' \in 0 .. MaxEntities
        /\ DOMAIN SpawnedEntities' \subseteq 0 .. entityIdCounter' - 1
        /\ SpawnedEntities' \in [DOMAIN SpawnedEntities' -> Entity]
    BY DEF Rearranges, IInv, TypeOK
  <1>2. ASSUME NEW a \in DOMAIN SpawnedEntities', NEW b \in DOMAIN SpawnedEntities',
               SpawnedEntities'[a].isVehicle, SpawnedEntities'[b].isVehicle,
               SpawnedEntities'[a].owner = SpawnedEntities'[b].owner
        PROVE  a = b
    <2>1. CASE a \in DOMAIN SpawnedEntities /\ b \in DOMAIN SpawnedEntities
      BY <1>2, <2>1 DEF Rearranges, IInv, OneVehiclePerOwner
    <2>2. CASE a \notin DOMAIN SpawnedEntities /\ b \notin DOMAIN SpawnedEntities
      BY <2>2 DEF Rearranges, IInv, TypeOK
    <2>3. CASE a \notin DOMAIN SpawnedEntities /\ b \in DOMAIN SpawnedEntities
      BY <1>2, <2>3 DEF Rearranges, VehiclesOf, OwnedBy, IInv, TypeOK
    <2>4. CASE a \in DOMAIN SpawnedEntities /\ b \notin DOMAIN SpawnedEntities
      BY <1>2, <2>4 DEF Rearranges, VehiclesOf, OwnedBy, IInv, TypeOK
    <2> QED  BY <2>1, <2>2, <2>3, <2>4
  <1> QED  BY <1>1, <1>2 DEF OneVehiclePerOwner

LEMMA StepPreserves ==
    ASSUME IInv, [Next]_vars
    PROVE  IInv'
  <1>1. CASE UNCHANGED vars
    BY <1>1 DEF vars, managed, IInv, TypeOK, StartsWithEmptyView, NoDanglingTracking,
                NeverTracksOwn, OneVehiclePerOwner, PuppetsBelongToPlayers, OwnedBy
  <1>2. ASSUME NEW c \in Conns, SignedIn(c), sender' = {c}
        PROVE  IInv'
    <2>1. TypeOK' /\ StartsWithEmptyView'
      BY <1>2 DEF SignedIn, IInv, TypeOK, StartsWithEmptyView
    <2>2. trackedEntities[c] = {}
      BY <1>2 DEF SignedIn, IInv, StartsWithEmptyView
    <2>3. NoDanglingTracking' /\ NeverTracksOwn' /\ OneVehiclePerOwner'
      BY <1>2, <2>2 DEF SignedIn, IInv, NoDanglingTracking, NeverTracksOwn,
                        OneVehiclePerOwner, OwnedBy
    <2>4. PuppetsBelongToPlayers'
      BY <1>2 DEF SignedIn, IInv, PuppetsBelongToPlayers
    <2> QED  BY <2>1, <2>3, <2>4 DEF IInv
  <1>3. ASSUME NEW c \in Conns, NEW gone, Rearranges(c, gone), Reviews(c),
               \/ UNCHANGED ConnectedPlayers
               \/ Left(c),
               sender' = {c}, UNCHANGED greeted, closed' \subseteq Conns
        PROVE  IInv'
    <2> ConnectedPlayers' \subseteq ConnectedPlayers
      BY <1>3 DEF Left
    <2>1. TypeOK' /\ OneVehiclePerOwner'
      BY <1>3, RearrangesKeeps DEF Reviews, IInv, TypeOK
    <2>2. NoDanglingTracking' /\ NeverTracksOwn'
      BY <1>3 DEF Reviews, NoDanglingTracking, NeverTracksOwn
    <2>3. StartsWithEmptyView'
      BY <1>3 DEF Reviews, StartsWithEmptyView, IInv, TypeOK
    <2>4. PuppetsBelongToPlayers'
      <3>1. CASE UNCHANGED ConnectedPlayers
        BY <1>3, <3>1 DEF Rearranges, IInv, PuppetsBelongToPlayers
      <3>2. CASE Left(c)
        <4>1. DOMAIN SpawnedEntities' = DOMAIN SpawnedEntities \ OwnedBy(SpawnedEntities, c)
          BY <3>2 DEF Left, Rearranges, IInv, TypeOK
        <4>2. \A id \in DOMAIN SpawnedEntities' :
                /\ SpawnedEntities'[id].owner = SpawnedEntities[id].owner
                /\ SpawnedEntities'[id].record = SpawnedEntities[id].record
                /\ SpawnedEntities[id].owner # c
          BY <3>2, <4>1 DEF Left, Rearranges, OwnedBy
        <4> QED  BY <3>2, <4>1, <4>2 DEF Left, IInv, PuppetsBelongToPlayers
      <3> QED  BY <1>3, <3>1, <3>2
    <2> QED  BY <2>1, <2>2, <2>3, <2>4 DEF IInv
  <1> QED  BY <1>1, <1>2, <1>3, NextActs DEF Acted, Left

(* IInv holds in every reachable state: the invariants the runs check, for *)
(* all values of the constants.                                            *)
THEOREM InductiveInvariant == Spec => []IInv
  <1>1. Init => IInv
    BY InitEstablishes
  <1>2. IInv /\ [Next]_vars => IInv'
    BY StepPreserves
  <1> QED  BY <1>1, <1>2, PTL DEF Spec

(* Ids stay below the counter and the dictionary holds only entities.      *)
THEOREM TypeCorrect == Spec => []TypeOK
  BY InductiveInvariant, PTL DEF IInv

(* No player tracks an entity that RemoveEntity has taken away.            *)
THEOREM NothingDangles == Spec => []NoDanglingTracking
  BY InductiveInvariant, PTL DEF IInv

(* No player is ever shown an entity of their own.                         *)
THEOREM NobodySeesOwn == Spec => []NeverTracksOwn
  BY InductiveInvariant, PTL DEF IInv

(* No connection owns two vehicles at a time.                              *)
THEOREM VehiclesAreReplaced == Spec => []OneVehiclePerOwner
  BY InductiveInvariant, PTL DEF IInv

(* A player starts with an empty view, whatever lists are left behind.     *)
THEOREM ViewsStartEmpty == Spec => []StartsWithEmptyView
  BY InductiveInvariant, PTL DEF IInv

(* No puppet is in the world without its player: joining before signing in *)
(* or after the end makes none, and the end takes them all.                *)
THEOREM PuppetsArePlayers == Spec => []PuppetsBelongToPlayers
  BY InductiveInvariant, PTL DEF IInv

-----------------------------------------------------------------------------
(* The server keeps the promise of SharedWorld.                            *)

LEMMA ViewsStayTrue ==
    ASSUME IInv, IInv', NEW c \in Conns, Reviews(c),
           ConnectedPlayers' \in {ConnectedPlayers, ConnectedPlayers \ {c}}
    PROVE  World!ViewsAreTrue /\ World!ViewsFollow(c)
  <1>1. /\ ConnectedPlayers \subseteq Conns
        /\ \A p \in Conns : View[p] = IF p \in ConnectedPlayers THEN trackedEntities[p] ELSE {}
        /\ \A p \in Conns : View'[p] = IF p \in ConnectedPlayers' THEN trackedEntities'[p] ELSE {}
        /\ DOMAIN View' = Conns
    BY DEF View, IInv, TypeOK
  <1>2. World!ViewsAreTrue
    <2>1. \A p \in ConnectedPlayers' :
            View'[p] \subseteq DOMAIN SpawnedEntities' \ OwnedBy(SpawnedEntities', p)
      BY <1>1 DEF Reviews
    <2> QED  BY <1>1, <2>1 DEF World!ViewsAreTrue, World!Things, OwnedBy
  <1>3. World!ViewsFollow(c)
    <2>1. ASSUME NEW p \in ConnectedPlayers \ {c}
          PROVE  LET ofC == OwnedBy(SpawnedEntities, c) \cup OwnedBy(SpawnedEntities', c)
                 IN  View'[p] \ ofC = View[p] \ ofC
      <3>1. View'[p] = trackedEntities'[p] /\ View[p] = trackedEntities[p]
        BY <1>1
      <3> QED  BY <3>1 DEF Reviews
    <2> QED  BY <2>1 DEF World!ViewsFollow, World!Things, OwnedBy
  <1> QED  BY <1>2, <1>3

LEMMA RearrangingIsActingAlone ==
    ASSUME IInv, NEW c \in Conns, NEW gone, Rearranges(c, gone)
    PROVE  World!ActsAlone(c)
  <1>1. entityIdCounter \in Nat /\ entityIdCounter' \in Nat /\ entityIdCounter <= entityIdCounter'
    BY ConstantsAssumption DEF IInv, TypeOK, Rearranges
  <1>2. DOMAIN SpawnedEntities \subseteq 0 .. entityIdCounter - 1
    BY DEF IInv, TypeOK
  <1>3. DOMAIN SpawnedEntities' \ DOMAIN SpawnedEntities \subseteq
          World!Things(SpawnedEntities', c) \ (0 .. entityIdCounter - 1)
    BY <1>1 DEF Rearranges, World!Things
  <1>4. 0 .. entityIdCounter' - 1 = (0 .. entityIdCounter - 1) \cup DOMAIN SpawnedEntities'
    <2>1. 0 .. entityIdCounter' - 1 =
            (0 .. entityIdCounter - 1) \cup (entityIdCounter .. entityIdCounter' - 1)
      BY <1>1
    <2>2. DOMAIN SpawnedEntities' \subseteq 0 .. entityIdCounter' - 1
      BY <1>1, <1>2 DEF Rearranges
    <2>3. entityIdCounter .. entityIdCounter' - 1 \subseteq DOMAIN SpawnedEntities'
      BY DEF Rearranges
    <2> QED  BY <2>1, <2>2, <2>3
  <1>5. \A id \in DOMAIN SpawnedEntities \ World!Things(SpawnedEntities, c) :
          id \in DOMAIN SpawnedEntities' /\ SpawnedEntities'[id] = SpawnedEntities[id]
    BY DEF Rearranges, World!Things, OwnedBy
  <1>6. World!Things(SpawnedEntities, c) \cap DOMAIN SpawnedEntities'
          \subseteq World!Things(SpawnedEntities', c)
    BY DEF Rearranges, World!Things, OwnedBy
  <1> QED  BY <1>3, <1>4, <1>5, <1>6 DEF World!ActsAlone

LEMMA StepSimulates ==
    ASSUME IInv, IInv', [Next]_vars
    PROVE  [World!Next]_(World!vars)
  <1>1. CASE UNCHANGED vars
    BY <1>1 DEF vars, managed, World!vars, View
  <1>2. ASSUME NEW c \in Conns, Acted(c)
        PROVE  World!Act(c)
    BY <1>2, RearrangingIsActingAlone, ViewsStayTrue DEF Acted, World!Act
  <1>3. ASSUME NEW c \in Conns, SignedIn(c)
        PROVE  World!Enter(c) \/ World!Act(c)
    <2>1. CASE UNCHANGED ConnectedPlayers
      BY <1>2, <1>3, <2>1, IdlingActs DEF SignedIn, managed
    <2>2. CASE c \notin ConnectedPlayers /\ ConnectedPlayers' = ConnectedPlayers \cup {c}
      <3>1. trackedEntities[c] = {}
        BY <1>3 DEF SignedIn, IInv, StartsWithEmptyView
      <3>2. View' = View
        BY <1>3, <2>2, <3>1 DEF View, SignedIn
      <3> QED  BY <1>3, <2>2, <3>2 DEF SignedIn, World!Enter
    <2> QED  BY <1>3, <2>1, <2>2 DEF SignedIn
  <1>4. ASSUME NEW c \in Conns, Left(c)
        PROVE  World!Leave(c)
    <2>1. Rearranges(c, OwnedBy(SpawnedEntities, c)) /\ Reviews(c)
      BY <1>4 DEF Left
    <2>2. World!ActsAlone(c)
      BY <2>1, RearrangingIsActingAlone
    <2>3. World!Things(SpawnedEntities', c) = {}
      <3>1. DOMAIN SpawnedEntities' = DOMAIN SpawnedEntities \ OwnedBy(SpawnedEntities, c)
        BY <1>4, <2>1 DEF Left, Rearranges, IInv, TypeOK
      <3> QED  BY <2>1, <3>1 DEF Rearranges, World!Things, OwnedBy
    <2> QED  BY <1>4, <2>1, <2>2, <2>3, ViewsStayTrue DEF Left, World!Leave
  <1> QED  BY <1>1, <1>2, <1>3, <1>4, NextActs DEF World!Next

(* EntityTracking implements SharedWorld: for every value of the constants  *)
(* each handler is its sender acting on their own things alone.            *)
THEOREM PromiseKept == Spec => KeepsThePromise
  <1>1. Init => World!Init
    BY ConstantsAssumption DEF Init, World!Init, View
  <1>2. IInv /\ IInv' /\ [Next]_vars => [World!Next]_(World!vars)
    BY StepSimulates
  <1>3. Spec => []IInv
    BY InductiveInvariant
  <1> QED  BY <1>1, <1>2, <1>3, PTL DEF Spec, World!Spec, KeepsThePromise

-----------------------------------------------------------------------------
(* The messages of a step explain the tracking.  First the orders in which *)
(* a handler goes through ids: each id that is wanted comes once.          *)

Keeping == INSTANCE SequenceFacts WITH Op <- KeepWanted

LEMMA InOrderFolds ==
    ASSUME NEW order, NEW ids
    PROVE  InOrder(order, ids) = Keeping!Fold([wanted |-> ids, kept |-> <<>>], order).kept
  BY DEF InOrder, FoldLeft, MapThenFoldSet, Max,
         Keeping!Fold, Keeping!FoldLeft, Keeping!MapThenFoldSet, Keeping!Max

LEMMA InOrderEmpty ==
    ASSUME NEW ids
    PROVE  InOrder(<<>>, ids) = <<>>
  <1> DEFINE base == [wanted |-> ids, kept |-> <<>>]
  <1>1. InOrder(<<>>, ids) = Keeping!Fold(base, <<>>).kept
    BY InOrderFolds
  <1>2. Keeping!Fold(base, <<>>) = base
    BY Keeping!FoldEmpty
  <1> QED  BY <1>1, <1>2

LEMMA InOrderAppend ==
    ASSUME NEW T, NEW ids, NEW order \in Seq(T), NEW x \in T
    PROVE  /\ InOrder(order, ids) \in Seq(T)
           /\ InOrder(Append(order, x), ids)
                = IF x \in ids THEN Append(InOrder(order, ids), x) ELSE InOrder(order, ids)
  <1> DEFINE base == [wanted |-> ids, kept |-> <<>>]
             B == [wanted : {ids}, kept : Seq(T)]
  <1>1. base \in B
    BY EmptySeq
  <1>2. \A v \in B, y \in T : KeepWanted(v, y) \in B
    BY AppendProperties DEF KeepWanted
  <1> HIDE DEF B, base
  <1>3. Keeping!Fold(base, order) \in B
    BY <1>1, <1>2, Keeping!FoldTyped
  <1>4. /\ InOrder(order, ids) = Keeping!Fold(base, order).kept
        /\ InOrder(Append(order, x), ids) = Keeping!Fold(base, Append(order, x)).kept
    BY InOrderFolds DEF base
  <1>5. Keeping!Fold(base, Append(order, x)) = KeepWanted(Keeping!Fold(base, order), x)
    BY Keeping!FoldAppend
  <1> QED  BY <1>3, <1>4, <1>5 DEF KeepWanted, B

LEMMA InOrderElements ==
    ASSUME NEW T, NEW ids
    PROVE  \A order \in Seq(T) :
              /\ InOrder(order, ids) \in Seq(T)
              /\ Elements(InOrder(order, ids)) = Elements(order) \cap ids
              /\ Distinct(order) => Distinct(InOrder(order, ids))
  <1> DEFINE Holds(order) ==
                /\ InOrder(order, ids) \in Seq(T)
                /\ Elements(InOrder(order, ids)) = Elements(order) \cap ids
                /\ Distinct(order) => Distinct(InOrder(order, ids))
             S == {order \in Seq(T) : Holds(order)}
  <1>1. <<>> \in S
    <2>1. <<>> \in Seq(T) /\ DOMAIN <<>> = {}
      BY EmptySeq
    <2>2. InOrder(<<>>, ids) = <<>>
      BY InOrderEmpty
    <2> QED  BY <2>1, <2>2 DEF Elements, Distinct
  <1>2. ASSUME NEW order \in Seq(T), NEW x \in T, Holds(order)
        PROVE  Holds(Append(order, x))
    <2>1. InOrder(Append(order, x), ids)
            = IF x \in ids THEN Append(InOrder(order, ids), x) ELSE InOrder(order, ids)
      BY InOrderAppend
    <2>2. /\ Elements(Append(order, x)) = Elements(order) \cup {x}
          /\ Distinct(Append(order, x)) => Distinct(order) /\ x \notin Elements(order)
      BY AppendedElements
    <2>3. CASE x \in ids
      <3>1. /\ Append(InOrder(order, ids), x) \in Seq(T)
            /\ Elements(Append(InOrder(order, ids), x)) = Elements(InOrder(order, ids)) \cup {x}
            /\ Distinct(InOrder(order, ids)) /\ x \notin Elements(InOrder(order, ids))
                 => Distinct(Append(InOrder(order, ids), x))
        BY <1>2, AppendedElements
      <3> QED  BY <1>2, <2>1, <2>2, <2>3, <3>1
    <2>4. CASE x \notin ids
      BY <1>2, <2>1, <2>2, <2>4
    <2> QED  BY <2>3, <2>4
  <1> HIDE DEF Holds
  <1>3. \A order \in Seq(T), x \in T : order \in S => Append(order, x) \in S
    BY <1>2, AppendProperties
  <1> HIDE DEF S
  <1>4. \A order \in Seq(T) : order \in S
    BY <1>1, <1>3, SequenceInduction
  <1> QED  BY <1>4 DEF S, Holds

(* An enumeration of the dictionary meets every id once.                   *)
LEMMA OrdersAreComplete ==
    ASSUME NEW ids, IsFiniteSet(ids), NEW order \in Orders(ids)
    PROVE  order \in Seq(ids) /\ Elements(order) = ids /\ Distinct(order)
  <1> DEFINE n == Cardinality(ids)
  <1>1. n \in Nat
    BY FS_CardinalityType
  <1>2. /\ order \in [1 .. n -> ids]
        /\ \A i, j \in 1 .. n : i # j => order[i] # order[j]
    BY DEF Orders, SetToSeqs
  <1>3. order \in Seq(ids) /\ Distinct(order)
    BY <1>1, <1>2 DEF Distinct
  <1>4. Elements(order) = ids
    <2> SUFFICES ASSUME NEW x \in ids, \A i \in 1 .. n : order[i] # x
                 PROVE  FALSE
      BY <1>2 DEF Elements
    <2>1. /\ IsFiniteSet(ids \ {x})
          /\ Cardinality(ids \ {x}) = n - 1
      BY FS_RemoveElement
    <2>2. order \in [1 .. n -> ids \ {x}]
      BY <1>2
    <2>3. IsFiniteSet(1 .. n) /\ Cardinality(1 .. n) = n
      BY <1>1, FS_Interval
    <2> HIDE DEF n
    <2>4. PICK i \in 1 .. n, j \in 1 .. n : i # j /\ order[i] = order[j]
      BY <1>1, <2>1, <2>2, <2>3, FS_PigeonHole
    <2> QED  BY <1>2, <2>4
  <1> QED  BY <1>3, <1>4

-----------------------------------------------------------------------------
(* What a client makes of the messages: of one turn of a loop, of a loop,  *)
(* of the loops of a handler.                                              *)

Believing == INSTANCE SequenceFacts WITH Op <- Believe

LEMMA BelievingFolds ==
    ASSUME NEW belief, NEW messages
    PROVE  FoldLeft(Believe, belief, messages) = Believing!Fold(belief, messages)
  BY DEF FoldLeft, MapThenFoldSet, Max,
         Believing!Fold, Believing!FoldLeft, Believing!MapThenFoldSet, Believing!Max

Belief(ids) == [ids |-> ids, sound |-> TRUE]

(* The messages about entities.                                            *)
News == {message \in Messages : message.type # "InitAuthResult"}

(* Messages that take a client who is right about "was" to "is".           *)
Explains(messages, was, is) ==
    /\ messages \in Seq(News)
    /\ Believing!Fold(Belief(was), messages) = Belief(is)

LEMMA SilenceExplains ==
    ASSUME NEW was
    PROVE  Explains(<<>>, was, was)
  BY EmptySeq, Believing!FoldEmpty DEF Explains

LEMMA OneMessageExplains ==
    ASSUME NEW message \in News, NEW was, NEW is,
           Believe(Belief(was), message) = Belief(is)
    PROVE  Explains(<<message>>, was, is)
  <1>1. <<message>> \in Seq(News)
    OBVIOUS
  <1>2. Believing!Fold(Belief(was), <<message>>) = Believe(Belief(was), message)
    BY Believing!FoldSingle
  <1> QED  BY <1>1, <1>2 DEF Explains

LEMMA ExplanationsChain ==
    ASSUME NEW s, NEW t, NEW was, NEW between, NEW is,
           Explains(s, was, between), Explains(t, between, is)
    PROVE  Explains(s \o t, was, is)
  <1>1. s \in Seq(News) /\ t \in Seq(News)
    BY DEF Explains
  <1>2. s \o t \in Seq(News)
    BY <1>1
  <1>3. Believing!Fold(Belief(was), s \o t) = Believing!Fold(Believing!Fold(Belief(was), s), t)
    BY <1>1, Believing!FoldConcat
  <1> QED  BY <1>2, <1>3 DEF Explains

(* The turn of a loop for a player who tracks the ids "was".               *)
LEMMA TurnExplains ==
    ASSUME NEW was, NEW id \in Ids, NEW entity, entity.pos \in Positions,
           NEW tracked \in BOOLEAN, tracked <=> id \in was, NEW near \in BOOLEAN
    PROVE  Explains(TurnMessages(id, entity, tracked, near), was,
                    IF near THEN was \cup {id} ELSE was \ {id})
  <1> DEFINE spawn == SpawnEntity(id, entity)
             teleport == TeleportEntity(id, entity)
             destroy == DestroyEntity(id)
  <1>1. /\ spawn \in News /\ spawn.type = "SpawnEntity" /\ spawn.id = id
        /\ teleport \in News /\ teleport.type = "TeleportEntity" /\ teleport.id = id
        /\ destroy \in News /\ destroy.type = "DestroyEntity" /\ destroy.id = id
    BY DEF News, Messages, SpawnEntity, TeleportEntity, DestroyEntity
  <1>2. /\ TurnMessages(id, entity, TRUE, TRUE) = <<teleport>>
        /\ TurnMessages(id, entity, FALSE, TRUE) = <<spawn, teleport>>
        /\ TurnMessages(id, entity, TRUE, FALSE) = <<destroy>>
        /\ TurnMessages(id, entity, FALSE, FALSE) = <<>>
    BY DEF TurnMessages
  <1> HIDE DEF spawn, teleport, destroy
  <1>3. CASE near /\ tracked
    <2>1. Believe(Belief(was), teleport) = Belief(was)
      BY <1>1, <1>3 DEF Believe, Belief
    <2>2. was \cup {id} = was
      BY <1>3
    <2> QED  BY <1>1, <1>2, <1>3, <2>1, <2>2, OneMessageExplains
  <1>4. CASE near /\ ~tracked
    <2>1. Believe(Belief(was), spawn) = Belief(was \cup {id})
      BY <1>1, <1>4 DEF Believe, Belief
    <2>2. Believe(Belief(was \cup {id}), teleport) = Belief(was \cup {id})
      BY <1>1 DEF Believe, Belief
    <2>3. Explains(<<spawn>> \o <<teleport>>, was, was \cup {id})
      BY <1>1, <2>1, <2>2, OneMessageExplains, ExplanationsChain
    <2>4. <<spawn>> \o <<teleport>> = <<spawn, teleport>>
      BY TwoInARow
    <2> QED  BY <1>2, <1>4, <2>3, <2>4
  <1>5. CASE ~near /\ tracked
    <2>1. Believe(Belief(was), destroy) = Belief(was \ {id})
      BY <1>1, <1>5 DEF Believe, Belief
    <2> QED  BY <1>1, <1>2, <1>5, <2>1, OneMessageExplains
  <1>6. CASE ~near /\ ~tracked
    <2>1. was \ {id} = was
      BY <1>6
    <2> QED  BY <1>2, <1>6, <2>1, SilenceExplains
  <1> QED  BY <1>3, <1>4, <1>5, <1>6

LEMMA TurnMessagesTyped ==
    ASSUME NEW id \in Ids, NEW entity, entity.pos \in Positions
    PROVE  \A tracked, near \in BOOLEAN : TurnMessages(id, entity, tracked, near) \in Seq(News)
  <1> SUFFICES ASSUME NEW tracked \in BOOLEAN, NEW near \in BOOLEAN
               PROVE  TurnMessages(id, entity, tracked, near) \in Seq(News)
    OBVIOUS
  <1>1. tracked <=> id \in (IF tracked THEN {id} ELSE {})
    OBVIOUS
  <1> QED  BY <1>1, TurnExplains DEF Explains

(* A loop with one more turn.                                              *)
LEMMA LoopSteps ==
    ASSUME NEW id \in Ids, NEW entity, entity.pos \in Positions, NEW tracked \in BOOLEAN,
           NEW comparisons \in Seq(BOOLEAN), NEW near \in BOOLEAN
    PROVE  /\ TrackedAfterLoop(tracked, comparisons) \in BOOLEAN
           /\ TrackedAfterLoop(tracked, Append(comparisons, near)) = near
           /\ LoopMessages(id, entity, tracked, Append(comparisons, near))
                = LoopMessages(id, entity, tracked, comparisons)
                    \o TurnMessages(id, entity, TrackedAfterLoop(tracked, comparisons), near)
  <1> DEFINE longer == Append(comparisons, near)
             n == Len(comparisons)
             turns(cs) == [i \in DOMAIN cs |->
                             TurnMessages(id, entity, IF i = 1 THEN tracked ELSE cs[i - 1], cs[i])]
             last == TurnMessages(id, entity, TrackedAfterLoop(tracked, comparisons), near)
  <1>1. /\ n \in Nat
        /\ DOMAIN comparisons = 1 .. n
        /\ \A i \in 1 .. n : comparisons[i] \in BOOLEAN
    BY LenProperties, ElementsAreTyped
  <1>2. /\ DOMAIN longer = 1 .. n + 1
        /\ Len(longer) = n + 1
        /\ \A i \in 1 .. n : longer[i] = comparisons[i]
        /\ longer[n + 1] = near
    OBVIOUS
  <1>3. comparisons = <<>> <=> n = 0
    BY EmptySeq
  <1> HIDE DEF longer, n
  <1>4. longer # <<>>
    <2>1. Len(longer) # 0
      BY <1>1, <1>2
    <2> QED  BY <2>1, EmptySeq
  <1>5. TrackedAfterLoop(tracked, longer) = near
    BY <1>2, <1>4 DEF TrackedAfterLoop
  <1>6. TrackedAfterLoop(tracked, comparisons) = IF n = 0 THEN tracked ELSE comparisons[n]
    BY <1>3 DEF TrackedAfterLoop, n
  <1>7. TrackedAfterLoop(tracked, comparisons) \in BOOLEAN
    BY <1>1, <1>6
  <1>8. last \in Seq(News)
    BY <1>7, TurnMessagesTyped
  <1>9. turns(comparisons) \in [1 .. n -> Seq(News)]
    <2>1. ASSUME NEW i \in 1 .. n
          PROVE  TurnMessages(id, entity, IF i = 1 THEN tracked ELSE comparisons[i - 1],
                              comparisons[i]) \in Seq(News)
      <3>1. i # 1 => i - 1 \in 1 .. n
        BY <1>1
      <3> QED  BY <1>1, <3>1, TurnMessagesTyped
    <2> QED  BY <1>1, <2>1
  <1>10. turns(comparisons) \in Seq(Seq(News)) /\ Len(turns(comparisons)) = n
    BY <1>1, <1>9
  <1>11. turns(longer) = Append(turns(comparisons), last)
    <2>1. Append(turns(comparisons), last)
            = [i \in 1 .. n + 1 |-> IF i = n + 1 THEN last ELSE turns(comparisons)[i]]
      BY <1>10
    <2>2. ASSUME NEW i \in 1 .. n + 1
          PROVE  TurnMessages(id, entity, IF i = 1 THEN tracked ELSE longer[i - 1], longer[i])
                   = IF i = n + 1 THEN last ELSE turns(comparisons)[i]
      <3>1. CASE i = n + 1
        <4>1. (IF i = 1 THEN tracked ELSE longer[i - 1]) = TrackedAfterLoop(tracked, comparisons)
          <5>1. n # 0 => n \in 1 .. n
            BY <1>1
          <5> QED  BY <1>1, <1>2, <1>6, <3>1, <5>1
        <4> QED  BY <1>2, <3>1, <4>1
      <3>2. CASE i # n + 1
        <4>1. i \in 1 .. n /\ (i # 1 => i - 1 \in 1 .. n)
          BY <1>1, <3>2
        <4>2. (IF i = 1 THEN tracked ELSE longer[i - 1])
                = IF i = 1 THEN tracked ELSE comparisons[i - 1]
          BY <1>2, <4>1
        <4> QED  BY <1>1, <1>2, <3>2, <4>1, <4>2
      <3> QED  BY <3>1, <3>2
    <2>3. turns(longer)
            = [i \in 1 .. n + 1 |->
                 TurnMessages(id, entity, IF i = 1 THEN tracked ELSE longer[i - 1], longer[i])]
      BY <1>2
    <2> HIDE DEF last, turns
    <2> QED  BY <2>1, <2>2, <2>3
  <1>12. FlattenSeq(turns(longer)) = FlattenSeq(turns(comparisons)) \o last
    BY <1>8, <1>10, <1>11, FlattenSeqAppend
  <1> QED  BY <1>5, <1>7, <1>12 DEF longer, LoopMessages

(* A loop takes the client to what the player tracks after it.             *)
LEMMA LoopExplains ==
    ASSUME NEW was, NEW id \in Ids, NEW entity, entity.pos \in Positions
    PROVE  \A comparisons \in Seq(BOOLEAN) :
              Explains(LoopMessages(id, entity, id \in was, comparisons), was,
                       IF TrackedAfterLoop(id \in was, comparisons)
                       THEN was \cup {id} ELSE was \ {id})
  <1> DEFINE After(tracked) == IF tracked THEN was \cup {id} ELSE was \ {id}
             Holds(comparisons) ==
                Explains(LoopMessages(id, entity, id \in was, comparisons), was,
                         After(TrackedAfterLoop(id \in was, comparisons)))
             S == {comparisons \in Seq(BOOLEAN) : Holds(comparisons)}
  <1>1. Holds(<<>>)
    <2> DEFINE none == [i \in DOMAIN <<>> |->
                          TurnMessages(id, entity, IF i = 1 THEN id \in was ELSE <<>>[i - 1], <<>>[i])]
    <2>1. none = <<>>
      <3>1. DOMAIN <<>> = 1 .. 0
        BY EmptySeq
      <3>2. none \in Seq({}) /\ Len(none) = 0
        BY <3>1
      <3> QED  BY <3>2, EmptySeq
    <2>2. LoopMessages(id, entity, id \in was, <<>>) = FlattenSeq(none)
      BY DEF LoopMessages
    <2>3. LoopMessages(id, entity, id \in was, <<>>) = <<>>
      BY <2>1, <2>2, FlattenSeqEmpty
    <2>4. TrackedAfterLoop(id \in was, <<>>) = (id \in was)
      BY DEF TrackedAfterLoop
    <2>5. After(id \in was) = was
      OBVIOUS
    <2> QED  BY <2>3, <2>4, <2>5, SilenceExplains
  <1>2. ASSUME NEW comparisons \in Seq(BOOLEAN), NEW near \in BOOLEAN, Holds(comparisons)
        PROVE  Holds(Append(comparisons, near))
    <2> DEFINE tracked == TrackedAfterLoop(id \in was, comparisons)
               turn == TurnMessages(id, entity, tracked, near)
    <2>2. /\ tracked \in BOOLEAN
          /\ TrackedAfterLoop(id \in was, Append(comparisons, near)) = near
          /\ LoopMessages(id, entity, id \in was, Append(comparisons, near))
               = LoopMessages(id, entity, id \in was, comparisons) \o turn
      <3>1. PICK before \in BOOLEAN : before = (id \in was)
        <4>1. CASE id \in was
          <5>1. TRUE = (id \in was)
            BY <4>1
          <5> QED  BY <5>1
        <4>2. CASE id \notin was
          <5>1. FALSE = (id \in was)
            BY <4>2
          <5> QED  BY <5>1
        <4> QED  BY <4>1, <4>2
      <3>2. TrackedAfterLoop(before, comparisons) \in BOOLEAN
        BY LoopSteps
      <3>3. TrackedAfterLoop(before, Append(comparisons, near)) = near
        BY LoopSteps
      <3>4. LoopMessages(id, entity, before, Append(comparisons, near))
              = LoopMessages(id, entity, before, comparisons)
                  \o TurnMessages(id, entity, TrackedAfterLoop(before, comparisons), near)
        BY LoopSteps, SMTT(30)
      <3> QED  BY <3>1, <3>2, <3>3, <3>4
    <2> HIDE DEF tracked
    <2>3. tracked <=> id \in After(tracked)
      BY <2>2
    <2>4. Explains(turn, After(tracked),
                   IF near THEN After(tracked) \cup {id} ELSE After(tracked) \ {id})
      BY <2>2, <2>3, TurnExplains
    <2>5. (IF near THEN After(tracked) \cup {id} ELSE After(tracked) \ {id}) = After(near)
      BY <2>2
    <2>6. Explains(LoopMessages(id, entity, id \in was, comparisons), was, After(tracked))
      BY <1>2 DEF tracked
    <2> HIDE DEF turn, After
    <2>7. Explains(LoopMessages(id, entity, id \in was, comparisons) \o turn, was, After(near))
      BY <2>4, <2>5, <2>6, ExplanationsChain
    <2> QED  BY <2>2, <2>7
  <1> HIDE DEF Holds
  <1>3. <<>> \in S
    BY <1>1, EmptySeq
  <1>4. \A comparisons \in Seq(BOOLEAN), near \in BOOLEAN :
           comparisons \in S => Append(comparisons, near) \in S
    BY <1>2, AppendProperties
  <1> HIDE DEF S
  <1>5. \A comparisons \in Seq(BOOLEAN) : comparisons \in S
    BY <1>3, <1>4, SequenceInduction
  <1> QED  BY <1>5 DEF S, Holds, After

(* One loop after another, for ids that come once each and are tracked in  *)
(* the end if they are among "tracked".                                    *)
LEMMA LoopsExplain ==
    ASSUME NEW n \in Nat, NEW loop \in [1 .. n -> Seq(News)],
           NEW ids, NEW was, NEW tracked, NEW is,
           \A i \in 1 .. n : \A w : (ids[i] \in w <=> ids[i] \in was) =>
              Explains(loop[i], w, IF ids[i] \in tracked THEN w \cup {ids[i]} ELSE w \ {ids[i]}),
           \A i, j \in 1 .. n : ids[i] = ids[j] => i = j,
           is = (was \ {ids[i] : i \in 1 .. n}) \cup (tracked \cap {ids[i] : i \in 1 .. n})
    PROVE  Explains(FlattenSeq(loop), was, is)
  <1> DEFINE done(k) == {ids[i] : i \in 1 .. k}
             After(k) == (was \ done(k)) \cup (tracked \cap done(k))
             Holds(k) == Explains(FlattenSeq([i \in 1 .. k |-> loop[i]]), was, After(k))
             S == {k \in 0 .. n : Holds(k)}
  <1>1. Holds(0)
    <2>1. [i \in 1 .. 0 |-> loop[i]] = <<>>
      <3>1. [i \in 1 .. 0 |-> loop[i]] \in Seq({}) /\ Len([i \in 1 .. 0 |-> loop[i]]) = 0
        OBVIOUS
      <3> QED  BY <3>1, EmptySeq
    <2>2. After(0) = was
      OBVIOUS
    <2> QED  BY <2>1, <2>2, FlattenSeqEmpty, SilenceExplains
  <1>2. ASSUME NEW k \in 0 .. n - 1, Holds(k)
        PROVE  Holds(k + 1)
    <2>1. /\ k \in Nat
          /\ k + 1 \in 1 .. n
          /\ \A i \in 1 .. k : i \in 1 .. n /\ i # k + 1
          /\ \A i \in 1 .. k + 1 : i \in 1 .. k \/ i = k + 1
          /\ \A i \in 1 .. k : i \in 1 .. k + 1
          /\ k + 1 \in 1 .. k + 1
      OBVIOUS
    <2> DEFINE id == ids[k + 1]
    <2>2. id \notin done(k)
      BY <2>1
    <2>3. done(k + 1) = done(k) \cup {id}
      BY <2>1
    <2>4. Explains(loop[k + 1], After(k),
                   IF id \in tracked THEN After(k) \cup {id} ELSE After(k) \ {id})
      <3>1. id \in After(k) <=> id \in was
        BY <2>2
      <3> HIDE DEF After
      <3> QED  BY <2>1, <3>1
    <2>5. (IF id \in tracked THEN After(k) \cup {id} ELSE After(k) \ {id}) = After(k + 1)
      <3> HIDE DEF done, id
      <3> QED  BY <2>2, <2>3
    <2>6. FlattenSeq([i \in 1 .. k + 1 |-> loop[i]])
            = FlattenSeq([i \in 1 .. k |-> loop[i]]) \o loop[k + 1]
      <3>1. /\ [i \in 1 .. k |-> loop[i]] \in Seq(Seq(News))
            /\ loop[k + 1] \in Seq(News)
        BY <2>1
      <3>2. [i \in 1 .. k + 1 |-> loop[i]] = Append([i \in 1 .. k |-> loop[i]], loop[k + 1])
        BY <2>1
      <3> QED  BY <3>1, <3>2, FlattenSeqAppend
    <2>7. Explains(FlattenSeq([i \in 1 .. k |-> loop[i]]), was, After(k))
      BY <1>2
    <2> HIDE DEF After
    <2>8. Explains(FlattenSeq([i \in 1 .. k |-> loop[i]]) \o loop[k + 1], was, After(k + 1))
      BY <2>4, <2>5, <2>7, ExplanationsChain, ZenonT(60)
    <2> QED  BY <2>6, <2>8
  <1> HIDE DEF Holds
  <1>3. 0 \in S /\ \A k \in 0 .. n - 1 : k \in S => k + 1 \in S
    BY <1>1, <1>2
  <1> HIDE DEF S
  <1>4. \A k \in 0 .. n : k \in S
    BY <1>3, InductionUpTo
  <1>5. loop = [i \in 1 .. n |-> loop[i]]
    OBVIOUS
  <1>6. After(n) = is
    OBVIOUS
  <1>7. Holds(n)
    BY <1>4 DEF S
  <1> HIDE DEF After
  <1> QED  BY <1>5, <1>6, <1>7 DEF Holds

(* Destroy messages for tracked ids, that come once each.                  *)
LEMMA StoppingExplains ==
    ASSUME NEW n \in Nat, NEW stopped, NEW was,
           \A i \in 1 .. n : stopped[i] \in was \cap Ids,
           \A i, j \in 1 .. n : stopped[i] = stopped[j] => i = j
    PROVE  Explains([i \in 1 .. n |-> DestroyEntity(stopped[i])], was,
                    {id \in was : \A i \in 1 .. n : id # stopped[i]})
  <1> DEFINE After(k) == {id \in was : \A i \in 1 .. k : id # stopped[i]}
             sent(k) == [i \in 1 .. k |-> DestroyEntity(stopped[i])]
             Holds(k) == Explains(sent(k), was, After(k))
             S == {k \in 0 .. n : Holds(k)}
  <1>1. Holds(0)
    <2>1. sent(0) = <<>>
      <3>1. sent(0) \in Seq({}) /\ Len(sent(0)) = 0
        OBVIOUS
      <3> QED  BY <3>1, EmptySeq
    <2>2. After(0) = was
      OBVIOUS
    <2> QED  BY <2>1, <2>2, SilenceExplains
  <1>2. \A i \in 1 .. n : /\ DestroyEntity(stopped[i]) \in News
                          /\ DestroyEntity(stopped[i]).type = "DestroyEntity"
                          /\ DestroyEntity(stopped[i]).id = stopped[i]
    BY DEF DestroyEntity, News, Messages
  <1>3. ASSUME NEW k \in 0 .. n - 1, Holds(k)
        PROVE  Holds(k + 1)
    <2> DEFINE message == DestroyEntity(stopped[k + 1])
    <2>1. /\ k \in Nat
          /\ k + 1 \in 1 .. n
          /\ \A i \in 1 .. k : i \in 1 .. n /\ i # k + 1
          /\ \A i \in 1 .. k + 1 : i \in 1 .. k \/ i = k + 1
          /\ \A i \in 1 .. k : i \in 1 .. k + 1
          /\ k + 1 \in 1 .. k + 1
      OBVIOUS
    <2>2. stopped[k + 1] \in After(k)
      BY <2>1
    <2>3. After(k) \ {stopped[k + 1]} = After(k + 1)
      BY <2>1
    <2>4. sent(k + 1) = sent(k) \o <<message>>
      <3>1. sent(k) \in Seq(News) /\ message \in News
        BY <1>2, <2>1
      <3>2. sent(k + 1) = Append(sent(k), message)
        BY <2>1
      <3> QED  BY <3>1, <3>2, AppendIsConcat
    <2>5. Believe(Belief(After(k)), message) = Belief(After(k) \ {stopped[k + 1]})
      BY <1>2, <2>1, <2>2 DEF Believe, Belief
    <2>6. message \in News
      BY <1>2, <2>1
    <2> HIDE DEF message, After, sent
    <2>7. Explains(<<message>>, After(k), After(k + 1))
      BY <2>3, <2>5, <2>6, OneMessageExplains
    <2>8. Explains(sent(k), was, After(k))
      BY <1>3
    <2>9. Explains(sent(k) \o <<message>>, was, After(k + 1))
      BY <2>7, <2>8, ExplanationsChain
    <2> QED  BY <2>4, <2>9
  <1> HIDE DEF Holds
  <1>4. 0 \in S /\ \A k \in 0 .. n - 1 : k \in S => k + 1 \in S
    BY <1>1, <1>3
  <1> HIDE DEF S
  <1>5. \A k \in 0 .. n : k \in S
    BY <1>4, InductionUpTo
  <1> QED  BY <1>5 DEF S, Holds, sent, After

(* The ids of a handler in the order in which it goes through them.        *)
LEMMA InOrderCovers ==
    ASSUME NEW T, IsFiniteSet(T), NEW order \in Orders(T), NEW ids \in SUBSET T
    PROVE  LET sorted == InOrder(order, ids)
           IN  /\ sorted \in Seq(T)
               /\ Len(sorted) \in Nat
               /\ \A i \in 1 .. Len(sorted) : sorted[i] \in ids
               /\ \A id \in ids : \E i \in 1 .. Len(sorted) : id = sorted[i]
               /\ \A i, j \in 1 .. Len(sorted) : sorted[i] = sorted[j] => i = j
  <1> DEFINE sorted == InOrder(order, ids)
  <1>1. order \in Seq(T) /\ Elements(order) = T /\ Distinct(order)
    BY OrdersAreComplete
  <1>2. sorted \in Seq(T) /\ Elements(sorted) = ids /\ Distinct(sorted)
    <2>1. /\ sorted \in Seq(T)
          /\ Elements(sorted) = Elements(order) \cap ids
          /\ Distinct(order) => Distinct(sorted)
      BY <1>1, InOrderElements
    <2> HIDE DEF sorted
    <2> QED  BY <1>1, <2>1
  <1>3. DOMAIN sorted = 1 .. Len(sorted) /\ Len(sorted) \in Nat
    BY <1>2, LenProperties
  <1> HIDE DEF sorted
  <1>4. ids = {sorted[i] : i \in 1 .. Len(sorted)}
    BY <1>2, <1>3 DEF Elements
  <1>5. \A i, j \in 1 .. Len(sorted) : sorted[i] = sorted[j] => i = j
    BY <1>2, <1>3 DEF Distinct
  <1> QED  BY <1>2, <1>3, <1>4, <1>5 DEF sorted

LEMMA StopMessagesExplain ==
    ASSUME NEW T \in SUBSET Ids, IsFiniteSet(T), NEW order \in Orders(T),
           NEW was, NEW ids, was \cap ids \subseteq T
    PROVE  Explains(StopMessages(order, was, ids), was, was \ ids)
  <1> DEFINE stopped == InOrder(order, was \cap ids)
             n == Len(stopped)
  <1>1. /\ n \in Nat
        /\ \A i \in 1 .. n : stopped[i] \in was \cap ids
        /\ \A id \in was \cap ids : \E i \in 1 .. n : id = stopped[i]
        /\ \A i, j \in 1 .. n : stopped[i] = stopped[j] => i = j
    <2> DEFINE both == was \cap ids
    <2>1. both \in SUBSET T
      OBVIOUS
    <2> HIDE DEF both
    <2>2. LET sorted == InOrder(order, both)
          IN  /\ Len(sorted) \in Nat
              /\ \A i \in 1 .. Len(sorted) : sorted[i] \in both
              /\ \A id \in both : \E i \in 1 .. Len(sorted) : id = sorted[i]
              /\ \A i, j \in 1 .. Len(sorted) : sorted[i] = sorted[j] => i = j
      BY <2>1, InOrderCovers
    <2> QED  BY <2>2 DEF both
  <1>2. StopMessages(order, was, ids) = [i \in 1 .. n |-> DestroyEntity(stopped[i])]
    BY DEF StopMessages
  <1> HIDE DEF stopped, n
  <1>3. \A i \in 1 .. n : stopped[i] \in was \cap Ids
    BY <1>1
  <1>4. Explains([i \in 1 .. n |-> DestroyEntity(stopped[i])], was,
                 {id \in was : \A i \in 1 .. n : id # stopped[i]})
    BY <1>1, <1>3, StoppingExplains
  <1>5. {id \in was : \A i \in 1 .. n : id # stopped[i]} = was \ ids
    BY <1>1
  <1> QED  BY <1>2, <1>4, <1>5

LEMMA MessagesExplain ==
    ASSUME NEW T \in SUBSET Ids, IsFiniteSet(T), NEW order \in Orders(T),
           NEW entities, NEW was, NEW loops, DOMAIN loops \subseteq T,
           \A id \in DOMAIN loops : /\ entities[id].pos \in Positions
                                    /\ loops[id] \in Seq(BOOLEAN)
    PROVE  Explains(MessagesOf(entities, order, was, loops), was, TrackedAfter(was, loops))
  <1> DEFINE ids == InOrder(order, DOMAIN loops)
             n == Len(ids)
             loop == [i \in 1 .. n |->
                        LoopMessages(ids[i], entities[ids[i]], ids[i] \in was, loops[ids[i]])]
             tracked == {id \in DOMAIN loops : TrackedAfterLoop(id \in was, loops[id])}
  <1>1. /\ n \in Nat
        /\ \A i \in 1 .. n : ids[i] \in DOMAIN loops
        /\ \A id \in DOMAIN loops : \E i \in 1 .. n : id = ids[i]
        /\ \A i, j \in 1 .. n : ids[i] = ids[j] => i = j
    BY InOrderCovers
  <1>2. MessagesOf(entities, order, was, loops) = FlattenSeq(loop)
    BY DEF MessagesOf
  <1> HIDE DEF ids, n
  <1>3. ASSUME NEW i \in 1 .. n, NEW w, ids[i] \in w <=> ids[i] \in was
        PROVE  Explains(loop[i], w,
                        IF ids[i] \in tracked THEN w \cup {ids[i]} ELSE w \ {ids[i]})
    <2> DEFINE id == ids[i]
    <2>1. id \in Ids /\ id \in DOMAIN loops
      BY <1>1
    <2>2. entities[id].pos \in Positions /\ loops[id] \in Seq(BOOLEAN)
      BY <2>1
    <2>3. (id \in w) = (id \in was)
      BY <1>3
    <2>4. Explains(LoopMessages(id, entities[id], id \in w, loops[id]), w,
                   IF TrackedAfterLoop(id \in w, loops[id]) THEN w \cup {id} ELSE w \ {id})
      BY <2>1, <2>2, LoopExplains
    <2>5. id \in tracked <=> TrackedAfterLoop(id \in w, loops[id])
      BY <2>1, <2>3
    <2>6. loop[i] = LoopMessages(id, entities[id], id \in w, loops[id])
      BY <2>3
    <2> HIDE DEF loop, tracked
    <2> QED  BY <2>4, <2>5, <2>6
  <1>4. loop \in [1 .. n -> Seq(News)]
    <2>1. \A i \in 1 .. n : loop[i] \in Seq(News)
      <3> HIDE DEF loop, tracked
      <3> QED  BY <1>3 DEF Explains
    <2>2. DOMAIN loop = 1 .. n /\ loop = [i \in 1 .. n |-> loop[i]]
      OBVIOUS
    <2> HIDE DEF loop
    <2> QED  BY <2>1, <2>2
  <1>5. DOMAIN loops = {ids[i] : i \in 1 .. n}
    <2> HIDE DEF loop, tracked
    <2>1. \A id \in DOMAIN loops : id \in {ids[i] : i \in 1 .. n}
      BY <1>1
    <2>2. \A id \in {ids[i] : i \in 1 .. n} : id \in DOMAIN loops
      BY <1>1
    <2> QED  BY <2>1, <2>2
  <1>6. TrackedAfter(was, loops) = (was \ DOMAIN loops) \cup (tracked \cap DOMAIN loops)
    <2>1. TrackedAfter(was, loops) = {id \in was : id \notin DOMAIN loops} \cup tracked
      BY DEF TrackedAfter
    <2>2. tracked \subseteq DOMAIN loops
      OBVIOUS
    <2> HIDE DEF tracked
    <2> QED  BY <2>1, <2>2
  <1> HIDE DEF loop, tracked
  <1>7. TrackedAfter(was, loops)
          = (was \ {ids[i] : i \in 1 .. n}) \cup (tracked \cap {ids[i] : i \in 1 .. n})
    BY <1>5, <1>6
  <1>8. Explains(FlattenSeq(loop), was, TrackedAfter(was, loops))
    <2>1. \A i \in 1 .. n : \A w : (ids[i] \in w <=> ids[i] \in was) =>
            Explains(loop[i], w, IF ids[i] \in tracked THEN w \cup {ids[i]} ELSE w \ {ids[i]})
      BY <1>3
    <2> QED  BY <1>1, <1>4, <1>7, <2>1, LoopsExplain
  <1> QED  BY <1>2, <1>8

LEMMA ComparisonsTyped ==
    ASSUME NEW T, NEW order \in Seq(T), NEW entities, NEW p, NEW id
    PROVE  /\ Comparisons(entities, order, p, id) \in Seq(BOOLEAN)
           /\ FilteredComparisons(entities, order, p, id) \in Seq(BOOLEAN)
  <1> DEFINE own == InOrder(order, OwnedBy(entities, p))
  <1>1. own \in Seq(T)
    BY InOrderElements
  <1>2. Len(own) \in Nat
    BY <1>1
  <1> HIDE DEF own
  <1>3. \A i \in 1 .. Len(own) : InRange(entities[own[i]].pos, entities[id].pos) \in BOOLEAN
    BY DEF InRange
  <1>4. [i \in 1 .. Len(own) |-> InRange(entities[own[i]].pos, entities[id].pos)] \in Seq(BOOLEAN)
    BY <1>2, <1>3
  <1>5. Comparisons(entities, order, p, id) \in Seq(BOOLEAN)
    BY <1>4 DEF Comparisons, own
  <1>6. <<FALSE>> \in Seq(BOOLEAN)
    OBVIOUS
  <1> QED  BY <1>5, <1>6 DEF FilteredComparisons

(* What a step enqueues explains what it does to the tracking, and goes to *)
(* players alone.                                                          *)
StepExplains ==
    \A p \in Conns :
        /\ Explains(enqueued'[p], trackedEntities[p], trackedEntities'[p])
        /\ p \notin ConnectedPlayers => enqueued'[p] = <<>>

LEMMA EnumeratedIds ==
    ASSUME IInv
    PROVE  /\ OldIds \in SUBSET Ids
           /\ IsFiniteSet(OldIds)
           /\ IsFiniteSet(NewIds)
           /\ entityIdCounter < MaxEntities => NewIds \in SUBSET Ids
  <1>1. /\ entityIdCounter \in 0 .. MaxEntities
        /\ DOMAIN SpawnedEntities \subseteq 0 .. entityIdCounter - 1
    BY DEF IInv, TypeOK
  <1>2. IsFiniteSet(0 .. entityIdCounter - 1) /\ IsFiniteSet(0 .. entityIdCounter)
    BY <1>1, ConstantsAssumption, FS_Interval
  <1>3. OldIds \subseteq 0 .. entityIdCounter - 1 /\ NewIds \subseteq 0 .. entityIdCounter
    BY <1>1, ConstantsAssumption DEF OldIds, NewIds
  <1>4. IsFiniteSet(OldIds) /\ IsFiniteSet(NewIds)
    BY <1>2, <1>3, FS_Subset
  <1>5. /\ 0 .. entityIdCounter - 1 \subseteq Ids
        /\ entityIdCounter < MaxEntities => 0 .. entityIdCounter \subseteq Ids
    BY <1>1, ConstantsAssumption DEF Ids
  <1> QED  BY <1>3, <1>4, <1>5

LEMMA BroadcastExplains ==
    ASSUME IInv, NEW c \in Conns,
           NEW T \in SUBSET Ids, IsFiniteSet(T), NEW order \in Orders(T),
           NEW gone, gone \subseteq T, NEW touched, touched \subseteq T,
           NEW entities, \A id \in touched : entities[id].pos \in Positions,
           Broadcast(entities, order, c, gone, touched)
    PROVE  StepExplains
  <1> SUFFICES ASSUME NEW p \in Conns
               PROVE  /\ Explains(enqueued'[p], trackedEntities[p], trackedEntities'[p])
                      /\ p \notin ConnectedPlayers => enqueued'[p] = <<>>
    BY DEF StepExplains
  <1> DEFINE loops == [id \in Shows(p, c, touched) |->
                          FilteredComparisons(entities, order, p, id)]
             kept == trackedEntities[p] \ gone
  <1>1. CASE p \in Audience
    <2>1. trackedEntities'[p] = TrackedAfter(kept, loops)
      BY <1>1 DEF Broadcast
    <2>2. enqueued'[p] = StopMessages(order, trackedEntities[p], gone)
                           \o MessagesOf(entities, order, kept, loops)
      BY <1>1 DEF Broadcast
    <2>3. DOMAIN loops \subseteq touched
      BY DEF Shows
    <2>4. \A id \in DOMAIN loops : loops[id] \in Seq(BOOLEAN)
      <3>1. order \in Seq(T)
        BY OrdersAreComplete
      <3>2. \A id : FilteredComparisons(entities, order, p, id) \in Seq(BOOLEAN)
        BY <3>1, ComparisonsTyped
      <3> QED  BY <3>2
    <2>5. trackedEntities[p] \cap gone \subseteq T
      OBVIOUS
    <2>6. Explains(StopMessages(order, trackedEntities[p], gone), trackedEntities[p], kept)
      BY <2>5, StopMessagesExplain
    <2> HIDE DEF loops, kept
    <2>7. DOMAIN loops \subseteq T /\ \A id \in DOMAIN loops : entities[id].pos \in Positions
      BY <2>3
    <2>8. Explains(MessagesOf(entities, order, kept, loops), kept, TrackedAfter(kept, loops))
      BY <2>4, <2>7, MessagesExplain
    <2>9. Explains(StopMessages(order, trackedEntities[p], gone)
                     \o MessagesOf(entities, order, kept, loops),
                   trackedEntities[p], TrackedAfter(kept, loops))
      BY <2>6, <2>8, ExplanationsChain
    <2> QED  BY <1>1, <2>1, <2>2, <2>9 DEF Audience
  <1>2. CASE p \notin Audience
    <2>1. trackedEntities'[p] = trackedEntities[p] /\ enqueued'[p] = <<>>
      BY <1>2 DEF Broadcast
    <2> QED  BY <2>1, SilenceExplains
  <1> QED  BY <1>1, <1>2

LEMMA SilenceIsExplained ==
    ASSUME NothingHappens
    PROVE  StepExplains
  <1>1. \A p \in Conns : enqueued'[p] = <<>> /\ trackedEntities'[p] = trackedEntities[p]
    BY DEF NothingHappens, managed, Silence
  <1> QED  BY <1>1, SilenceExplains DEF StepExplains

(* The answer to InitAuth is no news of entities.                          *)
LEMMA InitAuthAnswers ==
    ASSUME NEW c \in Conns, NEW versionMatches \in BOOLEAN, HandleInitAuth(c, versionMatches)
    PROVE  /\ UNCHANGED trackedEntities
           /\ \A p \in Conns \ {c} : enqueued'[p] = <<>>
           /\ \E answer \in Messages :
                 answer.type = "InitAuthResult" /\ enqueued'[c] = <<answer>>
  <1> DEFINE answer == AuthResult(IF versionMatches THEN "Ok" ELSE "VersionMismatch")
  <1>1. answer \in Messages /\ answer.type = "InitAuthResult"
    BY DEF AuthResult, Messages
  <1>2. /\ enqueued' = [Silence EXCEPT ![c] = <<answer>>]
        /\ trackedEntities' = trackedEntities
    BY DEF HandleInitAuth
  <1> HIDE DEF answer
  <1>3. \A p \in Conns : enqueued'[p] = IF p = c THEN <<answer>> ELSE <<>>
    BY <1>2 DEF Silence
  <1> QED  BY <1>1, <1>2, <1>3

LEMMA JoinWorldExplained ==
    ASSUME IInv, NEW c \in Conns, NEW position \in Positions, HandleJoinWorld(c, position)
    PROVE  StepExplains
  <1>1. CASE c \notin ConnectedPlayers
    BY <1>1, SilenceIsExplained DEF HandleJoinWorld
  <1>2. CASE c \in ConnectedPlayers
    <2> DEFINE entity == [owner |-> c, record |-> Puppet, pos |-> position,
                          isVehicle |-> FALSE]
               entities == CreateEntity(SpawnedEntities, entity)
               Loops(order) == [id \in DOMAIN entities \ OwnedBy(entities, c) |->
                                   Comparisons(entities, order, c, id)]
    <2>1. PICK order \in Orders(NewIds) :
            /\ trackedEntities' =
                 [trackedEntities EXCEPT ![c] = TrackedAfter(@, Loops(order))]
            /\ enqueued' = [Silence EXCEPT ![c] =
                  MessagesOf(entities, order, trackedEntities[c], Loops(order))]
      BY <1>2 DEF HandleJoinWorld
    <2>2. entityIdCounter < MaxEntities
      BY <1>2 DEF HandleJoinWorld
    <2>3. NewIds \in SUBSET Ids /\ IsFiniteSet(NewIds)
      BY <2>2, EnumeratedIds
    <2>4. DOMAIN entities = NewIds
      BY DEF CreateEntity, NewIds, OldIds
    <2>5. \A id \in DOMAIN entities : entities[id].pos \in Positions
      <3>1. \A id \in DOMAIN SpawnedEntities : SpawnedEntities[id].pos \in Positions
        BY DEF IInv, TypeOK, Entity
      <3> QED  BY <3>1 DEF CreateEntity
    <2>6. order \in Seq(NewIds)
      BY <2>1, <2>3, OrdersAreComplete
    <2> HIDE DEF entities
    <2> DEFINE loops == Loops(order)
    <2>7. /\ DOMAIN loops \subseteq NewIds
          /\ \A id \in DOMAIN loops : entities[id].pos \in Positions
      BY <2>4, <2>5
    <2>8. \A id \in DOMAIN loops : loops[id] \in Seq(BOOLEAN)
      BY <2>6, ComparisonsTyped
    <2>9. /\ trackedEntities' = [trackedEntities EXCEPT ![c] = TrackedAfter(@, loops)]
          /\ enqueued' = [Silence EXCEPT ![c] =
                MessagesOf(entities, order, trackedEntities[c], loops)]
      BY <2>1
    <2> HIDE DEF loops, Loops
    <2>10. Explains(MessagesOf(entities, order, trackedEntities[c], loops),
                    trackedEntities[c], TrackedAfter(trackedEntities[c], loops))
      BY <2>1, <2>3, <2>7, <2>8, MessagesExplain
    <2>11. trackedEntities \in [Conns -> SUBSET (0 .. entityIdCounter - 1)]
      BY DEF IInv, TypeOK
    <2>12. \A p \in Conns :
             /\ trackedEntities'[p] = IF p = c THEN TrackedAfter(trackedEntities[c], loops)
                                               ELSE trackedEntities[p]
             /\ enqueued'[p] = IF p = c THEN MessagesOf(entities, order, trackedEntities[c], loops)
                                        ELSE <<>>
      BY <2>9, <2>11 DEF Silence
    <2> QED  BY <1>2, <2>10, <2>12, SilenceExplains DEF StepExplains
  <1> QED  BY <1>1, <1>2

LEMMA PositionUpdateExplained ==
    ASSUME IInv, NEW c \in Conns, NEW position \in Positions,
           HandlePositionUpdate(c, position)
    PROVE  StepExplains
  <1>1. CASE position = FaultyPosition
    BY <1>1, SilenceIsExplained DEF HandlePositionUpdate
  <1>2. CASE position # FaultyPosition
    <2> DEFINE moved == OwnedBy(SpawnedEntities, c)
               entities == [id \in DOMAIN SpawnedEntities |->
                               IF id \in moved
                               THEN [SpawnedEntities[id] EXCEPT !.pos = position]
                               ELSE SpawnedEntities[id]]
    <2>1. PICK order \in Orders(OldIds) : Broadcast(entities, order, c, {}, moved)
      BY <1>2 DEF HandlePositionUpdate
    <2>2. moved \subseteq OldIds
      BY DEF OwnedBy, OldIds
    <2>3. \A id \in moved : entities[id].pos \in Positions
      <3>1. \A id \in DOMAIN SpawnedEntities : SpawnedEntities[id] \in Entity
        BY DEF IInv, TypeOK
      <3> QED  BY <2>2, <3>1 DEF OldIds, Entity
    <2> HIDE DEF moved, entities
    <2>4. {} \subseteq OldIds
      OBVIOUS
    <2> QED  BY <2>1, <2>2, <2>3, <2>4, EnumeratedIds, BroadcastExplains
  <1> QED  BY <1>1, <1>2

LEMMA SpawnCarExplained ==
    ASSUME IInv, NEW c \in Conns, NEW position \in Positions, HandleSpawnCar(c, position)
    PROVE  StepExplains
  <1> DEFINE entity == [owner |-> c, record |-> Car, pos |-> position, isVehicle |-> TRUE]
             entities == CreateEntity(Without(SpawnedEntities, VehiclesOf(c)), entity)
             touched == {entityIdCounter}
  <1>1. PICK order \in Orders(NewIds) : Broadcast(entities, order, c, VehiclesOf(c), touched)
    BY DEF HandleSpawnCar
  <1>2. NewIds \in SUBSET Ids /\ IsFiniteSet(NewIds)
    BY EnumeratedIds DEF HandleSpawnCar
  <1>3. VehiclesOf(c) \subseteq NewIds /\ touched \subseteq NewIds
    BY DEF VehiclesOf, OwnedBy, NewIds, OldIds
  <1>4. \A id \in touched : entities[id].pos \in Positions
    BY DEF CreateEntity
  <1> HIDE DEF entities, touched
  <1> QED  BY <1>1, <1>2, <1>3, <1>4, BroadcastExplains

(* What UnmountCar, an unequip and the end of a connection have in common. *)
LEMMA RemovalExplained ==
    ASSUME IInv, NEW c \in Conns, NEW order \in Orders(OldIds),
           NEW gone \in SUBSET OwnedBy(SpawnedEntities, c), NEW entities,
           Broadcast(entities, order, c, gone, {})
    PROVE  StepExplains
  <1> DEFINE touched == {}
  <1>1. /\ touched \subseteq OldIds
        /\ \A id \in touched : entities[id].pos \in Positions
        /\ Broadcast(entities, order, c, gone, touched)
    OBVIOUS
  <1>2. gone \subseteq OldIds
    BY DEF OwnedBy, OldIds
  <1> HIDE DEF touched
  <1> QED  BY <1>1, <1>2, EnumeratedIds, BroadcastExplains

LEMMA UnmountExplained ==
    ASSUME IInv, NEW c \in Conns, HandleUnmountCar(c)
    PROVE  StepExplains
  <1>1. VehiclesOf(c) \in SUBSET OwnedBy(SpawnedEntities, c)
    BY DEF VehiclesOf
  <1>2. PICK order \in Orders(OldIds) :
          Broadcast(Without(SpawnedEntities, VehiclesOf(c)), order, c, VehiclesOf(c), {})
    BY DEF HandleUnmountCar
  <1> QED  BY <1>1, <1>2, RemovalExplained

LEMMA EquipExplained ==
    ASSUME IInv, NEW c \in Conns, NEW item \in Items, NEW isUnequipping \in BOOLEAN,
           HandleEquip(c, item, isUnequipping)
    PROVE  StepExplains
  <1>1. CASE UnequipItem(c, item)
    <2>1. ItemsOf(c, item) \in SUBSET OwnedBy(SpawnedEntities, c)
      BY DEF ItemsOf
    <2>2. PICK order \in Orders(OldIds) :
            Broadcast(Without(SpawnedEntities, ItemsOf(c, item)), order, c, ItemsOf(c, item), {})
      BY <1>1 DEF UnequipItem
    <2> QED  BY <2>1, <2>2, RemovalExplained
  <1>2. CASE EquipItem(c, item) /\ OwnedBy(SpawnedEntities, c) = {}
    BY <1>2, SilenceIsExplained DEF EquipItem
  <1>3. CASE EquipItem(c, item) /\ OwnedBy(SpawnedEntities, c) # {}
    <2> DEFINE Copy(id) == [owner |-> c, record |-> item,
                            pos |-> SpawnedEntities[id].pos, isVehicle |-> FALSE]
               touched == {entityIdCounter}
    <2>1. PICK order \in Orders(NewIds), playerEntity \in OwnedBy(SpawnedEntities, c) :
            Broadcast(CreateEntity(SpawnedEntities, Copy(playerEntity)), order, c, {}, touched)
      BY <1>3 DEF EquipItem
    <2> DEFINE entities == CreateEntity(SpawnedEntities, Copy(playerEntity))
    <2>2. NewIds \in SUBSET Ids /\ IsFiniteSet(NewIds)
      BY <1>3, EnumeratedIds DEF EquipItem
    <2>3. SpawnedEntities[playerEntity] \in Entity
      BY <2>1 DEF OwnedBy, IInv, TypeOK
    <2>4. \A id \in touched : entities[id].pos \in Positions
      BY <2>3 DEF CreateEntity, Entity
    <2>5. touched \subseteq NewIds
      BY DEF NewIds
    <2>6. Broadcast(entities, order, c, {}, touched)
      BY <2>1
    <2>7. {} \subseteq NewIds
      OBVIOUS
    <2> HIDE DEF entities, touched
    <2> QED  BY <2>1, <2>2, <2>4, <2>5, <2>6, <2>7, BroadcastExplains
  <1> QED  BY <1>1, <1>2, <1>3 DEF HandleEquip

LEMMA ConnectionStateChangeExplained ==
    ASSUME IInv, NEW c \in Conns, OnConnectionStateChange(c)
    PROVE  StepExplains
  <1>1. CASE c \notin ConnectedPlayers
    BY <1>1, SilenceIsExplained DEF OnConnectionStateChange
  <1>2. CASE c \in ConnectedPlayers
    <2>1. PICK order \in Orders(OldIds) :
            Broadcast(Without(SpawnedEntities, OwnedBy(SpawnedEntities, c)), order, c,
                      OwnedBy(SpawnedEntities, c), {})
      BY <1>2 DEF OnConnectionStateChange
    <2> QED  BY <2>1, RemovalExplained
  <1> QED  BY <1>1, <1>2

LEMMA NextExplained ==
    ASSUME IInv, Next
    PROVE  \/ StepExplains
           \/ \E c \in Conns, versionMatches \in BOOLEAN : HandleInitAuth(c, versionMatches)
  <1>1. ASSUME NEW c \in Conns, SignIn(c)
        PROVE  \E versionMatches \in BOOLEAN : HandleInitAuth(c, versionMatches)
    BY <1>1 DEF SignIn
  <1>2. ASSUME NEW c \in Conns, EndConnection(c)
        PROVE  StepExplains
    BY <1>2, ConnectionStateChangeExplained DEF EndConnection
  <1>3. ASSUME NEW c \in Conns, ProcessMessage(c), ~SignIn(c)
        PROVE  StepExplains
    <2>1. CASE \E position \in Positions : Move(c, position)
      BY <2>1, PositionUpdateExplained DEF Move
    <2>2. CASE \/ \E position \in Positions :
                    HandleJoinWorld(c, position) \/ HandleSpawnCar(c, position)
               \/ HandleUnmountCar(c)
               \/ \E item \in Items, isUnequipping \in BOOLEAN :
                    HandleEquip(c, item, isUnequipping)
               \/ HandleShoot
      <3>1. HandleShoot => StepExplains
        BY SilenceIsExplained DEF HandleShoot
      <3> QED  BY <2>2, <3>1, JoinWorldExplained, SpawnCarExplained, UnmountExplained,
                  EquipExplained
    <2> QED  BY <1>3, <2>1, <2>2 DEF ProcessMessage
  <1> QED  BY <1>1, <1>2, <1>3 DEF Next

(* Every request but the sign-in, by its type.                             *)
LEMMA RequestExplained ==
    ASSUME IInv, NEW c \in Conns, NEW request \in Requests, request.type # "InitAuth",
           Handle(c, request)
    PROVE  StepExplains /\ UNCHANGED ConnectedPlayers
  <1> USE DEF NothingHappens, managed
  <1>1. CASE request.type = "PlayerJoinWorld" /\ HandleJoinWorld(c, request.pos)
    <2>1. request.pos \in Positions
      BY <1>1 DEF Requests
    <2> QED  BY <1>1, <2>1, JoinWorldExplained DEF HandleJoinWorld
  <1>2. CASE request.type = "PlayerPositionUpdate" /\ HandlePositionUpdate(c, request.pos)
    <2>1. request.pos \in Positions
      BY <1>2 DEF Requests
    <2> QED  BY <1>2, <2>1, PositionUpdateExplained DEF HandlePositionUpdate
  <1>3. CASE request.type = "PlayerSpawnCar" /\ HandleSpawnCar(c, request.pos)
    <2>1. request.pos \in Positions
      BY <1>3 DEF Requests
    <2> QED  BY <1>3, <2>1, SpawnCarExplained DEF HandleSpawnCar
  <1>4. CASE HandleUnmountCar(c)
    BY <1>4, UnmountExplained DEF HandleUnmountCar
  <1>5. CASE /\ request.type = "PlayerEquipItem"
             /\ HandleEquip(c, request.item, request.isUnequipping)
    <2>1. request.item \in Items /\ request.isUnequipping \in BOOLEAN
      BY <1>5 DEF Requests
    <2> QED  BY <1>5, <2>1, EquipExplained DEF HandleEquip, EquipItem, UnequipItem
  <1>6. CASE HandleShoot \/ NothingHappens
    BY <1>6, SilenceIsExplained DEF HandleShoot
  <1> QED  BY <1>1, <1>2, <1>3, <1>4, <1>5, <1>6 DEF Handle

LEMMA NewsAreMessages ==
    ASSUME NEW messages \in Seq(News)
    PROVE  messages \in Seq(Messages)
  BY DEF News

(* No handler leaves a client's picture and the server's tracking apart:    *)
(* the packets of every step, applied in order, are each in its place and  *)
(* take the one to the other, whatever the dictionary's order.             *)
THEOREM OutboxIsRight == Spec => OutboxExplainsTracking
  <1> DEFINE Right(c) ==
        /\ enqueued'[c] \in Seq(Messages)
        /\ FoldLeft(Believe, [ids |-> trackedEntities[c], sound |-> TRUE], enqueued'[c])
             = [ids |-> trackedEntities'[c], sound |-> TRUE]
  <1>1. IInv /\ [Next]_vars => [\A c \in Conns : Right(c)]_vars
    <2> SUFFICES ASSUME IInv, Next
                 PROVE  \A c \in Conns : Right(c)
      OBVIOUS
    <2>1. CASE StepExplains
      <3> SUFFICES ASSUME NEW c \in Conns
                   PROVE  Right(c)
        OBVIOUS
      <3>1. Explains(enqueued'[c], trackedEntities[c], trackedEntities'[c])
        BY <2>1 DEF StepExplains
      <3> QED  BY <3>1, BelievingFolds, NewsAreMessages DEF Explains, Belief
    <2>2. ASSUME NEW d \in Conns, NEW versionMatches \in BOOLEAN,
                 HandleInitAuth(d, versionMatches), NEW c \in Conns
          PROVE  Right(c)
      <3>1. UNCHANGED trackedEntities
        BY <2>2, InitAuthAnswers
      <3>2. CASE c # d
        <4>1. enqueued'[c] = <<>>
          BY <2>2, <3>2, InitAuthAnswers
        <4> QED  BY <3>1, <4>1, BelievingFolds, SilenceExplains, NewsAreMessages
                 DEF Explains, Belief
      <3>3. CASE c = d
        <4>1. PICK answer \in Messages :
                answer.type = "InitAuthResult" /\ enqueued'[c] = <<answer>>
          BY <2>2, <3>3, InitAuthAnswers
        <4>2. Believe(Belief(trackedEntities[c]), answer) = Belief(trackedEntities[c])
          BY <4>1 DEF Believe
        <4>3. FoldLeft(Believe, Belief(trackedEntities[c]), <<answer>>) = Belief(trackedEntities[c])
          BY <4>2, BelievingFolds, Believing!FoldSingle
        <4>4. <<answer>> \in Seq(Messages)
          OBVIOUS
        <4> QED  BY <3>1, <4>1, <4>3, <4>4 DEF Belief
      <3> QED  BY <3>2, <3>3
    <2> QED  BY <2>1, <2>2, NextExplained
  <1>2. Spec => []IInv
    BY InductiveInvariant
  <1> QED  BY <1>1, <1>2, PTL DEF Spec, OutboxExplainsTracking

-----------------------------------------------------------------------------
(* The messages of a step say where the entities are after it.             *)
SaysWhere(message) == message.type \in {"SpawnEntity", "TeleportEntity"}

(* The messages that are right about the world.                            *)
TrueNews(world) == {message \in News : SaysWhere(message) => message.pos = world[message.id].pos}

Mentions(messages, id) ==
    \E message \in Elements(messages) : message.type = "TeleportEntity" /\ message.id = id

LEMMA TurnIsTrue ==
    ASSUME NEW world, NEW id \in Ids, world[id].pos \in Positions
    PROVE  \A tracked, near \in BOOLEAN :
             /\ TurnMessages(id, world[id], tracked, near) \in Seq(TrueNews(world))
             /\ near => Mentions(TurnMessages(id, world[id], tracked, near), id)
  <1> DEFINE entity == world[id]
             spawn == SpawnEntity(id, entity)
             teleport == TeleportEntity(id, entity)
             destroy == DestroyEntity(id)
  <1>1. {spawn, teleport, destroy} \subseteq TrueNews(world)
    BY DEF TrueNews, News, Messages, SpawnEntity, TeleportEntity, DestroyEntity, SaysWhere
  <1>2. teleport.type = "TeleportEntity" /\ teleport.id = id
    BY DEF TeleportEntity
  <1>3. /\ TurnMessages(id, entity, TRUE, TRUE) = <<teleport>>
        /\ TurnMessages(id, entity, FALSE, TRUE) = <<spawn, teleport>>
        /\ TurnMessages(id, entity, TRUE, FALSE) = <<destroy>>
        /\ TurnMessages(id, entity, FALSE, FALSE) = <<>>
    BY DEF TurnMessages
  <1> HIDE DEF spawn, teleport, destroy, entity
  <1>4. /\ <<teleport>> \in Seq(TrueNews(world))
        /\ <<spawn, teleport>> \in Seq(TrueNews(world))
        /\ <<destroy>> \in Seq(TrueNews(world))
        /\ <<>> \in Seq(TrueNews(world))
    BY <1>1, EmptySeq
  <1>5. teleport \in Elements(<<teleport>>) /\ teleport \in Elements(<<spawn, teleport>>)
    <2>1. 1 \in DOMAIN <<teleport>> /\ <<teleport>>[1] = teleport
      OBVIOUS
    <2>2. 2 \in DOMAIN <<spawn, teleport>> /\ <<spawn, teleport>>[2] = teleport
      OBVIOUS
    <2>3. PICK one : one = <<teleport>>
      OBVIOUS
    <2>4. PICK two : two = <<spawn, teleport>>
      OBVIOUS
    <2>5. teleport \in Elements(one)
      BY <2>1, <2>3 DEF Elements
    <2>6. teleport \in Elements(two)
      BY <2>2, <2>4 DEF Elements
    <2> QED  BY <2>3, <2>4, <2>5, <2>6
  <1>6. Mentions(<<teleport>>, id) /\ Mentions(<<spawn, teleport>>, id)
    BY <1>2, <1>5 DEF Mentions
  <1> SUFFICES ASSUME NEW tracked \in BOOLEAN, NEW near \in BOOLEAN
               PROVE  /\ TurnMessages(id, entity, tracked, near) \in Seq(TrueNews(world))
                      /\ near => Mentions(TurnMessages(id, entity, tracked, near), id)
    BY DEF entity
  <1>7. CASE near /\ tracked
    BY <1>3, <1>4, <1>6, <1>7
  <1>8. CASE near /\ ~tracked
    BY <1>3, <1>4, <1>6, <1>8
  <1>9. CASE ~near /\ tracked
    BY <1>3, <1>4, <1>9
  <1>10. CASE ~near /\ ~tracked
    BY <1>3, <1>4, <1>10
  <1> QED  BY <1>7, <1>8, <1>9, <1>10

LEMMA HeldMentions ==
    ASSUME NEW part, NEW whole, Elements(part) \subseteq Elements(whole), NEW id,
           Mentions(part, id)
    PROVE  Mentions(whole, id)
  BY DEF Mentions

LEMMA LoopIsTrue ==
    ASSUME NEW world, NEW id \in Ids, world[id].pos \in Positions,
           NEW tracked \in BOOLEAN, NEW comparisons \in Seq(BOOLEAN)
    PROVE  /\ LoopMessages(id, world[id], tracked, comparisons) \in Seq(TrueNews(world))
           /\ comparisons # <<>> /\ TrackedAfterLoop(tracked, comparisons) =>
                Mentions(LoopMessages(id, world[id], tracked, comparisons), id)
  <1> DEFINE entity == world[id]
             n == Len(comparisons)
             Was(i) == IF i = 1 THEN tracked ELSE comparisons[i - 1]
             turns == [i \in DOMAIN comparisons |->
                         TurnMessages(id, entity, Was(i), comparisons[i])]
  <1>1. /\ n \in Nat
        /\ DOMAIN comparisons = 1 .. n
        /\ \A i \in 1 .. n : comparisons[i] \in BOOLEAN
        /\ comparisons # <<>> => n # 0
    BY LenProperties, ElementsAreTyped, EmptySeq
  <1>2. \A i \in 1 .. n : Was(i) \in BOOLEAN
    <2>1. \A i \in 1 .. n : i # 1 => i - 1 \in 1 .. n
      BY <1>1
    <2> HIDE DEF n
    <2> QED  BY <1>1, <2>1
  <1>3. LoopMessages(id, entity, tracked, comparisons) = FlattenSeq(turns)
    BY DEF LoopMessages
  <1> HIDE DEF n, Was, entity
  <1>4. ASSUME NEW i \in 1 .. n
        PROVE  /\ turns[i] \in Seq(TrueNews(world))
               /\ comparisons[i] => Mentions(turns[i], id)
    <2>1. turns[i] = TurnMessages(id, entity, Was(i), comparisons[i])
      BY <1>1
    <2>2. Was(i) \in BOOLEAN /\ comparisons[i] \in BOOLEAN
      BY <1>1, <1>2
    <2> HIDE DEF turns
    <2> QED  BY <2>1, <2>2, TurnIsTrue DEF entity
  <1>5. turns \in Seq(Seq(TrueNews(world))) /\ DOMAIN turns = 1 .. n
    <2>1. turns = [i \in 1 .. n |-> turns[i]]
      BY <1>1
    <2> HIDE DEF turns
    <2>2. turns \in [1 .. n -> Seq(TrueNews(world))]
      BY <1>4, <2>1
    <2> QED  BY <1>1, <2>2
  <1> HIDE DEF turns
  <1>6. FlattenSeq(turns) \in Seq(TrueNews(world))
    BY <1>5, FlattenSeqTyped
  <1>7. ASSUME comparisons # <<>>, TrackedAfterLoop(tracked, comparisons)
        PROVE  Mentions(FlattenSeq(turns), id)
    <2>1. n \in 1 .. n /\ comparisons[n]
      BY <1>1, <1>7 DEF TrackedAfterLoop, n
    <2>2. Mentions(turns[n], id)
      BY <1>4, <2>1
    <2>3. Elements(turns[n]) \subseteq Elements(FlattenSeq(turns))
      BY <1>5, <2>1, PartsAreHeld
    <2> QED  BY <2>2, <2>3, HeldMentions
  <1> QED  BY <1>3, <1>6, <1>7 DEF entity

LEMMA MessagesAreTrue ==
    ASSUME NEW T \in SUBSET Ids, IsFiniteSet(T), NEW order \in Orders(T),
           NEW world, NEW was, NEW loops, DOMAIN loops \subseteq T,
           \A id \in DOMAIN loops : /\ world[id].pos \in Positions
                                    /\ loops[id] \in Seq(BOOLEAN)
    PROVE  /\ MessagesOf(world, order, was, loops) \in Seq(TrueNews(world))
           /\ \A id \in DOMAIN loops :
                loops[id] # <<>> /\ TrackedAfterLoop(id \in was, loops[id]) =>
                  Mentions(MessagesOf(world, order, was, loops), id)
  <1> DEFINE ids == InOrder(order, DOMAIN loops)
             n == Len(ids)
             loop == [i \in 1 .. n |->
                        LoopMessages(ids[i], world[ids[i]], ids[i] \in was, loops[ids[i]])]
  <1>1. /\ n \in Nat
        /\ \A i \in 1 .. n : ids[i] \in DOMAIN loops
        /\ \A id \in DOMAIN loops : \E i \in 1 .. n : id = ids[i]
    BY InOrderCovers
  <1>2. MessagesOf(world, order, was, loops) = FlattenSeq(loop)
    BY DEF MessagesOf
  <1> HIDE DEF ids, n
  <1>3. ASSUME NEW i \in 1 .. n
        PROVE  /\ loop[i] \in Seq(TrueNews(world))
               /\ loops[ids[i]] # <<>> /\ TrackedAfterLoop(ids[i] \in was, loops[ids[i]])
                    => Mentions(loop[i], ids[i])
    <2>1. PICK id : id = ids[i]
      OBVIOUS
    <2>2. id \in Ids /\ world[id].pos \in Positions /\ loops[id] \in Seq(BOOLEAN)
      BY <1>1, <2>1
    <2>3. PICK tracked \in BOOLEAN : tracked = (id \in was)
      <3>1. CASE id \in was
        <4>1. TRUE = (id \in was)
          BY <3>1
        <4> QED  BY <4>1
      <3>2. CASE id \notin was
        <4>1. FALSE = (id \in was)
          BY <3>2
        <4> QED  BY <4>1
      <3> QED  BY <3>1, <3>2
    <2>4. loop[i] = LoopMessages(id, world[id], tracked, loops[id])
      BY <2>1, <2>3
    <2>5. /\ LoopMessages(id, world[id], tracked, loops[id]) \in Seq(TrueNews(world))
          /\ loops[id] # <<>> /\ TrackedAfterLoop(tracked, loops[id]) =>
               Mentions(LoopMessages(id, world[id], tracked, loops[id]), id)
      BY <2>2, LoopIsTrue
    <2> HIDE DEF loop
    <2> QED  BY <2>1, <2>3, <2>4, <2>5
  <1>4. loop \in Seq(Seq(TrueNews(world))) /\ DOMAIN loop = 1 .. n
    <2>1. loop = [i \in 1 .. n |-> loop[i]]
      OBVIOUS
    <2> HIDE DEF loop
    <2>2. loop \in [1 .. n -> Seq(TrueNews(world))]
      BY <1>3, <2>1
    <2> QED  BY <1>1, <2>2
  <1> HIDE DEF loop
  <1>5. FlattenSeq(loop) \in Seq(TrueNews(world))
    BY <1>4, FlattenSeqTyped
  <1>6. ASSUME NEW id \in DOMAIN loops, loops[id] # <<>>,
               TrackedAfterLoop(id \in was, loops[id])
        PROVE  Mentions(FlattenSeq(loop), id)
    <2>1. PICK i \in 1 .. n : id = ids[i]
      BY <1>1
    <2>2. Mentions(loop[i], id)
      BY <1>3, <1>6, <2>1
    <2>3. Elements(loop[i]) \subseteq Elements(FlattenSeq(loop))
      BY <1>4, PartsAreHeld
    <2> QED  BY <2>2, <2>3, HeldMentions
  <1> QED  BY <1>2, <1>5, <1>6

LEMMA StopMessagesAreTrue ==
    ASSUME NEW T \in SUBSET Ids, IsFiniteSet(T), NEW order \in Orders(T),
           NEW was, NEW ids, was \cap ids \subseteq T, NEW world
    PROVE  StopMessages(order, was, ids) \in Seq(TrueNews(world))
  <1> DEFINE both == was \cap ids
             stopped == InOrder(order, both)
             n == Len(stopped)
  <1>1. n \in Nat /\ \A i \in 1 .. n : stopped[i] \in both
    <2>1. both \in SUBSET T
      OBVIOUS
    <2> HIDE DEF both
    <2> QED  BY <2>1, InOrderCovers
  <1>2. StopMessages(order, was, ids) = [i \in 1 .. n |-> DestroyEntity(stopped[i])]
    BY DEF StopMessages
  <1> HIDE DEF stopped, n
  <1>3. \A i \in 1 .. n : DestroyEntity(stopped[i]) \in TrueNews(world)
    BY <1>1 DEF DestroyEntity, TrueNews, News, Messages, SaysWhere
  <1> QED  BY <1>1, <1>2, <1>3

LEMMA BroadcastIsTrue ==
    ASSUME IInv, NEW c \in Conns,
           NEW T \in SUBSET Ids, IsFiniteSet(T), NEW order \in Orders(T),
           NEW gone, gone \subseteq T, NEW touched, touched \subseteq T,
           NEW world, \A id \in touched : world[id].pos \in Positions,
           Broadcast(world, order, c, gone, touched), NEW p \in Conns
    PROVE  /\ enqueued'[p] \in Seq(TrueNews(world))
           /\ \A id \in trackedEntities'[p] :
                \/ id \in trackedEntities[p]
                \/ Mentions(enqueued'[p], id)
           /\ p # c /\ p \in ConnectedPlayers /\ OwnedBy(world, p) \cap T # {} =>
                \A id \in trackedEntities'[p] \cap touched : Mentions(enqueued'[p], id)
  <1> DEFINE loops == [id \in Shows(p, c, touched) |->
                          FilteredComparisons(world, order, p, id)]
             kept == trackedEntities[p] \ gone
             own == InOrder(order, OwnedBy(world, p))
  <1>1. CASE p \in Audience
    <2>1. trackedEntities'[p] = TrackedAfter(kept, loops)
      BY <1>1 DEF Broadcast
    <2>2. enqueued'[p] = StopMessages(order, trackedEntities[p], gone)
                           \o MessagesOf(world, order, kept, loops)
      BY <1>1 DEF Broadcast
    <2>3. DOMAIN loops = IF p = c THEN {} ELSE touched
      BY DEF Shows
    <2>4. order \in Seq(T) /\ Elements(order) = T
      BY OrdersAreComplete
    <2>5. \A id \in DOMAIN loops : loops[id] \in Seq(BOOLEAN)
      BY <2>4, ComparisonsTyped
    <2>6. OwnedBy(world, p) \cap T # {} =>
            \A id \in DOMAIN loops :
               loops[id] # <<>> /\ loops[id] = FilteredComparisons(world, order, p, id)
      <3>1. ASSUME OwnedBy(world, p) \cap T # {}, NEW id
            PROVE  FilteredComparisons(world, order, p, id) # <<>>
        <4>1. own \in Seq(T) /\ Elements(own) = T \cap OwnedBy(world, p)
          BY <2>4, InOrderElements
        <4> HIDE DEF own
        <4>2. DOMAIN own # {} /\ DOMAIN own = 1 .. Len(own) /\ Len(own) \in Nat
          BY <3>1, <4>1, LenProperties DEF Elements
        <4>3. Comparisons(world, order, p, id)
                = [i \in 1 .. Len(own) |-> InRange(world[own[i]].pos, world[id].pos)]
          BY DEF Comparisons, own
        <4>4. DOMAIN Comparisons(world, order, p, id) # {}
          BY <4>2, <4>3
        <4>5. Comparisons(world, order, p, id) # <<>>
          BY <4>4, EmptySeq
        <4> QED  BY <4>5 DEF FilteredComparisons
      <3> QED  BY <3>1
    <2>7. StopMessages(order, trackedEntities[p], gone) \in Seq(TrueNews(world))
      BY StopMessagesAreTrue
    <2> HIDE DEF loops, kept, own
    <2>8. /\ MessagesOf(world, order, kept, loops) \in Seq(TrueNews(world))
          /\ \A id \in DOMAIN loops :
                loops[id] # <<>> /\ TrackedAfterLoop(id \in kept, loops[id]) =>
                  Mentions(MessagesOf(world, order, kept, loops), id)
      BY <2>3, <2>5, MessagesAreTrue
    <2>9. enqueued'[p] \in Seq(TrueNews(world))
      BY <2>2, <2>7, <2>8, ConcatProperties
    <2>10. \A id : Mentions(MessagesOf(world, order, kept, loops), id) => Mentions(enqueued'[p], id)
      <3>1. Elements(MessagesOf(world, order, kept, loops)) \subseteq Elements(enqueued'[p])
        BY <2>2, <2>7, <2>8, PiecesAreHeld
      <3> QED  BY <3>1, HeldMentions
    <2>11. \A id \in trackedEntities'[p] :
              \/ id \in kept /\ id \notin DOMAIN loops
              \/ id \in DOMAIN loops /\ TrackedAfterLoop(id \in kept, loops[id])
      BY <2>1 DEF TrackedAfter
    <2>12. ASSUME NEW id \in trackedEntities'[p], id \notin trackedEntities[p]
           PROVE  Mentions(enqueued'[p], id)
      <3>1. id \notin kept
        BY <2>12 DEF kept
      <3>2. id \in DOMAIN loops /\ TrackedAfterLoop(id \in kept, loops[id])
        BY <2>11, <3>1
      <3>3. loops[id] # <<>>
        BY <3>1, <3>2 DEF TrackedAfterLoop
      <3> QED  BY <2>8, <2>10, <3>2, <3>3
    <2>13. ASSUME p # c, OwnedBy(world, p) \cap T # {},
                  NEW id \in trackedEntities'[p] \cap touched
           PROVE  Mentions(enqueued'[p], id)
      <3>1. id \in DOMAIN loops /\ TrackedAfterLoop(id \in kept, loops[id])
        BY <2>3, <2>11, <2>13
      <3> QED  BY <2>6, <2>8, <2>10, <2>13, <3>1
    <2> QED  BY <2>9, <2>12, <2>13
  <1>2. CASE p \notin Audience
    <2>1. trackedEntities'[p] = trackedEntities[p] /\ enqueued'[p] = <<>>
      BY <1>2 DEF Broadcast
    <2> QED  BY <1>2, <2>1, EmptySeq DEF Audience
  <1> QED  BY <1>1, <1>2

Located(world, touched) == \A id \in touched : world[id].pos \in Positions

TellsOfNew(world, p) ==
    /\ enqueued'[p] \in Seq(TrueNews(world))
    /\ \A id \in trackedEntities'[p] : id \in trackedEntities[p] \/ Mentions(enqueued'[p], id)

LEMMA BroadcastTells ==
    ASSUME IInv, NEW c \in Conns,
           NEW T \in SUBSET Ids, IsFiniteSet(T), NEW order \in Orders(T),
           NEW gone, gone \subseteq T, NEW touched, touched \subseteq T,
           NEW world, Located(world, touched),
           Broadcast(world, order, c, gone, touched), NEW p \in Conns
    PROVE  TellsOfNew(world, p)
  BY BroadcastIsTrue DEF Located, TellsOfNew

(* A player in the world is told where things are: of what they track, all  *)
(* that is new to them, has moved or that they have just come to see.      *)
Puppets(p) == {id \in OwnedBy(SpawnedEntities, p) : SpawnedEntities[id].record = Puppet}

Informs(p) ==
    /\ enqueued'[p] \in Seq(TrueNews(SpawnedEntities'))
    /\ Puppets(p)' # {} =>
         \A id \in trackedEntities'[p] :
           \/ Mentions(enqueued'[p], id)
           \/ /\ Puppets(p) # {}
              /\ id \in trackedEntities[p]
              /\ SpawnedEntities'[id].pos = SpawnedEntities[id].pos

(* Nothing moves and nobody comes: then only what is new has to be said.    *)
LEMMA RearrangingInforms ==
    ASSUME IInv, IInv', NEW p \in Conns, Puppets(p)' # {} => Puppets(p) # {},
           \A id \in DOMAIN SpawnedEntities \cap DOMAIN SpawnedEntities' :
             SpawnedEntities'[id].pos = SpawnedEntities[id].pos,
           enqueued'[p] \in Seq(TrueNews(SpawnedEntities')),
           \A id \in trackedEntities'[p] : id \in trackedEntities[p] \/ Mentions(enqueued'[p], id)
    PROVE  Informs(p)
  <1>1. Puppets(p)' # {} => p \in ConnectedPlayers'
    BY DEF IInv, PuppetsBelongToPlayers, Puppets, OwnedBy
  <1>2. Puppets(p) # {} => p \in ConnectedPlayers
    BY DEF IInv, PuppetsBelongToPlayers, Puppets, OwnedBy
  <1>3. p \in ConnectedPlayers => trackedEntities[p] \subseteq DOMAIN SpawnedEntities
    BY DEF IInv, NoDanglingTracking
  <1>4. p \in ConnectedPlayers' => trackedEntities'[p] \subseteq DOMAIN SpawnedEntities'
    BY DEF IInv, NoDanglingTracking
  <1> QED  BY <1>1, <1>2, <1>3, <1>4 DEF Informs

LEMMA SilenceInforms ==
    ASSUME NEW p \in Conns, UNCHANGED SpawnedEntities, trackedEntities'[p] = trackedEntities[p],
           enqueued'[p] = <<>>
    PROVE  Informs(p)
  <1>1. <<>> \in Seq(TrueNews(SpawnedEntities'))
    BY EmptySeq
  <1> QED  BY <1>1 DEF Informs, Puppets, OwnedBy

LEMMA IdlingInforms ==
    ASSUME NothingHappens, NEW p \in Conns
    PROVE  Informs(p)
  BY SilenceInforms DEF NothingHappens, managed, Silence

LEMMA RemovalInforms ==
    ASSUME IInv, IInv', NEW c \in Conns, NEW order \in Orders(OldIds),
           NEW gone \in SUBSET OwnedBy(SpawnedEntities, c),
           SpawnedEntities' = Without(SpawnedEntities, gone),
           Broadcast(SpawnedEntities', order, c, gone, {}), NEW p \in Conns
    PROVE  Informs(p)
  <1> DEFINE touched == {}
  <1>1. /\ touched \subseteq OldIds
        /\ \A id \in touched : SpawnedEntities'[id].pos \in Positions
        /\ Broadcast(SpawnedEntities', order, c, gone, touched)
        /\ gone \subseteq OldIds
    BY DEF OwnedBy, OldIds
  <1> HIDE DEF touched
  <1>2. /\ enqueued'[p] \in Seq(TrueNews(SpawnedEntities'))
        /\ \A id \in trackedEntities'[p] :
             id \in trackedEntities[p] \/ Mentions(enqueued'[p], id)
    <2>1. OldIds \in SUBSET Ids /\ IsFiniteSet(OldIds)
      BY EnumeratedIds
    <2> QED  BY <1>1, <2>1, BroadcastIsTrue
  <1>3. /\ DOMAIN SpawnedEntities' \subseteq DOMAIN SpawnedEntities
        /\ \A id \in DOMAIN SpawnedEntities' : SpawnedEntities'[id] = SpawnedEntities[id]
    BY DEF Without
  <1>4. Puppets(p)' # {} => Puppets(p) # {}
    BY <1>3 DEF Puppets, OwnedBy
  <1> QED  BY <1>2, <1>3, <1>4, RearrangingInforms

LEMMA AdditionInforms ==
    ASSUME IInv, IInv', NEW c \in Conns, NEW gone \in SUBSET OwnedBy(SpawnedEntities, c),
           NEW entity, entity.pos \in Positions, entity.record # Puppet,
           NEW left, DOMAIN left = DOMAIN SpawnedEntities \ gone,
           \A id \in DOMAIN left : left[id] = SpawnedEntities[id],
           entityIdCounter < MaxEntities,
           SpawnedEntities' = CreateEntity(left, entity),
           NEW order \in Orders(NewIds),
           Broadcast(SpawnedEntities', order, c, gone, {entityIdCounter}), NEW p \in Conns
    PROVE  Informs(p)
  <1> DEFINE touched == {entityIdCounter}
  <1>1. /\ touched \subseteq NewIds
        /\ \A id \in touched : SpawnedEntities'[id].pos \in Positions
        /\ Broadcast(SpawnedEntities', order, c, gone, touched)
        /\ gone \subseteq NewIds
    BY DEF OwnedBy, NewIds, OldIds, CreateEntity
  <1> HIDE DEF touched
  <1>2. /\ enqueued'[p] \in Seq(TrueNews(SpawnedEntities'))
        /\ \A id \in trackedEntities'[p] :
             id \in trackedEntities[p] \/ Mentions(enqueued'[p], id)
    <2>1. NewIds \in SUBSET Ids /\ IsFiniteSet(NewIds)
      BY EnumeratedIds
    <2>2. PICK world : world = SpawnedEntities'
      OBVIOUS
    <2>3. Located(world, touched) /\ Broadcast(world, order, c, gone, touched)
      BY <1>1, <2>2 DEF Located
    <2>4. TellsOfNew(world, p)
      BY <1>1, <2>1, <2>3, BroadcastTells
    <2> QED  BY <2>2, <2>4 DEF TellsOfNew
  <1>3. entityIdCounter \notin DOMAIN SpawnedEntities
    BY DEF IInv, TypeOK
  <1>4. /\ DOMAIN SpawnedEntities' = (DOMAIN SpawnedEntities \ gone) \cup {entityIdCounter}
        /\ \A id \in DOMAIN SpawnedEntities \ gone : SpawnedEntities'[id] = SpawnedEntities[id]
        /\ SpawnedEntities'[entityIdCounter].record # Puppet
    BY <1>3 DEF CreateEntity
  <1>5. Puppets(p)' # {} => Puppets(p) # {}
    BY <1>4 DEF Puppets, OwnedBy
  <1> QED  BY <1>2, <1>3, <1>4, <1>5, RearrangingInforms

LEMMA PositionUpdateInforms ==
    ASSUME IInv, IInv', NEW c \in Conns, NEW position \in Positions,
           HandlePositionUpdate(c, position), NEW p \in Conns
    PROVE  Informs(p)
  <1>1. CASE position = FaultyPosition
    BY <1>1, IdlingInforms DEF HandlePositionUpdate
  <1>2. CASE position # FaultyPosition
    <2> DEFINE moved == OwnedBy(SpawnedEntities, c)
    <2>1. PICK order \in Orders(OldIds) :
            /\ SpawnedEntities' = [id \in DOMAIN SpawnedEntities |->
                                     IF id \in moved
                                     THEN [SpawnedEntities[id] EXCEPT !.pos = position]
                                     ELSE SpawnedEntities[id]]
            /\ Broadcast(SpawnedEntities', order, c, {}, moved)
      BY <1>2 DEF HandlePositionUpdate
    <2>2. \A id \in DOMAIN SpawnedEntities : SpawnedEntities[id] \in Entity
      BY DEF IInv, TypeOK
    <2>3. /\ DOMAIN SpawnedEntities' = DOMAIN SpawnedEntities
          /\ \A id \in DOMAIN SpawnedEntities :
                /\ SpawnedEntities'[id].pos = IF id \in moved THEN position
                                              ELSE SpawnedEntities[id].pos
                /\ SpawnedEntities'[id].owner = SpawnedEntities[id].owner
                /\ SpawnedEntities'[id].record = SpawnedEntities[id].record
      BY <2>1, <2>2 DEF Entity
    <2>4. moved \subseteq OldIds /\ \A id \in moved : SpawnedEntities'[id].pos \in Positions
      BY <2>3 DEF OwnedBy, OldIds
    <2>5. Puppets(p)' = Puppets(p) /\ OwnedBy(SpawnedEntities', p) = OwnedBy(SpawnedEntities, p)
      BY <2>3 DEF Puppets, OwnedBy
    <2> HIDE DEF moved
    <2> DEFINE gone == {}
    <2>6. gone \subseteq OldIds /\ Broadcast(SpawnedEntities', order, c, gone, moved)
      BY <2>1
    <2> HIDE DEF gone
    <2>7. /\ enqueued'[p] \in Seq(TrueNews(SpawnedEntities'))
          /\ \A id \in trackedEntities'[p] :
               \/ id \in trackedEntities[p]
               \/ Mentions(enqueued'[p], id)
          /\ p # c /\ p \in ConnectedPlayers /\ OwnedBy(SpawnedEntities', p) \cap OldIds # {} =>
               \A id \in trackedEntities'[p] \cap moved : Mentions(enqueued'[p], id)
      <3>1. OldIds \in SUBSET Ids /\ IsFiniteSet(OldIds)
        BY EnumeratedIds
      <3> QED  BY <2>4, <2>6, <3>1, BroadcastIsTrue
    <2>8. ASSUME Puppets(p) # {}
          PROVE  /\ p \in ConnectedPlayers
                 /\ OwnedBy(SpawnedEntities', p) \cap OldIds # {}
                 /\ trackedEntities[p] \subseteq DOMAIN SpawnedEntities
                 /\ p = c => trackedEntities[p] \cap moved = {}
      <3>1. p \in ConnectedPlayers
        BY <2>8 DEF IInv, PuppetsBelongToPlayers, Puppets, OwnedBy
      <3>2. OwnedBy(SpawnedEntities', p) \cap OldIds # {}
        BY <2>5, <2>8 DEF Puppets, OwnedBy, OldIds
      <3> QED  BY <3>1, <3>2 DEF IInv, NoDanglingTracking, NeverTracksOwn, moved
    <2>9. ASSUME Puppets(p)' # {}, NEW id \in trackedEntities'[p], ~Mentions(enqueued'[p], id)
          PROVE  /\ Puppets(p) # {}
                 /\ id \in trackedEntities[p]
                 /\ SpawnedEntities'[id].pos = SpawnedEntities[id].pos
      <3>1. Puppets(p) # {} /\ id \in trackedEntities[p]
        BY <2>5, <2>7, <2>9
      <3>2. id \notin moved
        BY <2>7, <2>8, <2>9, <3>1
      <3> QED  BY <2>3, <2>8, <3>1, <3>2
    <2> QED  BY <2>7, <2>9 DEF Informs
  <1> QED  BY <1>1, <1>2

LEMMA JoinWorldInforms ==
    ASSUME IInv, IInv', NEW c \in Conns, NEW position \in Positions,
           HandleJoinWorld(c, position), NEW p \in Conns
    PROVE  Informs(p)
  <1>1. CASE c \notin ConnectedPlayers
    BY <1>1, IdlingInforms DEF HandleJoinWorld
  <1>2. CASE c \in ConnectedPlayers
    <2> DEFINE entity == [owner |-> c, record |-> Puppet, pos |-> position,
                          isVehicle |-> FALSE]
               world == SpawnedEntities'
               Loops(order) == [id \in DOMAIN world \ OwnedBy(world, c) |->
                                   Comparisons(world, order, c, id)]
    <2>1. PICK order \in Orders(NewIds) :
            /\ world = CreateEntity(SpawnedEntities, entity)
            /\ trackedEntities' =
                 [trackedEntities EXCEPT ![c] = TrackedAfter(@, Loops(order))]
            /\ enqueued' = [Silence EXCEPT ![c] =
                  MessagesOf(world, order, trackedEntities[c], Loops(order))]
      BY <1>2 DEF HandleJoinWorld
    <2>2. entityIdCounter < MaxEntities
      BY <1>2 DEF HandleJoinWorld
    <2>3. NewIds \in SUBSET Ids /\ IsFiniteSet(NewIds)
      BY <2>2, EnumeratedIds
    <2>4. entityIdCounter \notin DOMAIN SpawnedEntities
      BY DEF IInv, TypeOK
    <2>5. /\ DOMAIN world = NewIds
          /\ NewIds = DOMAIN SpawnedEntities \cup {entityIdCounter}
          /\ \A id \in DOMAIN SpawnedEntities : world[id] = SpawnedEntities[id]
          /\ world[entityIdCounter] = entity
      BY <2>1, <2>4 DEF CreateEntity, NewIds, OldIds
    <2>6. trackedEntities \in [Conns -> SUBSET (0 .. entityIdCounter - 1)]
      BY DEF IInv, TypeOK
    <2>7. CASE p # c
      <3>1. trackedEntities'[p] = trackedEntities[p] /\ enqueued'[p] = <<>>
        BY <2>1, <2>6, <2>7 DEF Silence
      <3>2. Puppets(p)' = Puppets(p)
        BY <2>5, <2>7 DEF Puppets, OwnedBy
      <3>3. Puppets(p) # {} => trackedEntities[p] \subseteq DOMAIN SpawnedEntities
        BY DEF IInv, PuppetsBelongToPlayers, Puppets, OwnedBy, NoDanglingTracking
      <3>4. enqueued'[p] \in Seq(TrueNews(SpawnedEntities'))
        BY <3>1, EmptySeq
      <3> QED  BY <2>5, <3>1, <3>2, <3>3, <3>4 DEF Informs
    <2>8. CASE p = c
      <3> DEFINE loops == Loops(order)
                 was == trackedEntities[c]
      <3>1. /\ trackedEntities'[c] = TrackedAfter(was, loops)
            /\ enqueued'[c] = MessagesOf(world, order, was, loops)
        BY <2>1, <2>6 DEF Silence
      <3>2. order \in Seq(NewIds) /\ Elements(order) = NewIds
        BY <2>3, OrdersAreComplete
      <3>3. DOMAIN loops = NewIds \ OwnedBy(world, c)
        BY <2>5
      <3>4. \A id \in DOMAIN loops : /\ loops[id] \in Seq(BOOLEAN)
                                     /\ world[id].pos \in Positions
                                     /\ loops[id] # <<>>
        <4>1. \A id \in DOMAIN loops : loops[id] \in Seq(BOOLEAN)
          BY <3>2, ComparisonsTyped
        <4>2. \A id \in NewIds : world[id].pos \in Positions
          BY <2>5 DEF IInv, TypeOK, Entity
        <4>3. ASSUME NEW id
              PROVE  Comparisons(world, order, c, id) # <<>>
          <5> DEFINE own == InOrder(order, OwnedBy(world, c))
          <5>1. own \in Seq(NewIds) /\ Elements(own) = NewIds \cap OwnedBy(world, c)
            BY <3>2, InOrderElements
          <5>2. entityIdCounter \in NewIds \cap OwnedBy(world, c)
            BY <2>5 DEF OwnedBy
          <5>3. Comparisons(world, order, c, id)
                  = [i \in 1 .. Len(own) |-> InRange(world[own[i]].pos, world[id].pos)]
            BY DEF Comparisons
          <5> HIDE DEF own
          <5>4. DOMAIN own # {} /\ DOMAIN own = 1 .. Len(own) /\ Len(own) \in Nat
            BY <5>1, <5>2, LenProperties DEF Elements
          <5>5. DOMAIN Comparisons(world, order, c, id) # {}
            BY <5>3, <5>4
          <5> QED  BY <5>5, EmptySeq
        <4> QED  BY <3>3, <4>1, <4>2, <4>3
      <3>5. was \subseteq NewIds \ OwnedBy(world, c)
        <4>1. was \subseteq DOMAIN SpawnedEntities /\ was \cap OwnedBy(SpawnedEntities, c) = {}
          BY <1>2 DEF IInv, NoDanglingTracking, NeverTracksOwn
        <4> QED  BY <2>5, <4>1 DEF OwnedBy
      <3> HIDE DEF loops, was, world
      <3>6. /\ MessagesOf(world, order, was, loops) \in Seq(TrueNews(world))
            /\ \A id \in DOMAIN loops :
                  loops[id] # <<>> /\ TrackedAfterLoop(id \in was, loops[id]) =>
                    Mentions(MessagesOf(world, order, was, loops), id)
        BY <2>3, <3>3, <3>4, MessagesAreTrue
      <3>7. \A id \in trackedEntities'[c] :
              id \in DOMAIN loops /\ TrackedAfterLoop(id \in was, loops[id])
        BY <3>1, <3>3, <3>5 DEF TrackedAfter
      <3> QED  BY <2>8, <3>1, <3>4, <3>6, <3>7 DEF Informs, world
    <2> QED  BY <2>7, <2>8
  <1> QED  BY <1>1, <1>2

LEMMA SpawnCarInforms ==
    ASSUME IInv, IInv', NEW c \in Conns, NEW position \in Positions,
           HandleSpawnCar(c, position), NEW p \in Conns
    PROVE  Informs(p)
  <1> DEFINE gone == VehiclesOf(c)
             left == Without(SpawnedEntities, gone)
             entity == [owner |-> c, record |-> Car, pos |-> position, isVehicle |-> TRUE]
  <1>1. PICK order \in Orders(NewIds) :
          /\ SpawnedEntities' = CreateEntity(left, entity)
          /\ Broadcast(SpawnedEntities', order, c, gone, {entityIdCounter})
    BY DEF HandleSpawnCar
  <1>2. entityIdCounter < MaxEntities
    BY DEF HandleSpawnCar
  <1>3. gone \in SUBSET OwnedBy(SpawnedEntities, c)
    BY DEF VehiclesOf
  <1>4. entity.pos \in Positions /\ entity.record # Puppet
    BY ConstantsAssumption
  <1>5. /\ DOMAIN left = DOMAIN SpawnedEntities \ gone
        /\ \A id \in DOMAIN left : left[id] = SpawnedEntities[id]
    BY DEF Without
  <1> HIDE DEF gone, left, entity
  <1> QED  BY <1>1, <1>2, <1>3, <1>4, <1>5, AdditionInforms

LEMMA UnmountInforms ==
    ASSUME IInv, IInv', NEW c \in Conns, HandleUnmountCar(c), NEW p \in Conns
    PROVE  Informs(p)
  <1>1. VehiclesOf(c) \in SUBSET OwnedBy(SpawnedEntities, c)
    BY DEF VehiclesOf
  <1> QED  BY <1>1, RemovalInforms DEF HandleUnmountCar

LEMMA EquipInforms ==
    ASSUME IInv, IInv', NEW c \in Conns, NEW item \in Items, NEW isUnequipping \in BOOLEAN,
           HandleEquip(c, item, isUnequipping), NEW p \in Conns
    PROVE  Informs(p)
  <1>1. CASE UnequipItem(c, item)
    <2>1. ItemsOf(c, item) \in SUBSET OwnedBy(SpawnedEntities, c)
      BY DEF ItemsOf
    <2> QED  BY <1>1, <2>1, RemovalInforms DEF UnequipItem
  <1>2. CASE EquipItem(c, item) /\ OwnedBy(SpawnedEntities, c) = {}
    BY <1>2, IdlingInforms DEF EquipItem
  <1>3. CASE EquipItem(c, item) /\ OwnedBy(SpawnedEntities, c) # {}
    <2> DEFINE gone == {}
               Item(at) == [owner |-> c, record |-> item, pos |-> SpawnedEntities[at].pos,
                            isVehicle |-> FALSE]
    <2>1. PICK order \in Orders(NewIds), at \in OwnedBy(SpawnedEntities, c) :
            /\ SpawnedEntities' = CreateEntity(SpawnedEntities, Item(at))
            /\ Broadcast(SpawnedEntities', order, c, gone, {entityIdCounter})
      BY <1>3 DEF EquipItem
    <2>2. entityIdCounter < MaxEntities
      BY <1>3 DEF EquipItem
    <2> DEFINE entity == Item(at)
               left == SpawnedEntities
    <2>3. entity.pos \in Positions /\ entity.record # Puppet
      BY ConstantsAssumption DEF IInv, TypeOK, Entity, OwnedBy
    <2>4. gone \in SUBSET OwnedBy(SpawnedEntities, c)
      OBVIOUS
    <2>5. DOMAIN left = DOMAIN SpawnedEntities \ gone
      OBVIOUS
    <2>6. \A id \in DOMAIN left : left[id] = SpawnedEntities[id]
      OBVIOUS
    <2>7. /\ SpawnedEntities' = CreateEntity(left, entity)
          /\ Broadcast(SpawnedEntities', order, c, gone, {entityIdCounter})
      BY <2>1
    <2> HIDE DEF gone, left, entity
    <2> QED  BY <2>2, <2>3, <2>4, <2>5, <2>6, <2>7, AdditionInforms
  <1> QED  BY <1>1, <1>2, <1>3 DEF HandleEquip

LEMMA ConnectionStateChangeInforms ==
    ASSUME IInv, IInv', NEW c \in Conns, OnConnectionStateChange(c), NEW p \in Conns
    PROVE  Informs(p)
  <1>1. CASE c \in ConnectedPlayers
    BY <1>1, RemovalInforms DEF OnConnectionStateChange
  <1>2. CASE c \notin ConnectedPlayers
    BY <1>2, IdlingInforms DEF OnConnectionStateChange
  <1> QED  BY <1>1, <1>2

LEMMA RequestInforms ==
    ASSUME IInv, IInv', NEW c \in Conns, NEW request \in Requests, request.type # "InitAuth",
           Handle(c, request), NEW p \in Conns
    PROVE  Informs(p)
  <1>1. CASE request.type = "PlayerJoinWorld" /\ HandleJoinWorld(c, request.pos)
    <2>1. request.pos \in Positions
      BY <1>1 DEF Requests
    <2> QED  BY <1>1, <2>1, JoinWorldInforms
  <1>2. CASE request.type = "PlayerPositionUpdate" /\ HandlePositionUpdate(c, request.pos)
    <2>1. request.pos \in Positions
      BY <1>2 DEF Requests
    <2> QED  BY <1>2, <2>1, PositionUpdateInforms
  <1>3. CASE request.type = "PlayerSpawnCar" /\ HandleSpawnCar(c, request.pos)
    <2>1. request.pos \in Positions
      BY <1>3 DEF Requests
    <2> QED  BY <1>3, <2>1, SpawnCarInforms
  <1>4. CASE HandleUnmountCar(c)
    BY <1>4, UnmountInforms
  <1>5. CASE /\ request.type = "PlayerEquipItem"
             /\ HandleEquip(c, request.item, request.isUnequipping)
    <2>1. request.item \in Items /\ request.isUnequipping \in BOOLEAN
      BY <1>5 DEF Requests
    <2> QED  BY <1>5, <2>1, EquipInforms
  <1>6. CASE HandleShoot \/ NothingHappens
    BY <1>6, IdlingInforms DEF HandleShoot
  <1> QED  BY <1>1, <1>2, <1>3, <1>4, <1>5, <1>6 DEF Handle

-----------------------------------------------------------------------------
(* The loop of UpdateTrackingOf turn by turn.                              *)
Looping == INSTANCE SequenceFacts WITH Op <- Turn

LEMMA LoopingFolds ==
    ASSUME NEW s, NEW comparisons
    PROVE  FoldLeft(Turn, s, comparisons) = Looping!Fold(s, comparisons)
  BY DEF FoldLeft, MapThenFoldSet, Max,
         Looping!Fold, Looping!FoldLeft, Looping!MapThenFoldSet, Looping!Max

LoopState(id, entity, tracked, sent) ==
    [id |-> id, entity |-> entity, tracked |-> tracked, sent |-> sent]

LEMMA TurnSends ==
    ASSUME NEW id \in Ids, NEW entity, entity.pos \in Positions, NEW sent \in Seq(News)
    PROVE  \A tracked, near \in BOOLEAN :
              Turn(LoopState(id, entity, tracked, sent), near)
                = LoopState(id, entity, near, sent \o TurnMessages(id, entity, tracked, near))
  <1> DEFINE spawn == SpawnEntity(id, entity)
             teleport == TeleportEntity(id, entity)
             destroy == DestroyEntity(id)
             At(tracked, s) == LoopState(id, entity, tracked, s)
  <1>1. spawn \in News /\ teleport \in News /\ destroy \in News
    BY DEF News, Messages, SpawnEntity, TeleportEntity, DestroyEntity
  <1>2. /\ TurnMessages(id, entity, TRUE, TRUE) = <<teleport>>
        /\ TurnMessages(id, entity, FALSE, TRUE) = <<spawn, teleport>>
        /\ TurnMessages(id, entity, TRUE, FALSE) = <<destroy>>
        /\ TurnMessages(id, entity, FALSE, FALSE) = <<>>
    BY DEF TurnMessages
  <1> USE DEF OnStartTrackingEntity, OnStopTrackingEntity, LoopState
  <1>3. /\ Turn(At(TRUE, sent), TRUE) = At(TRUE, Append(sent, teleport))
        /\ Turn(At(FALSE, sent), TRUE) = At(TRUE, Append(Append(sent, spawn), teleport))
        /\ Turn(At(TRUE, sent), FALSE) = At(FALSE, Append(sent, destroy))
        /\ Turn(At(FALSE, sent), FALSE) = At(FALSE, sent)
    <2>1. Turn(At(TRUE, sent), TRUE) = At(TRUE, Append(sent, teleport))
      BY DEF Turn
    <2>2. OnStartTrackingEntity(At(FALSE, sent)) = At(TRUE, Append(sent, spawn))
      OBVIOUS
    <2>3. Turn(At(FALSE, sent), TRUE) = At(TRUE, Append(Append(sent, spawn), teleport))
      BY <2>2 DEF Turn
    <2>4. Turn(At(TRUE, sent), FALSE) = At(FALSE, Append(sent, destroy))
      BY DEF Turn
    <2>5. Turn(At(FALSE, sent), FALSE) = At(FALSE, sent)
      BY DEF Turn
    <2> QED  BY <2>1, <2>3, <2>4, <2>5
  <1> HIDE DEF spawn, teleport, destroy, OnStartTrackingEntity, OnStopTrackingEntity, LoopState
  <1>4. /\ Append(sent, teleport) = sent \o <<teleport>>
        /\ Append(sent, destroy) = sent \o <<destroy>>
        /\ Append(Append(sent, spawn), teleport) = sent \o <<spawn, teleport>>
        /\ sent = sent \o <<>>
    <2>1. \A x \in News : Append(sent, x) = sent \o <<x>> /\ Append(sent, x) \in Seq(News)
      OBVIOUS
    <2>2. Append(Append(sent, spawn), teleport) = (sent \o <<spawn>>) \o <<teleport>>
      <3>1. Append(sent, spawn) \in Seq(News) /\ Append(sent, spawn) = sent \o <<spawn>>
        BY <1>1, <2>1
      <3>2. PICK longer \in Seq(News) : longer = Append(sent, spawn)
        BY <3>1
      <3>3. Append(longer, teleport) = longer \o <<teleport>>
        BY <1>1
      <3> QED  BY <3>1, <3>2, <3>3
    <2>3. <<spawn>> \in Seq(News) /\ <<teleport>> \in Seq(News)
      BY <1>1
    <2>4. (sent \o <<spawn>>) \o <<teleport>> = sent \o (<<spawn>> \o <<teleport>>)
      BY <2>3, ConcatAssociative
    <2>5. <<spawn>> \o <<teleport>> = <<spawn, teleport>>
      BY TwoInARow
    <2>6. sent = sent \o <<>>
      BY ConcatEmptySeq
    <2> QED  BY <1>1, <2>1, <2>2, <2>4, <2>5, <2>6
  <1> HIDE DEF At
  <1>5. /\ Turn(At(TRUE, sent), TRUE) = At(TRUE, sent \o TurnMessages(id, entity, TRUE, TRUE))
        /\ Turn(At(FALSE, sent), TRUE) = At(TRUE, sent \o TurnMessages(id, entity, FALSE, TRUE))
        /\ Turn(At(TRUE, sent), FALSE) = At(FALSE, sent \o TurnMessages(id, entity, TRUE, FALSE))
        /\ Turn(At(FALSE, sent), FALSE) = At(FALSE, sent \o TurnMessages(id, entity, FALSE, FALSE))
    BY <1>2, <1>3, <1>4
  <1>6. \A tracked, near \in BOOLEAN :
           Turn(At(tracked, sent), near) = At(near, sent \o TurnMessages(id, entity, tracked, near))
    BY <1>5
  <1> QED  BY <1>6 DEF At

LEMMA LoopIsByTurns ==
    ASSUME NEW id \in Ids, NEW entity, entity.pos \in Positions, NEW tracked \in BOOLEAN
    PROVE  \A comparisons \in Seq(BOOLEAN) :
              LoopByTurns(id, entity, tracked, comparisons)
                = LoopState(id, entity, TrackedAfterLoop(tracked, comparisons),
                            LoopMessages(id, entity, tracked, comparisons))
  <1> DEFINE Sent(comparisons) == LoopMessages(id, entity, tracked, comparisons)
             After(comparisons) == TrackedAfterLoop(tracked, comparisons)
             start == LoopState(id, entity, tracked, <<>>)
             Agrees(comparisons) ==
                /\ Sent(comparisons) \in Seq(News)
                /\ Looping!Fold(start, comparisons)
                     = LoopState(id, entity, After(comparisons), Sent(comparisons))
             S == {comparisons \in Seq(BOOLEAN) : Agrees(comparisons)}
  <1>1. Agrees(<<>>)
    <2>1. PICK was : was = (IF tracked THEN {id} ELSE {})
      OBVIOUS
    <2>2. Sent(<<>>) = <<>>
      <3> DEFINE none == [i \in DOMAIN <<>> |->
                            TurnMessages(id, entity, IF i = 1 THEN tracked ELSE <<>>[i - 1], <<>>[i])]
      <3>1. DOMAIN <<>> = 1 .. 0
        BY EmptySeq
      <3>2. none \in Seq({}) /\ Len(none) = 0
        BY <3>1
      <3>3. none = <<>>
        BY <3>2, EmptySeq
      <3> QED  BY <3>3, FlattenSeqEmpty DEF LoopMessages
    <2>3. After(<<>>) = tracked
      BY DEF TrackedAfterLoop
    <2>4. <<>> \in Seq(News)
      BY EmptySeq
    <2> QED  BY <2>2, <2>3, <2>4, Looping!FoldEmpty
  <1>2. ASSUME NEW comparisons \in Seq(BOOLEAN), NEW near \in BOOLEAN, Agrees(comparisons)
        PROVE  Agrees(Append(comparisons, near))
    <2> DEFINE longer == Append(comparisons, near)
               turn == TurnMessages(id, entity, After(comparisons), near)
    <2>1. /\ After(comparisons) \in BOOLEAN
          /\ After(longer) = near
          /\ Sent(longer) = Sent(comparisons) \o turn
      <3>1. TrackedAfterLoop(tracked, comparisons) \in BOOLEAN
        BY LoopSteps
      <3>2. TrackedAfterLoop(tracked, Append(comparisons, near)) = near
        BY LoopSteps
      <3>3. LoopMessages(id, entity, tracked, Append(comparisons, near))
              = LoopMessages(id, entity, tracked, comparisons)
                  \o TurnMessages(id, entity, TrackedAfterLoop(tracked, comparisons), near)
        BY LoopSteps, SMTT(30)
      <3> QED  BY <3>1, <3>2, <3>3
    <2>2. Looping!Fold(start, longer) = Turn(Looping!Fold(start, comparisons), near)
      BY Looping!FoldAppend
    <2>3. turn \in Seq(News)
      BY <2>1, TurnMessagesTyped
    <2> HIDE DEF longer, turn, Sent, After, start
    <2>4. Turn(LoopState(id, entity, After(comparisons), Sent(comparisons)), near)
            = LoopState(id, entity, near, Sent(comparisons) \o turn)
      BY <1>2, <2>1, TurnSends DEF turn
    <2>5. Sent(longer) \in Seq(News)
      BY <1>2, <2>1, <2>3, ConcatProperties
    <2> QED  BY <1>2, <2>1, <2>2, <2>4, <2>5 DEF longer
  <1> HIDE DEF Agrees
  <1>3. <<>> \in S
    BY <1>1, EmptySeq
  <1>4. \A comparisons \in Seq(BOOLEAN), near \in BOOLEAN :
           comparisons \in S => Append(comparisons, near) \in S
    BY <1>2, AppendProperties
  <1> HIDE DEF S
  <1>5. \A comparisons \in Seq(BOOLEAN) : comparisons \in S
    BY <1>3, <1>4, SequenceInduction
  <1>6. \A comparisons \in Seq(BOOLEAN) :
           LoopByTurns(id, entity, tracked, comparisons) = Looping!Fold(start, comparisons)
    BY LoopingFolds DEF LoopByTurns, LoopState
  <1> QED  BY <1>5, <1>6 DEF S, Agrees

-----------------------------------------------------------------------------
(* Entities that move.                                                     *)
(* The comparison of squares is one of distances.                          *)
LEMMA RangeIsDistance ==
    ASSUME NEW a \in Int, NEW b \in Int
    PROVE  InRange(a, b) <=> Near(a, b)
  <1> DEFINE d == a - b
             R == TrackingRange
  <1>1. d \in Int /\ R \in Nat
    BY ConstantsAssumption
  <1>2. InRange(a, b) <=> d * d <= R * R
    BY DEF InRange, DistanceSquared
  <1>3. Near(a, b) <=> -R <= d /\ d <= R
    BY <1>1 DEF Near
  <1> HIDE DEF d, R
  <1>4. \A e \in Nat : e * e <= R * R <=> e <= R
    <2>1. ASSUME NEW e \in Nat, e <= R
          PROVE  e * e <= R * R
      <3>1. e * e <= e * R /\ e * R <= R * R
        BY <1>1, <2>1
      <3> QED  BY <1>1, <3>1
    <2>2. ASSUME NEW e \in Nat, e > R
          PROVE  e * e > R * R
      <3>1. PICK k \in Nat : e = R + 1 + k
        <4>1. e - R - 1 \in Nat /\ e = R + 1 + (e - R - 1)
          BY <1>1, <2>2
        <4> QED  BY <4>1
      <3>2. (R + 1 + k) * (R + 1 + k) = R * R + 2 * R * (1 + k) + (1 + k) * (1 + k)
        BY <1>1, <3>1
      <3>3. R * (1 + k) \in Nat /\ (1 + k) * (1 + k) \in Nat /\ (1 + k) * (1 + k) >= 1 + k
        BY <1>1, <3>1
      <3> QED  BY <1>1, <3>1, <3>2, <3>3
    <2> QED  BY <1>1, <2>1, <2>2
  <1>5. CASE d >= 0
    <2>1. d \in Nat
      BY <1>1, <1>5
    <2> QED  BY <1>1, <1>2, <1>3, <1>4, <2>1
  <1>6. CASE d < 0
    <2>1. PICK e \in Nat : d = -e
      <3>1. -d \in Nat /\ d = -(-d)
        BY <1>1, <1>6
      <3> QED  BY <3>1
    <2>2. d * d = e * e
      BY <2>1
    <2>3. (-R <= d /\ d <= R) <=> e <= R
      BY <1>1, <1>6, <2>1
    <2> QED  BY <1>2, <1>3, <1>4, <2>2, <2>3
  <1> QED  BY <1>1, <1>5, <1>6

(* The messages about one entity.                                          *)
NewsAbout(id) == {message \in News : message.id = id}

LEMMA TurnIsAbout ==
    ASSUME NEW id \in Ids, NEW entity, entity.pos \in Positions
    PROVE  \A tracked, near \in BOOLEAN :
             /\ TurnMessages(id, entity, tracked, near) \in Seq(NewsAbout(id))
             /\ near => LastOf(TurnMessages(id, entity, tracked, near), NewsAbout(id),
                               TeleportEntity(id, entity))
  <1> DEFINE spawn == SpawnEntity(id, entity)
             teleport == TeleportEntity(id, entity)
             destroy == DestroyEntity(id)
             S == NewsAbout(id)
  <1>1. {spawn, teleport, destroy} \subseteq S
    BY DEF NewsAbout, News, Messages, SpawnEntity, TeleportEntity, DestroyEntity
  <1>2. /\ TurnMessages(id, entity, TRUE, TRUE) = <<teleport>>
        /\ TurnMessages(id, entity, FALSE, TRUE) = <<spawn, teleport>>
        /\ TurnMessages(id, entity, TRUE, FALSE) = <<destroy>>
        /\ TurnMessages(id, entity, FALSE, FALSE) = <<>>
    BY DEF TurnMessages
  <1> HIDE DEF spawn, teleport, destroy, S
  <1>3. /\ <<teleport>> \in Seq(S)
        /\ <<spawn, teleport>> \in Seq(S)
        /\ <<destroy>> \in Seq(S)
        /\ <<>> \in Seq(S)
    BY <1>1, EmptySeq
  <1>4. LastOf(<<teleport>>, S, teleport)
    <2>1. PICK one : one = <<teleport>>
      OBVIOUS
    <2>2. DOMAIN one = {1} /\ one[1] = teleport
      BY <2>1
    <2>3. LastOf(one, S, teleport)
      BY <2>2 DEF LastOf
    <2> QED  BY <2>1, <2>3
  <1>5. LastOf(<<spawn, teleport>>, S, teleport)
    <2>1. PICK two : two = <<spawn, teleport>>
      OBVIOUS
    <2>2. DOMAIN two = {1, 2} /\ two[2] = teleport
      BY <2>1
    <2>3. LastOf(two, S, teleport)
      BY <2>2 DEF LastOf
    <2> QED  BY <2>1, <2>3
  <1> SUFFICES ASSUME NEW tracked \in BOOLEAN, NEW near \in BOOLEAN
               PROVE  /\ TurnMessages(id, entity, tracked, near) \in Seq(S)
                      /\ near => LastOf(TurnMessages(id, entity, tracked, near), S, teleport)
    BY DEF S, teleport
  <1>7. CASE near /\ tracked
    BY <1>2, <1>3, <1>4, <1>7
  <1>8. CASE near /\ ~tracked
    BY <1>2, <1>3, <1>5, <1>8
  <1>9. CASE ~near /\ tracked
    BY <1>2, <1>3, <1>9
  <1>10. CASE ~near /\ ~tracked
    BY <1>2, <1>3, <1>10
  <1> QED  BY <1>7, <1>8, <1>9, <1>10

LEMMA LoopIsAbout ==
    ASSUME NEW id \in Ids, NEW entity, entity.pos \in Positions,
           NEW tracked \in BOOLEAN, NEW comparisons \in Seq(BOOLEAN)
    PROVE  /\ LoopMessages(id, entity, tracked, comparisons) \in Seq(NewsAbout(id))
           /\ comparisons # <<>> /\ TrackedAfterLoop(tracked, comparisons) =>
                LastOf(LoopMessages(id, entity, tracked, comparisons), NewsAbout(id),
                       TeleportEntity(id, entity))
  <1> DEFINE n == Len(comparisons)
             Was(i) == IF i = 1 THEN tracked ELSE comparisons[i - 1]
             turns == [i \in DOMAIN comparisons |->
                         TurnMessages(id, entity, Was(i), comparisons[i])]
             S == NewsAbout(id)
             teleport == TeleportEntity(id, entity)
  <1>1. /\ n \in Nat
        /\ DOMAIN comparisons = 1 .. n
        /\ \A i \in 1 .. n : comparisons[i] \in BOOLEAN
        /\ comparisons # <<>> => n # 0
    BY LenProperties, ElementsAreTyped, EmptySeq
  <1>2. \A i \in 1 .. n : Was(i) \in BOOLEAN
    <2>1. \A i \in 1 .. n : i # 1 => i - 1 \in 1 .. n
      BY <1>1
    <2> HIDE DEF n
    <2> QED  BY <1>1, <2>1
  <1>3. LoopMessages(id, entity, tracked, comparisons) = FlattenSeq(turns)
    BY DEF LoopMessages
  <1> HIDE DEF n, Was, S, teleport
  <1>4. ASSUME NEW i \in 1 .. n
        PROVE  /\ turns[i] \in Seq(S)
               /\ comparisons[i] => LastOf(turns[i], S, teleport)
    <2>1. turns[i] = TurnMessages(id, entity, Was(i), comparisons[i])
      BY <1>1
    <2>2. Was(i) \in BOOLEAN /\ comparisons[i] \in BOOLEAN
      BY <1>1, <1>2
    <2> HIDE DEF turns
    <2> QED  BY <2>1, <2>2, TurnIsAbout DEF S, teleport
  <1>5. turns \in Seq(Seq(S)) /\ DOMAIN turns = 1 .. n
    <2>1. turns = [i \in 1 .. n |-> turns[i]]
      BY <1>1
    <2> HIDE DEF turns
    <2>2. turns \in [1 .. n -> Seq(S)]
      BY <1>4, <2>1
    <2> QED  BY <1>1, <2>2
  <1> HIDE DEF turns
  <1>6. FlattenSeq(turns) \in Seq(S)
    BY <1>5, FlattenSeqTyped
  <1>7. ASSUME comparisons # <<>>, TrackedAfterLoop(tracked, comparisons)
        PROVE  LastOf(FlattenSeq(turns), S, teleport)
    <2>1. n \in 1 .. n /\ comparisons[n]
      BY <1>1, <1>7 DEF TrackedAfterLoop, n
    <2>2. LastOf(turns[n], S, teleport)
      BY <1>4, <2>1
    <2>3. \A j \in 1 .. n : ~(j > n)
      BY <1>1
    <2>4. LastInPart(turns, S, teleport)
      BY <1>5, <2>1, <2>2, <2>3 DEF LastInPart
    <2> QED  BY <1>5, <2>4, LastOfParts
  <1> QED  BY <1>3, <1>6, <1>7 DEF S, teleport

LEMMA MessagesEndAbout ==
    ASSUME NEW T \in SUBSET Ids, IsFiniteSet(T), NEW order \in Orders(T),
           NEW world, NEW was, NEW loops, DOMAIN loops \subseteq T,
           \A id \in DOMAIN loops : /\ world[id].pos \in Positions
                                    /\ loops[id] \in Seq(BOOLEAN)
    PROVE  /\ MessagesOf(world, order, was, loops) \in Seq(News)
           /\ \A id \in DOMAIN loops :
                loops[id] # <<>> /\ TrackedAfterLoop(id \in was, loops[id]) =>
                  LastOf(MessagesOf(world, order, was, loops), NewsAbout(id),
                         TeleportEntity(id, world[id]))
  <1> DEFINE ids == InOrder(order, DOMAIN loops)
             n == Len(ids)
             loop == [i \in 1 .. n |->
                        LoopMessages(ids[i], world[ids[i]], ids[i] \in was, loops[ids[i]])]
  <1>1. /\ n \in Nat
        /\ \A i \in 1 .. n : ids[i] \in DOMAIN loops
        /\ \A id \in DOMAIN loops : \E i \in 1 .. n : id = ids[i]
        /\ \A i, j \in 1 .. n : ids[i] = ids[j] => i = j
    BY InOrderCovers
  <1>2. MessagesOf(world, order, was, loops) = FlattenSeq(loop)
    BY DEF MessagesOf
  <1> HIDE DEF ids, n
  <1>3. ASSUME NEW i \in 1 .. n
        PROVE  /\ loop[i] \in Seq(NewsAbout(ids[i]))
               /\ loops[ids[i]] # <<>> /\ TrackedAfterLoop(ids[i] \in was, loops[ids[i]])
                    => LastOf(loop[i], NewsAbout(ids[i]), TeleportEntity(ids[i], world[ids[i]]))
    <2>1. PICK id : id = ids[i]
      OBVIOUS
    <2>2. id \in Ids /\ world[id].pos \in Positions /\ loops[id] \in Seq(BOOLEAN)
      BY <1>1, <2>1
    <2>3. PICK tracked \in BOOLEAN : tracked = (id \in was)
      <3>1. CASE id \in was
        <4>1. TRUE = (id \in was)
          BY <3>1
        <4> QED  BY <4>1
      <3>2. CASE id \notin was
        <4>1. FALSE = (id \in was)
          BY <3>2
        <4> QED  BY <4>1
      <3> QED  BY <3>1, <3>2
    <2>4. loop[i] = LoopMessages(id, world[id], tracked, loops[id])
      BY <2>1, <2>3
    <2>5. PICK entity : entity = world[id]
      OBVIOUS
    <2>6. PICK comparisons \in Seq(BOOLEAN) : comparisons = loops[id]
      BY <2>2
    <2>7. /\ LoopMessages(id, entity, tracked, comparisons) \in Seq(NewsAbout(id))
          /\ comparisons # <<>> /\ TrackedAfterLoop(tracked, comparisons) =>
               LastOf(LoopMessages(id, entity, tracked, comparisons), NewsAbout(id),
                      TeleportEntity(id, entity))
      BY <2>2, <2>5, LoopIsAbout
    <2> HIDE DEF loop
    <2> QED  BY <2>1, <2>3, <2>4, <2>5, <2>6, <2>7
  <1>4. loop \in Seq(Seq(News)) /\ DOMAIN loop = 1 .. n
    <2>1. loop = [i \in 1 .. n |-> loop[i]]
      OBVIOUS
    <2> HIDE DEF loop
    <2>2. \A i \in 1 .. n : loop[i] \in Seq(News)
      <3>1. \A id : Seq(NewsAbout(id)) \subseteq Seq(News)
        BY DEF NewsAbout
      <3> QED  BY <1>3, <3>1
    <2>3. loop \in [1 .. n -> Seq(News)]
      BY <2>1, <2>2
    <2> QED  BY <1>1, <2>3
  <1> HIDE DEF loop
  <1>5. FlattenSeq(loop) \in Seq(News)
    BY <1>4, FlattenSeqTyped
  <1>6. ASSUME NEW id \in DOMAIN loops, loops[id] # <<>>,
               TrackedAfterLoop(id \in was, loops[id])
        PROVE  LastOf(FlattenSeq(loop), NewsAbout(id), TeleportEntity(id, world[id]))
    <2>1. PICK i \in 1 .. n : id = ids[i]
      BY <1>1
    <2>2. LastOf(loop[i], NewsAbout(id), TeleportEntity(id, world[id]))
      BY <1>3, <1>6, <2>1
    <2>3. ASSUME NEW j \in 1 .. n, j > i
          PROVE  Elements(loop[j]) \cap NewsAbout(id) = {}
      <3>1. ids[j] # id
        BY <1>1, <2>1, <2>3
      <3>2. loop[j] \in Seq(NewsAbout(ids[j]))
        BY <1>3
      <3>3. Elements(loop[j]) \subseteq NewsAbout(ids[j])
        BY <3>2, ElementsAreTyped DEF Elements
      <3> QED  BY <3>1, <3>3 DEF NewsAbout
    <2>4. LastInPart(loop, NewsAbout(id), TeleportEntity(id, world[id]))
      BY <1>4, <2>1, <2>2, <2>3 DEF LastInPart
    <2> QED  BY <1>4, <2>4, LastOfParts
  <1> QED  BY <1>2, <1>5, <1>6

(* What the comparisons with everything a player owns come to.             *)
LEMMA ComparisonsSettle ==
    ASSUME NEW T, IsFiniteSet(T), NEW order \in Orders(T), NEW world, NEW p, NEW id,
           OwnedBy(world, p) \in SUBSET T, OwnedBy(world, p) # {}, NEW tracked
    PROVE  LET own == OwnedBy(world, p)
               comparisons == Comparisons(world, order, p, id)
               AtHand(o) == InRange(world[o].pos, world[id].pos)
           IN  /\ comparisons # <<>>
               /\ (\A o \in own : AtHand(o)) => TrackedAfterLoop(tracked, comparisons)
               /\ (\A o \in own : ~AtHand(o)) => ~TrackedAfterLoop(tracked, comparisons)
  <1> DEFINE own == OwnedBy(world, p)
             sorted == InOrder(order, own)
             n == Len(sorted)
             comparisons == Comparisons(world, order, p, id)
             AtHand(o) == InRange(world[o].pos, world[id].pos)
  <1>1. /\ n \in Nat
        /\ \A i \in 1 .. n : sorted[i] \in own
        /\ \A o \in own : \E i \in 1 .. n : o = sorted[i]
    <2>1. PICK mine \in SUBSET T : mine = own
      OBVIOUS
    <2>2. LET s == InOrder(order, mine)
          IN  /\ Len(s) \in Nat
              /\ \A i \in 1 .. Len(s) : s[i] \in mine
              /\ \A o \in mine : \E i \in 1 .. Len(s) : o = s[i]
      BY InOrderCovers
    <2> QED  BY <2>1, <2>2
  <1>2. comparisons = [i \in 1 .. n |-> AtHand(sorted[i])]
    BY DEF Comparisons
  <1> HIDE DEF own, sorted, n, comparisons, AtHand
  <1>3. n \in 1 .. n
    BY <1>1 DEF own
  <1>4. comparisons \in Seq({AtHand(sorted[i]) : i \in 1 .. n}) /\ Len(comparisons) = n
    BY <1>1, <1>2
  <1>5. comparisons # <<>>
    BY <1>1, <1>3, <1>4, EmptySeq
  <1>6. TrackedAfterLoop(tracked, comparisons) = AtHand(sorted[n])
    BY <1>2, <1>3, <1>4, <1>5 DEF TrackedAfterLoop
  <1> QED  BY <1>1, <1>3, <1>5, <1>6 DEF own, comparisons, AtHand

(* What a player hears last of an entity whose tracking is updated.        *)
LEMMA BroadcastSettles ==
    ASSUME IInv, NEW c \in Conns,
           NEW T \in SUBSET Ids, IsFiniteSet(T), NEW order \in Orders(T),
           NEW gone, gone \subseteq T, NEW touched, touched \subseteq T,
           NEW world, Located(world, touched),
           Broadcast(world, order, c, gone, touched),
           NEW p \in ConnectedPlayers, p # c, NEW id \in touched
    PROVE  LET comparisons == FilteredComparisons(world, order, p, id)
               after == TrackedAfterLoop(id \in trackedEntities[p] \ gone, comparisons)
           IN  /\ id \in trackedEntities'[p] <=> after
               /\ enqueued'[p] \in Seq(News)
               /\ comparisons # <<>> /\ after =>
                    LastOf(enqueued'[p], NewsAbout(id), TeleportEntity(id, world[id]))
  <1> DEFINE loops == [i \in Shows(p, c, touched) |->
                          FilteredComparisons(world, order, p, i)]
             kept == trackedEntities[p] \ gone
             stops == StopMessages(order, trackedEntities[p], gone)
             rest == MessagesOf(world, order, kept, loops)
  <1>1. p \in Audience /\ p \in Conns
    BY DEF Audience, IInv, TypeOK
  <1>2. trackedEntities'[p] = TrackedAfter(kept, loops) /\ enqueued'[p] = stops \o rest
    BY <1>1 DEF Broadcast
  <1>3. DOMAIN loops = touched
    BY DEF Shows
  <1>4. \A i \in DOMAIN loops : loops[i] \in Seq(BOOLEAN)
    <2>1. order \in Seq(T)
      BY OrdersAreComplete
    <2> QED  BY <2>1, ComparisonsTyped
  <1>5. loops[id] = FilteredComparisons(world, order, p, id)
    BY <1>3
  <1>6. stops \in Seq(News)
    <2>1. stops \in Seq(TrueNews(world))
      BY StopMessagesAreTrue
    <2>2. Seq(TrueNews(world)) \subseteq Seq(News)
      BY DEF TrueNews
    <2> HIDE DEF stops
    <2> QED  BY <2>1, <2>2
  <1> HIDE DEF loops, kept, stops
  <1>7. /\ rest \in Seq(News)
        /\ \A i \in DOMAIN loops :
             loops[i] # <<>> /\ TrackedAfterLoop(i \in kept, loops[i]) =>
               LastOf(rest, NewsAbout(i), TeleportEntity(i, world[i]))
    BY <1>3, <1>4, MessagesEndAbout DEF Located
  <1> HIDE DEF rest
  <1>8. enqueued'[p] \in Seq(News)
    BY <1>2, <1>6, <1>7, ConcatProperties
  <1>9. id \in trackedEntities'[p] <=> TrackedAfterLoop(id \in kept, loops[id])
    BY <1>2, <1>3 DEF TrackedAfter
  <1>10. ASSUME loops[id] # <<>>, TrackedAfterLoop(id \in kept, loops[id])
         PROVE  LastOf(enqueued'[p], NewsAbout(id), TeleportEntity(id, world[id]))
    <2>1. LastOf(rest, NewsAbout(id), TeleportEntity(id, world[id]))
      BY <1>3, <1>7, <1>10
    <2> QED  BY <1>2, <1>6, <1>7, <2>1, LastInTheEnd
  <1> QED  BY <1>5, <1>8, <1>9, <1>10 DEF kept

LEMMA LastOfNews ==
    ASSUME NEW messages \in Seq(News), NEW id, NEW message,
           LastOf(messages, NewsAbout(id), message)
    PROVE  LastAbout(messages, id, message)
  <1>1. PICK i \in DOMAIN messages :
          /\ messages[i] = message
          /\ \A j \in DOMAIN messages : j > i => messages[j] \notin NewsAbout(id)
    BY DEF LastOf
  <1>2. \A j \in DOMAIN messages : messages[j] \in News
    BY ElementsAreTyped
  <1>3. \A j \in DOMAIN messages :
          j > i /\ messages[j].type # "InitAuthResult" => messages[j].id # id
    BY <1>1, <1>2 DEF NewsAbout
  <1> QED  BY <1>1, <1>3 DEF LastAbout

(* Only a position update moves what is there.                             *)
LEMMA OnlyUpdatesMove ==
    ASSUME IInv, Next, NEW id, Moved(id)
    PROVE  \E c \in Conns, position \in Positions :
              position # FaultyPosition /\ HandlePositionUpdate(c, position)
  <1>1. /\ id \in DOMAIN SpawnedEntities
        /\ id \in DOMAIN SpawnedEntities'
        /\ SpawnedEntities'[id] # SpawnedEntities[id]
        /\ id # entityIdCounter
    BY ConstantsAssumption DEF Moved, IInv, TypeOK
  <1>2. \A entity : SpawnedEntities' # CreateEntity(SpawnedEntities, entity)
    BY <1>1 DEF CreateEntity
  <1>3. \A entity, ids : SpawnedEntities' # CreateEntity(Without(SpawnedEntities, ids), entity)
    <2> SUFFICES ASSUME NEW entity, NEW ids,
                        SpawnedEntities' = CreateEntity(Without(SpawnedEntities, ids), entity)
                 PROVE  FALSE
      OBVIOUS
    <2>1. id \in DOMAIN Without(SpawnedEntities, ids)
      BY <1>1 DEF CreateEntity
    <2>2. SpawnedEntities'[id] = Without(SpawnedEntities, ids)[id]
      BY <1>1, <2>1 DEF CreateEntity
    <2>3. Without(SpawnedEntities, ids)[id] = SpawnedEntities[id]
      BY <2>1 DEF Without
    <2> QED  BY <1>1, <2>2, <2>3
  <1>4. \A ids : SpawnedEntities' # Without(SpawnedEntities, ids)
    BY <1>1 DEF Without
  <1>5. SpawnedEntities' # SpawnedEntities
    BY <1>1
  <1>6. PICK c \in Conns : ProcessMessage(c) \/ EndConnection(c)
    BY DEF Next
  <1>7. ~EndConnection(c)
    BY <1>4, <1>5 DEF EndConnection, OnConnectionStateChange, NothingHappens, managed
  <1>8. ~SignIn(c)
    BY <1>5 DEF SignIn, HandleInitAuth
  <1>9. ~HandleUnmountCar(c) /\ ~HandleShoot
    BY <1>4, <1>5 DEF HandleUnmountCar, HandleShoot, NothingHappens, managed
  <1>10. \A position : ~HandleJoinWorld(c, position)
    BY <1>2, <1>5 DEF HandleJoinWorld, NothingHappens, managed
  <1>11. \A position : ~HandleSpawnCar(c, position)
    BY <1>3 DEF HandleSpawnCar
  <1>12. \A item, isUnequipping : ~HandleEquip(c, item, isUnequipping)
    BY <1>2, <1>4, <1>5 DEF HandleEquip, EquipItem, UnequipItem, NothingHappens, managed
  <1>13. PICK position \in Positions : Move(c, position)
    BY <1>6, <1>7, <1>8, <1>9, <1>10, <1>11, <1>12 DEF ProcessMessage
  <1>14. HandlePositionUpdate(c, position)
    BY <1>13 DEF Move
  <1>15. position # FaultyPosition
    BY <1>5, <1>14 DEF HandlePositionUpdate, NothingHappens, managed
  <1> QED  BY <1>14, <1>15

(* What MovesSettleTracking asks of a step, for one entity and one player.  *)
Settled(id, p) ==
    LET own == OwnedBy(SpawnedEntities, p)
        NearTo(o) == Near(SpawnedEntities[o].pos, SpawnedEntities'[id].pos)
        filtered == <<p, SpawnedEntities[id].owner>> \in FilteredOut
    IN  /\ filtered => id \notin trackedEntities'[p]
        /\ own # {} /\ (\A o \in own : ~NearTo(o)) => id \notin trackedEntities'[p]
        /\ own # {} /\ ~filtered /\ (\A o \in own : NearTo(o)) =>
             /\ id \in trackedEntities'[p]
             /\ LastAbout(enqueued'[p], id, TeleportEntity(id, SpawnedEntities'[id]))

LEMMA PositionUpdateSettles ==
    ASSUME IInv, NEW c \in Conns, NEW position \in Positions,
           position # FaultyPosition, HandlePositionUpdate(c, position),
           NEW id, Moved(id), NEW p \in ConnectedPlayers \ {SpawnedEntities[id].owner}
    PROVE  Settled(id, p)
  <1> DEFINE moved == OwnedBy(SpawnedEntities, c)
  <1>1. PICK order \in Orders(OldIds) :
          /\ SpawnedEntities' = [i \in DOMAIN SpawnedEntities |->
                                   IF i \in moved
                                   THEN [SpawnedEntities[i] EXCEPT !.pos = position]
                                   ELSE SpawnedEntities[i]]
          /\ Broadcast(SpawnedEntities', order, c, {}, moved)
    BY DEF HandlePositionUpdate
  <1>2. \A i \in DOMAIN SpawnedEntities : SpawnedEntities[i] \in Entity
    BY DEF IInv, TypeOK
  <1>3. PICK world : world = SpawnedEntities'
    OBVIOUS
  <1>4. /\ DOMAIN world = DOMAIN SpawnedEntities
        /\ \A i \in DOMAIN SpawnedEntities :
              /\ world[i].pos = IF i \in moved THEN position ELSE SpawnedEntities[i].pos
              /\ world[i].owner = SpawnedEntities[i].owner
    BY <1>1, <1>2, <1>3 DEF Entity
  <1>5. /\ id \in DOMAIN SpawnedEntities /\ id \in moved
        /\ SpawnedEntities[id].owner = c /\ world[id].owner = c
        /\ p # c /\ p \in ConnectedPlayers
    <2>1. id \in DOMAIN SpawnedEntities /\ world[id].pos # SpawnedEntities[id].pos
      BY <1>3 DEF Moved
    <2>2. id \in moved
      BY <1>4, <2>1
    <2> QED  BY <1>4, <2>1, <2>2 DEF OwnedBy
  <1>6. OwnedBy(world, p) = OwnedBy(SpawnedEntities, p) /\ OwnedBy(world, p) \in SUBSET OldIds
    BY <1>4 DEF OwnedBy, OldIds
  <1>7. \A o \in OwnedBy(world, p) : /\ world[o].pos = SpawnedEntities[o].pos
                                     /\ world[o].pos \in Int
    <2>1. \A o \in OwnedBy(world, p) : o \in DOMAIN SpawnedEntities /\ o \notin moved
      BY <1>4, <1>5 DEF OwnedBy
    <2> QED  BY <1>2, <1>4, <2>1, ConstantsAssumption DEF Entity
  <1>8. world[id].pos \in Int
    BY <1>4, <1>5, ConstantsAssumption
  <1>9. moved \subseteq OldIds /\ Located(world, moved)
    BY <1>4 DEF OwnedBy, OldIds, Located
  <1>10. OldIds \in SUBSET Ids /\ IsFiniteSet(OldIds)
    BY EnumeratedIds
  <1> HIDE DEF moved
  <1> DEFINE gone == {}
             comparisons == FilteredComparisons(world, order, p, id)
             after == TrackedAfterLoop(id \in trackedEntities[p] \ gone, comparisons)
             own == OwnedBy(world, p)
             AtHand(o) == InRange(world[o].pos, world[id].pos)
             filtered == <<p, c>> \in FilteredOut
  <1>11. gone \subseteq OldIds /\ Broadcast(world, order, c, gone, moved)
    BY <1>1, <1>3
  <1> HIDE DEF gone
  <1>12. /\ id \in trackedEntities'[p] <=> after
         /\ enqueued'[p] \in Seq(News)
         /\ comparisons # <<>> /\ after =>
              LastOf(enqueued'[p], NewsAbout(id), TeleportEntity(id, world[id]))
    BY <1>5, <1>9, <1>10, <1>11, BroadcastSettles
  <1>13. filtered => comparisons = <<FALSE>>
    BY <1>5 DEF FilteredComparisons
  <1>14. ~filtered => comparisons = Comparisons(world, order, p, id)
    BY <1>5 DEF FilteredComparisons
  <1>15. own # {} /\ ~filtered =>
           /\ comparisons # <<>>
           /\ (\A o \in own : AtHand(o)) => after
           /\ (\A o \in own : ~AtHand(o)) => ~after
    <2>1. ASSUME own # {}
          PROVE  \A tracked :
                   /\ Comparisons(world, order, p, id) # <<>>
                   /\ (\A o \in own : AtHand(o)) =>
                        TrackedAfterLoop(tracked, Comparisons(world, order, p, id))
                   /\ (\A o \in own : ~AtHand(o)) =>
                        ~TrackedAfterLoop(tracked, Comparisons(world, order, p, id))
      BY <1>6, <1>10, <2>1, ComparisonsSettle
    <2>2. PICK tracked : tracked = (id \in trackedEntities[p] \ gone)
      OBVIOUS
    <2> HIDE DEF own, AtHand, filtered
    <2> QED  BY <1>14, <2>1, <2>2
  <1>16. filtered => ~after
    <2>1. PICK once : once = <<FALSE>>
      OBVIOUS
    <2>2. once # <<>> /\ Len(once) = 1 /\ once[1] = FALSE
      BY <2>1, EmptySeq
    <2>3. \A tracked : TrackedAfterLoop(tracked, once) = FALSE
      BY <2>2 DEF TrackedAfterLoop
    <2> QED  BY <1>13, <2>1, <2>3
  <1>17. \A o \in own : AtHand(o) <=> Near(SpawnedEntities[o].pos, SpawnedEntities'[id].pos)
    BY <1>3, <1>7, <1>8, RangeIsDistance
  <1>18. ASSUME after, comparisons # <<>>
         PROVE  LastAbout(enqueued'[p], id, TeleportEntity(id, SpawnedEntities'[id]))
    BY <1>3, <1>12, <1>18, LastOfNews
  <1> HIDE DEF comparisons, after, AtHand
  <1>19. filtered => id \notin trackedEntities'[p]
    BY <1>12, <1>16
  <1>20. own # {} /\ (\A o \in own : ~AtHand(o)) => id \notin trackedEntities'[p]
    BY <1>12, <1>15, <1>16
  <1>21. own # {} /\ ~filtered /\ (\A o \in own : AtHand(o)) =>
           /\ id \in trackedEntities'[p]
           /\ LastAbout(enqueued'[p], id, TeleportEntity(id, SpawnedEntities'[id]))
    BY <1>12, <1>15, <1>18
  <1>22. own = OwnedBy(SpawnedEntities, p) /\ c = SpawnedEntities[id].owner
    BY <1>5, <1>6
  <1> HIDE DEF own
  <1> QED  BY <1>17, <1>19, <1>20, <1>21, <1>22 DEF Settled

(* Whoever moves, whatever the others own and in whatever order the         *)
(* dictionary gives it, a moved entity leaves every other player right      *)
(* about it: without it if the filter or the distance to all they own says  *)
(* so, else with a teleport to where it is as the last word on it.         *)
THEOREM MovesSettle == Spec => MovesSettleTracking
  <1>1. ASSUME IInv, [Next]_vars, NEW id \in Ids, Moved(id),
               NEW p \in ConnectedPlayers \ {SpawnedEntities[id].owner}
        PROVE  Settled(id, p)
    <2>1. Next
      BY <1>1 DEF vars, managed, Moved
    <2>2. PICK c \in Conns, position \in Positions :
            position # FaultyPosition /\ HandlePositionUpdate(c, position)
      BY <1>1, <2>1, OnlyUpdatesMove
    <2> QED  BY <1>1, <2>2, PositionUpdateSettles
  <1>2. Spec => []IInv
    BY InductiveInvariant
  <1>3. IInv /\ [Next]_vars =>
          \A id \in Ids : Moved(id) =>
             \A p \in ConnectedPlayers \ {SpawnedEntities[id].owner} : Settled(id, p)
    BY <1>1
  <1> QED  BY <1>2, <1>3, PTL DEF Spec, MovesSettleTracking, Settled

-----------------------------------------------------------------------------
(* Players without an entity.                                              *)

(* What may be sent to a player who is shown nothing.                      *)
Farewells(T) == [type : {"DestroyEntity"}, id : T]

LEMMA FarewellsOfAbsent ==
    ASSUME NEW T, NEW id \in T, NEW entity, NEW tracked \in BOOLEAN,
           NEW comparisons \in Seq({FALSE})
    PROVE  /\ LoopMessages(id, entity, tracked, comparisons) \in Seq(Farewells(T))
           /\ TrackedAfterLoop(tracked, comparisons) => tracked
  <1> DEFINE Was(i) == IF i = 1 THEN tracked ELSE comparisons[i - 1]
             turns == [i \in DOMAIN comparisons |->
                         TurnMessages(id, entity, Was(i), comparisons[i])]
  <1>1. DOMAIN comparisons = 1 .. Len(comparisons) /\ Len(comparisons) \in Nat
    BY LenProperties
  <1>2. \A i \in DOMAIN comparisons : comparisons[i] = FALSE
    <2>1. \A i \in DOMAIN comparisons : comparisons[i] \in {FALSE}
      BY ElementsAreTyped
    <2> QED  BY <2>1, Zenon
  <1>3. DestroyEntity(id) \in Farewells(T)
    BY DEF DestroyEntity, Farewells
  <1>4. <<DestroyEntity(id)>> \in Seq(Farewells(T)) /\ <<>> \in Seq(Farewells(T))
    BY <1>3, EmptySeq
  <1>5. \A was \in BOOLEAN : TurnMessages(id, entity, was, FALSE) \in Seq(Farewells(T))
    BY <1>4 DEF TurnMessages
  <1>6. ASSUME NEW i \in DOMAIN comparisons
        PROVE  Was(i) \in BOOLEAN
    <2>1. i # 1 => i - 1 \in DOMAIN comparisons
      BY <1>1
    <2>2. i # 1 => comparisons[i - 1] = FALSE
      BY <1>2, <2>1, Zenon
    <2>3. CASE i = 1
      <3>1. Was(i) = tracked
        BY <2>3
      <3> HIDE DEF Was
      <3> QED  BY <3>1, Zenon
    <2>4. CASE i # 1
      <3>1. Was(i) = FALSE
        BY <2>2, <2>4
      <3> HIDE DEF Was
      <3> QED  BY <3>1, Zenon
    <2> QED  BY <2>3, <2>4
  <1> HIDE DEF Was
  <1>7. \A i \in DOMAIN comparisons : turns[i] \in Seq(Farewells(T))
    BY <1>2, <1>5, <1>6
  <1>8. turns \in Seq(Seq(Farewells(T)))
    BY <1>1, <1>7
  <1>9. LoopMessages(id, entity, tracked, comparisons) = FlattenSeq(turns)
    BY DEF LoopMessages, Was
  <1> HIDE DEF turns
  <1>10. FlattenSeq(turns) \in Seq(Farewells(T))
    BY <1>8, FlattenSeqTyped
  <1>11. TrackedAfterLoop(tracked, comparisons) => tracked
    <2>1. CASE comparisons = <<>>
      BY <2>1 DEF TrackedAfterLoop
    <2>2. CASE comparisons # <<>>
      <3>1. Len(comparisons) \in DOMAIN comparisons
        BY <1>1, <2>2, EmptySeq
      <3> QED  BY <1>2, <2>2, <3>1 DEF TrackedAfterLoop
    <2> QED  BY <2>1, <2>2
  <1> QED  BY <1>9, <1>10, <1>11

LEMMA AbsentCompareNothing ==
    ASSUME NEW T, NEW order \in Seq(T), NEW entities, NEW p, OwnedBy(entities, p) = {}, NEW id
    PROVE  FilteredComparisons(entities, order, p, id) \in Seq({FALSE})
  <1> DEFINE own == InOrder(order, OwnedBy(entities, p))
             comparisons == Comparisons(entities, order, p, id)
  <1>1. own \in Seq(T) /\ Elements(own) = {}
    BY InOrderElements
  <1>2. comparisons = [i \in 1 .. Len(own) |-> InRange(entities[own[i]].pos, entities[id].pos)]
    BY DEF Comparisons
  <1> HIDE DEF own, comparisons
  <1>3. DOMAIN own = {} /\ DOMAIN own = 1 .. Len(own) /\ Len(own) \in Nat
    <2>1. DOMAIN own = {}
      BY <1>1 DEF Elements
    <2>2. DOMAIN own = 1 .. Len(own) /\ Len(own) \in Nat
      BY <1>1, LenProperties
    <2> QED  BY <2>1, <2>2
  <1>4. DOMAIN comparisons = {} /\ DOMAIN comparisons = 1 .. Len(own)
    BY <1>2, <1>3
  <1>5. comparisons \in Seq({FALSE})
    <2>1. Len(own) = 0
      BY <1>3
    <2>2. [i \in 1 .. 0 |-> InRange(entities[own[i]].pos, entities[id].pos)] \in Seq({FALSE})
      OBVIOUS
    <2> QED  BY <1>2, <2>1, <2>2
  <1>6. <<FALSE>> \in Seq({FALSE})
    OBVIOUS
  <1> QED  BY <1>5, <1>6 DEF FilteredComparisons, comparisons

(* What AbsentSeeNothingNew asks of a step, for one player.                *)
IsKind(message) == message.type \in {"InitAuthResult", "DestroyEntity"}

Unseeing(p) ==
    /\ trackedEntities'[p] \subseteq trackedEntities[p]
    /\ \A i \in DOMAIN enqueued'[p] : IsKind(enqueued'[p][i])

LEMMA BroadcastToAbsent ==
    ASSUME IInv, NEW c \in Conns,
           NEW T \in SUBSET Ids, IsFiniteSet(T), NEW order \in Orders(T),
           NEW gone, gone \subseteq T, NEW touched, touched \subseteq T,
           NEW world, Broadcast(world, order, c, gone, touched),
           NEW p \in ConnectedPlayers, OwnedBy(world, p) = {}
    PROVE  Unseeing(p)
  <1> DEFINE loops == [id \in Shows(p, c, touched) |->
                          FilteredComparisons(world, order, p, id)]
             kept == trackedEntities[p] \ gone
             both == trackedEntities[p] \cap gone
             stopped == InOrder(order, both)
             ids == InOrder(order, DOMAIN loops)
             loop == [i \in 1 .. Len(ids) |->
                        LoopMessages(ids[i], world[ids[i]], ids[i] \in kept, loops[ids[i]])]
  <1>1. p \in Audience /\ p \in Conns
    BY DEF Audience, IInv, TypeOK
  <1>2. /\ trackedEntities'[p] = TrackedAfter(kept, loops)
        /\ enqueued'[p] = StopMessages(order, trackedEntities[p], gone)
                            \o MessagesOf(world, order, kept, loops)
    BY <1>1 DEF Broadcast
  <1>3. DOMAIN loops \subseteq T
    BY DEF Shows
  <1>4. \A id \in DOMAIN loops : loops[id] \in Seq({FALSE})
    <2>1. order \in Seq(T)
      BY OrdersAreComplete
    <2> QED  BY <2>1, AbsentCompareNothing
  <1>5. /\ Len(ids) \in Nat
        /\ \A i \in 1 .. Len(ids) : ids[i] \in DOMAIN loops
    <2>1. PICK wanted \in SUBSET T : wanted = DOMAIN loops
      BY <1>3
    <2> HIDE DEF loops
    <2> QED  BY <2>1, InOrderCovers
  <1>6. MessagesOf(world, order, kept, loops) = FlattenSeq(loop)
    BY DEF MessagesOf
  <1>7. StopMessages(order, trackedEntities[p], gone) \in Seq(Farewells(T))
    <2>1. PICK wanted \in SUBSET T : wanted = both
      OBVIOUS
    <2>2. Len(stopped) \in Nat /\ \A i \in 1 .. Len(stopped) : stopped[i] \in both
      BY <2>1, InOrderCovers
    <2>3. StopMessages(order, trackedEntities[p], gone)
            = [i \in 1 .. Len(stopped) |-> DestroyEntity(stopped[i])]
      BY DEF StopMessages
    <2> HIDE DEF stopped
    <2>4. \A i \in 1 .. Len(stopped) : DestroyEntity(stopped[i]) \in Farewells(T)
      BY <2>2 DEF DestroyEntity, Farewells
    <2> QED  BY <2>2, <2>3, <2>4
  <1> HIDE DEF loops, kept, ids
  <1>8. ASSUME NEW id \in DOMAIN loops
        PROVE  /\ LoopMessages(id, world[id], id \in kept, loops[id]) \in Seq(Farewells(T))
               /\ TrackedAfterLoop(id \in kept, loops[id]) => id \in kept
    <2>1. PICK tracked \in BOOLEAN : tracked = (id \in kept)
      <3>1. CASE id \in kept
        <4>1. TRUE = (id \in kept)
          BY <3>1
        <4> QED  BY <4>1
      <3>2. CASE id \notin kept
        <4>1. FALSE = (id \in kept)
          BY <3>2
        <4> QED  BY <4>1
      <3> QED  BY <3>1, <3>2
    <2>2. PICK comparisons \in Seq({FALSE}) : comparisons = loops[id]
      BY <1>4
    <2>3. PICK entity : entity = world[id]
      OBVIOUS
    <2>4. id \in T
      BY <1>3
    <2>5. /\ LoopMessages(id, entity, tracked, comparisons) \in Seq(Farewells(T))
          /\ TrackedAfterLoop(tracked, comparisons) => tracked
      BY <2>4, FarewellsOfAbsent
    <2> QED  BY <2>1, <2>2, <2>3, <2>5
  <1>9. loop \in Seq(Seq(Farewells(T)))
    <2>1. \A i \in 1 .. Len(ids) : loop[i] \in Seq(Farewells(T))
      BY <1>5, <1>8
    <2>2. loop = [i \in 1 .. Len(ids) |-> loop[i]]
      OBVIOUS
    <2> HIDE DEF loop
    <2>3. loop \in [1 .. Len(ids) -> Seq(Farewells(T))]
      BY <2>1, <2>2
    <2> QED  BY <1>5, <2>3
  <1> HIDE DEF loop
  <1>10. FlattenSeq(loop) \in Seq(Farewells(T))
    BY <1>9, FlattenSeqTyped
  <1>11. enqueued'[p] \in Seq(Farewells(T))
    BY <1>2, <1>6, <1>7, <1>10, ConcatProperties
  <1>12. \A i \in DOMAIN enqueued'[p] : IsKind(enqueued'[p][i])
    <2>1. \A i \in DOMAIN enqueued'[p] : enqueued'[p][i] \in Farewells(T)
      BY <1>11, ElementsAreTyped
    <2> QED  BY <2>1 DEF Farewells, IsKind
  <1>13. trackedEntities'[p] \subseteq kept
    BY <1>2, <1>8 DEF TrackedAfter
  <1> QED  BY <1>12, <1>13 DEF Unseeing, kept

LEMMA SilenceIsUnseeing ==
    ASSUME NEW p, trackedEntities'[p] = trackedEntities[p], enqueued'[p] = <<>>
    PROVE  Unseeing(p)
  BY EmptySeq DEF Unseeing

LEMMA IdlingIsUnseeing ==
    ASSUME NothingHappens, NEW p \in Conns
    PROVE  Unseeing(p)
  BY SilenceIsUnseeing DEF NothingHappens, managed, Silence

LEMMA InitAuthIsUnseeing ==
    ASSUME NEW c \in Conns, NEW versionMatches \in BOOLEAN, HandleInitAuth(c, versionMatches),
           NEW p \in Conns
    PROVE  Unseeing(p)
  <1>1. trackedEntities'[p] = trackedEntities[p]
    BY InitAuthAnswers
  <1>2. CASE p # c
    BY <1>1, <1>2, InitAuthAnswers, SilenceIsUnseeing
  <1>3. CASE p = c
    <2>1. PICK answer \in Messages : answer.type = "InitAuthResult" /\ enqueued'[p] = <<answer>>
      BY <1>3, InitAuthAnswers
    <2> QED  BY <1>1, <2>1 DEF Unseeing, IsKind
  <1> QED  BY <1>2, <1>3

(* Whatever request is handled: a joining player has an entity afterwards.  *)
LEMMA HandlersShowAbsentNothing ==
    ASSUME IInv, NEW c \in Conns, NEW p \in ConnectedPlayers, OwnedBy(SpawnedEntities', p) = {}
    PROVE  /\ \A position : HandleJoinWorld(c, position) => Unseeing(p)
           /\ \A position : HandlePositionUpdate(c, position) => Unseeing(p)
           /\ \A position : HandleSpawnCar(c, position) => Unseeing(p)
           /\ HandleUnmountCar(c) => Unseeing(p)
           /\ \A item, isUnequipping : HandleEquip(c, item, isUnequipping) => Unseeing(p)
           /\ OnConnectionStateChange(c) => Unseeing(p)
  <1> DEFINE Told(T) ==
               \E order \in Orders(T), gone \in SUBSET T, touched \in SUBSET T :
                 Broadcast(SpawnedEntities', order, c, gone, touched)
  <1>1. p \in Conns /\ OldIds \in SUBSET Ids /\ IsFiniteSet(OldIds) /\ IsFiniteSet(NewIds)
        /\ (entityIdCounter < MaxEntities => NewIds \in SUBSET Ids)
    BY EnumeratedIds DEF IInv, TypeOK
  <1>2. PICK world : world = SpawnedEntities'
    OBVIOUS
  <1>3. ASSUME NEW T \in SUBSET Ids, IsFiniteSet(T), Told(T)
        PROVE  Unseeing(p)
    BY <1>2, <1>3, BroadcastToAbsent
  <1>4. \A ids : ids \cap DOMAIN SpawnedEntities \subseteq OldIds
    BY DEF OldIds
  <1>5. OldIds \subseteq NewIds /\ {entityIdCounter} \subseteq NewIds
    BY DEF NewIds
  <1>6. /\ OwnedBy(SpawnedEntities, c) \subseteq OldIds
        /\ VehiclesOf(c) \subseteq OldIds
        /\ \A item : ItemsOf(c, item) \subseteq OldIds
    BY DEF OwnedBy, VehiclesOf, ItemsOf, OldIds
  <1>7. NothingHappens => Unseeing(p)
    BY <1>1, IdlingIsUnseeing
  <1>8. ASSUME NEW position, HandleJoinWorld(c, position)
        PROVE  Unseeing(p)
    <2>1. CASE c \notin ConnectedPlayers
      BY <1>7, <1>8, <2>1 DEF HandleJoinWorld
    <2>2. CASE c \in ConnectedPlayers
      <3> DEFINE entity == [owner |-> c, record |-> Puppet, pos |-> position,
                            isVehicle |-> FALSE]
                 Loops(order) == [id \in DOMAIN SpawnedEntities' \ OwnedBy(SpawnedEntities', c) |->
                                     Comparisons(SpawnedEntities', order, c, id)]
      <3>1. PICK order :
              /\ SpawnedEntities' = CreateEntity(SpawnedEntities, entity)
              /\ trackedEntities' =
                   [trackedEntities EXCEPT ![c] = TrackedAfter(@, Loops(order))]
              /\ enqueued' = [Silence EXCEPT ![c] =
                    MessagesOf(SpawnedEntities', order, trackedEntities[c], Loops(order))]
        BY <1>8, <2>2 DEF HandleJoinWorld
      <3> HIDE DEF Loops
      <3>2. entityIdCounter \in OwnedBy(SpawnedEntities', c)
        BY <3>1 DEF CreateEntity, OwnedBy
      <3>3. p # c
        BY <3>2
      <3>4. trackedEntities'[p] = trackedEntities[p] /\ enqueued'[p] = <<>>
        BY <1>1, <3>1, <3>3 DEF Silence
      <3> QED  BY <3>4, SilenceIsUnseeing
    <2> QED  BY <2>1, <2>2
  <1>9. ASSUME NEW position, HandlePositionUpdate(c, position)
        PROVE  Unseeing(p)
    <2>1. Told(OldIds) \/ NothingHappens
      <3>1. {} \in SUBSET OldIds /\ OwnedBy(SpawnedEntities, c) \in SUBSET OldIds
        BY <1>6
      <3> QED  BY <1>9, <3>1 DEF HandlePositionUpdate
    <2> HIDE DEF Told
    <2> QED  BY <1>1, <1>3, <1>7, <2>1
  <1>10. ASSUME NEW position, HandleSpawnCar(c, position)
         PROVE  Unseeing(p)
    <2>1. Told(NewIds) /\ entityIdCounter < MaxEntities
      <3>1. VehiclesOf(c) \in SUBSET NewIds /\ {entityIdCounter} \in SUBSET NewIds
        BY <1>5, <1>6
      <3> QED  BY <1>10, <3>1 DEF HandleSpawnCar
    <2> HIDE DEF Told
    <2> QED  BY <1>1, <1>3, <2>1
  <1>11. ASSUME HandleUnmountCar(c)
         PROVE  Unseeing(p)
    <2>1. Told(OldIds)
      <3>1. VehiclesOf(c) \in SUBSET OldIds /\ {} \in SUBSET OldIds
        BY <1>6
      <3> QED  BY <1>11, <3>1 DEF HandleUnmountCar
    <2> HIDE DEF Told
    <2> QED  BY <1>1, <1>3, <2>1
  <1>12. ASSUME NEW item, NEW isUnequipping, HandleEquip(c, item, isUnequipping)
         PROVE  Unseeing(p)
    <2>1. CASE UnequipItem(c, item)
      <3>1. Told(OldIds)
        <4>1. ItemsOf(c, item) \in SUBSET OldIds /\ {} \in SUBSET OldIds
          BY <1>6
        <4> QED  BY <2>1, <4>1 DEF UnequipItem
      <3> HIDE DEF Told
      <3> QED  BY <1>1, <1>3, <3>1
    <2>2. CASE EquipItem(c, item)
      <3>1. NothingHappens \/ (Told(NewIds) /\ entityIdCounter < MaxEntities)
        <4>1. {} \in SUBSET NewIds /\ {entityIdCounter} \in SUBSET NewIds
          BY <1>5
        <4> QED  BY <2>2, <4>1 DEF EquipItem
      <3> HIDE DEF Told
      <3> QED  BY <1>1, <1>3, <1>7, <3>1
    <2> QED  BY <1>12, <2>1, <2>2 DEF HandleEquip
  <1>13. ASSUME OnConnectionStateChange(c)
         PROVE  Unseeing(p)
    <2>1. Told(OldIds) \/ NothingHappens
      <3>1. OwnedBy(SpawnedEntities, c) \in SUBSET OldIds /\ {} \in SUBSET OldIds
        BY <1>6
      <3> QED  BY <1>13, <3>1 DEF OnConnectionStateChange
    <2> HIDE DEF Told
    <2> QED  BY <1>1, <1>3, <1>7, <2>1
  <1> QED  BY <1>8, <1>9, <1>10, <1>11, <1>12, <1>13

(* However many players there are and whatever they do, one who has nothing *)
(* in the world is shown nothing new and is told of nothing but what goes   *)
(* away (and the answer to the sign-in).                                   *)
THEOREM AbsenceBlinds == Spec => AbsentSeeNothingNew
  <1>1. ASSUME IInv, Next, NEW p \in ConnectedPlayers, OwnedBy(SpawnedEntities', p) = {}
        PROVE  Unseeing(p)
    <2>1. PICK c \in Conns : ProcessMessage(c) \/ EndConnection(c)
      BY <1>1 DEF Next
    <2>2. p \in Conns
      BY <1>1 DEF IInv, TypeOK
    <2>3. CASE SignIn(c)
      BY <2>2, <2>3, InitAuthIsUnseeing DEF SignIn
    <2>4. CASE HandleShoot
      BY <2>2, <2>4, IdlingIsUnseeing DEF HandleShoot
    <2>5. /\ \A position : HandleJoinWorld(c, position) => Unseeing(p)
          /\ \A position : HandlePositionUpdate(c, position) => Unseeing(p)
          /\ \A position : HandleSpawnCar(c, position) => Unseeing(p)
          /\ HandleUnmountCar(c) => Unseeing(p)
          /\ \A item, isUnequipping : HandleEquip(c, item, isUnequipping) => Unseeing(p)
          /\ OnConnectionStateChange(c) => Unseeing(p)
      BY <1>1, HandlersShowAbsentNothing
    <2> QED  BY <2>1, <2>3, <2>4, <2>5 DEF ProcessMessage, Move, EndConnection
  <1>2. IInv /\ [Next]_vars =>
          \/ UNCHANGED vars
          \/ \A p \in ConnectedPlayers : OwnedBy(SpawnedEntities', p) = {} => Unseeing(p)
    BY <1>1
  <1>3. Spec => []IInv
    BY InductiveInvariant
  <1> QED  BY <1>2, <1>3, PTL DEF Spec, AbsentSeeNothingNew, Unseeing, IsKind

=============================================================================
