--------------------------- MODULE EntityTracking ---------------------------
(***************************************************************************)
(* The managed half of the game server: PlayerService, EntityService,      *)
(* EntityTracker and the packet handlers that drive them.  Every handler   *)
(* runs to completion on the server's only thread, so a handler is one     *)
(* action.  What a handler hands to server_enqueue_message is the value of *)
(* "enqueued" after the step, one sequence per connection; the native send *)
(* queue that carries it on is modelled by the modules that extend this    *)
(* one.                                                                    *)
(*                                                                         *)
(* Data the properties cannot tell apart is left out: yaw, names, the      *)
(* three coordinates (a position is a point of a line), the choice among   *)
(* the puppet records.                                                     *)
(***************************************************************************)
EXTENDS Integers, Sequences, FiniteSets, SequencesExt

CONSTANTS
    Conns,           \* connection handles; a handle is never reused
    Items,           \* TweakDB ids of items a player can equip
    Puppet,          \* the record of a player's NPC
    Car,             \* the record of a vehicle
    Positions,       \* the points entities can be at
    FaultyPosition,  \* the position that HandlePositionUpdate filters out
    TrackingRange,   \* entities this near to one's own are tracked
    FilteredOut,     \* <<player, owner>> pairs the visibility filter rejects
    MaxEntities      \* bound: entities created in a behaviour

ASSUME ConstantsAssumption ==
    /\ Positions \subseteq Int
    /\ TrackingRange \in Nat
    /\ Puppet # Car
    /\ Puppet \notin Items
    /\ Car \notin Items
    /\ FilteredOut \subseteq Conns \X Conns
    /\ MaxEntities \in Nat

VARIABLES
    ConnectedPlayers,  \* PlayerService: the connections that signed in
    SpawnedEntities,   \* EntityService: dictionary from id to entity
    entityIdCounter,   \* EntityService: the next NetworkedEntityId
    trackedEntities,   \* EntityTracker: the ids each connection was shown
    enqueued,          \* the messages the last step enqueued, per connection
    sender,            \* history: whose request or end the last step was
    greeted,           \* environment: connections whose InitAuth was handled
    closed             \* environment: connections whose end was reported

managed == <<ConnectedPlayers, SpawnedEntities, entityIdCounter, trackedEntities>>
vars == <<managed, enqueued, sender, greeted, closed>>

Entity == [owner : Conns, record : Items \cup {Puppet, Car},
           pos : Positions, isVehicle : BOOLEAN]

Ids == 0 .. MaxEntities - 1

-----------------------------------------------------------------------------
(* Clientbound packets. *)

AuthResult(r) == [type |-> "InitAuthResult", result |-> r]
SpawnEntity(id, entity) == [type |-> "SpawnEntity", id |-> id, pos |-> entity.pos]
TeleportEntity(id, entity) == [type |-> "TeleportEntity", id |-> id, pos |-> entity.pos]
DestroyEntity(id) == [type |-> "DestroyEntity", id |-> id]

Messages ==
    [type : {"InitAuthResult"}, result : {"Ok", "VersionMismatch"}]
      \cup [type : {"SpawnEntity", "TeleportEntity"}, id : Ids, pos : Positions]
      \cup [type : {"DestroyEntity"}, id : Ids]

(* Serverbound packets, decoded.                                           *)
Requests ==
    [type : {"InitAuth"}, versionMatches : BOOLEAN]
      \cup [type : {"PlayerJoinWorld", "PlayerPositionUpdate", "PlayerSpawnCar"},
            pos : Positions]
      \cup [type : {"PlayerEquipItem"}, item : Items, isUnequipping : BOOLEAN]
      \cup [type : {"PlayerUnmountCar", "PlayerActionTracked", "PlayerShoot"}]

Silence == [c \in Conns |-> <<>>]

-----------------------------------------------------------------------------
(* The entity dictionary. *)

DistanceSquared(a, b) == (a - b) * (a - b)

(* Mutant: the boundary is out of range.                                   *)
InRangeStrict(a, b) == DistanceSquared(a, b) < TrackingRange * TrackingRange

InRange(a, b) == DistanceSquared(a, b) <= TrackingRange * TrackingRange

(* Mutant: the search stops at the first entity of the owner.               *)
FirstOwnedBy(entities, c) ==
    {id \in DOMAIN entities :
        /\ entities[id].owner = c
        /\ \A other \in DOMAIN entities : entities[other].owner = c => id <= other}

OwnedBy(entities, c) == {id \in DOMAIN entities : entities[id].owner = c}

Without(entities, ids) == [id \in DOMAIN entities \ ids |-> entities[id]]

(* Mutant: the counter is read but not incremented.                        *)
TakeIdAgain == UNCHANGED entityIdCounter

TakeId == entityIdCounter' = entityIdCounter + 1

CreateEntity(entities, entity) ==
    [id \in DOMAIN entities \cup {entityIdCounter} |->
        IF id = entityIdCounter THEN entity ELSE entities[id]]

(* The order in which a Dictionary is enumerated is unspecified; one order *)
(* holds for all the enumerations of one handler.                          *)
Orders(ids) == SetToSeqs(ids)

OldIds == DOMAIN SpawnedEntities
NewIds == OldIds \cup {entityIdCounter}

KeepWanted(s, id) == IF id \in s.wanted THEN [s EXCEPT !.kept = Append(@, id)] ELSE s

InOrder(order, ids) == FoldLeft(KeepWanted, [wanted |-> ids, kept |-> <<>>], order).kept

IsFirst(order, id, ids) ==
    \A other \in ids \ {id} :
        \E i, j \in DOMAIN order : i < j /\ order[i] = id /\ order[j] = other

-----------------------------------------------------------------------------
(* UpdateTrackingOf(entity, player) compares the entity with every entity  *)
(* the player owns and starts or stops the tracking each time.  The loop   *)
(* is given by its outcomes: whether each comparison was in range.         *)

Comparisons(entities, order, player, id) ==
    LET own == InOrder(order, OwnedBy(entities, player))
    IN  [i \in 1 .. Len(own) |-> InRange(entities[own[i]].pos, entities[id].pos)]

(* Mutant: an entity that comes near is moved but not spawned.              *)
TurnWithoutSpawn(id, entity, tracked, near) ==
    CASE near  -> <<TeleportEntity(id, entity)>>
      [] ~near -> IF tracked THEN <<DestroyEntity(id)>> ELSE <<>>

(* What one turn of the loop sends to a player who tracks the entity or not. *)
TurnMessages(id, entity, tracked, near) ==
    CASE near /\ tracked    -> <<TeleportEntity(id, entity)>>
      [] near /\ ~tracked   -> <<SpawnEntity(id, entity), TeleportEntity(id, entity)>>
      [] ~near /\ tracked   -> <<DestroyEntity(id)>>
      [] ~near /\ ~tracked  -> <<>>

LoopMessages(id, entity, tracked, comparisons) ==
    FlattenSeq([i \in DOMAIN comparisons |->
        TurnMessages(id, entity,
                     IF i = 1 THEN tracked ELSE comparisons[i - 1],
                     comparisons[i])])

(* Mutant: the loop stops at the player's first entity.                    *)
TrackedAfterFirst(tracked, comparisons) ==
    IF comparisons = <<>> THEN tracked ELSE comparisons[1]

TrackedAfterLoop(tracked, comparisons) ==
    IF comparisons = <<>> THEN tracked ELSE comparisons[Len(comparisons)]

(* Mutant: a filtered entity is skipped, not stopped.                      *)
SkippedComparisons(entities, order, player, id) ==
    IF <<player, entities[id].owner>> \in FilteredOut
    THEN <<>>
    ELSE Comparisons(entities, order, player, id)

(* Mutant: who owns nothing is out of range of nothing.                     *)
ComparisonsOfAbsent(entities, order, player, id) ==
    IF <<player, entities[id].owner>> \in FilteredOut
    THEN <<FALSE>>
    ELSE IF OwnedBy(entities, player) = {}
    THEN <<TRUE>>
    ELSE Comparisons(entities, order, player, id)

(* UpdateTrackingOf(entity) for one player: a player the filter keeps away *)
(* stops tracking the entity, as one who is out of range does.             *)
FilteredComparisons(entities, order, player, id) ==
    IF <<player, entities[id].owner>> \in FilteredOut
    THEN <<FALSE>>
    ELSE Comparisons(entities, order, player, id)

(* A player who tracks the ids of "was" goes through one loop per id of    *)
(* the domain of "loops".                                                  *)
TrackedAfter(was, loops) ==
    {id \in was : id \notin DOMAIN loops}
      \cup {id \in DOMAIN loops : TrackedAfterLoop(id \in was, loops[id])}

MessagesOf(entities, order, was, loops) ==
    LET ids == InOrder(order, DOMAIN loops)
    IN  FlattenSeq([i \in 1 .. Len(ids) |->
            LoopMessages(ids[i], entities[ids[i]], ids[i] \in was, loops[ids[i]])])

(* Mutant: players are told of the end of entities they do not track.      *)
StopAllMessages(order, was, ids) ==
    LET stopped == InOrder(order, ids)
    IN  [i \in 1 .. Len(stopped) |-> DestroyEntity(stopped[i])]

(* StopTrackingOf for each of the ids, for one player. *)
StopMessages(order, was, ids) ==
    LET stopped == InOrder(order, was \cap ids)
    IN  [i \in 1 .. Len(stopped) |-> DestroyEntity(stopped[i])]

-----------------------------------------------------------------------------
(* Mutant: tracking is kept for every connection.                          *)
EveryConnection == Conns

(* Tracking is kept for those who signed in ...                            *)
Audience == ConnectedPlayers

(* Mutant: a player's own entities are tracked like any other.             *)
ShowsAll(p, owner, touched) == touched

(* ... and updated for everybody but the owner.                            *)
Shows(p, owner, touched) == IF p = owner THEN {} ELSE touched

(* What the handlers share: the entities "gone" stop being tracked by every *)
(* player, then the tracking of the entities "touched", all of which belong *)
(* to "owner", is updated.                                                 *)
Broadcast(entities, order, owner, gone, touched) ==
    LET Loops(p) == [id \in Shows(p, owner, touched) |->
                        FilteredComparisons(entities, order, p, id)]
        Kept(p) == trackedEntities[p] \ gone
    IN  /\ trackedEntities' =
               [p \in Conns |-> IF p \in Audience
                                THEN TrackedAfter(Kept(p), Loops(p))
                                ELSE trackedEntities[p]]
        /\ enqueued' =
               [p \in Conns |->
                   IF p \in Audience
                   THEN StopMessages(order, trackedEntities[p], gone)
                          \o MessagesOf(entities, order, Kept(p), Loops(p))
                   ELSE <<>>]

NothingHappens == UNCHANGED managed /\ enqueued' = Silence

-----------------------------------------------------------------------------
(* Packet handlers. *)

(* ConnectedPlayers.Add throws on a connection that is already there: the  *)
(* handler completes only for a new one.                                   *)
HandleInitAuth(c, versionMatches) ==
    /\ enqueued' = [Silence EXCEPT ![c] =
           <<AuthResult(IF versionMatches THEN "Ok" ELSE "VersionMismatch")>>]
    /\ \/ /\ versionMatches
          /\ c \notin ConnectedPlayers
          /\ ConnectedPlayers' = ConnectedPlayers \cup {c}
       \/ /\ ~versionMatches
          /\ UNCHANGED ConnectedPlayers
    /\ UNCHANGED <<SpawnedEntities, entityIdCounter, trackedEntities>>

(* The new puppet is shown to nobody yet; its owner is shown every entity  *)
(* of the others in range (InitialSpawnForPlayer, which asks no filter).   *)
HandleJoinWorld(c, position) ==
    \/ /\ c \in ConnectedPlayers
       /\ entityIdCounter < MaxEntities
       /\ \E order \in Orders(NewIds) :
            LET entities == CreateEntity(SpawnedEntities,
                    [owner |-> c, record |-> Puppet, pos |-> position, isVehicle |-> FALSE])
                loops == [id \in DOMAIN entities \ OwnedBy(entities, c) |->
                              Comparisons(entities, order, c, id)]
            IN  /\ SpawnedEntities' = entities
                /\ trackedEntities' =
                       [trackedEntities EXCEPT ![c] = TrackedAfter(@, loops)]
                /\ enqueued' = [Silence EXCEPT ![c] =
                       MessagesOf(entities, order, trackedEntities[c], loops)]
       /\ TakeId
       /\ UNCHANGED ConnectedPlayers
    \/ /\ c \notin ConnectedPlayers
       /\ NothingHappens

HandlePositionUpdate(c, position) ==
    \/ /\ position # FaultyPosition
       /\ \E order \in Orders(OldIds) :
            LET moved == OwnedBy(SpawnedEntities, c)
                entities == [id \in DOMAIN SpawnedEntities |->
                                IF id \in moved
                                THEN [SpawnedEntities[id] EXCEPT !.pos = position]
                                ELSE SpawnedEntities[id]]
            IN  /\ SpawnedEntities' = entities
                /\ Broadcast(entities, order, c, {}, moved)
       /\ UNCHANGED <<ConnectedPlayers, entityIdCounter>>
    \/ /\ position = FaultyPosition
       /\ NothingHappens

(* Mutant: only players' vehicles are cleaned up.                          *)
VehiclesOfPlayer(c) ==
    {id \in OwnedBy(SpawnedEntities, c) :
        c \in ConnectedPlayers /\ SpawnedEntities[id].isVehicle}

(* Mutant: whatever belongs to the player is cleaned up.                   *)
EverythingOf(c) == OwnedBy(SpawnedEntities, c)

VehiclesOf(c) == {id \in OwnedBy(SpawnedEntities, c) : SpawnedEntities[id].isVehicle}

(* Neither this handler nor the two below ask whether c has signed in. *)
HandleSpawnCar(c, position) ==
    /\ entityIdCounter < MaxEntities
    /\ \E order \in Orders(NewIds) :
         LET entities == CreateEntity(Without(SpawnedEntities, VehiclesOf(c)),
                 [owner |-> c, record |-> Car, pos |-> position, isVehicle |-> TRUE])
         IN  /\ SpawnedEntities' = entities
             /\ Broadcast(entities, order, c, VehiclesOf(c), {entityIdCounter})
    /\ TakeId
    /\ UNCHANGED ConnectedPlayers

(* Mutant: a vehicle is removed before anybody is told.                    *)
RemoveOnUnmount(c) ==
    /\ \E order \in Orders(OldIds) :
         LET entities == Without(SpawnedEntities, VehiclesOf(c))
         IN  /\ SpawnedEntities' = entities
             /\ Broadcast(entities, order, c, {}, {})
    /\ UNCHANGED <<ConnectedPlayers, entityIdCounter>>

HandleUnmountCar(c) ==
    /\ \E order \in Orders(OldIds) :
         LET entities == Without(SpawnedEntities, VehiclesOf(c))
         IN  /\ SpawnedEntities' = entities
             /\ Broadcast(entities, order, c, VehiclesOf(c), {})
    /\ UNCHANGED <<ConnectedPlayers, entityIdCounter>>

(* The item appears where the first entity of its owner is. *)
EquipItem(c, item) ==
    \/ /\ OwnedBy(SpawnedEntities, c) # {}
       /\ entityIdCounter < MaxEntities
       /\ \E order \in Orders(NewIds), playerEntity \in OwnedBy(SpawnedEntities, c) :
            LET entities == CreateEntity(SpawnedEntities,
                    [owner |-> c, record |-> item,
                     pos |-> SpawnedEntities[playerEntity].pos, isVehicle |-> FALSE])
            IN  /\ IsFirst(order, playerEntity, OwnedBy(SpawnedEntities, c))
                /\ SpawnedEntities' = entities
                /\ Broadcast(entities, order, c, {}, {entityIdCounter})
       /\ TakeId
       /\ UNCHANGED ConnectedPlayers
    \/ /\ OwnedBy(SpawnedEntities, c) = {}
       /\ NothingHappens

(* Mutant: everybody's items of that kind.                                 *)
ItemsOfAll(c, item) ==
    {id \in DOMAIN SpawnedEntities : SpawnedEntities[id].record = item}

ItemsOf(c, item) ==
    {id \in OwnedBy(SpawnedEntities, c) : SpawnedEntities[id].record = item}

UnequipItem(c, item) ==
    /\ \E order \in Orders(OldIds) :
         LET entities == Without(SpawnedEntities, ItemsOf(c, item))
         IN  /\ SpawnedEntities' = entities
             /\ Broadcast(entities, order, c, ItemsOf(c, item), {})
    /\ UNCHANGED <<ConnectedPlayers, entityIdCounter>>

HandleEquip(c, item, isUnequipping) ==
    \/ isUnequipping /\ UnequipItem(c, item)
    \/ ~isUnequipping /\ EquipItem(c, item)

(* HandleShoot, and PlayerActionTracked, which has no handler, only log. *)
HandleShoot == NothingHappens

(* The native layer reports that a connection was closed or lost.  What    *)
(* trackedEntities holds for it stays.                                     *)
OnConnectionStateChange(c) ==
    \/ /\ c \in ConnectedPlayers
       /\ \E order \in Orders(OldIds) :
            LET playerEntities == OwnedBy(SpawnedEntities, c)
                entities == Without(SpawnedEntities, playerEntities)
            IN  /\ SpawnedEntities' = entities
                /\ Broadcast(entities, order, c, playerEntities, {})
       /\ ConnectedPlayers' = ConnectedPlayers \ {c}
       /\ UNCHANGED entityIdCounter
    \/ /\ c \notin ConnectedPlayers
       /\ NothingHappens

(* ProcessMessage of the managed server finds the handler by the type.     *)
Handle(c, request) ==
    \/ /\ request.type = "InitAuth"
       /\ sender' = {c}
       /\ greeted' = greeted \cup {c}
       /\ UNCHANGED closed
       /\ HandleInitAuth(c, request.versionMatches)
    \/ /\ sender' = {c}
       /\ UNCHANGED <<greeted, closed>>
       /\ \/ /\ request.type = "PlayerJoinWorld"
             /\ HandleJoinWorld(c, request.pos)
          \/ /\ request.type = "PlayerPositionUpdate"
             /\ HandlePositionUpdate(c, request.pos)
          \/ /\ request.type = "PlayerSpawnCar"
             /\ HandleSpawnCar(c, request.pos)
          \/ /\ request.type = "PlayerUnmountCar"
             /\ HandleUnmountCar(c)
          \/ /\ request.type = "PlayerEquipItem"
             /\ HandleEquip(c, request.item, request.isUnequipping)
          \/ /\ request.type = "PlayerShoot"
             /\ HandleShoot
          \/ /\ request.type = "PlayerActionTracked"
             /\ NothingHappens

-----------------------------------------------------------------------------
(* The server's one thread takes a message off the queue and runs its      *)
(* handler.  A client sends InitAuth once; anything else it may send before *)
(* it, after it, and may have left in the queue when its connection ended. *)

SignIn(c) ==
    /\ c \notin greeted
    /\ sender' = {c}
    /\ greeted' = greeted \cup {c}
    /\ UNCHANGED closed
    /\ \E versionMatches \in BOOLEAN : HandleInitAuth(c, versionMatches)

Move(c, position) ==
    /\ sender' = {c}
    /\ UNCHANGED <<greeted, closed>>
    /\ HandlePositionUpdate(c, position)

ProcessMessage(c) ==
    \/ SignIn(c)
    \/ \E position \in Positions : Move(c, position)
    \/ /\ sender' = {c}
       /\ UNCHANGED <<greeted, closed>>
       /\ \/ \E position \in Positions :
                HandleJoinWorld(c, position) \/ HandleSpawnCar(c, position)
          \/ HandleUnmountCar(c)
          \/ \E item \in Items, isUnequipping \in BOOLEAN :
                HandleEquip(c, item, isUnequipping)
          \/ HandleShoot

EndConnection(c) ==
    /\ c \notin closed
    /\ sender' = {c}
    /\ closed' = closed \cup {c}
    /\ UNCHANGED greeted
    /\ OnConnectionStateChange(c)

Init ==
    /\ ConnectedPlayers = {}
    /\ SpawnedEntities = [id \in {} |-> {}]
    /\ entityIdCounter = 0
    /\ trackedEntities = [c \in Conns |-> {}]
    /\ enqueued = Silence
    /\ sender = {}
    /\ greeted = {}
    /\ closed = {}

Next == \E c \in Conns : ProcessMessage(c) \/ EndConnection(c)

Spec == Init /\ [][Next]_vars

(* A client whose connection is up repeats its position every 0.1 s: the    *)
(* modules that compose this one state their fairness with it.             *)
Resend(c) ==
    /\ c \notin closed
    /\ \E id \in OwnedBy(SpawnedEntities, c) : Move(c, SpawnedEntities[id].pos)

-----------------------------------------------------------------------------
(* Every id in use has been given out by the counter, and the dictionary   *)
(* holds entities of connections at known positions.                       *)
TypeOK ==
    /\ ConnectedPlayers \subseteq greeted
    /\ greeted \subseteq Conns
    /\ closed \subseteq Conns
    /\ sender \subseteq Conns
    /\ entityIdCounter \in 0 .. MaxEntities
    /\ DOMAIN SpawnedEntities \subseteq 0 .. entityIdCounter - 1
    /\ SpawnedEntities \in [DOMAIN SpawnedEntities -> Entity]
    /\ trackedEntities \in [Conns -> SUBSET (0 .. entityIdCounter - 1)]

(* Whatever the order in which players sign in, spawn, despawn, re-equip   *)
(* and leave, a connected player tracks only entities that exist: the      *)
(* StopTrackingOf that precedes each RemoveEntity reaches everybody.       *)
NoDanglingTracking ==
    \A c \in ConnectedPlayers : trackedEntities[c] \subseteq DOMAIN SpawnedEntities

(* "Don't track your own entities" (EntityTracker.cs): no player is shown  *)
(* a puppet, car or item of their own, over which they would stumble.      *)
NeverTracksOwn ==
    \A c \in ConnectedPlayers : trackedEntities[c] \cap OwnedBy(SpawnedEntities, c) = {}

(* Spawning a car despawns the one before: no connection, signed in or     *)
(* not, leaves two vehicles in the world.                                  *)
OneVehiclePerOwner ==
    \A a, b \in DOMAIN SpawnedEntities :
        /\ SpawnedEntities[a].isVehicle
        /\ SpawnedEntities[b].isVehicle
        /\ SpawnedEntities[a].owner = SpawnedEntities[b].owner
        => a = b

(* Nothing is tracked for a connection before its InitAuth, so a player    *)
(* starts with an empty view: the list that _trackedEntities keeps for a   *)
(* closed connection is never inherited.                                   *)
StartsWithEmptyView ==
    \A c \in Conns \ greeted : trackedEntities[c] = {}

(* "joined" is all that puts a puppet into the world, and leaving takes it  *)
(* away for good: a JoinWorld that is handled before the sign-in or after  *)
(* the end of its connection leaves no puppet without a player.            *)
PuppetsBelongToPlayers ==
    \A id \in DOMAIN SpawnedEntities :
        SpawnedEntities[id].record = Puppet => SpawnedEntities[id].owner \in ConnectedPlayers

(* The strengthening of NoDanglingTracking, NeverTracksOwn,                *)
(* OneVehiclePerOwner and PuppetsBelongToPlayers that every step preserves. *)
IInv ==
    /\ TypeOK
    /\ StartsWithEmptyView
    /\ NoDanglingTracking
    /\ NeverTracksOwn
    /\ OneVehiclePerOwner
    /\ PuppetsBelongToPlayers

-----------------------------------------------------------------------------
(* A connection that is not signed in sees nothing, whatever list is left  *)
(* behind for it.                                                          *)
View == [c \in Conns |-> IF c \in ConnectedPlayers THEN trackedEntities[c] ELSE {}]

(* The promise of the server, about the world its state stands for.        *)
World == INSTANCE SharedWorld WITH
    Participants <- Conns,
    members <- ConnectedPlayers,
    world <- SpawnedEntities,
    used <- 0 .. entityIdCounter - 1,
    sees <- View,
    actor <- sender

(* Every handler is its sender acting on their own entities alone, or      *)
(* entering, or leaving with all of them: no request touches a thing of    *)
(* somebody else ("thus moving the old player", PlayerPacketHandler.cs),   *)
(* reuses an id or leaves a view with what is gone.                        *)
KeepsThePromise == World!Spec

-----------------------------------------------------------------------------
(* What one message does to the ids a client believes in: a spawn must be  *)
(* of an unknown entity, a teleport and a destroy of a known one.          *)
Believe(belief, message) ==
    CASE message.type = "SpawnEntity" ->
            [ids |-> belief.ids \cup {message.id},
             sound |-> belief.sound /\ message.id \notin belief.ids]
      [] message.type = "DestroyEntity" ->
            [ids |-> belief.ids \ {message.id},
             sound |-> belief.sound /\ message.id \in belief.ids]
      [] message.type = "TeleportEntity" ->
            [belief EXCEPT !.sound = @ /\ message.id \in belief.ids]
      [] OTHER -> belief

(* The messages of a step are well formed, and a client that applies them  *)
(* in order ends up with the ids the server tracks for it: no step leaves  *)
(* the two apart by a forgotten, doubled or misordered packet.             *)
OutboxExplainsTracking ==
    [][\A c \in Conns :
         /\ enqueued'[c] \in Seq(Messages)
         /\ FoldLeft(Believe, [ids |-> trackedEntities[c], sound |-> TRUE], enqueued'[c])
              = [ids |-> trackedEntities'[c], sound |-> TRUE]]_vars

Near(a, b) == b - a \in -TrackingRange .. TrackingRange

Moved(id) ==
    /\ id \in DOMAIN SpawnedEntities \cap DOMAIN SpawnedEntities'
    /\ SpawnedEntities[id].pos # SpawnedEntities'[id].pos

(* A list of messages ends, as far as an entity is concerned, with this one. *)
LastAbout(messages, id, message) ==
    \E i \in DOMAIN messages :
        /\ messages[i] = message
        /\ \A j \in DOMAIN messages :
             j > i /\ messages[j].type # "InitAuthResult" => messages[j].id # id

(* When an entity moves, every other player who has an entity in the world *)
(* ends up right about it: nothing of it if the filter keeps it away or if *)
(* it is far from all they own, its new position if it is near to all.     *)
(* (In between, the last of their entities in the dictionary decides.)     *)
MovesSettleTracking ==
    [][\A id \in Ids : Moved(id) =>
         \A p \in ConnectedPlayers \ {SpawnedEntities[id].owner} :
           LET own == OwnedBy(SpawnedEntities, p)
               NearTo(o) == Near(SpawnedEntities[o].pos, SpawnedEntities'[id].pos)
               filtered == <<p, SpawnedEntities[id].owner>> \in FilteredOut
           IN  /\ filtered => id \notin trackedEntities'[p]
               /\ own # {} /\ (\A o \in own : ~NearTo(o)) => id \notin trackedEntities'[p]
               /\ own # {} /\ ~filtered /\ (\A o \in own : NearTo(o)) =>
                    /\ id \in trackedEntities'[p]
                    /\ LastAbout(enqueued'[p], id, TeleportEntity(id, SpawnedEntities'[id]))]_vars

(* A player with no entity in the world, who has not joined yet or whose    *)
(* last entity is gone, is shown nothing new, whoever joins, moves or       *)
(* mounts around them: the loop over their entities does not run.  What     *)
(* they saw before stays as it was or is destroyed; none of it is moved.    *)
AbsentSeeNothingNew ==
    [][\A p \in ConnectedPlayers : OwnedBy(SpawnedEntities', p) = {} =>
         /\ trackedEntities'[p] \subseteq trackedEntities[p]
         /\ \A i \in DOMAIN enqueued'[p] :
              enqueued'[p][i].type \in {"InitAuthResult", "DestroyEntity"}]_vars

(* The loop of UpdateTrackingOf(entity, player) once more, turn by turn as *)
(* the code runs it: what the closed form used above stands for (lemma     *)
(* LoopIsByTurns of EntityTrackingProofs).                                 *)
OnStartTrackingEntity(s) ==
    IF s.tracked
    THEN s
    ELSE [s EXCEPT !.tracked = TRUE, !.sent = Append(@, SpawnEntity(s.id, s.entity))]

OnStopTrackingEntity(s) ==
    IF s.tracked
    THEN [s EXCEPT !.tracked = FALSE, !.sent = Append(@, DestroyEntity(s.id))]
    ELSE s

Turn(s, near) ==
    IF near
    THEN [OnStartTrackingEntity(s) EXCEPT !.sent = Append(@, TeleportEntity(s.id, s.entity))]
    ELSE OnStopTrackingEntity(s)

LoopByTurns(id, entity, tracked, comparisons) ==
    FoldLeft(Turn, [id |-> id, entity |-> entity, tracked |-> tracked, sent |-> <<>>],
             comparisons)

=============================================================================
