-------------------------- MODULE PlayerActionTracker --------------------------
(***************************************************************************)
(* What a player does and what becomes of it: the events of the game that   *)
(* the Redscript module hands to PlayerActionTracker, the requests it       *)
(* makes of them, what NetworkGameSystem sends in between, and the server's *)
(* handlers (EntityTracking), which get it all in order.  The connection    *)
(* stays up; the player does things before, while and after it is made, and *)
(* loads savegames as they like.                                            *)
(*                                                                         *)
(* The game is external: it raises an event to the player's puppet for      *)
(* every mounting, of vehicles and of other things, by the player and of    *)
(* the player, with a weak reference that may have expired.                 *)
(***************************************************************************)
EXTENDS EntityTracking

CONSTANTS
    me,         \* the player's connection
    MaxSent,    \* bound: requests on their way
    MaxJoins    \* bound: savegames loaded after the greeting

ASSUME TrackerAssumption == me \in Conns /\ MaxSent \in Nat /\ MaxJoins \in Nat

VARIABLES
    riding,     \* the game: whether the player is on a vehicle
    connected,  \* the network: the change to Connected was reported
    missed,     \* history: the last mounting or unmounting was not reported
    joins,      \* history: how many PlayerJoinWorlds followed InitAuth
    toServer    \* requests on their way to the server

trackerVars == <<vars, riding, connected, missed, joins, toServer>>

MountableTypes == {"Vehicle", "Object"}
RelationshipTypes == {"Parent", "Child"}
ActionTypes == {"BUTTON_PRESSED", "BUTTON_RELEASED", "RELATIVE_CHANGE"}

EnqueueMessage(request) ==
    /\ Len(toServer) < MaxSent
    /\ toServer' = Append(toServer, request)

-----------------------------------------------------------------------------
RecordPlayerAction(actionName, actionType) ==
    /\ \/ /\ actionName = "Jump"
          /\ actionType = "BUTTON_RELEASED"
          /\ EnqueueMessage([type |-> "PlayerActionTracked"])
       \/ /\ actionName # "Jump" \/ actionType # "BUTTON_RELEASED"
          /\ UNCHANGED toServer
    /\ UNCHANGED <<vars, riding, connected, missed, joins>>

OnShoot ==
    /\ EnqueueMessage([type |-> "PlayerShoot"])
    /\ UNCHANGED <<vars, riding, connected, missed, joins>>

(* Mutant: the vehicle that mounts or unmounts the player counts too.       *)
AnyRelationship(otherMountableType, relationshipType) == otherMountableType = "Vehicle"

(* "If the car mounts us, do nothing."                                     *)
IsRide(otherMountableType, relationshipType) ==
    otherMountableType = "Vehicle" /\ relationshipType = "Parent"

(* The game gets the player on a vehicle with an event as its parent, and   *)
(* raises events of other kinds at will.                                   *)
OnMounting(otherMountableType, relationshipType, expired, position) ==
    /\ \/ /\ otherMountableType = "Vehicle" /\ relationshipType = "Parent"
          /\ ~riding
          /\ riding' = TRUE
          /\ missed' = expired
       \/ /\ otherMountableType # "Vehicle" \/ relationshipType # "Parent"
          /\ UNCHANGED <<riding, missed>>
    /\ IF IsRide(otherMountableType, relationshipType) /\ ~expired
       THEN EnqueueMessage([type |-> "PlayerSpawnCar", pos |-> position])
       ELSE UNCHANGED toServer
    /\ UNCHANGED <<vars, connected, joins>>

OnUnmounting(otherMountableType, relationshipType, expired) ==
    /\ \/ /\ otherMountableType = "Vehicle" /\ relationshipType = "Parent"
          /\ riding
          /\ riding' = FALSE
          /\ missed' = expired
       \/ /\ otherMountableType # "Vehicle" \/ relationshipType # "Parent"
          /\ UNCHANGED <<riding, missed>>
    /\ IF IsRide(otherMountableType, relationshipType) /\ ~expired
       THEN EnqueueMessage([type |-> "PlayerUnmountCar"])
       ELSE UNCHANGED toServer
    /\ UNCHANGED <<vars, connected, joins>>

(* OnItemEquipped and OnItemUnequipped; the server reads isUnequipping from *)
(* padding (PacketLayout), whatever the client put there.                  *)
OnItem(item) ==
    /\ \E isUnequipping \in BOOLEAN :
         EnqueueMessage([type |-> "PlayerEquipItem", item |-> item,
                         isUnequipping |-> isUnequipping])
    /\ UNCHANGED <<vars, riding, connected, missed, joins>>

-----------------------------------------------------------------------------
(* NetworkGameSystem: it greets the server when the connection is made,     *)
(* enters the world with every savegame and reports positions all along.    *)

ConnectionStatusChangedCallback ==
    /\ ~connected
    /\ connected' = TRUE
    /\ \E versionMatches \in BOOLEAN :
         EnqueueMessage([type |-> "InitAuth", versionMatches |-> versionMatches])
    /\ UNCHANGED <<vars, riding, missed, joins>>

(* The bound holds only back what is counted.                              *)
OnGameRestored(position) ==
    /\ EnqueueMessage([type |-> "PlayerJoinWorld", pos |-> position])
    /\ \/ /\ connected
          /\ joins < MaxJoins
          /\ joins' = joins + 1
       \/ /\ ~connected
          /\ UNCHANGED joins
    /\ UNCHANGED <<vars, riding, connected, missed>>

TrackPlayerPosition(position) ==
    /\ EnqueueMessage([type |-> "PlayerPositionUpdate", pos |-> position])
    /\ UNCHANGED <<vars, riding, connected, missed, joins>>

HandleHead ==
    /\ toServer # <<>>
    /\ Handle(me, Head(toServer))
    /\ toServer' = Tail(toServer)
    /\ UNCHANGED <<riding, connected, missed, joins>>

TrackerInit ==
    /\ Init
    /\ riding = FALSE
    /\ connected = FALSE
    /\ missed = FALSE
    /\ joins = 0
    /\ toServer = <<>>

TrackerNext ==
    \/ HandleHead
    \/ \E actionName \in {"Jump", "MoveX"}, actionType \in ActionTypes :
         RecordPlayerAction(actionName, actionType)
    \/ OnShoot
    \/ ConnectionStatusChangedCallback
    \/ \E position \in Positions : OnGameRestored(position) \/ TrackPlayerPosition(position)
    \/ \E item \in Items : OnItem(item)
    \/ \E otherMountableType \in MountableTypes, relationshipType \in RelationshipTypes,
          expired \in BOOLEAN :
         \/ OnUnmounting(otherMountableType, relationshipType, expired)
         \/ \E position \in Positions :
              OnMounting(otherMountableType, relationshipType, expired, position)

TrackerSpec == TrackerInit /\ [][TrackerNext]_trackerVars

-----------------------------------------------------------------------------
(* When the server has caught up, there is a vehicle of the player in its   *)
(* world exactly while they ride one, whatever else they mount, equip and   *)
(* do.  An expired reference spoils it for one ride at most: the next one   *)
(* that is reported replaces a car that was left behind.                    *)
CarFollowsRide ==
    toServer = <<>> /\ ~missed => (riding <=> VehiclesOf(me) # {})

MyPuppets ==
    {id \in OwnedBy(SpawnedEntities, me) : SpawnedEntities[id].record = Puppet}

(* A PlayerJoinWorld that is sent after InitAuth, be it before the answer,  *)
(* makes a puppet of its own, which lasts whatever the player mounts, drops *)
(* and equips; one sent before InitAuth makes none.  So the player who      *)
(* continues a savegame while signing in is in the world, the player who    *)
(* loads two is in it twice, and one who was refused is not in it.          *)
PuppetPerJoin ==
    toServer = <<>> =>
        Cardinality(MyPuppets) = IF me \in ConnectedPlayers THEN joins ELSE 0

=============================================================================
