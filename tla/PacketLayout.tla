----------------------------- MODULE PacketLayout -----------------------------
(***************************************************************************)
(* How a packet crosses from one half of the server to the other: one half *)
(* lays the struct out in memory, the other reads its mirror from the same *)
(* bytes.  The native half uses the layout of its compiler; the managed    *)
(* half that of StructLayout(Sequential, Pack = 8) with the marshaller's   *)
(* sizes.  They agree on every type but bool: one byte in C++, and, without *)
(* a MarshalAs, a four byte BOOL for the marshaller.                       *)
(*                                                                         *)
(* A byte is a part of a field that has a value of its own, or the number  *)
(* 0 or 1; the padding between fields holds what was there before.         *)
(***************************************************************************)
EXTENDS Integers, Sequences, FiniteSetsExt

F(name, type) == [name |-> name, type |-> type]

-----------------------------------------------------------------------------
(* The structs of shared/protocol. *)

WorldPacketsServerBound == [
    PlayerJoinWorld |-> <<F("position", "Vector3")>>,
    PlayerActionTracked |-> <<F("action", "u8"), F("worldTransform", "Vector3")>>,
    PlayerPositionUpdate |-> <<F("worldTransform", "Vector3"), F("yaw", "f32")>>,
    PlayerSpawnCar |->
        <<F("worldTransform", "Vector3"), F("yaw", "f32"), F("recordId", "u64")>>,
    PlayerUnmountCar |-> <<>>,
    PlayerEquipItem |-> <<F("slot", "u64"), F("itemId", "u64"),
                          F("isWeapon", "bool"), F("isUnequipping", "bool")>>,
    PlayerShoot |->
        <<F("itemIdWeapon", "u64"), F("startPoint", "Vector3"), F("charge", "f32")>>]

WorldPacketsClientBound == [
    SpawnEntity |-> <<F("networkedEntityId", "u64"), F("recordId", "u64"),
                      F("spawnPosition", "Vector3")>>,
    DestroyEntity |-> <<F("networkedEntityId", "u64")>>,
    TeleportEntity |-> <<F("networkedEntityId", "u64"), F("targetPosition", "Vector3"),
                         F("yaw", "f32")>>,
    EquipItemEntity |-> <<F("networkedEntityId", "u64"), F("slot", "u64"), F("itemId", "u64"),
                          F("isWeapon", "bool"), F("isUnequipping", "bool")>>]

InitAuthServerBoundCSharp == <<F("username", "char255"), F("protocol_version", "u32")>>

AuthResultClientBound == <<F("auth_result", "u8"), F("protocol_version", "u32")>>

Message ==
    <<F("channelId", "u8"), F("messageType", "u16"), F("connectionId", "u32"), F("data", "u64")>>

EMessageTypeServerbound == [
    InitAuth |-> 0, PlayerJoinWorld |-> 1, PlayerActionTracked |-> 2,
    PlayerPositionUpdate |-> 3, PlayerSpawnCar |-> 4, PlayerMountCar |-> 5,
    PlayerUnmountCar |-> 6, PlayerEquipItem |-> 7, PlayerShoot |-> 8]

EMessageTypeClientbound == [
    InitAuthResult |-> 0, SpawnEntity |-> 1, TeleportEntity |-> 2,
    DestroyEntity |-> 3, EquipItemEntity |-> 4]

-----------------------------------------------------------------------------
(* The mirrors of NativeLayer. *)

MirrorPlayerJoinWorld == <<F("position", "Vector3")>>
MirrorPlayerActionTracked == <<F("action", "u8"), F("worldTransform", "Vector3")>>
MirrorPlayerPositionUpdate == <<F("worldTransform", "Vector3"), F("yaw", "f32")>>

(* Mutant: the fields of PlayerSpawnCar in another order.                   *)
SwappedPlayerSpawnCar ==
    <<F("recordId", "u64"), F("worldTransform", "Vector3"), F("yaw", "f32")>>

MirrorPlayerSpawnCar ==
    <<F("worldTransform", "Vector3"), F("yaw", "f32"), F("recordId", "u64")>>

MirrorPlayerUnmountCar == <<>>
MirrorPlayerEquipItem ==
    <<F("slot", "u64"), F("itemId", "u64"), F("isWeapon", "bool"), F("isUnequipping", "bool")>>
MirrorPlayerShoot ==
    <<F("itemIdWeapon", "u64"), F("startPoint", "Vector3"), F("charge", "f32")>>
MirrorInitAuth == <<F("username", "char255"), F("protocol_version", "u32")>>
MirrorAuthResult == <<F("auth_result", "u8"), F("protocol_version", "u32")>>
MirrorSpawnEntity ==
    <<F("networkedEntityId", "u64"), F("recordId", "u64"), F("spawnPosition", "Vector3")>>
MirrorDestroyEntity == <<F("networkedEntityId", "u64")>>
MirrorTeleportEntity ==
    <<F("networkedEntityId", "u64"), F("targetPosition", "Vector3"), F("yaw", "f32")>>
MirrorEquipItemEntity ==
    <<F("networkedEntityId", "u64"), F("slot", "u64"), F("itemId", "u64"),
      F("isWeapon", "bool"), F("isUnequipping", "bool")>>
MirrorMessage ==
    <<F("channelId", "u8"), F("messageType", "u16"), F("connectionId", "u32"), F("data", "u64")>>

MirrorTypesServerbound == [
    InitAuth |-> 0, PlayerJoinWorld |-> 1, PlayerActionTracked |-> 2,
    PlayerPositionUpdate |-> 3, PlayerSpawnCar |-> 4, PlayerMountCar |-> 5,
    PlayerUnmountCar |-> 6, PlayerEquipItem |-> 7, PlayerShoot |-> 8]

MirrorTypesClientbound == [
    InitAuthResult |-> 0, SpawnEntity |-> 1, TeleportEntity |-> 2,
    DestroyEntity |-> 3, EquipItemEntity |-> 4]

-----------------------------------------------------------------------------
ServerboundPackets == DOMAIN WorldPacketsServerBound \cup {"InitAuth"}
ClientboundPackets == DOMAIN WorldPacketsClientBound \cup {"InitAuthResult"}

Fields(half, p) ==
    IF half = "native"
    THEN CASE p \in DOMAIN WorldPacketsServerBound -> WorldPacketsServerBound[p]
           [] p \in DOMAIN WorldPacketsClientBound -> WorldPacketsClientBound[p]
           [] p = "InitAuth" -> InitAuthServerBoundCSharp
           [] p = "InitAuthResult" -> AuthResultClientBound
           [] p = "Message" -> Message
    ELSE CASE p = "PlayerJoinWorld" -> MirrorPlayerJoinWorld
           [] p = "PlayerActionTracked" -> MirrorPlayerActionTracked
           [] p = "PlayerPositionUpdate" -> MirrorPlayerPositionUpdate
           [] p = "PlayerSpawnCar" -> MirrorPlayerSpawnCar
           [] p = "PlayerUnmountCar" -> MirrorPlayerUnmountCar
           [] p = "PlayerEquipItem" -> MirrorPlayerEquipItem
           [] p = "PlayerShoot" -> MirrorPlayerShoot
           [] p = "InitAuth" -> MirrorInitAuth
           [] p = "InitAuthResult" -> MirrorAuthResult
           [] p = "SpawnEntity" -> MirrorSpawnEntity
           [] p = "DestroyEntity" -> MirrorDestroyEntity
           [] p = "TeleportEntity" -> MirrorTeleportEntity
           [] p = "EquipItemEntity" -> MirrorEquipItemEntity
           [] p = "Message" -> MirrorMessage

(* Messages cross in both directions and have no messageType of their own.  *)
Numbers(half, p) ==
    CASE p \in ServerboundPackets ->
            IF half = "native" THEN EMessageTypeServerbound ELSE MirrorTypesServerbound
      [] p \in ClientboundPackets ->
            IF half = "native" THEN EMessageTypeClientbound ELSE MirrorTypesClientbound
      [] OTHER -> [Message |-> 0]

-----------------------------------------------------------------------------
(* Sequential layout: each field at the next multiple of its alignment, the *)
(* struct as long as a multiple of the largest, and never empty.           *)

SizeOf(half, type) ==
    CASE type = "bool" -> IF half = "native" THEN 1 ELSE 4
      [] type = "u8" -> 1
      [] type = "u16" -> 2
      [] type \in {"u32", "f32"} -> 4
      [] type = "u64" -> 8
      [] type = "Vector3" -> 12
      [] type = "char255" -> 255

(* Mutant: Pack = 1 instead of Pack = 8.                                    *)
AlignmentPacked(half, type) ==
    IF half = "managed" \/ type = "char255" THEN 1
    ELSE IF type = "Vector3" THEN 4 ELSE SizeOf(half, type)

Alignment(half, type) ==
    CASE type = "Vector3" -> 4
      [] type = "char255" -> 1
      [] OTHER -> SizeOf(half, type)

RoundUp(n, alignment) == ((n + alignment - 1) \div alignment) * alignment

(* Where the fields of a struct begin, and after them where it ends.        *)
Offsets(half, p) ==
    LET fields == Fields(half, p)
        alignments == {Alignment(half, fields[i].type) : i \in DOMAIN fields} \cup {1}
        AlignmentAt(i) == IF i \in DOMAIN fields
                          THEN Alignment(half, fields[i].type)
                          ELSE Max(alignments)
        begin[i \in 1 .. Len(fields) + 1] ==
            IF i = 1
            THEN 0
            ELSE RoundUp(begin[i - 1] + SizeOf(half, fields[i - 1].type), AlignmentAt(i))
    IN  begin

SizeOfStruct(half, p) ==
    IF Fields(half, p) = <<>> THEN 1 ELSE Offsets(half, p)[Len(Fields(half, p)) + 1]

-----------------------------------------------------------------------------
Number(n) == <<"number", n>>
Part(field, k) == <<field, k>>

(* The k-th byte of a field; a bool is the number 1 or 0, least byte first. *)
ByteOf(field, k, values) ==
    IF field.type = "bool"
    THEN Number(IF k = 0 /\ values[field.name] THEN 1 ELSE 0)
    ELSE Part(field.name, k)

Bools(p) ==
    {field.name : field \in {f \in {Fields("native", p)[i] : i \in DOMAIN Fields("native", p)} :
                                f.type = "bool"}}

(* The writer fills a struct of its own layout in memory it asked for.      *)
Laid(half, p, values, padding) ==
    LET fields == Fields(half, p)
        begin == Offsets(half, p)
    IN  [offset \in 0 .. SizeOfStruct(half, p) - 1 |->
            LET at == {i \in DOMAIN fields :
                          offset \in begin[i] .. begin[i] + SizeOf(half, fields[i].type) - 1}
            IN  IF at = {}
                THEN Number(padding)
                ELSE LET i == CHOOSE i \in at : TRUE
                     IN  ByteOf(fields[i], offset - begin[i], values)]

(* The types the reader may take a packet for, by the writer's number.      *)
TakenFor(from, to, p) == {q \in DOMAIN Numbers(to, p) : Numbers(to, p)[q] = Numbers(from, p)[p]}

(* The bytes the reader finds where its mirror has the i-th field; past the *)
(* end of the memory they are anything.                                    *)
BytesRead(half, p, i, memory) ==
    [k \in 0 .. SizeOf(half, Fields(half, p)[i].type) - 1 |->
        LET offset == Offsets(half, p)[i] + k
        IN  IF offset \in DOMAIN memory THEN memory[offset] ELSE Number(-1)]

BytesWritten(half, p, i, values) ==
    LET field == Fields(half, p)[i]
    IN  [k \in 0 .. SizeOf(half, field.type) - 1 |-> ByteOf(field, k, values)]

Flag(bytes) == \E k \in DOMAIN bytes : bytes[k] # Number(0)

Writings(p) == [values : [Bools(p) -> BOOLEAN], padding : {0, 1}]

(* A packet is taken for what it is, and its fields but for the bools are   *)
(* read as they were written, whatever stands between them.                *)
Arrives(from, to, p) ==
    /\ TakenFor(from, to, p) = {p}
    /\ DOMAIN Fields(from, p) = DOMAIN Fields(to, p)
    /\ \A w \in Writings(p), i \in DOMAIN Fields(from, p) :
         Fields(from, p)[i].type # "bool" =>
             BytesRead(to, p, i, Laid(from, p, w.values, w.padding))
               = BytesWritten(from, p, i, w.values)

(* The bools are read as they were written: a bool is whether any of its    *)
(* bytes is set.                                                           *)
FlagsArrive(from, to, p) ==
    \A w \in Writings(p), i \in DOMAIN Fields(to, p) :
        LET field == Fields(to, p)[i]
        IN  field.type = "bool" =>
                Flag(BytesRead(to, p, i, Laid(from, p, w.values, w.padding)))
                  = w.values[field.name]

(* The reader, which trusts its own sizeof, reads no more than was asked    *)
(* for by the writer, which trusts its own.                                *)
Fits(from, to, p) == SizeOfStruct(to, p) <= SizeOfStruct(from, p)

=============================================================================
