---------------------------- MODULE MCMarshalling ----------------------------
(* A small heap for TLC, and every type of packet.  PlayerActionTracked has *)
(* no handler.                                                             *)
EXTENDS Marshalling

CONSTANTS a1, a2, a3

ThreeAddresses == {a1, a2, a3}
AllServerbound == Layout!ServerboundPackets
WithHandler == Layout!ServerboundPackets \ {"PlayerActionTracked"}
AllClientbound == Layout!ClientboundPackets

Symmetry == Permutations(Addresses)
=============================================================================
