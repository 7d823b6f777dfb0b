----------------------------- MODULE Marshalling -----------------------------
(***************************************************************************)
(* MessageBuffers and PacketLayout together: what the two halves of the     *)
(* server make of the memory they hand each other.  A packet that was       *)
(* received is laid out by the native half and read, when it is marshalled, *)
(* by the managed one; a packet of a handler goes the other way.  Messages, *)
(* the structs of the queues, go both ways.                                *)
(***************************************************************************)
EXTENDS MessageBuffers

Layout == INSTANCE PacketLayout

ASSUME LayoutAssumption ==
    /\ Serverbound \subseteq Layout!ServerboundPackets
    /\ Clientbound \subseteq Layout!ClientboundPackets

Received(OK(_, _, _)) == [p \in Serverbound \cup {"Message"} |-> OK("native", "managed", p)]
Replied(OK(_, _, _)) == [p \in Clientbound \cup {"Message"} |-> OK("managed", "native", p)]

ReceivedArrive == Received(Layout!Arrives)
RepliedArrive == Replied(Layout!Arrives)
ReceivedFit == Received(Layout!Fits)
RepliedFit == Replied(Layout!Fits)
ReceivedFlagsArrive == Received(Layout!FlagsArrive)
RepliedFlagsArrive == Replied(Layout!FlagsArrive)

Types(packets) == {packets[i].type : i \in DOMAIN packets}
MessageTypes(messages) == {messages[i].messageType : i \in DOMAIN messages}

-----------------------------------------------------------------------------
(* Two enumerations and fourteen structs are kept by hand in two languages: *)
(* whatever the handlers were given and the network was given is what was   *)
(* received and what was sent, number by number and field by field (but for *)
(* the flags, below), and so is every message that carried it.             *)
FieldsSurvive ==
    /\ \A p \in Types(marshalled) : ReceivedArrive[p] /\ ReceivedArrive["Message"]
    /\ \A p \in Types(serialized) : RepliedArrive[p] /\ RepliedArrive["Message"]

(* No half reads past the end of a packet that waits for it: what the other *)
(* allocated by its own sizeof has room for what this one reads by its.    *)
FitsTheBuffer ==
    /\ \A p \in MessageTypes(recvQueue \o InHand) : ReceivedFit[p]
    /\ \A p \in MessageTypes(sendQueue) : RepliedFit[p]

(* "When adhereing to a C-ABI, they can comfortably marshalled via P/Invoke" *)
(* (README.md): every flag of a packet arrives as it was sent.              *)
FlagsSurvive ==
    /\ \A p \in Types(marshalled) : ReceivedFlagsArrive[p]
    /\ \A p \in Types(serialized) : RepliedFlagsArrive[p]

=============================================================================
