--------------------------- MODULE MessageBuffers ---------------------------
(***************************************************************************)
(* The memory behind the server's two queues.  A Message carries the       *)
(* address of a packet on the native heap: the native half allocates it    *)
(* for a message it received and the managed half frees it when it         *)
(* marshals the packet; for an answer the managed half allocates and       *)
(* ProcessSendQueue frees.  Nothing but this protocol keeps the two from   *)
(* leaking a packet, freeing it twice or reading one that is gone, and     *)
(* malloc gives out again what was freed.                                  *)
(*                                                                         *)
(* External: the network library, which hands over messages that must be   *)
(* given back with Release, and the allocator.                             *)
(***************************************************************************)
EXTENDS Integers, Sequences, FiniteSets, Functions, SequencesExt

CONSTANTS
    Addresses,    \* what malloc and new return
    Null,         \* nullptr, IntPtr.Zero
    Serverbound,  \* the types of packets PollIncomingMessages deserializes
    Handled,      \* those the managed server has a handler for
    Clientbound,  \* the types of packets the handlers send
    MaxReceived,  \* bound: messages the library hands over
    MaxReplies    \* bound: packets the handlers send

ASSUME BuffersAssumption ==
    /\ Null \notin Addresses
    /\ Handled \subseteq Serverbound
    /\ Serverbound \subseteq Handled \cup {"PlayerActionTracked"}
    /\ MaxReceived \in Nat
    /\ MaxReplies \in Nat

VARIABLES
    phase,      \* send, poll, callbacks: Update of the native server; drain,
                \* process, handle: that of the managed one; ended: by an exception
    heap,       \* from the addresses in use to the packets there
    polled,     \* how many messages the library handed over
    held,       \* those of them that were not released
    recvQueue,  \* dll_recv_queue
    sendQueue,  \* dll_send_queue
    msg,        \* the message in the managed Update
    received,   \* history: the packets that were deserialized
    marshalled, \* history: the packets that were marshalled for the handlers
    replied,    \* history: the packets the handlers enqueued
    serialized  \* history: the packets that were serialized for the network

library == <<polled, held>>
inbound == <<recvQueue, received>>
outbound == <<sendQueue, replied>>
vars == <<phase, heap, library, inbound, outbound, msg, marshalled, serialized>>

(* Packets are told apart by the order of their making.                    *)
Packet(type, history) == [type |-> type, no |-> Len(history) + 1]
Garbage == [type |-> "none", no |-> 0]

Message(type, data) == [messageType |-> type, data |-> data]

-----------------------------------------------------------------------------
(* The heap.  Memory that is not in use reads as garbage; freeing it again *)
(* does nothing, unless it is in use again.                                *)

message_data_allocate(address, packet) ==
    /\ address \in Addresses \ DOMAIN heap
    /\ heap' = [a \in DOMAIN heap \cup {address} |-> IF a = address THEN packet ELSE heap[a]]

message_data_release(address) == heap' = Restrict(heap, DOMAIN heap \ {address})

At(address) == IF address \in DOMAIN heap THEN heap[address] ELSE Garbage

-----------------------------------------------------------------------------
(* ProcessSendQueue serializes the packet, and frees it be it sent or not. *)

ProcessSendQueue ==
    /\ phase = "send"
    /\ sendQueue # <<>>
    /\ serialized' = Append(serialized, At(Head(sendQueue).data))
    /\ message_data_release(Head(sendQueue).data)
    /\ sendQueue' = Tail(sendQueue)
    /\ UNCHANGED <<phase, library, inbound, replied, msg, marshalled>>

(* PollIncomingMessages, one turn of its loop: every message is released,  *)
(* be it faulty, of an unknown type or sound.                              *)

ReceiveMessagesOnPollGroup ==
    /\ phase = "poll"
    /\ polled < MaxReceived
    /\ polled' = polled + 1

(* Mutant: a message that is skipped is not released.                      *)
SkipPacket ==
    /\ ReceiveMessagesOnPollGroup
    /\ held' = held + 1
    /\ UNCHANGED <<phase, heap, inbound, outbound, msg, marshalled, serialized>>

RejectPacket ==
    /\ ReceiveMessagesOnPollGroup
    /\ UNCHANGED <<phase, heap, held, inbound, outbound, msg, marshalled, serialized>>

(* A sound packet is copied to the heap (InitAuth by new, others by malloc). *)
AddToRecvQueue(type) ==
    /\ ReceiveMessagesOnPollGroup
    /\ \E buf \in Addresses :
         /\ message_data_allocate(buf, Packet(type, received))
         /\ recvQueue' = Append(recvQueue, Message(type, buf))
    /\ received' = Append(received, Packet(type, received))
    /\ UNCHANGED <<phase, held, outbound, msg, marshalled, serialized>>

-----------------------------------------------------------------------------
(* The managed half. *)

(* An empty queue gives a message without data, which ends the loop.       *)
PollRecvQueue ==
    /\ phase = "drain"
    /\ \/ /\ recvQueue # <<>>
          /\ msg' = Head(recvQueue)
          /\ recvQueue' = Tail(recvQueue)
          /\ phase' = "process"
       \/ /\ recvQueue = <<>>
          /\ msg' = Message("none", Null)
          /\ phase' = "send"
          /\ UNCHANGED recvQueue
    /\ UNCHANGED <<heap, library, received, outbound, marshalled, serialized>>

(* Mutant: every packet without a handler is dropped as it is.             *)
MarshalHandled ==
    IF msg.messageType \in Handled
    THEN marshalled' = Append(marshalled, At(msg.data)) /\ message_data_release(msg.data)
    ELSE UNCHANGED <<marshalled, heap>>

(* MarshalTo copies the packet and frees it at once.  It works on a copy of *)
(* the message: the one in Update keeps its pointer until the next poll.   *)
MarshalTo ==
    /\ marshalled' = Append(marshalled, At(msg.data))
    /\ message_data_release(msg.data)

(* ProcessMessage marshals before the handler runs.  Of what no handler is  *)
(* registered for it marshals PlayerActionTracked, and drops the rest as   *)
(* it is: hence the assumption on Serverbound.                             *)
ProcessMessage ==
    /\ phase = "process"
    /\ IF msg.messageType \in Handled \cup {"PlayerActionTracked"}
       THEN MarshalTo
       ELSE UNCHANGED <<marshalled, heap>>
    /\ phase' = IF msg.messageType \in Handled THEN "handle" ELSE "drain"
    /\ UNCHANGED <<library, inbound, outbound, msg, serialized>>

(* A handler, or the callback for a connection's end, sends a packet: the  *)
(* send queue takes it over.                                               *)
EnqueueMessage(type) ==
    /\ phase \in {"callbacks", "handle"}
    /\ Len(replied) < MaxReplies
    /\ \E data \in Addresses :
         /\ message_data_allocate(data, Packet(type, replied))
         /\ sendQueue' = Append(sendQueue, Message(type, data))
    /\ replied' = Append(replied, Packet(type, replied))
    /\ UNCHANGED <<phase, library, inbound, msg, marshalled, serialized>>

(* Mutant: Update releases its message ("Call this before dropping _this_"). *)
ReleaseAndFinish ==
    /\ phase = "handle"
    /\ phase' = "drain"
    /\ message_data_release(msg.data)
    /\ UNCHANGED <<library, inbound, outbound, msg, marshalled, serialized>>

(* The handler returns, or throws, which nothing catches.                  *)
FinishHandler ==
    /\ phase = "handle"
    /\ phase' \in {"drain", "ended"}
    /\ UNCHANGED <<heap, library, inbound, outbound, msg, marshalled, serialized>>

Advance ==
    /\ \/ phase = "send" /\ sendQueue = <<>> /\ phase' = "poll"
       \/ phase = "poll" /\ phase' = "callbacks"
       \/ phase = "callbacks" /\ phase' = "drain"
    /\ UNCHANGED <<heap, library, inbound, outbound, msg, marshalled, serialized>>

Init ==
    /\ phase = "send"
    /\ heap = [address \in {} |-> Garbage]
    /\ polled = 0
    /\ held = 0
    /\ recvQueue = <<>>
    /\ sendQueue = <<>>
    /\ msg = Message("none", Null)
    /\ received = <<>>
    /\ marshalled = <<>>
    /\ replied = <<>>
    /\ serialized = <<>>

Next ==
    \/ ProcessSendQueue
    \/ RejectPacket
    \/ \E type \in Serverbound : AddToRecvQueue(type)
    \/ PollRecvQueue
    \/ ProcessMessage
    \/ \E type \in Clientbound : EnqueueMessage(type)
    \/ FinishHandler
    \/ Advance

Spec == Init /\ [][Next]_vars

-----------------------------------------------------------------------------
(* The packet of the message that Update has polled and not yet processed. *)
InHand == IF phase = "process" THEN <<msg>> ELSE <<>>

Data(messages) == {messages[i].data : i \in DOMAIN messages}

Distinct(messages) ==
    \A i, j \in DOMAIN messages : messages[i].data = messages[j].data => i = j

(* Two halves in two languages share one heap: every packet on it is to be *)
(* freed by exactly one message, of one queue or in hand, and every library *)
(* message was released.  A leak, a double free or a pointer to freed      *)
(* memory would break it.                                                  *)
OneOwner ==
    /\ held = 0
    /\ DOMAIN heap = Data(recvQueue) \cup Data(InHand) \cup Data(sendQueue)
    /\ Distinct(recvQueue) /\ Distinct(sendQueue)
    /\ Data(recvQueue) \cap Data(sendQueue) = {}
    /\ Data(InHand) \cap (Data(recvQueue) \cup Data(sendQueue)) = {}

PacketsOf(messages) == [i \in DOMAIN messages |-> At(messages[i].data)]

(* Whatever is freed and allocated in between, what the handlers are given *)
(* and what the network is given is what was received and what was sent,   *)
(* complete and in order, and a packet is read as the type it was made of. *)
PacketsSurvive ==
    /\ received = marshalled \o PacketsOf(InHand) \o PacketsOf(recvQueue)
    /\ replied = serialized \o PacketsOf(sendQueue)
    /\ \A queue \in {recvQueue, InHand, sendQueue} : \A i \in DOMAIN queue :
         At(queue[i].data).type = queue[i].messageType

=============================================================================
