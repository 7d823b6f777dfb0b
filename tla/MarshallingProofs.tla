-------------------------- MODULE MarshallingProofs --------------------------
(***************************************************************************)
(* Proofs about MessageBuffers and Marshalling.  Whatever the allocator    *)
(* returns and however many packets there are, each has one owner and      *)
(* survives; and whatever its flags and the padding between its fields,    *)
(* each is laid out by one half where the other reads it.                  *)
(***************************************************************************)
EXTENDS Marshalling, FiniteSetTheorems, SequenceTheorems, TLAPS

(* Of these facts only the induction is used, which is about no Op.         *)
Counting == INSTANCE SequenceFacts WITH Op <- Layout!RoundUp

Messages(types) == [messageType : types, data : Addresses]

(* The queues hold messages with data, and so does msg while its packet is  *)
(* still to be marshalled.                                                 *)
Shape ==
    /\ recvQueue \in Seq(Messages(Serverbound))
    /\ sendQueue \in Seq(Messages(Clientbound))
    /\ phase = "process" => msg \in Messages(Serverbound)

IInv == Shape /\ OneOwner

-----------------------------------------------------------------------------
(* What a queue owns when a message joins it ...                           *)
LEMMA DataOfAppend ==
    ASSUME NEW types, NEW queue \in Seq(Messages(types)), NEW m \in Messages(types)
    PROVE  /\ Append(queue, m) \in Seq(Messages(types))
           /\ Data(Append(queue, m)) = Data(queue) \cup {m.data}
           /\ Distinct(queue) /\ m.data \notin Data(queue) => Distinct(Append(queue, m))
<1> DEFINE longer == Append(queue, m)
<1>1. /\ longer \in Seq(Messages(types))
      /\ Len(queue) \in Nat
      /\ DOMAIN queue = 1 .. Len(queue)
      /\ DOMAIN longer = 1 .. Len(queue) + 1
      /\ \A i \in 1 .. Len(queue) : longer[i] = queue[i]
      /\ longer[Len(queue) + 1] = m
  OBVIOUS
<1> HIDE DEF longer
<1>2. Data(longer) = Data(queue) \cup {m.data}
  <2>1. Data(longer) \subseteq Data(queue) \cup {m.data}
    BY <1>1 DEF Data
  <2>2. Data(queue) \subseteq Data(longer)
    BY <1>1 DEF Data
  <2>3. m.data \in Data(longer)
    <3>1. Len(queue) + 1 \in DOMAIN longer
      BY <1>1
    <3> QED  BY <1>1, <3>1 DEF Data
  <2> QED  BY <2>1, <2>2, <2>3
<1>3. ASSUME Distinct(queue), m.data \notin Data(queue)
      PROVE  Distinct(longer)
  BY <1>1, <1>3 DEF Distinct, Data
<1> QED
  BY <1>1, <1>2, <1>3 DEF longer

(* ... and when its first message leaves.                                  *)
LEMMA DataOfTail ==
    ASSUME NEW types, NEW queue \in Seq(Messages(types)), queue # <<>>, Distinct(queue)
    PROVE  /\ Tail(queue) \in Seq(Messages(types))
           /\ Head(queue) \in Messages(types)
           /\ Data(queue) = Data(Tail(queue)) \cup {Head(queue).data}
           /\ Head(queue).data \notin Data(Tail(queue))
           /\ Distinct(Tail(queue))
<1> DEFINE rest == Tail(queue)
<1>1. /\ rest \in Seq(Messages(types))
      /\ Len(queue) \in Nat \ {0}
      /\ DOMAIN queue = 1 .. Len(queue)
      /\ DOMAIN rest = 1 .. Len(queue) - 1
      /\ \A i \in 1 .. Len(queue) - 1 : rest[i] = queue[i + 1]
      /\ Head(queue) = queue[1]
      /\ queue[1] \in Messages(types)
  OBVIOUS
<1> HIDE DEF rest
<1>2. Data(rest) \cup {Head(queue).data} \subseteq Data(queue)
  BY <1>1 DEF Data
<1>3. Data(queue) \subseteq Data(rest) \cup {Head(queue).data}
  <2> SUFFICES ASSUME NEW i \in DOMAIN queue
               PROVE  queue[i].data \in Data(rest) \cup {Head(queue).data}
    BY DEF Data
  <2>1. CASE i = 1
    BY <1>1, <2>1
  <2>2. CASE i # 1
    <3>1. i - 1 \in DOMAIN rest /\ rest[i - 1] = queue[i]
      BY <1>1, <2>2
    <3> QED  BY <3>1 DEF Data
  <2> QED  BY <2>1, <2>2
<1>4. Head(queue).data \notin Data(rest)
  <2> SUFFICES ASSUME NEW i \in DOMAIN rest, rest[i].data = queue[1].data PROVE FALSE
    BY <1>1 DEF Data
  <2>1. i + 1 \in DOMAIN queue /\ 1 \in DOMAIN queue /\ queue[i + 1].data = queue[1].data
    BY <1>1
  <2>2. i + 1 = 1
    BY <2>1 DEF Distinct
  <2> QED  BY <1>1, <2>2
<1>5. Distinct(rest)
  <2> SUFFICES ASSUME NEW i \in DOMAIN rest, NEW j \in DOMAIN rest,
                      rest[i].data = rest[j].data
               PROVE  i = j
    BY DEF Distinct
  <2>1. i + 1 \in DOMAIN queue /\ j + 1 \in DOMAIN queue
        /\ queue[i + 1].data = queue[j + 1].data
    BY <1>1
  <2>2. i + 1 = j + 1
    BY <2>1 DEF Distinct
  <2> QED  BY <1>1, <2>2
<1> QED
  BY <1>1, <1>2, <1>3, <1>4, <1>5 DEF rest

(* What the allocator gives out is in use from then on, what is released is *)
(* not.                                                                    *)
LEMMA HeapAfter ==
    ASSUME NEW address, NEW packet
    PROVE  /\ message_data_allocate(address, packet) =>
                /\ address \in Addresses
                /\ address \notin DOMAIN heap
                /\ DOMAIN heap' = DOMAIN heap \cup {address}
           /\ message_data_release(address) => DOMAIN heap' = DOMAIN heap \ {address}
  BY DEF message_data_allocate, message_data_release, Restrict

(* No packet is in hand, or msg's is.                                      *)
LEMMA DataInHand ==
    /\ phase # "process" => Data(InHand) = {}
    /\ phase = "process" => Data(InHand) = {msg.data}
  BY DEF Data, InHand

-----------------------------------------------------------------------------
LEMMA InitEstablishes ==
    ASSUME Init
    PROVE  IInv
  BY DEF Init, IInv, Shape, OneOwner, InHand, Data, Distinct

LEMMA SendKeeps ==
    ASSUME IInv, ProcessSendQueue
    PROVE  IInv'
<1>1. /\ phase = "send" /\ sendQueue # <<>> /\ sendQueue' = Tail(sendQueue)
      /\ UNCHANGED <<phase, held, recvQueue, msg>>
      /\ DOMAIN heap' = DOMAIN heap \ {Head(sendQueue).data}
  BY HeapAfter DEF ProcessSendQueue, library, inbound
<1>2. Data(InHand) = {} /\ Data(InHand)' = {}
  BY <1>1 DEF InHand, Data
<1>3. /\ sendQueue' \in Seq(Messages(Clientbound))
      /\ Data(sendQueue) = Data(sendQueue') \cup {Head(sendQueue).data}
      /\ Head(sendQueue).data \notin Data(sendQueue')
      /\ Distinct(sendQueue')
  BY <1>1, DataOfTail DEF IInv, Shape, OneOwner
<1>4. Data(recvQueue)' = Data(recvQueue) /\ Data(sendQueue)' = Data(sendQueue')
      /\ Distinct(recvQueue)' = Distinct(recvQueue) /\ Distinct(sendQueue)' = Distinct(sendQueue')
  BY <1>1 DEF Data, Distinct
<1>5. Shape'
  BY <1>1, <1>3 DEF IInv, Shape
<1>6. OneOwner'
  BY <1>1, <1>2, <1>3, <1>4 DEF IInv, OneOwner
<1> QED
  BY <1>5, <1>6 DEF IInv

LEMMA ReceiveKeeps ==
    ASSUME IInv, NEW type \in Serverbound, AddToRecvQueue(type)
    PROVE  IInv'
<1>1. PICK buf \in Addresses :
        /\ message_data_allocate(buf, Packet(type, received))
        /\ recvQueue' = Append(recvQueue, Message(type, buf))
  BY DEF AddToRecvQueue
<1>2. /\ phase = "poll" /\ UNCHANGED <<phase, held, sendQueue, msg>>
      /\ buf \notin DOMAIN heap
      /\ DOMAIN heap' = DOMAIN heap \cup {buf}
  BY <1>1, HeapAfter DEF AddToRecvQueue, ReceiveMessagesOnPollGroup, outbound
<1>3. Data(InHand) = {} /\ Data(InHand)' = {}
  BY <1>2 DEF InHand, Data
<1>4. Message(type, buf) \in Messages(Serverbound) /\ Message(type, buf).data = buf
  BY DEF Message, Messages
<1>5. buf \notin Data(recvQueue) /\ buf \notin Data(sendQueue)
  BY <1>2 DEF IInv, OneOwner
<1>6. /\ recvQueue' \in Seq(Messages(Serverbound))
      /\ Data(recvQueue') = Data(recvQueue) \cup {buf}
      /\ Distinct(recvQueue')
  BY <1>1, <1>4, <1>5, DataOfAppend DEF IInv, Shape, OneOwner
<1>7. Data(recvQueue)' = Data(recvQueue') /\ Data(sendQueue)' = Data(sendQueue)
      /\ Distinct(recvQueue)' = Distinct(recvQueue') /\ Distinct(sendQueue)' = Distinct(sendQueue)
  BY <1>2 DEF Data, Distinct
<1>8. Shape'
  BY <1>2, <1>6 DEF IInv, Shape
<1>9. OneOwner'
  BY <1>2, <1>3, <1>5, <1>6, <1>7 DEF IInv, OneOwner
<1> QED
  BY <1>8, <1>9 DEF IInv

LEMMA EnqueueKeeps ==
    ASSUME IInv, NEW type \in Clientbound, EnqueueMessage(type)
    PROVE  IInv'
<1>1. PICK data \in Addresses :
        /\ message_data_allocate(data, Packet(type, replied))
        /\ sendQueue' = Append(sendQueue, Message(type, data))
  BY DEF EnqueueMessage
<1>2. /\ phase # "process" /\ UNCHANGED <<phase, held, recvQueue, msg>>
      /\ data \notin DOMAIN heap
      /\ DOMAIN heap' = DOMAIN heap \cup {data}
  BY <1>1, HeapAfter DEF EnqueueMessage, library, inbound
<1>3. Data(InHand) = {} /\ Data(InHand)' = {}
  BY <1>2 DEF InHand, Data
<1>4. Message(type, data) \in Messages(Clientbound) /\ Message(type, data).data = data
  BY DEF Message, Messages
<1>5. data \notin Data(recvQueue) /\ data \notin Data(sendQueue)
  BY <1>2 DEF IInv, OneOwner
<1>6. /\ sendQueue' \in Seq(Messages(Clientbound))
      /\ Data(sendQueue') = Data(sendQueue) \cup {data}
      /\ Distinct(sendQueue')
  BY <1>1, <1>4, <1>5, DataOfAppend DEF IInv, Shape, OneOwner
<1>7. Data(recvQueue)' = Data(recvQueue) /\ Data(sendQueue)' = Data(sendQueue')
      /\ Distinct(recvQueue)' = Distinct(recvQueue) /\ Distinct(sendQueue)' = Distinct(sendQueue')
  BY <1>2 DEF Data, Distinct
<1>8. Shape'
  BY <1>2, <1>6 DEF IInv, Shape
<1>9. OneOwner'
  BY <1>2, <1>3, <1>5, <1>6, <1>7 DEF IInv, OneOwner
<1> QED
  BY <1>8, <1>9 DEF IInv

LEMMA PollKeeps ==
    ASSUME IInv, PollRecvQueue
    PROVE  IInv'
<1>1. phase = "drain" /\ UNCHANGED <<heap, held, sendQueue>>
  BY DEF PollRecvQueue, library, outbound
<1>2. Data(InHand) = {}
  BY <1>1 DEF InHand, Data
<1>3. CASE recvQueue = <<>>
  <2>1. phase' = "send" /\ UNCHANGED recvQueue
    BY <1>3 DEF PollRecvQueue
  <2>2. Data(InHand)' = {}
    BY <2>1 DEF InHand, Data
  <2>3. Data(recvQueue)' = Data(recvQueue) /\ Data(sendQueue)' = Data(sendQueue)
        /\ Distinct(recvQueue)' = Distinct(recvQueue) /\ Distinct(sendQueue)' = Distinct(sendQueue)
    BY <1>1, <2>1 DEF Data, Distinct
  <2>4. Shape'
    BY <1>1, <2>1 DEF IInv, Shape
  <2>5. OneOwner'
    BY <1>1, <1>2, <2>1, <2>2, <2>3 DEF IInv, OneOwner
  <2> QED  BY <2>4, <2>5 DEF IInv
<1>4. CASE recvQueue # <<>>
  <2>1. phase' = "process" /\ msg' = Head(recvQueue) /\ recvQueue' = Tail(recvQueue)
    BY <1>4 DEF PollRecvQueue
  <2>2. Data(InHand)' = {Head(recvQueue).data}
    BY <2>1 DEF InHand, Data
  <2>3. /\ recvQueue' \in Seq(Messages(Serverbound))
        /\ Head(recvQueue) \in Messages(Serverbound)
        /\ Data(recvQueue) = Data(recvQueue') \cup {Head(recvQueue).data}
        /\ Head(recvQueue).data \notin Data(recvQueue')
        /\ Distinct(recvQueue')
    BY <1>4, <2>1, DataOfTail DEF IInv, Shape, OneOwner
  <2>4. Data(recvQueue)' = Data(recvQueue') /\ Data(sendQueue)' = Data(sendQueue)
        /\ Distinct(recvQueue)' = Distinct(recvQueue') /\ Distinct(sendQueue)' = Distinct(sendQueue)
    BY <1>1 DEF Data, Distinct
  <2>5. Shape'
    BY <1>1, <2>1, <2>3 DEF IInv, Shape
  <2>6. OneOwner'
    BY <1>1, <1>2, <2>2, <2>3, <2>4 DEF IInv, OneOwner
  <2> QED  BY <2>5, <2>6 DEF IInv
<1> QED
  BY <1>3, <1>4

LEMMA ProcessKeeps ==
    ASSUME IInv, ProcessMessage
    PROVE  IInv'
<1>1. /\ phase = "process" /\ phase' # "process"
      /\ UNCHANGED <<held, recvQueue, sendQueue>>
      /\ DOMAIN heap' = DOMAIN heap \ {msg.data}
  <2>1. msg.messageType \in Handled \cup {"PlayerActionTracked"}
    <3>1. phase = "process" /\ msg.messageType \in Serverbound
      BY DEF ProcessMessage, IInv, Shape, Messages
    <3> QED  BY <3>1, BuffersAssumption DEF BuffersAssumption
  <2>2. phase = "process" /\ message_data_release(msg.data)
    BY <2>1 DEF ProcessMessage, MarshalTo
  <2> QED  BY <2>2, HeapAfter DEF ProcessMessage, library, inbound, outbound
<1>2. Data(InHand) = {msg.data} /\ Data(InHand)' = {}
  BY <1>1 DEF InHand, Data
<1>3. Data(recvQueue)' = Data(recvQueue) /\ Data(sendQueue)' = Data(sendQueue)
      /\ Distinct(recvQueue)' = Distinct(recvQueue) /\ Distinct(sendQueue)' = Distinct(sendQueue)
  BY <1>1 DEF Data, Distinct
<1>4. Shape'
  BY <1>1 DEF IInv, Shape
<1>5. OneOwner'
  BY <1>1, <1>2, <1>3 DEF IInv, OneOwner
<1> QED
  BY <1>4, <1>5 DEF IInv

(* The other steps neither allocate nor free.                              *)
LEMMA OthersKeep ==
    ASSUME IInv, UNCHANGED <<heap, held, recvQueue, sendQueue>>,
           \/ phase # "process" /\ phase' # "process"
           \/ UNCHANGED <<phase, msg>>
    PROVE  IInv'
<1>1. Data(InHand)' = Data(InHand)
  BY DEF InHand, Data
<1>2. Data(recvQueue)' = Data(recvQueue) /\ Data(sendQueue)' = Data(sendQueue)
      /\ Distinct(recvQueue)' = Distinct(recvQueue) /\ Distinct(sendQueue)' = Distinct(sendQueue)
  BY DEF Data, Distinct
<1>3. Shape'
  BY DEF IInv, Shape
<1>4. OneOwner'
  BY <1>1, <1>2 DEF IInv, OneOwner
<1> QED
  BY <1>3, <1>4 DEF IInv

LEMMA StepPreserves ==
    ASSUME IInv, [Next]_vars
    PROVE  IInv'
<1>1. CASE RejectPacket
  BY <1>1, OthersKeep DEF RejectPacket, ReceiveMessagesOnPollGroup, inbound, outbound
<1>2. CASE FinishHandler
  BY <1>2, OthersKeep DEF FinishHandler, library, inbound, outbound
<1>3. CASE Advance
  BY <1>3, OthersKeep DEF Advance, library, inbound, outbound
<1>4. CASE UNCHANGED vars
  BY <1>4, OthersKeep DEF vars, library, inbound, outbound
<1> QED
  BY <1>1, <1>2, <1>3, <1>4, SendKeeps, ReceiveKeeps, EnqueueKeeps, PollKeeps, ProcessKeeps
     DEF Next

(* Every packet on the native heap is to be freed by exactly one message,   *)
(* for any allocator, any number of packets and any mix of handled,        *)
(* unhandled and faulty ones.                                              *)
THEOREM EveryPacketHasOneOwner == Spec => []OneOwner
<1>1. Init => IInv
  BY InitEstablishes
<1>2. IInv /\ [Next]_vars => IInv'
  BY StepPreserves
<1> QED
  BY <1>1, <1>2, PTL DEF Spec, IInv

-----------------------------------------------------------------------------
(* What the packets contain. *)

Packets == [type : Serverbound \cup Clientbound \cup {"none"}, no : Nat]

(* Every packet was made of a message's type.                              *)
Filled ==
    /\ \A address \in DOMAIN heap : heap[address] \in Packets
    /\ received \in Seq(Packets) /\ marshalled \in Seq(Packets)
    /\ replied \in Seq(Packets) /\ serialized \in Seq(Packets)

Typed(queue) == \A i \in DOMAIN queue : At(queue[i].data).type = queue[i].messageType

(* What was marshalled, with the packet that is about to be.               *)
Due == IF phase = "process" THEN Append(marshalled, At(msg.data)) ELSE marshalled

Contents ==
    /\ Filled
    /\ received = Due \o PacketsOf(recvQueue)
    /\ replied = serialized \o PacketsOf(sendQueue)
    /\ Typed(recvQueue) /\ Typed(sendQueue)
    /\ phase = "process" => At(msg.data).type = msg.messageType

CInv == IInv /\ Contents

(* The first of the rest goes over.                                        *)
LEMMA GoesOver ==
    ASSUME NEW S, NEW done \in Seq(S), NEW rest \in Seq(S), rest # <<>>
    PROVE  done \o rest = Append(done, Head(rest)) \o Tail(rest)
<1>1. /\ Head(rest) \in S /\ Tail(rest) \in Seq(S) /\ <<Head(rest)>> \in Seq(S)
      /\ Head(rest) = rest[1] /\ Len(rest) \in Nat \ {0}
  BY HeadTailProperties, EmptySeq
<1>2. rest = <<Head(rest)>> \o Tail(rest)
  <2>1. SubSeq(rest, 1, Len(rest)) = <<rest[1]>> \o SubSeq(rest, 1 + 1, Len(rest))
    BY <1>1, SubSeqRecursiveFirst
  <2> QED  BY <1>1, <2>1, SubSeqFull, TailIsSubSeq
<1>3. Append(done, Head(rest)) = done \o <<Head(rest)>>
  BY <1>1, AppendIsConcat
<1>4. (done \o <<Head(rest)>>) \o Tail(rest) = done \o (<<Head(rest)>> \o Tail(rest))
  BY <1>1, ConcatAssociative
<1> QED  BY <1>2, <1>3, <1>4

LEMMA AtIsPacket ==
    ASSUME Filled, NEW address
    PROVE  At(address) \in Packets
  BY DEF Filled, At, Packets, Garbage

(* What is allocated or released at one address says nothing of the others. *)
LEMMA HeapKeepsOthers ==
    ASSUME NEW address, NEW packet,
           message_data_allocate(address, packet) \/ message_data_release(address)
    PROVE  /\ message_data_allocate(address, packet) => At(address)' = packet
           /\ \A a : a # address => At(a)' = At(a)
           /\ packet \in Packets /\ Filled =>
                 \A a \in DOMAIN heap' : heap'[a] \in Packets
<1>1. CASE message_data_allocate(address, packet)
  BY <1>1 DEF message_data_allocate, At, Filled
<1>2. CASE message_data_release(address)
  <2>1. DOMAIN heap' = DOMAIN heap \ {address}
        /\ \A a \in DOMAIN heap' : heap'[a] = heap[a]
    BY <1>2 DEF message_data_release, Restrict
  <2>2. \A a : a # address => At(a)' = At(a)
    BY <2>1 DEF At
  <2>3. message_data_allocate(address, packet) => At(address)' = packet
    BY DEF message_data_allocate, At
  <2> QED  BY <2>1, <2>2, <2>3 DEF Filled
<1> QED  BY <1>1, <1>2

(* The packets of a queue, of a longer one, of the rest.                   *)
LEMMA PacketsOfQueue ==
    ASSUME NEW types, NEW queue \in Seq(Messages(types)), Filled
    PROVE  /\ PacketsOf(queue) \in Seq(Packets)
           /\ Len(PacketsOf(queue)) = Len(queue)
           /\ \A i \in DOMAIN queue : PacketsOf(queue)[i] = At(queue[i].data)
<1>1. DOMAIN queue = 1 .. Len(queue) /\ Len(queue) \in Nat
  BY LenProperties
<1>2. \A i \in 1 .. Len(queue) : At(queue[i].data) \in Packets
  BY AtIsPacket
<1>3. PacketsOf(queue) = [i \in 1 .. Len(queue) |-> At(queue[i].data)]
  BY <1>1 DEF PacketsOf
<1> QED  BY <1>1, <1>2, <1>3

LEMMA PacketsOfAppend ==
    ASSUME NEW types, NEW queue \in Seq(Messages(types)), NEW m \in Messages(types), Filled,
           NEW packet \in Packets, At(m.data)' = packet,
           \A a \in Data(queue) : At(a)' = At(a)
    PROVE  PacketsOf(Append(queue, m))' = Append(PacketsOf(queue), packet)
<1> DEFINE longer == Append(queue, m)
           other == Append(PacketsOf(queue), packet)
<1>1. /\ Len(queue) \in Nat
      /\ \A i \in 1 .. Len(queue) : longer[i] = queue[i]
      /\ longer[Len(queue) + 1] = m
      /\ DOMAIN longer = 1 .. Len(queue) + 1 /\ DOMAIN queue = 1 .. Len(queue)
  BY AppendProperties, LenProperties
<1> HIDE DEF longer
<1>2. /\ PacketsOf(queue) \in Seq(Packets)
      /\ Len(PacketsOf(queue)) = Len(queue)
      /\ \A i \in 1 .. Len(queue) : PacketsOf(queue)[i] = At(queue[i].data)
  BY <1>1, PacketsOfQueue
<1>3. /\ other \in Seq(Packets)
      /\ Len(other) = Len(queue) + 1
      /\ \A i \in 1 .. Len(queue) : other[i] = PacketsOf(queue)[i]
      /\ other[Len(queue) + 1] = packet
  BY <1>2, AppendProperties
<1> HIDE DEF other
<1>4. ASSUME NEW i \in 1 .. Len(queue) + 1
      PROVE  At(longer[i].data)' = other[i]
  <2>1. CASE i \in 1 .. Len(queue)
    <3>1. queue[i].data \in Data(queue)
      BY <1>1, <2>1 DEF Data
    <3> QED  BY <1>1, <1>2, <1>3, <2>1, <3>1
  <2>2. CASE i = Len(queue) + 1
    BY <1>1, <1>3, <2>2
  <2> QED  BY <1>1, <2>1, <2>2
<1>5. PacketsOf(longer)' = [i \in 1 .. Len(queue) + 1 |-> other[i]]
  BY <1>1, <1>4 DEF PacketsOf
<1>6. other = [i \in 1 .. Len(queue) + 1 |-> other[i]]
  BY <1>3, LenProperties
<1> QED  BY <1>5, <1>6 DEF longer, other

LEMMA PacketsOfTail ==
    ASSUME NEW types, NEW queue \in Seq(Messages(types)), queue # <<>>, Filled
    PROVE  /\ PacketsOf(queue) # <<>>
           /\ Head(PacketsOf(queue)) = At(Head(queue).data)
           /\ Tail(PacketsOf(queue)) = PacketsOf(Tail(queue))
<1> DEFINE rest == Tail(queue)
           packets == PacketsOf(queue)
           left == Tail(packets)
<1>1. /\ rest \in Seq(Messages(types)) /\ Len(rest) = Len(queue) - 1
      /\ \A i \in 1 .. Len(queue) - 1 : rest[i] = queue[i + 1]
      /\ Head(queue) = queue[1] /\ Len(queue) \in Nat \ {0}
      /\ DOMAIN queue = 1 .. Len(queue) /\ DOMAIN rest = 1 .. Len(queue) - 1
  BY HeadTailProperties, EmptySeq, LenProperties
<1> HIDE DEF rest
<1>2. /\ packets \in Seq(Packets) /\ Len(packets) = Len(queue)
      /\ \A i \in 1 .. Len(queue) : packets[i] = At(queue[i].data)
  BY <1>1, PacketsOfQueue
<1>3. /\ PacketsOf(rest) \in Seq(Packets) /\ Len(PacketsOf(rest)) = Len(queue) - 1
      /\ \A i \in 1 .. Len(queue) - 1 : PacketsOf(rest)[i] = At(rest[i].data)
  BY <1>1, PacketsOfQueue
<1> HIDE DEF packets
<1>4. packets # <<>> /\ Head(packets) = packets[1]
  BY <1>1, <1>2
<1>5. /\ left \in Seq(Packets) /\ Len(left) = Len(queue) - 1
      /\ \A i \in 1 .. Len(queue) - 1 : left[i] = packets[i + 1]
  BY <1>1, <1>2, <1>4, HeadTailProperties
<1> HIDE DEF left
<1>6. ASSUME NEW i \in 1 .. Len(queue) - 1
      PROVE  left[i] = PacketsOf(rest)[i]
  <2>1. i + 1 \in 1 .. Len(queue)
    BY <1>1
  <2> QED  BY <1>1, <1>2, <1>3, <1>5, <2>1
<1>7. left = PacketsOf(rest)
  BY <1>3, <1>5, <1>6, SeqEqual
<1> QED  BY <1>1, <1>2, <1>4, <1>7 DEF rest, packets, left

(* A queue none of whose packets is touched keeps them.                     *)
LEMMA QueueKeeps ==
    ASSUME NEW queue, \A a \in Data(queue) : At(a)' = At(a)
    PROVE  PacketsOf(queue)' = PacketsOf(queue) /\ (Typed(queue)' <=> Typed(queue))
<1>1. \A i \in DOMAIN queue : At(queue[i].data)' = At(queue[i].data)
  BY DEF Data
<1> QED  BY <1>1 DEF PacketsOf, Typed

(* The same of a queue that is a variable and stays.                        *)
LEMMA ReceivedKeep ==
    ASSUME UNCHANGED recvQueue, \A a \in Data(recvQueue) : At(a)' = At(a)
    PROVE  PacketsOf(recvQueue)' = PacketsOf(recvQueue) /\ (Typed(recvQueue)' <=> Typed(recvQueue))
<1>1. PICK queue : queue = recvQueue
  OBVIOUS
<1>2. PacketsOf(recvQueue)' = PacketsOf(queue)' /\ (Typed(recvQueue)' <=> Typed(queue)')
  BY <1>1 DEF PacketsOf, Typed, At
<1> QED  BY <1>1, <1>2, QueueKeeps

LEMMA SentKeep ==
    ASSUME UNCHANGED sendQueue, \A a \in Data(sendQueue) : At(a)' = At(a)
    PROVE  PacketsOf(sendQueue)' = PacketsOf(sendQueue) /\ (Typed(sendQueue)' <=> Typed(sendQueue))
<1>1. PICK queue : queue = sendQueue
  OBVIOUS
<1>2. PacketsOf(sendQueue)' = PacketsOf(queue)' /\ (Typed(sendQueue)' <=> Typed(queue)')
  BY <1>1 DEF PacketsOf, Typed, At
<1> QED  BY <1>1, <1>2, QueueKeeps

(* A new packet is told apart from all before it.                          *)
LEMMA NewPacket ==
    ASSUME NEW type \in Serverbound \cup Clientbound, NEW history \in Seq(Packets)
    PROVE  Packet(type, history) \in Packets /\ Packet(type, history).type = type
  BY LenProperties DEF Packet, Packets

LEMMA SendContents ==
    ASSUME CInv, ProcessSendQueue
    PROVE  Contents'
<1>1. /\ phase = "send" /\ sendQueue # <<>> /\ sendQueue' = Tail(sendQueue)
      /\ UNCHANGED <<phase, recvQueue, received, replied, msg, marshalled>>
      /\ serialized' = Append(serialized, At(Head(sendQueue).data))
      /\ message_data_release(Head(sendQueue).data)
  BY DEF ProcessSendQueue, library, inbound
<1>2. PICK a, rest : a = Head(sendQueue).data /\ rest = Tail(sendQueue)
  OBVIOUS
<1>3. /\ rest \in Seq(Messages(Clientbound))
      /\ Data(sendQueue) = Data(rest) \cup {a} /\ a \notin Data(rest)
  BY <1>1, <1>2, DataOfTail DEF CInv, IInv, Shape, OneOwner
<1>4. a \notin Data(recvQueue)
  BY <1>3 DEF CInv, IInv, OneOwner
<1>5. /\ \A b : b # a => At(b)' = At(b)
      /\ \A b \in DOMAIN heap' : heap'[b] \in Packets
  <2>1. Garbage \in Packets /\ Filled
    BY DEF Garbage, Packets, CInv, Contents
  <2> QED  BY <1>1, <1>2, <2>1, HeapKeepsOthers
<1>6. /\ PacketsOf(sendQueue) # <<>>
      /\ Head(PacketsOf(sendQueue)) = At(a)
      /\ Tail(PacketsOf(sendQueue)) = PacketsOf(rest)
      /\ PacketsOf(sendQueue) \in Seq(Packets)
  BY <1>1, <1>2, PacketsOfTail, PacketsOfQueue DEF CInv, IInv, Shape, Contents
<1>7. replied = Append(serialized, At(a)) \o PacketsOf(rest)
  BY <1>6, GoesOver DEF CInv, Contents, Filled
<1>8. PacketsOf(rest)' = PacketsOf(rest) /\ (Typed(rest)' <=> Typed(rest))
  BY <1>3, <1>5, QueueKeeps
<1>9. PacketsOf(sendQueue)' = PacketsOf(rest)' /\ (Typed(sendQueue)' <=> Typed(rest)')
  BY <1>1, <1>2 DEF PacketsOf, Typed, At
<1>10. Typed(rest)
  <2>1. \A i \in DOMAIN rest : i + 1 \in DOMAIN sendQueue /\ rest[i] = sendQueue[i + 1]
    BY <1>1, <1>2, HeadTailProperties, LenProperties, EmptySeq DEF CInv, IInv, Shape
  <2> QED  BY <2>1 DEF Typed, CInv, Contents
<1>11. PacketsOf(recvQueue)' = PacketsOf(recvQueue) /\ (Typed(recvQueue)' <=> Typed(recvQueue))
  BY <1>1, <1>4, <1>5, ReceivedKeep
<1>12. Filled'
  <2>1. At(a) \in Packets
    BY AtIsPacket DEF CInv, Contents
  <2>2. serialized' \in Seq(Packets)
    BY <1>1, <1>2, <2>1, AppendProperties DEF CInv, Contents, Filled
  <2> QED  BY <1>1, <1>5, <2>2 DEF CInv, Contents, Filled
<1>13. Due' = Due
  BY <1>1 DEF Due
<1>14. received' = (Due \o PacketsOf(recvQueue))'
  BY <1>1, <1>11, <1>13 DEF CInv, Contents
<1>15. replied' = (serialized \o PacketsOf(sendQueue))'
  BY <1>1, <1>2, <1>7, <1>8, <1>9
<1> QED  BY <1>1, <1>8, <1>9, <1>10, <1>11, <1>12, <1>14, <1>15 DEF CInv, Contents

LEMMA ReceiveContents ==
    ASSUME CInv, NEW type \in Serverbound, AddToRecvQueue(type)
    PROVE  Contents'
<1>1. PICK buf \in Addresses :
        /\ message_data_allocate(buf, Packet(type, received))
        /\ recvQueue' = Append(recvQueue, Message(type, buf))
  BY DEF AddToRecvQueue
<1>2. PICK m, longer : m = Message(type, buf) /\ longer = Append(recvQueue, m)
  OBVIOUS
<1>3. /\ phase = "poll" /\ UNCHANGED <<phase, sendQueue, msg, marshalled, replied, serialized>>
      /\ received' = Append(received, Packet(type, received))
  BY DEF AddToRecvQueue, ReceiveMessagesOnPollGroup, outbound
<1>4. /\ m \in Messages(Serverbound) /\ m.data = buf /\ m.messageType = type
      /\ recvQueue \in Seq(Messages(Serverbound))
      /\ buf \notin DOMAIN heap
      /\ buf \notin Data(recvQueue) /\ buf \notin Data(sendQueue)
  BY <1>1, <1>2 DEF Message, Messages, CInv, IInv, Shape, OneOwner, message_data_allocate
<1>5. PICK packet : packet = Packet(type, received)
  OBVIOUS
<1>6. packet \in Packets /\ packet.type = type
  BY <1>5, NewPacket DEF CInv, Contents, Filled
<1>7. /\ At(buf)' = packet
      /\ \A b : b # buf => At(b)' = At(b)
      /\ \A b \in DOMAIN heap' : heap'[b] \in Packets
  BY <1>1, <1>5, <1>6, HeapKeepsOthers DEF CInv, Contents
<1>8. Filled'
  <2>1. received' \in Seq(Packets)
    BY <1>3, <1>5, <1>6, AppendProperties DEF CInv, Contents, Filled
  <2> QED  BY <1>3, <1>7, <2>1 DEF CInv, Contents, Filled
<1>9. PICK before : before = recvQueue
  OBVIOUS
<1>10. PacketsOf(before)' = PacketsOf(recvQueue) /\ (Typed(before)' <=> Typed(recvQueue))
  BY <1>4, <1>7, <1>9, QueueKeeps
<1>11. PacketsOf(longer)' = Append(PacketsOf(recvQueue), packet)
  BY <1>2, <1>4, <1>6, <1>7, <1>9, PacketsOfAppend DEF CInv, Contents
<1>12. PacketsOf(recvQueue)' = PacketsOf(longer)' /\ (Typed(recvQueue)' <=> Typed(longer)')
  BY <1>1, <1>2 DEF PacketsOf, Typed, At
<1>13. Typed(longer)'
  <2>1. /\ DOMAIN longer = DOMAIN recvQueue \cup {Len(recvQueue) + 1}
        /\ \A i \in DOMAIN recvQueue : longer[i] = recvQueue[i]
        /\ longer[Len(recvQueue) + 1] = m
    BY <1>2, <1>4, AppendProperties, LenProperties
  <2>2. Typed(before)'
    BY <1>10 DEF CInv, Contents
  <2> QED  BY <1>4, <1>6, <1>7, <1>9, <2>1, <2>2 DEF Typed
<1>14. PacketsOf(sendQueue)' = PacketsOf(sendQueue) /\ (Typed(sendQueue)' <=> Typed(sendQueue))
  BY <1>3, <1>4, <1>7, SentKeep
<1>15. Due' = Due /\ Due = marshalled
  BY <1>3 DEF Due
<1>16. received' = Due \o Append(PacketsOf(recvQueue), packet)
  <2>1. PacketsOf(recvQueue) \in Seq(Packets)
    BY <1>4, PacketsOfQueue DEF CInv, Contents
  <2>2. Append(Due \o PacketsOf(recvQueue), packet)
          = Due \o Append(PacketsOf(recvQueue), packet)
    <3>1. Due \in Seq(Packets)
      BY <1>15 DEF CInv, Contents, Filled
    <3>2. Due \o PacketsOf(recvQueue) \in Seq(Packets) /\ <<packet>> \in Seq(Packets)
      BY <1>6, <2>1, <3>1, ConcatProperties
    <3>3. /\ Append(Due \o PacketsOf(recvQueue), packet)
               = (Due \o PacketsOf(recvQueue)) \o <<packet>>
          /\ Append(PacketsOf(recvQueue), packet) = PacketsOf(recvQueue) \o <<packet>>
      BY <1>6, <2>1, <3>2, AppendIsConcat
    <3> QED  BY <2>1, <3>1, <3>2, <3>3, ConcatAssociative
  <2> QED  BY <1>3, <1>5, <2>2 DEF CInv, Contents
<1>17. received' = (Due \o PacketsOf(recvQueue))'
  BY <1>10, <1>11, <1>12, <1>15, <1>16
<1>18. replied' = (serialized \o PacketsOf(sendQueue))'
  BY <1>3, <1>14 DEF CInv, Contents
<1> QED  BY <1>3, <1>8, <1>12, <1>13, <1>14, <1>17, <1>18 DEF CInv, Contents

LEMMA EnqueueContents ==
    ASSUME CInv, NEW type \in Clientbound, EnqueueMessage(type)
    PROVE  Contents'
<1>1. PICK data \in Addresses :
        /\ message_data_allocate(data, Packet(type, replied))
        /\ sendQueue' = Append(sendQueue, Message(type, data))
  BY DEF EnqueueMessage
<1>2. PICK m, longer : m = Message(type, data) /\ longer = Append(sendQueue, m)
  OBVIOUS
<1>3. /\ phase # "process"
      /\ UNCHANGED <<phase, recvQueue, msg, marshalled, received, serialized>>
      /\ replied' = Append(replied, Packet(type, replied))
  BY DEF EnqueueMessage, inbound
<1>4. /\ m \in Messages(Clientbound) /\ m.data = data /\ m.messageType = type
      /\ sendQueue \in Seq(Messages(Clientbound))
      /\ data \notin Data(recvQueue) /\ data \notin Data(sendQueue)
  BY <1>1, <1>2 DEF Message, Messages, CInv, IInv, Shape, OneOwner, message_data_allocate
<1>5. PICK packet : packet = Packet(type, replied)
  OBVIOUS
<1>6. packet \in Packets /\ packet.type = type
  BY <1>5, NewPacket DEF CInv, Contents, Filled
<1>7. /\ At(data)' = packet
      /\ \A b : b # data => At(b)' = At(b)
      /\ \A b \in DOMAIN heap' : heap'[b] \in Packets
  BY <1>1, <1>5, <1>6, HeapKeepsOthers DEF CInv, Contents
<1>8. Filled'
  <2>1. replied' \in Seq(Packets)
    BY <1>3, <1>5, <1>6, AppendProperties DEF CInv, Contents, Filled
  <2> QED  BY <1>3, <1>7, <2>1 DEF CInv, Contents, Filled
<1>9. PICK before : before = sendQueue
  OBVIOUS
<1>10. PacketsOf(before)' = PacketsOf(sendQueue) /\ (Typed(before)' <=> Typed(sendQueue))
  BY <1>4, <1>7, <1>9, QueueKeeps
<1>11. PacketsOf(longer)' = Append(PacketsOf(sendQueue), packet)
  BY <1>2, <1>4, <1>6, <1>7, <1>9, PacketsOfAppend DEF CInv, Contents
<1>12. PacketsOf(sendQueue)' = PacketsOf(longer)' /\ (Typed(sendQueue)' <=> Typed(longer)')
  BY <1>1, <1>2 DEF PacketsOf, Typed, At
<1>13. Typed(longer)'
  <2>1. /\ DOMAIN longer = DOMAIN sendQueue \cup {Len(sendQueue) + 1}
        /\ \A i \in DOMAIN sendQueue : longer[i] = sendQueue[i]
        /\ longer[Len(sendQueue) + 1] = m
    BY <1>2, <1>4, AppendProperties, LenProperties
  <2>2. Typed(before)'
    BY <1>10 DEF CInv, Contents
  <2> QED  BY <1>4, <1>6, <1>7, <1>9, <2>1, <2>2 DEF Typed
<1>14. PacketsOf(recvQueue)' = PacketsOf(recvQueue) /\ (Typed(recvQueue)' <=> Typed(recvQueue))
  BY <1>3, <1>4, <1>7, ReceivedKeep
<1>15. Due' = Due
  BY <1>3 DEF Due
<1>16. replied' = serialized \o Append(PacketsOf(sendQueue), packet)
  <2>1. PacketsOf(sendQueue) \in Seq(Packets)
    BY <1>4, PacketsOfQueue DEF CInv, Contents
  <2>2. Append(serialized \o PacketsOf(sendQueue), packet)
          = serialized \o Append(PacketsOf(sendQueue), packet)
    <3>1. serialized \in Seq(Packets)
      BY DEF CInv, Contents, Filled
    <3>2. serialized \o PacketsOf(sendQueue) \in Seq(Packets) /\ <<packet>> \in Seq(Packets)
      BY <1>6, <2>1, <3>1, ConcatProperties
    <3>3. /\ Append(serialized \o PacketsOf(sendQueue), packet)
               = (serialized \o PacketsOf(sendQueue)) \o <<packet>>
          /\ Append(PacketsOf(sendQueue), packet) = PacketsOf(sendQueue) \o <<packet>>
      BY <1>6, <2>1, <3>2, AppendIsConcat
    <3> QED  BY <2>1, <3>1, <3>2, <3>3, ConcatAssociative
  <2> QED  BY <1>3, <1>5, <2>2 DEF CInv, Contents
<1>17. replied' = (serialized \o PacketsOf(sendQueue))'
  BY <1>3, <1>10, <1>11, <1>12, <1>16
<1>18. received' = (Due \o PacketsOf(recvQueue))'
  BY <1>3, <1>14, <1>15 DEF CInv, Contents
<1> QED  BY <1>3, <1>8, <1>12, <1>13, <1>14, <1>17, <1>18 DEF CInv, Contents

LEMMA PollContents ==
    ASSUME CInv, PollRecvQueue
    PROVE  Contents'
<1>1. phase = "drain" /\ UNCHANGED <<heap, sendQueue, received, replied, marshalled, serialized>>
  BY DEF PollRecvQueue, outbound
<1>2. \A a : At(a)' = At(a)
  BY <1>1 DEF At
<1>3. PacketsOf(sendQueue)' = PacketsOf(sendQueue) /\ (Typed(sendQueue)' <=> Typed(sendQueue))
  BY <1>1, <1>2, SentKeep
<1>4. Filled'
  BY <1>1 DEF CInv, Contents, Filled
<1>5. replied' = (serialized \o PacketsOf(sendQueue))'
  BY <1>1, <1>3 DEF CInv, Contents
<1>6. Due = marshalled
  BY <1>1 DEF Due
<1>7. CASE recvQueue = <<>>
  <2>1. phase' = "send" /\ UNCHANGED recvQueue
    BY <1>7 DEF PollRecvQueue
  <2>2. PacketsOf(recvQueue)' = PacketsOf(recvQueue) /\ (Typed(recvQueue)' <=> Typed(recvQueue))
    BY <1>2, <2>1, ReceivedKeep
  <2>3. Due' = Due
    BY <1>1, <1>6, <2>1 DEF Due
  <2> QED  BY <1>1, <1>3, <1>4, <1>5, <2>1, <2>2, <2>3 DEF CInv, Contents
<1>8. CASE recvQueue # <<>>
  <2>1. phase' = "process" /\ msg' = Head(recvQueue) /\ recvQueue' = Tail(recvQueue)
    BY <1>8 DEF PollRecvQueue
  <2>2. PICK first, rest : first = Head(recvQueue) /\ rest = Tail(recvQueue)
    OBVIOUS
  <2>3. /\ PacketsOf(recvQueue) # <<>>
        /\ Head(PacketsOf(recvQueue)) = At(first.data)
        /\ Tail(PacketsOf(recvQueue)) = PacketsOf(rest)
        /\ PacketsOf(recvQueue) \in Seq(Packets)
    BY <1>8, <2>2, PacketsOfTail, PacketsOfQueue DEF CInv, IInv, Shape, Contents
  <2>4. received = Append(marshalled, At(first.data)) \o PacketsOf(rest)
    BY <1>6, <2>3, GoesOver DEF CInv, Contents, Filled
  <2>5. PacketsOf(rest)' = PacketsOf(rest) /\ (Typed(rest)' <=> Typed(rest))
    BY <1>2, QueueKeeps
  <2>6. PacketsOf(recvQueue)' = PacketsOf(rest)' /\ (Typed(recvQueue)' <=> Typed(rest)')
    BY <2>1, <2>2 DEF PacketsOf, Typed, At
  <2>7. Due' = Append(marshalled, At(first.data))
    BY <1>1, <1>2, <2>1, <2>2 DEF Due
  <2>8. Typed(rest) /\ At(first.data).type = first.messageType
    <3>1. /\ \A i \in DOMAIN rest : i + 1 \in DOMAIN recvQueue /\ rest[i] = recvQueue[i + 1]
          /\ 1 \in DOMAIN recvQueue /\ first = recvQueue[1]
      BY <1>8, <2>2, HeadTailProperties, LenProperties, EmptySeq DEF CInv, IInv, Shape
    <3> QED  BY <3>1 DEF Typed, CInv, Contents
  <2>9. received' = (Due \o PacketsOf(recvQueue))'
    BY <1>1, <2>4, <2>5, <2>6, <2>7
  <2> QED  BY <1>2, <1>3, <1>4, <1>5, <2>1, <2>2, <2>5, <2>6, <2>8, <2>9 DEF CInv, Contents
<1> QED  BY <1>7, <1>8

LEMMA ProcessContents ==
    ASSUME CInv, ProcessMessage
    PROVE  Contents'
<1>1. /\ phase = "process" /\ phase' # "process"
      /\ UNCHANGED <<recvQueue, received, sendQueue, replied, serialized>>
      /\ marshalled' = Append(marshalled, At(msg.data))
      /\ message_data_release(msg.data)
  <2>1. msg.messageType \in Handled \cup {"PlayerActionTracked"}
    <3>1. phase = "process" /\ msg.messageType \in Serverbound
      BY DEF ProcessMessage, CInv, IInv, Shape, Messages
    <3> QED  BY <3>1, BuffersAssumption DEF BuffersAssumption
  <2> QED  BY <2>1 DEF ProcessMessage, MarshalTo, inbound, outbound
<1>2. msg.data \notin Data(recvQueue) /\ msg.data \notin Data(sendQueue)
  BY <1>1, DataInHand DEF CInv, IInv, OneOwner
<1>3. /\ \A b : b # msg.data => At(b)' = At(b)
      /\ \A b \in DOMAIN heap' : heap'[b] \in Packets
  <2>1. Garbage \in Packets /\ Filled
    BY DEF Garbage, Packets, CInv, Contents
  <2>2. PICK a : a = msg.data
    OBVIOUS
  <2> QED  BY <1>1, <2>1, <2>2, HeapKeepsOthers
<1>4. PacketsOf(recvQueue)' = PacketsOf(recvQueue) /\ (Typed(recvQueue)' <=> Typed(recvQueue))
  BY <1>1, <1>2, <1>3, ReceivedKeep
<1>5. PacketsOf(sendQueue)' = PacketsOf(sendQueue) /\ (Typed(sendQueue)' <=> Typed(sendQueue))
  BY <1>1, <1>2, <1>3, SentKeep
<1>6. Filled'
  <2>1. At(msg.data) \in Packets
    BY AtIsPacket DEF CInv, Contents
  <2>2. marshalled' \in Seq(Packets)
    BY <1>1, <2>1, AppendProperties DEF CInv, Contents, Filled
  <2> QED  BY <1>1, <1>3, <2>2 DEF CInv, Contents, Filled
<1>7. Due' = Due
  BY <1>1 DEF Due
<1>8. received' = (Due \o PacketsOf(recvQueue))' /\ replied' = (serialized \o PacketsOf(sendQueue))'
  BY <1>1, <1>4, <1>5, <1>7 DEF CInv, Contents
<1> QED  BY <1>1, <1>4, <1>5, <1>6, <1>8 DEF CInv, Contents

LEMMA OthersContents ==
    ASSUME CInv, UNCHANGED <<heap, inbound, outbound, marshalled, serialized>>,
           \/ phase # "process" /\ phase' # "process"
           \/ UNCHANGED <<phase, msg>>
    PROVE  Contents'
<1>1. UNCHANGED <<heap, recvQueue, received, sendQueue, replied, marshalled, serialized>>
  BY DEF inbound, outbound
<1>2. \A a : At(a)' = At(a)
  BY <1>1 DEF At
<1>3. /\ PacketsOf(recvQueue)' = PacketsOf(recvQueue) /\ (Typed(recvQueue)' <=> Typed(recvQueue))
      /\ PacketsOf(sendQueue)' = PacketsOf(sendQueue) /\ (Typed(sendQueue)' <=> Typed(sendQueue))
  BY <1>1, <1>2, ReceivedKeep, SentKeep
<1>4. Due' = Due
  BY <1>1, <1>2 DEF Due
<1>5. Filled'
  BY <1>1 DEF CInv, Contents, Filled
<1>6. received' = (Due \o PacketsOf(recvQueue))' /\ replied' = (serialized \o PacketsOf(sendQueue))'
  BY <1>1, <1>3, <1>4 DEF CInv, Contents
<1>7. phase' = "process" => (At(msg.data).type = msg.messageType)'
  BY <1>2 DEF CInv, Contents
<1> QED  BY <1>3, <1>5, <1>6, <1>7 DEF CInv, Contents

LEMMA StepKeepsContents ==
    ASSUME CInv, [Next]_vars
    PROVE  CInv'
<1> SUFFICES Contents'
  BY StepPreserves DEF CInv
<1>1. CASE RejectPacket
  BY <1>1, OthersContents DEF RejectPacket, ReceiveMessagesOnPollGroup, inbound, outbound
<1>2. CASE FinishHandler
  BY <1>2, OthersContents DEF FinishHandler, inbound, outbound
<1>3. CASE Advance
  BY <1>3, OthersContents DEF Advance, inbound, outbound
<1>4. CASE UNCHANGED vars
  BY <1>4, OthersContents DEF vars, inbound, outbound
<1> QED
  BY <1>1, <1>2, <1>3, <1>4, SendContents, ReceiveContents, EnqueueContents, PollContents,
     ProcessContents DEF Next

LEMMA InitHasContents == Init => CInv
<1> SUFFICES ASSUME Init PROVE CInv
  OBVIOUS
<1>1. /\ phase # "process" /\ DOMAIN heap = {}
      /\ recvQueue = <<>> /\ sendQueue = <<>> /\ received = <<>> /\ replied = <<>>
      /\ marshalled = <<>> /\ serialized = <<>>
  BY DEF Init
<1>2. PacketsOf(recvQueue) = <<>> /\ PacketsOf(sendQueue) = <<>>
  BY <1>1 DEF PacketsOf
<1>3. Due = <<>>
  BY <1>1 DEF Due
<1>4. <<>> \o <<>> = <<>>
  BY EmptySeq, ConcatEmptySeq
<1>5. Filled
  BY <1>1, EmptySeq DEF Filled
<1>6. Typed(recvQueue) /\ Typed(sendQueue)
  BY <1>1 DEF Typed
<1> QED  BY <1>1, <1>2, <1>3, <1>4, <1>5, <1>6, InitEstablishes DEF CInv, Contents

(* Packet by packet and in order, the handlers are given what was received *)
(* and the network what was sent, whatever memory the allocator reuses.    *)
THEOREM PacketsAreNotMixedUp == Spec => []PacketsSurvive
<1>1. Init => CInv
  BY InitHasContents
<1>2. CInv /\ [Next]_vars => CInv'
  BY StepKeepsContents
<1>3. CInv => PacketsSurvive
  <2> SUFFICES ASSUME CInv PROVE PacketsSurvive
    OBVIOUS
  <2>1. PICK done : done = marshalled
    OBVIOUS
  <2>2. done \in Seq(Packets) /\ At(msg.data) \in Packets
    BY <2>1, AtIsPacket DEF CInv, Contents, Filled
  <2>3. marshalled \o PacketsOf(InHand) = Due
    <3>1. CASE phase = "process"
      <4>1. PacketsOf(InHand) = <<At(msg.data)>>
        BY <3>1 DEF PacketsOf, InHand
      <4> QED  BY <2>1, <2>2, <3>1, <4>1, AppendIsConcat DEF Due
    <3>2. CASE phase # "process"
      <4>1. PacketsOf(InHand) = <<>>
        BY <3>2 DEF PacketsOf, InHand
      <4> QED  BY <2>1, <2>2, <3>2, <4>1, ConcatEmptySeq DEF Due
    <3> QED  BY <3>1, <3>2
  <2>4. Typed(InHand)
    BY DEF Typed, InHand, CInv, Contents
  <2> QED  BY <2>3, <2>4 DEF PacketsSurvive, Typed, CInv, Contents
<1> QED  BY <1>1, <1>2, <1>3, PTL DEF Spec

-----------------------------------------------------------------------------
(* Where the fields of a packet are.  Its fourteen structs have the same     *)
(* fields in both halves, and what flags there are stand last.             *)

Halves == {"native", "managed"}

FieldTypes == {"bool", "u8", "u16", "u32", "u64", "f32", "Vector3", "char255"}

AllPackets == Layout!ServerboundPackets \cup Layout!ClientboundPackets \cup {"Message"}

Struct(fields) ==
    /\ Len(fields) \in Nat
    /\ DOMAIN fields = 1 .. Len(fields)
    /\ \A i \in DOMAIN fields : fields[i].type \in FieldTypes

(* No field stands behind a flag that is none.                             *)
FlagsLast(fields) ==
    \A i, j \in DOMAIN fields : i < j /\ fields[i].type = "bool" => fields[j].type = "bool"

(* The packets, one by one.                                                *)
LEMMA PacketsAre ==
    AllPackets = {"PlayerJoinWorld", "PlayerActionTracked", "PlayerPositionUpdate",
                  "PlayerSpawnCar", "PlayerUnmountCar", "PlayerEquipItem", "PlayerShoot",
                  "SpawnEntity", "DestroyEntity", "TeleportEntity", "EquipItemEntity",
                  "InitAuth", "InitAuthResult", "Message"}
  BY DEF AllPackets, Layout!ServerboundPackets, Layout!ClientboundPackets,
         Layout!WorldPacketsServerBound, Layout!WorldPacketsClientBound

LEMMA MirrorsAgree ==
    ASSUME NEW p \in AllPackets
    PROVE  Layout!Fields("managed", p) = Layout!Fields("native", p)
<1> USE DEF Layout!Fields, Layout!WorldPacketsServerBound, Layout!WorldPacketsClientBound
<1>1. CASE p = "PlayerJoinWorld"
  BY <1>1 DEF Layout!MirrorPlayerJoinWorld
<1>2. CASE p = "PlayerActionTracked"
  BY <1>2 DEF Layout!MirrorPlayerActionTracked
<1>3. CASE p = "PlayerPositionUpdate"
  BY <1>3 DEF Layout!MirrorPlayerPositionUpdate
<1>4. CASE p = "PlayerSpawnCar"
  BY <1>4 DEF Layout!MirrorPlayerSpawnCar
<1>5. CASE p = "PlayerUnmountCar"
  BY <1>5 DEF Layout!MirrorPlayerUnmountCar
<1>6. CASE p = "PlayerEquipItem"
  BY <1>6 DEF Layout!MirrorPlayerEquipItem
<1>7. CASE p = "PlayerShoot"
  BY <1>7 DEF Layout!MirrorPlayerShoot
<1>8. CASE p = "SpawnEntity"
  BY <1>8 DEF Layout!MirrorSpawnEntity
<1>9. CASE p = "DestroyEntity"
  BY <1>9 DEF Layout!MirrorDestroyEntity
<1>10. CASE p = "TeleportEntity"
  BY <1>10 DEF Layout!MirrorTeleportEntity
<1>11. CASE p = "EquipItemEntity"
  BY <1>11 DEF Layout!MirrorEquipItemEntity
<1>12. CASE p = "InitAuth"
  BY <1>12 DEF Layout!MirrorInitAuth, Layout!InitAuthServerBoundCSharp
<1>13. CASE p = "InitAuthResult"
  BY <1>13 DEF Layout!MirrorAuthResult, Layout!AuthResultClientBound
<1>14. CASE p = "Message"
  BY <1>14 DEF Layout!MirrorMessage, Layout!Message
<1> QED
  BY PacketsAre, <1>1, <1>2, <1>3, <1>4, <1>5, <1>6, <1>7, <1>8, <1>9, <1>10, <1>11, <1>12,
     <1>13, <1>14

LEMMA FieldsAre ==
    ASSUME NEW p \in AllPackets
    PROVE  LET fields == Layout!Fields("native", p)
           IN  Struct(fields) /\ FlagsLast(fields)
<1> USE DEF Layout!Fields, Layout!WorldPacketsServerBound, Layout!WorldPacketsClientBound,
            Layout!F, Struct, FlagsLast, FieldTypes
<1>1. CASE p = "PlayerJoinWorld"
  BY <1>1
<1>2. CASE p = "PlayerActionTracked"
  BY <1>2
<1>3. CASE p = "PlayerPositionUpdate"
  BY <1>3
<1>4. CASE p = "PlayerSpawnCar"
  BY <1>4
<1>5. CASE p = "PlayerUnmountCar"
  BY <1>5
<1>6. CASE p = "PlayerEquipItem"
  BY <1>6
<1>7. CASE p = "PlayerShoot"
  BY <1>7
<1>8. CASE p = "SpawnEntity"
  BY <1>8
<1>9. CASE p = "DestroyEntity"
  BY <1>9
<1>10. CASE p = "TeleportEntity"
  BY <1>10
<1>11. CASE p = "EquipItemEntity"
  BY <1>11
<1>12. CASE p = "InitAuth"
  BY <1>12 DEF Layout!InitAuthServerBoundCSharp
<1>13. CASE p = "InitAuthResult"
  BY <1>13 DEF Layout!AuthResultClientBound
<1>14. CASE p = "Message"
  BY <1>14 DEF Layout!Message
<1> QED
  BY PacketsAre, <1>1, <1>2, <1>3, <1>4, <1>5, <1>6, <1>7, <1>8, <1>9, <1>10, <1>11, <1>12,
     <1>13, <1>14

(* A number stands for one packet, the same in both halves.                *)
LEMMA NumbersAre ==
    ASSUME NEW p \in AllPackets, NEW from \in Halves, NEW to \in Halves
    PROVE  Layout!TakenFor(from, to, p) = {p}
  BY PacketsAre
     DEF Halves, Layout!TakenFor, Layout!Numbers,
         Layout!EMessageTypeServerbound, Layout!EMessageTypeClientbound,
         Layout!MirrorTypesServerbound, Layout!MirrorTypesClientbound,
         Layout!ServerboundPackets, Layout!ClientboundPackets,
         Layout!WorldPacketsServerBound, Layout!WorldPacketsClientBound

-----------------------------------------------------------------------------
(* Where the fields begin: the offsets are what their recursion says, each  *)
(* field has room before the next, and up to the flags both halves lay out *)
(* alike.                                                                  *)

LEMMA RoundingUp ==
    ASSUME NEW n \in Nat, NEW alignment \in {1, 2, 4, 8}
    PROVE  Layout!RoundUp(n, alignment) \in Nat /\ n <= Layout!RoundUp(n, alignment)
<1>1. CASE alignment = 1
  BY <1>1 DEF Layout!RoundUp
<1>2. CASE alignment = 2
  BY <1>2 DEF Layout!RoundUp
<1>3. CASE alignment = 4
  BY <1>3 DEF Layout!RoundUp
<1>4. CASE alignment = 8
  BY <1>4 DEF Layout!RoundUp
<1> QED  BY <1>1, <1>2, <1>3, <1>4

LEMMA LargestAlignment ==
    ASSUME NEW S \in SUBSET {1, 2, 4, 8}, 1 \in S
    PROVE  /\ Layout!Max(S) \in {1, 2, 4, 8}
           /\ 8 \in S => Layout!Max(S) = 8
<1>1. \E x \in S : \A y \in S : x >= y
  <2>1. CASE 8 \in S
    <3>1. \A y \in S : 8 >= y
      OBVIOUS
    <3> QED  BY <2>1, <3>1
  <2>2. CASE 8 \notin S /\ 4 \in S
    <3>1. \A y \in S : 4 >= y
      BY <2>2
    <3> QED  BY <2>2, <3>1
  <2>3. CASE 8 \notin S /\ 4 \notin S /\ 2 \in S
    <3>1. \A y \in S : 2 >= y
      BY <2>3
    <3> QED  BY <2>3, <3>1
  <2>4. CASE 8 \notin S /\ 4 \notin S /\ 2 \notin S
    <3>1. \A y \in S : 1 >= y
      BY <2>4
    <3> QED  BY <3>1
  <2> QED  BY <2>1, <2>2, <2>3, <2>4
<1>2. PICK x \in {1, 2, 4, 8} : x = Layout!Max(S) /\ x \in S /\ \A y \in S : x >= y
  BY <1>1 DEF Layout!Max
<1>3. 8 \in S => x >= 8
  BY <1>2
<1> QED  BY <1>2, <1>3

Fields(p) == Layout!Fields("native", p)

Aligned(half, p) ==
    {Layout!Alignment(half, Fields(p)[i].type) : i \in DOMAIN Fields(p)} \cup {1}

AlignmentAt(half, p, i) ==
    IF i \in DOMAIN Fields(p)
    THEN Layout!Alignment(half, Fields(p)[i].type)
    ELSE Layout!Max(Aligned(half, p))

LEMMA SizesAre ==
    ASSUME NEW half \in Halves, NEW type \in FieldTypes
    PROVE  /\ Layout!SizeOf(half, type) \in Nat \ {0}
           /\ Layout!Alignment(half, type) \in {1, 2, 4, 8}
           /\ type # "bool" => /\ Layout!SizeOf(half, type) = Layout!SizeOf("native", type)
                               /\ Layout!Alignment(half, type) = Layout!Alignment("native", type)
  BY DEF Halves, FieldTypes, Layout!SizeOf, Layout!Alignment

LEMMA AlignmentsAre ==
    ASSUME NEW half \in Halves, NEW p \in AllPackets, NEW i
    PROVE  AlignmentAt(half, p, i) \in {1, 2, 4, 8}
<1>1. \A j \in DOMAIN Fields(p) : Layout!Alignment(half, Fields(p)[j].type) \in {1, 2, 4, 8}
  BY FieldsAre, SizesAre DEF Fields, Struct
<1>2. Aligned(half, p) \in SUBSET {1, 2, 4, 8} /\ 1 \in Aligned(half, p)
  BY <1>1 DEF Aligned
<1>3. Layout!Max(Aligned(half, p)) \in {1, 2, 4, 8}
  BY <1>2, LargestAlignment
<1> QED  BY <1>1, <1>3 DEF AlignmentAt

(* The recursive definition has a solution, up to any field.               *)
Lays(begin, n, sizes, Alignments) ==
    begin = [i \in 1 .. n + 1 |->
               IF i = 1 THEN 0
               ELSE Layout!RoundUp(begin[i - 1] + sizes[i - 1], Alignments[i])]

LEMMA LayoutExists ==
    ASSUME NEW n \in Nat, NEW sizes, NEW alignments
    PROVE  \E begin : Lays(begin, n, sizes, alignments)
<1> DEFINE Exists(m) == \E begin : Lays(begin, m, sizes, alignments)
           S == {m \in Nat : Exists(m)}
<1>1. Exists(0)
  <2> DEFINE begin == [i \in 1 .. 0 + 1 |-> 0]
  <2>1. \A i \in 1 .. 0 + 1 : i = 1
    OBVIOUS
  <2>2. Lays(begin, 0, sizes, alignments)
    BY <2>1 DEF Lays
  <2> HIDE DEF begin
  <2> QED  BY <2>2
<1>2. ASSUME NEW m \in Nat, Exists(m)
      PROVE  Exists(m + 1)
  <2>1. PICK begin : Lays(begin, m, sizes, alignments)
    BY <1>2
  <2> DEFINE next == Layout!RoundUp(begin[m + 1] + sizes[m + 1], alignments[m + 2])
             longer == [i \in 1 .. (m + 1) + 1 |-> IF i = m + 2 THEN next ELSE begin[i]]
  <2>2. \A i \in 1 .. m + 1 :
           begin[i] = IF i = 1 THEN 0
                      ELSE Layout!RoundUp(begin[i - 1] + sizes[i - 1], alignments[i])
    BY <2>1 DEF Lays
  <2>3. ASSUME NEW i \in 1 .. (m + 1) + 1
        PROVE  longer[i] = IF i = 1 THEN 0
                           ELSE Layout!RoundUp(longer[i - 1] + sizes[i - 1], alignments[i])
    <3>1. CASE i = m + 2
      <4>1. i # 1 /\ i - 1 = m + 1 /\ i - 1 \in 1 .. (m + 1) + 1 /\ i - 1 # m + 2
        BY <3>1
      <4>2. longer[i] = next /\ longer[i - 1] = begin[m + 1]
        BY <3>1, <4>1
      <4> HIDE DEF longer
      <4> QED  BY <3>1, <4>1, <4>2
    <3>2. CASE i # m + 2
      <4>1. i \in 1 .. m + 1 /\ (i # 1 => i - 1 \in 1 .. (m + 1) + 1 /\ i - 1 # m + 2)
        BY <3>2
      <4>2. longer[i] = begin[i] /\ (i # 1 => longer[i - 1] = begin[i - 1])
        BY <3>2, <4>1
      <4> HIDE DEF longer
      <4> QED  BY <2>2, <4>1, <4>2
    <3> QED  BY <3>1, <3>2
  <2>4. longer = [i \in 1 .. (m + 1) + 1 |-> longer[i]]
    OBVIOUS
  <2> HIDE DEF longer
  <2>5. Lays(longer, m + 1, sizes, alignments)
    BY <2>3, <2>4 DEF Lays
  <2> QED  BY <2>5
<1> HIDE DEF Exists
<1>3. 0 \in S /\ \A m \in Nat : m \in S => m + 1 \in S
  BY <1>1, <1>2
<1> HIDE DEF S
<1>4. \A m \in Nat : m \in S
  BY <1>3, Counting!Induction
<1>5. Exists(n)
  BY <1>4 DEF S
<1> QED  BY <1>5 DEF Exists

(* What Offsets chooses.                                                   *)
IsLayout(begin, half, fields) ==
    LET alignments == {Layout!Alignment(half, fields[i].type) : i \in DOMAIN fields} \cup {1}
        AlignmentOf(i) == IF i \in DOMAIN fields
                          THEN Layout!Alignment(half, fields[i].type)
                          ELSE Layout!Max(alignments)
    IN  begin = [i \in 1 .. Len(fields) + 1 |->
            IF i = 1
            THEN 0
            ELSE Layout!RoundUp(begin[i - 1] + Layout!SizeOf(half, fields[i - 1].type),
                                AlignmentOf(i))]

LEMMA OffsetsChosen ==
    ASSUME NEW half, NEW p
    PROVE  Layout!Offsets(half, p) = CHOOSE begin : IsLayout(begin, half, Layout!Fields(half, p))
  BY DEF Layout!Offsets, IsLayout

LEMMA FieldsOfBoth ==
    ASSUME NEW half \in Halves, NEW p \in AllPackets
    PROVE  Layout!Fields(half, p) = Fields(p)
  BY MirrorsAgree DEF Halves, Fields

LEMMA OffsetsAre ==
    ASSUME NEW half \in Halves, NEW p \in AllPackets
    PROVE  /\ Layout!Offsets(half, p)[1] = 0
           /\ \A i \in DOMAIN Fields(p) :
                Layout!Offsets(half, p)[i + 1]
                  = Layout!RoundUp(
                      Layout!Offsets(half, p)[i] + Layout!SizeOf(half, Fields(p)[i].type),
                                   AlignmentAt(half, p, i + 1))
<1> DEFINE n == Len(Fields(p))
           sizes == [i \in 1 .. n |-> Layout!SizeOf(half, Fields(p)[i].type)]
           alignments == [i \in 1 .. n + 1 |-> AlignmentAt(half, p, i)]
<1>1. n \in Nat /\ DOMAIN Fields(p) = 1 .. n
  BY FieldsAre DEF Fields, Struct
<1>2. PICK begin : Lays(begin, n, sizes, alignments)
  <2> HIDE DEF n, sizes, alignments
  <2> QED  BY <1>1, LayoutExists
<1>3. \A f : Lays(f, n, sizes, alignments) <=> IsLayout(f, half, Fields(p))
  <2> SUFFICES ASSUME NEW f
               PROVE  Lays(f, n, sizes, alignments) <=> IsLayout(f, half, Fields(p))
    OBVIOUS
  <2> DEFINE Mine(i) == IF i = 1 THEN 0
                        ELSE Layout!RoundUp(f[i - 1] + sizes[i - 1], alignments[i])
             Theirs(i) == IF i = 1 THEN 0
                          ELSE Layout!RoundUp(
                                 f[i - 1] + Layout!SizeOf(half, Fields(p)[i - 1].type),
                                 AlignmentAt(half, p, i))
  <2>1. ASSUME NEW i \in 1 .. n + 1
        PROVE  Mine(i) = Theirs(i)
    <3>1. alignments[i] = AlignmentAt(half, p, i)
      OBVIOUS
    <3>2. ASSUME i # 1
          PROVE  sizes[i - 1] = Layout!SizeOf(half, Fields(p)[i - 1].type)
      <4>1. i - 1 \in 1 .. n
        BY <1>1, <3>2
      <4> QED  BY <4>1
    <3> HIDE DEF sizes, alignments
    <3> QED  BY <3>1, <3>2
  <2>2. Lays(f, n, sizes, alignments) <=> f = [i \in 1 .. n + 1 |-> Mine(i)]
    BY DEF Lays
  <2>3. IsLayout(f, half, Fields(p)) <=> f = [i \in 1 .. n + 1 |-> Theirs(i)]
    BY DEF IsLayout, AlignmentAt, Aligned
  <2>4. [i \in 1 .. n + 1 |-> Mine(i)] = [i \in 1 .. n + 1 |-> Theirs(i)]
    <3> HIDE DEF Mine, Theirs
    <3> QED  BY <2>1
  <2> HIDE DEF Mine, Theirs
  <2> QED  BY <2>2, <2>3, <2>4
<1>4. PICK f : f = Layout!Offsets(half, p)
  OBVIOUS
<1>5. Lays(f, n, sizes, alignments)
  BY <1>2, <1>3, <1>4, OffsetsChosen, FieldsOfBoth
<1>6. f = [i \in 1 .. n + 1 |->
             IF i = 1 THEN 0 ELSE Layout!RoundUp(f[i - 1] + sizes[i - 1], alignments[i])]
  BY <1>5 DEF Lays
<1>7. f[1] = 0
  <2>1. 1 \in 1 .. n + 1
    BY <1>1
  <2> QED  BY <1>6, <2>1
<1>8. ASSUME NEW i \in 1 .. n
      PROVE  f[i + 1] = Layout!RoundUp(f[i] + Layout!SizeOf(half, Fields(p)[i].type),
                                       AlignmentAt(half, p, i + 1))
  <2>1. /\ i + 1 \in 1 .. n + 1 /\ i + 1 # 1 /\ (i + 1) - 1 = i
        /\ sizes[i] = Layout!SizeOf(half, Fields(p)[i].type)
        /\ alignments[i + 1] = AlignmentAt(half, p, i + 1)
    BY <1>1
  <2> HIDE DEF n, sizes, alignments
  <2>2. f[i + 1] = Layout!RoundUp(f[(i + 1) - 1] + sizes[(i + 1) - 1], alignments[i + 1])
    BY <1>6, <2>1
  <2> QED  BY <2>1, <2>2
<1> QED  BY <1>1, <1>4, <1>7, <1>8

Begin(half, p, i) == Layout!Offsets(half, p)[i]
SizeAt(half, p, i) == Layout!SizeOf(half, Fields(p)[i].type)

LEMMA SizesAt ==
    ASSUME NEW half \in Halves, NEW p \in AllPackets, NEW i \in DOMAIN Fields(p)
    PROVE  SizeAt(half, p, i) \in Nat \ {0}
  BY FieldsAre, SizesAre DEF SizeAt, Fields, Struct

(* A field begins where the one before it has ended, or later.             *)
LEMMA BeginsAfter ==
    ASSUME NEW half \in Halves, NEW p \in AllPackets
    PROVE  /\ Len(Fields(p)) \in Nat /\ DOMAIN Fields(p) = 1 .. Len(Fields(p))
           /\ \A i \in 1 .. Len(Fields(p)) + 1 : Begin(half, p, i) \in Nat
           /\ \A i \in DOMAIN Fields(p) :
                Begin(half, p, i) + SizeAt(half, p, i) <= Begin(half, p, i + 1)
<1> DEFINE n == Len(Fields(p))
           S == {k \in Nat : k \in 0 .. n => Begin(half, p, k + 1) \in Nat}
<1>1. n \in Nat /\ DOMAIN Fields(p) = 1 .. n
  BY FieldsAre DEF Fields, Struct
<1>2. ASSUME NEW i \in 1 .. n, Begin(half, p, i) \in Nat
      PROVE  /\ Begin(half, p, i + 1) \in Nat
             /\ Begin(half, p, i) + SizeAt(half, p, i) <= Begin(half, p, i + 1)
  <2>1. PICK m \in Nat : m = Begin(half, p, i) + SizeAt(half, p, i)
    BY <1>1, <1>2, SizesAt
  <2>2. Begin(half, p, i + 1) = Layout!RoundUp(m, AlignmentAt(half, p, i + 1))
    BY <1>1, <2>1, OffsetsAre DEF Begin, SizeAt
  <2>3. AlignmentAt(half, p, i + 1) \in {1, 2, 4, 8}
    BY AlignmentsAre
  <2> QED  BY <2>1, <2>2, <2>3, RoundingUp
<1>3. 0 \in S
  BY OffsetsAre DEF Begin
<1>4. ASSUME NEW k \in Nat, k \in S
      PROVE  k + 1 \in S
  <2>1. CASE k + 1 \in 1 .. n
    <3>1. Begin(half, p, k + 1) \in Nat
      BY <1>1, <1>4, <2>1
    <3>2. Begin(half, p, (k + 1) + 1) \in Nat
      BY <1>2, <2>1, <3>1
    <3> QED  BY <3>2
  <2>2. CASE k + 1 \notin 1 .. n
    <3>1. k + 1 \notin 0 .. n
      BY <1>1, <2>2
    <3> QED  BY <3>1
  <2> QED  BY <2>1, <2>2
<1>5. \A k \in Nat : k \in S
  <2> HIDE DEF S
  <2> QED  BY <1>3, <1>4, Counting!Induction
<1>6. ASSUME NEW i \in 1 .. n + 1
      PROVE  Begin(half, p, i) \in Nat
  <2>1. i - 1 \in Nat /\ i - 1 \in 0 .. n /\ (i - 1) + 1 = i
    BY <1>1
  <2>2. i - 1 \in S
    BY <1>5, <2>1
  <2> QED  BY <2>1, <2>2
<1>7. \A i \in 1 .. n : i \in 1 .. n + 1
  BY <1>1
<1> QED  BY <1>1, <1>2, <1>6, <1>7

LEMMA EndsBefore ==
    ASSUME NEW half \in Halves, NEW p \in AllPackets,
           NEW i \in DOMAIN Fields(p), NEW j \in 1 .. Len(Fields(p)) + 1, i < j
    PROVE  Begin(half, p, i) + SizeAt(half, p, i) <= Begin(half, p, j)
<1> DEFINE n == Len(Fields(p))
           end == Begin(half, p, i) + SizeAt(half, p, i)
           S == {k \in Nat : i + 1 + k <= n + 1 => end <= Begin(half, p, i + 1 + k)}
<1>1. n \in Nat /\ DOMAIN Fields(p) = 1 .. n /\ i \in 1 .. n
  BY BeginsAfter
<1>2. end \in Nat
  BY <1>1, BeginsAfter, SizesAt
<1>3. 0 \in S
  BY <1>1, BeginsAfter
<1>4. ASSUME NEW k \in Nat, k \in S
      PROVE  k + 1 \in S
  <2> DEFINE at == i + 1 + k
  <2>1. CASE at + 1 <= n + 1
    <3>1. at \in 1 .. n /\ at \in 1 .. n + 1 /\ at + 1 \in 1 .. n + 1 /\ at <= n + 1
          /\ i + 1 + (k + 1) = at + 1
      BY <1>1, <2>1
    <3>2. end <= Begin(half, p, at)
      BY <1>4, <3>1
    <3> HIDE DEF at
    <3>3. /\ Begin(half, p, at) \in Nat /\ Begin(half, p, at + 1) \in Nat
          /\ SizeAt(half, p, at) \in Nat
          /\ Begin(half, p, at) + SizeAt(half, p, at) <= Begin(half, p, at + 1)
      BY <1>1, <3>1, BeginsAfter, SizesAt
    <3> HIDE DEF end
    <3>4. end <= Begin(half, p, at + 1)
      BY <1>2, <3>2, <3>3
    <3> QED  BY <3>1, <3>4
  <2>2. CASE ~(at + 1 <= n + 1)
    <3>1. ~(i + 1 + (k + 1) <= n + 1)
      BY <1>1, <2>2
    <3> QED  BY <3>1
  <2> QED  BY <2>1, <2>2
<1>5. \A k \in Nat : k \in S
  <2> HIDE DEF S
  <2> QED  BY <1>3, <1>4, Counting!Induction
<1>6. PICK k \in Nat : j = i + 1 + k /\ i + 1 + k <= n + 1
  <2>1. j - (i + 1) \in Nat /\ j = i + 1 + (j - (i + 1)) /\ j <= n + 1
    BY <1>1
  <2> QED  BY <2>1
<1>7. k \in S
  BY <1>5
<1> QED  BY <1>6, <1>7

(* Before the flags the two halves lay out alike.                          *)
LEMMA SameBegins ==
    ASSUME NEW half \in Halves, NEW p \in AllPackets, NEW i \in 1 .. Len(Fields(p)) + 1,
           \A k \in DOMAIN Fields(p) : k <= i => Fields(p)[k].type # "bool",
           i = Len(Fields(p)) + 1 => AlignmentAt(half, p, i) = AlignmentAt("native", p, i)
    PROVE  Begin(half, p, i) = Begin("native", p, i)
<1> DEFINE n == Len(Fields(p))
           S == {k \in Nat : k + 1 <= i => Begin(half, p, k + 1) = Begin("native", p, k + 1)}
<1>1. n \in Nat /\ DOMAIN Fields(p) = 1 .. n /\ i \in 1 .. n + 1 /\ "native" \in Halves
  BY FieldsAre DEF Fields, Struct, Halves
<1>2. 0 \in S
  BY <1>1, OffsetsAre DEF Begin
<1>3. ASSUME NEW k \in Nat, k \in S
      PROVE  k + 1 \in S
  <2>1. CASE (k + 1) + 1 <= i
    <3>1. k + 1 \in 1 .. n /\ k + 1 <= i /\ (k + 1) + 1 \in 1 .. n + 1
          /\ ((k + 1) + 1 \in 1 .. n \/ ((k + 1) + 1 = n + 1 /\ (k + 1) + 1 = i))
      BY <1>1, <2>1
    <3>2. Begin(half, p, k + 1) = Begin("native", p, k + 1)
      BY <1>3, <3>1
    <3>3. PICK m \in 1 .. n : m = k + 1 /\ m <= i /\ m + 1 <= i
      BY <2>1, <3>1
    <3>4. Fields(p)[m].type # "bool" /\ Fields(p)[m].type \in FieldTypes
      BY <1>1, <3>3, FieldsAre DEF Fields, Struct
    <3>5. Layout!SizeOf(half, Fields(p)[m].type) = Layout!SizeOf("native", Fields(p)[m].type)
      BY <3>4, SizesAre
    <3>6. AlignmentAt(half, p, m + 1) = AlignmentAt("native", p, m + 1)
      <4>1. CASE m + 1 \in 1 .. n
        <5>1. Fields(p)[m + 1].type # "bool" /\ Fields(p)[m + 1].type \in FieldTypes
          BY <1>1, <3>3, <4>1, FieldsAre DEF Fields, Struct
        <5> QED  BY <1>1, <4>1, <5>1, SizesAre DEF AlignmentAt
      <4>2. CASE m + 1 = n + 1 /\ m + 1 = i
        BY <4>2
      <4> QED  BY <3>1, <3>3, <4>1, <4>2
    <3>7. /\ Begin(half, p, m + 1)
               = Layout!RoundUp(
                   Begin(half, p, m) + Layout!SizeOf(half, Fields(p)[m].type),
                   AlignmentAt(half, p, m + 1))
          /\ Begin("native", p, m + 1)
               = Layout!RoundUp(
                   Begin("native", p, m) + Layout!SizeOf("native", Fields(p)[m].type),
                   AlignmentAt("native", p, m + 1))
      BY <1>1, <3>3, OffsetsAre DEF Begin
    <3>8. Begin(half, p, m + 1) = Begin("native", p, m + 1)
      BY <3>2, <3>3, <3>5, <3>6, <3>7
    <3> QED  BY <3>3, <3>8
  <2>2. CASE ~((k + 1) + 1 <= i)
    BY <2>2
  <2> QED  BY <2>1, <2>2
<1>4. \A k \in Nat : k \in S
  <2> HIDE DEF S
  <2> QED  BY <1>2, <1>3, Counting!Induction
<1>5. i - 1 \in Nat /\ (i - 1) + 1 = i
  BY <1>1
<1>6. i - 1 \in S
  BY <1>4, <1>5
<1> QED  BY <1>5, <1>6

LEMMA FlagsAfter ==
    ASSUME NEW start \in Nat, NEW flag \in {1, 4}
    PROVE  Layout!RoundUp(
             Layout!RoundUp(Layout!RoundUp(start * 8 + 8, flag) + flag, flag) + flag, 8)
               = start * 8 + 16
<1>1. CASE flag = 1
  <2>1. Layout!RoundUp(start * 8 + 8, 1) = start * 8 + 8
    BY DEF Layout!RoundUp
  <2>2. Layout!RoundUp(start * 8 + 8 + 1, 1) = start * 8 + 8 + 1
    BY DEF Layout!RoundUp
  <2>3. Layout!RoundUp(start * 8 + 8 + 1 + 1, 8) = start * 8 + 16
    BY DEF Layout!RoundUp
  <2> QED  BY <1>1, <2>1, <2>2, <2>3
<1>2. CASE flag = 4
  <2>1. Layout!RoundUp(start * 8 + 8, 4) = start * 8 + 8
    BY DEF Layout!RoundUp
  <2>2. Layout!RoundUp(start * 8 + 8 + 4, 4) = start * 8 + 8 + 4
    BY DEF Layout!RoundUp
  <2>3. Layout!RoundUp(start * 8 + 8 + 4 + 4, 8) = start * 8 + 16
    BY DEF Layout!RoundUp
  <2> QED  BY <1>2, <2>1, <2>2, <2>3
<1> QED  BY <1>1, <1>2

(* Two packets have flags: two of them, after an item's number.             *)
LEMMA FlagsOfEquipItem ==
    ASSUME NEW p \in {"PlayerEquipItem", "EquipItemEntity"}
    PROVE  LET n == Len(Fields(p))
           IN  /\ n \in Nat /\ n > 3
               /\ Fields(p)[n - 2].type = "u64"
               /\ Fields(p)[n - 1].type = "bool"
               /\ Fields(p)[n].type = "bool"
<1>1. CASE p = "PlayerEquipItem"
  <2>1. Fields(p) = <<Layout!F("slot", "u64"), Layout!F("itemId", "u64"),
                      Layout!F("isWeapon", "bool"), Layout!F("isUnequipping", "bool")>>
    BY <1>1 DEF Fields, Layout!Fields, Layout!WorldPacketsServerBound,
                Layout!WorldPacketsClientBound
  <2>2. Len(Fields(p)) = 4
    BY <2>1
  <2> QED  BY <2>1, <2>2 DEF Layout!F
<1>2. CASE p = "EquipItemEntity"
  <2>1. Fields(p) = <<Layout!F("networkedEntityId", "u64"), Layout!F("slot", "u64"),
                      Layout!F("itemId", "u64"),
                      Layout!F("isWeapon", "bool"), Layout!F("isUnequipping", "bool")>>
    BY <1>2 DEF Fields, Layout!Fields, Layout!WorldPacketsServerBound,
                Layout!WorldPacketsClientBound
  <2>2. Len(Fields(p)) = 5
    BY <2>1
  <2> QED  BY <2>1, <2>2 DEF Layout!F
<1> QED  BY <1>1, <1>2

(* Flags of four bytes end where the padding of those of one byte does.     *)
LEMMA EndOfFlags ==
    ASSUME NEW half \in Halves, NEW p \in {"PlayerEquipItem", "EquipItemEntity"}
    PROVE  Begin(half, p, Len(Fields(p)) + 1) = Begin("native", p, Len(Fields(p)) - 2) + 16
<1>1. p \in AllPackets /\ "native" \in Halves
  BY PacketsAre DEF Halves
<1>2. PICK n \in Nat :
        /\ n = Len(Fields(p)) /\ n > 3 /\ DOMAIN Fields(p) = 1 .. n
        /\ Fields(p)[n - 2].type = "u64"
        /\ Fields(p)[n - 1].type = "bool"
        /\ Fields(p)[n].type = "bool"
  BY <1>1, FlagsOfEquipItem, BeginsAfter
<1>3. /\ n - 3 \in 1 .. n /\ n - 2 \in 1 .. n /\ n - 1 \in 1 .. n /\ n \in 1 .. n
      /\ n + 1 \notin 1 .. n
      /\ (n - 3) + 1 = n - 2 /\ (n - 2) + 1 = n - 1 /\ (n - 1) + 1 = n
  BY <1>2
<1>4. PICK flag \in {1, 4} : /\ flag = Layout!SizeOf(half, "bool")
                             /\ flag = Layout!Alignment(half, "bool")
  BY DEF Halves, Layout!SizeOf, Layout!Alignment
<1>5. Layout!SizeOf(half, "u64") = 8 /\ Layout!Alignment(half, "u64") = 8
  BY DEF Layout!SizeOf, Layout!Alignment
<1>6. AlignmentAt(half, p, n + 1) = 8
  <2>1. 8 \in Aligned(half, p) /\ 1 \in Aligned(half, p)
    BY <1>2, <1>3, <1>5 DEF Aligned
  <2>2. Aligned(half, p) \in SUBSET {1, 2, 4, 8}
    BY <1>1, FieldsAre, SizesAre DEF Aligned, Fields, Struct
  <2> QED  BY <1>2, <1>3, <2>1, <2>2, LargestAlignment DEF AlignmentAt
<1>7. /\ AlignmentAt(half, p, n - 2) = 8
      /\ AlignmentAt(half, p, n - 1) = flag
      /\ AlignmentAt(half, p, n) = flag
  BY <1>2, <1>3, <1>4, <1>5 DEF AlignmentAt
<1>8. \A i \in 1 .. n :
        Begin(half, p, i + 1)
          = Layout!RoundUp(Begin(half, p, i) + SizeAt(half, p, i), AlignmentAt(half, p, i + 1))
  BY <1>1, <1>2, OffsetsAre DEF Begin, SizeAt
<1>9. PICK start \in Nat : Begin(half, p, n - 2) = start * 8
  <2>1. PICK m \in Nat : m = Begin(half, p, n - 3) + SizeAt(half, p, n - 3)
    <3>1. n - 3 \in 1 .. n + 1
      BY <1>3
    <3>2. Begin(half, p, n - 3) \in Nat
      BY <1>1, <1>2, <3>1, BeginsAfter
    <3>3. SizeAt(half, p, n - 3) \in Nat
      BY <1>1, <1>2, <1>3, SizesAt
    <3> QED  BY <3>2, <3>3
  <2>2. Begin(half, p, n - 2) = Layout!RoundUp(m, 8)
    BY <1>3, <1>7, <1>8, <2>1
  <2>3. PICK k \in Nat : k = (m + 8 - 1) \div 8
    OBVIOUS
  <2>4. Begin(half, p, n - 2) = k * 8
    BY <2>2, <2>3 DEF Layout!RoundUp
  <2> QED  BY <2>4
<1>10. /\ Begin(half, p, n - 1) = Layout!RoundUp(start * 8 + 8, flag)
       /\ Begin(half, p, n) = Layout!RoundUp(Begin(half, p, n - 1) + flag, flag)
       /\ Begin(half, p, n + 1) = Layout!RoundUp(Begin(half, p, n) + flag, 8)
  BY <1>2, <1>3, <1>4, <1>5, <1>6, <1>7, <1>8, <1>9 DEF SizeAt
<1>11. Begin(half, p, n + 1) = start * 8 + 16
  BY <1>10, FlagsAfter
<1>12. Begin(half, p, n - 2) = Begin("native", p, n - 2)
  <2>1. ASSUME NEW k \in 1 .. n, k <= n - 2
        PROVE  Fields(p)[k].type # "bool"
    <3>1. k < n - 2 \/ k = n - 2
      BY <1>2, <2>1
    <3>2. CASE k < n - 2
      BY <1>1, <1>2, <1>3, <3>2, FieldsAre DEF Fields, FlagsLast
    <3>3. CASE k = n - 2
      BY <1>2, <3>3
    <3> QED  BY <3>1, <3>2, <3>3
  <2>2. n - 2 \in 1 .. n + 1 /\ n - 2 # n + 1
    BY <1>2
  <2> QED  BY <1>1, <1>2, <2>1, <2>2, SameBegins
<1> QED  BY <1>2, <1>9, <1>11, <1>12

LEMMA FlagsAre ==
    ASSUME NEW p \in AllPackets, p \notin {"PlayerEquipItem", "EquipItemEntity"}
    PROVE  \A i \in DOMAIN Fields(p) : Fields(p)[i].type # "bool"
<1> USE DEF Fields, Layout!Fields, Layout!F, Layout!WorldPacketsServerBound,
            Layout!WorldPacketsClientBound
<1>1. CASE p = "PlayerJoinWorld"
  BY <1>1
<1>2. CASE p = "PlayerActionTracked"
  BY <1>2
<1>3. CASE p = "PlayerPositionUpdate"
  BY <1>3
<1>4. CASE p = "PlayerSpawnCar"
  BY <1>4
<1>5. CASE p = "PlayerUnmountCar"
  BY <1>5
<1>6. CASE p = "PlayerShoot"
  BY <1>6
<1>7. CASE p = "SpawnEntity"
  BY <1>7
<1>8. CASE p = "DestroyEntity"
  BY <1>8
<1>9. CASE p = "TeleportEntity"
  BY <1>9
<1>10. CASE p = "InitAuth"
  BY <1>10 DEF Layout!InitAuthServerBoundCSharp
<1>11. CASE p = "InitAuthResult"
  BY <1>11 DEF Layout!AuthResultClientBound
<1>12. CASE p = "Message"
  BY <1>12 DEF Layout!Message
<1> QED
  BY PacketsAre, <1>1, <1>2, <1>3, <1>4, <1>5, <1>6, <1>7, <1>8, <1>9, <1>10, <1>11, <1>12

LEMMA SizesOfBoth ==
    ASSUME NEW half \in Halves, NEW p \in AllPackets
    PROVE  Layout!SizeOfStruct(half, p) = Layout!SizeOfStruct("native", p)
<1> DEFINE n == Len(Fields(p))
<1>1. "native" \in Halves /\ n \in Nat /\ DOMAIN Fields(p) = 1 .. n
  BY BeginsAfter DEF Halves
<1>2. Begin(half, p, n + 1) = Begin("native", p, n + 1)
  <2>1. CASE p \in {"PlayerEquipItem", "EquipItemEntity"}
    BY <1>1, <2>1, EndOfFlags
  <2>2. CASE p \notin {"PlayerEquipItem", "EquipItemEntity"}
    <3>1. \A i \in DOMAIN Fields(p) : Fields(p)[i].type # "bool" /\ Fields(p)[i].type \in FieldTypes
      BY <2>2, FlagsAre, FieldsAre DEF Fields, Struct
    <3>2. \A i \in DOMAIN Fields(p) :
            Layout!Alignment(half, Fields(p)[i].type)
              = Layout!Alignment("native", Fields(p)[i].type)
      BY <3>1, SizesAre
    <3>3. Aligned(half, p) = Aligned("native", p)
      BY <3>2 DEF Aligned
    <3>4. AlignmentAt(half, p, n + 1) = AlignmentAt("native", p, n + 1)
      BY <3>2, <3>3 DEF AlignmentAt
    <3>5. n + 1 \in 1 .. n + 1
      BY <1>1
    <3> HIDE DEF n
    <3> QED  BY <3>1, <3>4, <3>5, SameBegins DEF n
  <2> QED  BY <2>1, <2>2
<1> QED  BY <1>1, <1>2, FieldsOfBoth DEF Layout!SizeOfStruct, Begin

-----------------------------------------------------------------------------
(* What one half lays out the other reads.                                 *)

Covering(half, p, fields, offset) ==
    {i \in DOMAIN fields :
        offset \in Begin(half, p, i) .. Begin(half, p, i) + Layout!SizeOf(half, fields[i].type) - 1}

ByteAt(half, p, fields, values, padding, offset) ==
    IF Covering(half, p, fields, offset) = {}
    THEN Layout!Number(padding)
    ELSE LET i == CHOOSE i \in Covering(half, p, fields, offset) : TRUE
         IN  Layout!ByteOf(fields[i], offset - Begin(half, p, i), values)

LEMMA MemoryIs ==
    ASSUME NEW half \in Halves, NEW p \in AllPackets, NEW values, NEW padding
    PROVE  Layout!Laid(half, p, values, padding)
             = [offset \in 0 .. Layout!SizeOfStruct(half, p) - 1 |->
                   ByteAt(half, p, Fields(p), values, padding, offset)]
<1>1. Layout!Laid(half, p, values, padding)
        = [offset \in 0 .. Layout!SizeOfStruct(half, p) - 1 |->
              ByteAt(half, p, Layout!Fields(half, p), values, padding, offset)]
  BY DEF Layout!Laid, ByteAt, Covering, Begin
<1> QED  BY <1>1, FieldsOfBoth

LEMMA BytesArrive ==
    ASSUME NEW from \in Halves, NEW to \in Halves, NEW p \in AllPackets,
           NEW i \in DOMAIN Fields(p), Fields(p)[i].type # "bool",
           NEW values, NEW padding
    PROVE  Layout!BytesRead(to, p, i, Layout!Laid(from, p, values, padding))
             = Layout!BytesWritten(from, p, i, values)
<1> DEFINE n == Len(Fields(p))
           memory == Layout!Laid(from, p, values, padding)
           Here(offset) == Covering(from, p, Fields(p), offset)
<1>1. n \in Nat /\ DOMAIN Fields(p) = 1 .. n /\ i \in 1 .. n /\ "native" \in Halves
      /\ i \in 1 .. n + 1 /\ n + 1 \in 1 .. n + 1 /\ i < n + 1
  BY BeginsAfter DEF Halves
<1>2. Begin(to, p, i) = Begin(from, p, i)
  <2>1. ASSUME NEW k \in DOMAIN Fields(p), k <= i
        PROVE  Fields(p)[k].type # "bool"
    <3>1. k < i \/ k = i
      BY <1>1, <2>1
    <3>2. CASE k < i
      BY <3>2, FieldsAre DEF Fields, FlagsLast
    <3> QED  BY <3>1, <3>2
  <2>2. i # n + 1
    BY <1>1
  <2>3. Begin(to, p, i) = Begin("native", p, i)
    BY <1>1, <2>1, <2>2, SameBegins
  <2>4. Begin(from, p, i) = Begin("native", p, i)
    BY <1>1, <2>1, <2>2, SameBegins
  <2> QED  BY <2>3, <2>4
<1>3. SizeAt(to, p, i) = SizeAt(from, p, i)
  BY FieldsAre, SizesAre DEF SizeAt, Fields, Struct
<1>4. Layout!SizeOfStruct(from, p) = Begin(from, p, n + 1)
  <2>1. Fields(p) # <<>>
    BY <1>1
  <2> QED  BY <2>1, FieldsOfBoth DEF Layout!SizeOfStruct, Begin
<1>5. PICK b \in Nat, size \in Nat, end \in Nat :
        /\ b = Begin(from, p, i) /\ size = SizeAt(from, p, i) /\ end = Begin(from, p, n + 1)
        /\ b + size <= end
  <2>1. Begin(from, p, i) \in Nat /\ Begin(from, p, n + 1) \in Nat
    BY <1>1, BeginsAfter
  <2>2. SizeAt(from, p, i) \in Nat
    BY SizesAt
  <2>3. Begin(from, p, i) + SizeAt(from, p, i) <= Begin(from, p, n + 1)
    BY <1>1, EndsBefore
  <2> QED  BY <2>1, <2>2, <2>3
<1>6. ASSUME NEW k \in 0 .. size - 1
      PROVE  b + k \in DOMAIN memory /\ memory[b + k] = Layout!ByteOf(Fields(p)[i], k, values)
  <2>1. b + k \in 0 .. end - 1
    BY <1>5
  <2>2. i \in Here(b + k)
    BY <1>5 DEF Covering, SizeAt
  <2>3. ASSUME NEW j \in Here(b + k)
        PROVE  j = i
    <3>1. /\ j \in 1 .. n /\ j \in 1 .. n + 1
          /\ Begin(from, p, j) \in Nat /\ SizeAt(from, p, j) \in Nat
          /\ b + k \in Begin(from, p, j) .. Begin(from, p, j) + SizeAt(from, p, j) - 1
      <4>1. /\ j \in 1 .. n
            /\ b + k \in Begin(from, p, j) .. Begin(from, p, j) + SizeAt(from, p, j) - 1
        BY <1>1, <2>3 DEF Covering, SizeAt
      <4>2. j \in 1 .. n + 1
        BY <1>1, <4>1
      <4>3. Begin(from, p, j) \in Nat
        BY <4>2, BeginsAfter
      <4>4. SizeAt(from, p, j) \in Nat
        BY <1>1, <4>1, SizesAt
      <4> QED  BY <4>1, <4>2, <4>3, <4>4
    <3>2. PICK start \in Nat, length \in Nat :
            /\ start = Begin(from, p, j) /\ length = SizeAt(from, p, j)
            /\ b + k \in start .. start + length - 1
      BY <3>1
    <3>3. CASE i < j
      <4>1. b + size <= start
        BY <1>1, <1>5, <3>1, <3>2, <3>3, EndsBefore
      <4>2. b + size <= start => b + k \notin start .. start + length - 1
        OBVIOUS
      <4> QED  BY <3>2, <4>1, <4>2
    <3>4. CASE j < i
      <4>1. start + length <= b
        BY <1>1, <1>5, <3>1, <3>2, <3>4, EndsBefore
      <4>2. start + length <= b => b + k \notin start .. start + length - 1
        OBVIOUS
      <4> QED  BY <3>2, <4>1, <4>2
    <3> QED  BY <1>1, <3>1, <3>3, <3>4
  <2>4. Here(b + k) # {} /\ (CHOOSE j \in Here(b + k) : TRUE) = i
    <3> HIDE DEF Here
    <3> QED  BY <2>2, <2>3
  <2>5. memory = [offset \in 0 .. end - 1 |-> ByteAt(from, p, Fields(p), values, padding, offset)]
    <3>1. 0 .. Layout!SizeOfStruct(from, p) - 1 = 0 .. end - 1
      BY <1>4, <1>5
    <3>2. memory = [offset \in 0 .. Layout!SizeOfStruct(from, p) - 1 |->
                      ByteAt(from, p, Fields(p), values, padding, offset)]
      BY MemoryIs
    <3> HIDE DEF memory
    <3> QED  BY <3>1, <3>2
  <2>6. b + k \in DOMAIN memory
        /\ memory[b + k] = ByteAt(from, p, Fields(p), values, padding, b + k)
    <3> HIDE DEF memory
    <3> QED  BY <2>1, <2>5
  <2>7. ByteAt(from, p, Fields(p), values, padding, b + k)
          = Layout!ByteOf(Fields(p)[i], (b + k) - Begin(from, p, i), values)
    BY <2>4 DEF ByteAt
  <2>8. (b + k) - Begin(from, p, i) = k
    BY <1>5
  <2> HIDE DEF memory
  <2> QED  BY <2>6, <2>7, <2>8
<1>7. Layout!BytesRead(to, p, i, memory)
        = [k \in 0 .. size - 1 |-> IF b + k \in DOMAIN memory THEN memory[b + k]
                                   ELSE Layout!Number(-1)]
  <2> HIDE DEF memory
  <2> QED  BY <1>2, <1>3, <1>5, FieldsOfBoth DEF Layout!BytesRead, Begin, SizeAt
<1>8. Layout!BytesWritten(from, p, i, values)
        = [k \in 0 .. size - 1 |-> Layout!ByteOf(Fields(p)[i], k, values)]
  BY <1>5, FieldsOfBoth DEF Layout!BytesWritten, SizeAt
<1> HIDE DEF memory
<1> QED  BY <1>6, <1>7, <1>8 DEF memory

(* Every packet arrives, between any two halves, and has room.              *)
LEMMA PacketsArrive ==
    ASSUME NEW from \in Halves, NEW to \in Halves, NEW p \in AllPackets
    PROVE  Layout!Arrives(from, to, p)
<1>1. Layout!TakenFor(from, to, p) = {p}
  BY NumbersAre
<1>2. Layout!Fields(from, p) = Fields(p) /\ Layout!Fields(to, p) = Fields(p)
  BY FieldsOfBoth
<1>3. ASSUME NEW values, NEW padding, NEW i \in DOMAIN Fields(p), Fields(p)[i].type # "bool"
      PROVE  Layout!BytesRead(to, p, i, Layout!Laid(from, p, values, padding))
               = Layout!BytesWritten(from, p, i, values)
  BY <1>3, BytesArrive
<1> QED  BY <1>1, <1>2, <1>3 DEF Layout!Arrives

LEMMA PacketsFit ==
    ASSUME NEW from \in Halves, NEW to \in Halves, NEW p \in AllPackets
    PROVE  Layout!Fits(from, to, p)
<1>1. Layout!SizeOfStruct(to, p) = Layout!SizeOfStruct(from, p)
  BY SizesOfBoth
<1>2. Layout!SizeOfStruct(from, p) \in Nat
  <2>1. Len(Fields(p)) \in Nat /\ Len(Fields(p)) + 1 \in 1 .. Len(Fields(p)) + 1
    BY BeginsAfter
  <2>2. Begin(from, p, Len(Fields(p)) + 1) \in Nat
    BY <2>1, BeginsAfter
  <2> QED  BY <2>2, FieldsOfBoth DEF Layout!SizeOfStruct, Begin
<1> QED  BY <1>1, <1>2 DEF Layout!Fits

LEMMA AllArrive ==
    ASSUME NEW p
    PROVE  /\ p \in Serverbound \cup {"Message"} => ReceivedArrive[p] /\ ReceivedFit[p]
           /\ p \in Clientbound \cup {"Message"} => RepliedArrive[p] /\ RepliedFit[p]
<1>1. "native" \in Halves /\ "managed" \in Halves
  BY DEF Halves
<1>2. /\ Serverbound \cup {"Message"} \subseteq AllPackets
      /\ Clientbound \cup {"Message"} \subseteq AllPackets
  BY LayoutAssumption DEF LayoutAssumption, AllPackets
<1>3. ASSUME p \in Serverbound \cup {"Message"}
      PROVE  ReceivedArrive[p] /\ ReceivedFit[p]
  <2>1. Layout!Arrives("native", "managed", p) /\ Layout!Fits("native", "managed", p)
    BY <1>1, <1>2, <1>3, PacketsArrive, PacketsFit
  <2> QED  BY <1>3, <2>1 DEF ReceivedArrive, ReceivedFit, Received
<1>4. ASSUME p \in Clientbound \cup {"Message"}
      PROVE  RepliedArrive[p] /\ RepliedFit[p]
  <2>1. Layout!Arrives("managed", "native", p) /\ Layout!Fits("managed", "native", p)
    BY <1>1, <1>2, <1>4, PacketsArrive, PacketsFit
  <2> QED  BY <1>4, <2>1 DEF RepliedArrive, RepliedFit, Replied
<1> QED  BY <1>3, <1>4

-----------------------------------------------------------------------------
(* Only the packets of a direction travel in it.                            *)
Kinds == Types(marshalled) \subseteq Serverbound /\ Types(serialized) \subseteq Clientbound

MInv == CInv /\ Kinds

LEMMA TypesOfAppend ==
    ASSUME NEW packets \in Seq(Packets), NEW packet \in Packets
    PROVE  Types(Append(packets, packet)) \subseteq Types(packets) \cup {packet.type}
<1>1. /\ DOMAIN Append(packets, packet) = DOMAIN packets \cup {Len(packets) + 1}
      /\ \A i \in DOMAIN packets : Append(packets, packet)[i] = packets[i]
      /\ Append(packets, packet)[Len(packets) + 1] = packet
  BY AppendProperties, LenProperties
<1> QED  BY <1>1 DEF Types

LEMMA StepKeepsKinds ==
    ASSUME MInv, [Next]_vars
    PROVE  Kinds'
<1>1. CASE ProcessSendQueue
  <2>1. /\ serialized' = Append(serialized, At(Head(sendQueue).data))
        /\ UNCHANGED marshalled /\ sendQueue # <<>>
    BY <1>1 DEF ProcessSendQueue
  <2>2. PICK first : first = Head(sendQueue) /\ first = sendQueue[1] /\ 1 \in DOMAIN sendQueue
                     /\ first \in Messages(Clientbound)
    BY <2>1, HeadTailProperties, LenProperties, EmptySeq DEF MInv, CInv, IInv, Shape
  <2>3. At(first.data).type \in Clientbound /\ At(first.data) \in Packets
    <3>1. At(first.data).type = first.messageType
      BY <2>2 DEF MInv, CInv, Contents, Typed
    <3> QED  BY <2>2, <3>1, AtIsPacket DEF MInv, CInv, Contents, Messages
  <2>4. Types(serialized') \subseteq Types(serialized) \cup {At(first.data).type}
    BY <2>1, <2>2, <2>3, TypesOfAppend DEF MInv, CInv, Contents, Filled
  <2>5. Types(serialized)' = Types(serialized') /\ Types(marshalled)' = Types(marshalled)
    BY <2>1 DEF Types
  <2> QED  BY <2>3, <2>4, <2>5 DEF MInv, Kinds
<1>2. CASE ProcessMessage
  <2>1. /\ marshalled' \in {marshalled, Append(marshalled, At(msg.data))}
        /\ UNCHANGED serialized /\ phase = "process"
    BY <1>2 DEF ProcessMessage, MarshalTo
  <2>2. At(msg.data).type \in Serverbound /\ At(msg.data) \in Packets
    <3>1. At(msg.data).type = msg.messageType /\ msg \in Messages(Serverbound)
      BY <2>1 DEF MInv, CInv, IInv, Shape, Contents
    <3> QED  BY <3>1, AtIsPacket DEF MInv, CInv, Contents, Messages
  <2>3. PICK packet : packet = At(msg.data)
    OBVIOUS
  <2>4. Types(Append(marshalled, packet)) \subseteq Types(marshalled) \cup {packet.type}
    BY <2>2, <2>3, TypesOfAppend DEF MInv, CInv, Contents, Filled
  <2>5. Types(marshalled)' = Types(marshalled') /\ Types(serialized)' = Types(serialized)
    BY <2>1 DEF Types
  <2> QED  BY <2>1, <2>2, <2>3, <2>4, <2>5 DEF MInv, Kinds
<1>3. CASE ~(ProcessSendQueue \/ ProcessMessage)
  <2>1. UNCHANGED <<marshalled, serialized>>
    BY <1>3 DEF Next, vars, RejectPacket, AddToRecvQueue, PollRecvQueue, EnqueueMessage,
                FinishHandler, Advance
  <2> QED  BY <2>1 DEF MInv, Kinds, Types
<1> QED  BY <1>1, <1>2, <1>3

LEMMA MInvHolds == Spec => []MInv
<1>1. Init => MInv
  <2>1. Init => Kinds
    BY DEF Init, Kinds, Types
  <2> QED  BY <2>1, InitHasContents DEF MInv
<1>2. MInv /\ [Next]_vars => MInv'
  BY StepKeepsContents, StepKeepsKinds DEF MInv
<1> QED  BY <1>1, <1>2, PTL DEF Spec

(* A packet is read as the type and, but for its flags, with the values it  *)
(* was given, by handlers and network alike: for every value of its flags   *)
(* and of the padding, whatever packets came before.                        *)
THEOREM PacketsKeepTheirFields == Spec => []FieldsSurvive
<1>1. MInv => FieldsSurvive
  <2> SUFFICES ASSUME MInv PROVE FieldsSurvive
    OBVIOUS
  <2>1. /\ \A p \in Serverbound \cup {"Message"} : ReceivedArrive[p]
        /\ \A p \in Clientbound \cup {"Message"} : RepliedArrive[p]
    BY AllArrive
  <2> QED  BY <2>1 DEF FieldsSurvive, MInv, Kinds
<1> QED  BY <1>1, MInvHolds, PTL

(* Of a packet that waits for it no half reads more than the other asked    *)
(* for: with flags of one byte or of four both ask for as much.             *)
THEOREM PacketsFitTheirBuffers == Spec => []FitsTheBuffer
<1>1. MInv => FitsTheBuffer
  <2> SUFFICES ASSUME MInv PROVE FitsTheBuffer
    OBVIOUS
  <2>1. /\ \A p \in Serverbound \cup {"Message"} : ReceivedFit[p]
        /\ \A p \in Clientbound \cup {"Message"} : RepliedFit[p]
    BY AllArrive
  <2>2. /\ recvQueue \in Seq(Messages(Serverbound))
        /\ sendQueue \in Seq(Messages(Clientbound))
        /\ InHand \in Seq(Messages(Serverbound))
    <3>1. Shape
      BY DEF MInv, CInv, IInv
    <3>2. CASE phase = "process"
      <4>1. InHand = <<msg>> /\ msg \in Messages(Serverbound)
        BY <3>1, <3>2 DEF InHand, Shape
      <4> QED  BY <3>1, <4>1 DEF Shape
    <3>3. CASE phase # "process"
      BY <3>1, <3>3, EmptySeq DEF InHand, Shape
    <3> QED  BY <3>2, <3>3
  <2>3. recvQueue \o InHand \in Seq(Messages(Serverbound))
    BY <2>2, ConcatProperties
  <2>4. /\ \A i \in DOMAIN (recvQueue \o InHand) :
             (recvQueue \o InHand)[i] \in Messages(Serverbound)
        /\ \A i \in DOMAIN sendQueue : sendQueue[i] \in Messages(Clientbound)
    BY <2>2, <2>3, LenProperties, ElementOfSeq
  <2>5. /\ MessageTypes(recvQueue \o InHand) \subseteq Serverbound
        /\ MessageTypes(sendQueue) \subseteq Clientbound
    BY <2>4 DEF MessageTypes, Messages
  <2> QED  BY <2>1, <2>5 DEF FitsTheBuffer
<1> QED  BY <1>1, MInvHolds, PTL

=============================================================================
