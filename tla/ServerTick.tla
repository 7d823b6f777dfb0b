----------------------------- MODULE ServerTick -----------------------------
(***************************************************************************)
(* The server's loop: the native GameServer, its queues and callbacks,     *)
(* around the managed handlers of EntityTracking.  The one thread goes     *)
(* through ProcessSendQueue, PollIncomingMessages, RunCallbacks and the    *)
(* managed drain of the receive queue, over and over, while the network    *)
(* library's own thread accepts, delivers and loses things at any moment.  *)
(*                                                                         *)
(* The library (GameNetworkingSockets) is external.  Modelled is what the  *)
(* server relies on: per connection, messages arrive reliably and in       *)
(* order; state changes are queued and reported by RunCallbacks; unread    *)
(* messages survive the end of a connection until CloseConnection; sending *)
(* on a connection that has ended fails.                                   *)
(***************************************************************************)
EXTENDS EntityTracking

CONSTANTS
    Asked,        \* the requests that clients send
    MaxRequests   \* bound: requests per connection

ASSUME RequestsAssumption ==
    /\ Asked \subseteq Requests
    /\ MaxRequests \in Nat

\* A handle is a 32 bit number.
ASSUME ConnsAssumption == IsFiniteSet(Conns)

VARIABLES
    phase,      \* where the loop is
    conn,       \* the library's state of each connection
    callbacks,  \* state changes RunCallbacks has yet to report
    arrived,    \* per connection, messages the library holds for the poll group
    recvQueue,  \* dll_recv_queue
    sendQueue,  \* dll_send_queue
    heard,      \* what each client makes of the packets it got
    sent,       \* history: the requests that reached the server, per connection
    handled     \* history: the requests that were handled, per connection

queues == <<arrived, recvQueue, sendQueue>>
history == <<heard, sent, handled>>
tickVars == <<vars, phase, conn, callbacks, queues, history>>

Change(c, state, old) == [conn |-> c, state |-> state, old |-> old]

-----------------------------------------------------------------------------
(* The network, at any moment.                                             *)

Connect(c) ==
    /\ conn[c] = "none"
    /\ conn' = [conn EXCEPT ![c] = "connecting"]
    /\ callbacks' = Append(callbacks, Change(c, "connecting", "none"))
    /\ UNCHANGED <<vars, phase, queues, history>>

Creates(request) ==
    \/ request.type \in {"PlayerJoinWorld", "PlayerSpawnCar"}
    \/ request.type = "PlayerEquipItem" /\ ~request.isUnequipping

(* Requests for entities that are on their way or were handled; keeps the  *)
(* handlers below MaxEntities.                                             *)
Creations ==
    Cardinality({place \in Conns \X (1 .. MaxRequests) :
                    LET c == place[1]
                        i == place[2]
                    IN  i \in DOMAIN sent[c] /\ Creates(sent[c][i])})

(* A client sends InitAuth once, when its connection is up, and anything   *)
(* else when the game gives rise to it, be it signed in or not.            *)
Arrive(c, request) ==
    /\ conn[c] = "connected"
    /\ Len(sent[c]) < MaxRequests
    /\ request.type = "InitAuth" =>
         \A i \in DOMAIN sent[c] : sent[c][i].type # "InitAuth"
    /\ Creates(request) => Creations < MaxEntities
    /\ arrived' = [arrived EXCEPT ![c] = Append(@, request)]
    /\ sent' = [sent EXCEPT ![c] = Append(@, request)]
    /\ UNCHANGED <<vars, phase, conn, callbacks, recvQueue, sendQueue, heard, handled>>

(* Closed by the peer, or a problem detected locally.                      *)
Disconnect(c) ==
    /\ conn[c] \in {"connecting", "connected"}
    /\ conn' = [conn EXCEPT ![c] = "closed"]
    /\ callbacks' = Append(callbacks, Change(c, "closed", conn[c]))
    /\ UNCHANGED <<vars, phase, queues, history>>

-----------------------------------------------------------------------------
(* What a client makes of a packet: the answer to InitAuth comes first and  *)
(* once, then entities come, move and go as in Believe.                    *)
Hear(belief, message) ==
    IF message.type = "InitAuthResult"
    THEN [belief EXCEPT !.answered = TRUE, !.sound = @ /\ ~belief.answered]
    ELSE LET b == Believe([ids |-> belief.ids, sound |-> belief.sound], message)
         IN  [answered |-> belief.answered, ids |-> b.ids,
              sound |-> b.sound /\ belief.answered]

(* SendMessageToConnection reaches the peer if the connection is up and    *)
(* else fails, which is only logged.                                       *)
SendHead ==
    /\ phase = "send"
    /\ sendQueue # <<>>
    /\ LET val == Head(sendQueue)
       IN  heard' = IF conn[val.conn] = "connected"
                    THEN [heard EXCEPT ![val.conn] = Hear(@, val.message)]
                    ELSE heard
    /\ sendQueue' = Tail(sendQueue)
    /\ UNCHANGED <<vars, phase, conn, callbacks, arrived, recvQueue, sent, handled>>

(* Mutant: a message goes to the front of the queue.                       *)
PutFirst(queue, message) == <<message>> \o queue

AddToRecvQueue(queue, message) == Append(queue, message)

(* Mutant: the connection is left at k_HSteamNetConnection_Invalid.        *)
ReceivedFromNobody(c, message) == [conn |-> 0, message |-> message]

Received(c, message) == [conn |-> c, message |-> message]

PollIncomingMessages(c) ==
    /\ phase = "poll"
    /\ arrived[c] # <<>>
    /\ recvQueue' = AddToRecvQueue(recvQueue, Received(c, Head(arrived[c])))
    /\ arrived' = [arrived EXCEPT ![c] = Tail(@)]
    /\ UNCHANGED <<vars, phase, conn, callbacks, sendQueue, history>>

-----------------------------------------------------------------------------
(* What a managed handler enqueued joins dll_send_queue.  Messages to       *)
(* different connections never meet again, so one interleaving stands for  *)
(* all.                                                                    *)
Addressed(c, messages) == [i \in DOMAIN messages |-> [conn |-> c, message |-> messages[i]]]

(* Mutant: what a handler enqueues is dropped.                              *)
SendNothing == UNCHANGED sendQueue

EnqueueSendQueue ==
    LET order == SetToSeq(Conns)
    IN  sendQueue' = sendQueue
          \o FlattenSeq([i \in 1 .. Len(order) |-> Addressed(order[i], enqueued'[order[i]])])

(* CloseConnection destroys the connection and what it still holds.        *)
CloseConnection(c) ==
    /\ conn' = [conn EXCEPT ![c] = "gone"]
    /\ arrived' = [arrived EXCEPT ![c] = <<>>]

(* Mutant: the managed layer takes any news for the end.                   *)
AnyState(state) == TRUE

IsEnd(state) == state = "closed"

(* The managed layer acts on news of an end alone.                         *)
TellManaged(c, state) ==
    IF IsEnd(state)
    THEN /\ OnConnectionStateChange(c)
         /\ closed' = closed \cup {c}
         /\ sender' = {c}
         /\ UNCHANGED greeted
         /\ EnqueueSendQueue
    ELSE UNCHANGED <<vars, sendQueue>>

(* OnConnectionStatusChanged: a new connection is accepted, which fails if  *)
(* the peer is gone already, and joins the poll group, which may fail too;  *)
(* either failure destroys the connection and the managed layer hears       *)
(* nothing of it.                                                          *)
OnConnecting(c) ==
    \/ /\ conn[c] = "connecting"
       /\ conn' = [conn EXCEPT ![c] = "connected"]
       /\ UNCHANGED arrived
       /\ TellManaged(c, "connecting")
    \/ /\ CloseConnection(c)
       /\ UNCHANGED <<vars, sendQueue>>

(* Mutant: the end of an established connection goes unreported.           *)
TellsOfOthers(old) == old # "connected"

TellsManaged(old) == old = "connected"

(* Only the end of a connection that was up is reported.                   *)
OnClosed(c, old) ==
    /\ IF TellsManaged(old)
       THEN TellManaged(c, "closed")
       ELSE UNCHANGED <<vars, sendQueue>>
    /\ CloseConnection(c)

RunCallback ==
    /\ phase = "callbacks"
    /\ callbacks # <<>>
    /\ callbacks' = Tail(callbacks)
    /\ LET pInfo == Head(callbacks)
       IN  \/ pInfo.state = "connecting" /\ OnConnecting(pInfo.conn)
           \/ pInfo.state = "closed" /\ OnClosed(pInfo.conn, pInfo.old)
    /\ UNCHANGED <<phase, recvQueue, history>>

-----------------------------------------------------------------------------
PollRecvQueue(queue) == Tail(queue)

HandleHead ==
    /\ phase = "handle"
    /\ recvQueue # <<>>
    /\ LET c == Head(recvQueue).conn
           request == Head(recvQueue).message
       IN  /\ Handle(c, request)
           /\ handled' = [handled EXCEPT ![c] = Append(@, request)]
    /\ EnqueueSendQueue
    /\ recvQueue' = PollRecvQueue(recvQueue)
    /\ UNCHANGED <<phase, conn, callbacks, arrived, heard, sent>>

(* Each part of Update runs until its queue is empty.                      *)
Advance ==
    /\ \/ phase = "send" /\ sendQueue = <<>> /\ phase' = "poll"
       \/ phase = "poll" /\ (\A c \in Conns : arrived[c] = <<>>) /\ phase' = "callbacks"
       \/ phase = "callbacks" /\ callbacks = <<>> /\ phase' = "handle"
       \/ phase = "handle" /\ recvQueue = <<>> /\ phase' = "send"
    /\ UNCHANGED <<vars, conn, callbacks, queues, history>>

Update ==
    \/ SendHead
    \/ \E c \in Conns : PollIncomingMessages(c)
    \/ RunCallback
    \/ HandleHead
    \/ Advance

TickInit ==
    /\ Init
    /\ phase = "send"
    /\ conn = [c \in Conns |-> "none"]
    /\ callbacks = <<>>
    /\ arrived = [c \in Conns |-> <<>>]
    /\ recvQueue = <<>>
    /\ sendQueue = <<>>
    /\ heard = [c \in Conns |-> [answered |-> FALSE, ids |-> {}, sound |-> TRUE]]
    /\ sent = [c \in Conns |-> <<>>]
    /\ handled = [c \in Conns |-> <<>>]

TickNext ==
    \/ Update
    \/ \E c \in Conns :
         \/ Connect(c)
         \/ Disconnect(c)
         \/ \E request \in Asked : Arrive(c, request)

TickSpec == TickInit /\ [][TickNext]_tickVars

(* The server's thread never stops; the network owes nothing.              *)
FairTickSpec == TickSpec /\ WF_tickVars(Update)

-----------------------------------------------------------------------------
States == {"none", "connecting", "connected", "closed", "gone"}

(* The loop is in one of its four parts and every queue holds what belongs *)
(* there, of connections the library knows.                                *)
TickTypeOK ==
    /\ phase \in {"send", "poll", "callbacks", "handle"}
    /\ conn \in [Conns -> States]
    /\ callbacks \in Seq([conn : Conns, state : States, old : States])
    /\ arrived \in [Conns -> Seq(Asked)]
    /\ recvQueue \in Seq([conn : Conns, message : Asked])
    /\ sendQueue \in Seq([conn : Conns, message : Messages])
    /\ heard \in [Conns -> [answered : BOOLEAN, ids : SUBSET Ids, sound : BOOLEAN]]
    /\ sent \in [Conns -> Seq(Asked)]
    /\ handled \in [Conns -> Seq(Asked)]

(* The messages of c in a queue of addressed messages.                     *)
KeepOwn(own, m) ==
    IF m.conn = own.conn THEN [own EXCEPT !.messages = Append(@, m.message)] ELSE own

Of(c, queue) == FoldLeft(KeepOwn, [conn |-> c, messages |-> <<>>], queue).messages

(* What a connected client has made of its packets, and will make of those *)
(* in the send queue, is what the server tracks for it: it is answered     *)
(* before it is shown anything, once, and no spawn, teleport or destroy is *)
(* lost, doubled or overtaken between the tracker and the client.          *)
PipelineExplainsTracking ==
    \A c \in Conns : conn[c] = "connected" =>
        FoldLeft(Hear, heard[c], Of(c, sendQueue))
          = [answered |-> c \in greeted, ids |-> View[c], sound |-> TRUE]

(* Every request is handled once and in the order of arrival.  Only the    *)
(* end of its connection loses a request, with all that came after it.     *)
HandledInOrder ==
    \A c \in Conns :
        LET path == handled[c] \o Of(c, recvQueue) \o arrived[c]
        IN  /\ IsPrefix(path, sent[c])
            /\ conn[c] # "gone" => path = sent[c]

(* The loop drives the handlers as EntityTracking assumes: InitAuth at most *)
(* once per connection, one end per connection, one handler at a time.     *)
DrivesTheHandlers == Spec

(* A player whose connection ended while they were signed in is signed out *)
(* by a later RunCallbacks, and with them all they own.                    *)
EndIsNoticed ==
    \A c \in Conns : (conn[c] = "closed" /\ c \in ConnectedPlayers)
                        ~> (c \notin ConnectedPlayers /\ conn[c] = "gone")

(* A client that asked to sign in gets an answer, unless its connection    *)
(* ends.                                                                   *)
AnswerArrives ==
    \A c \in Conns : (\E i \in DOMAIN sent[c] : sent[c][i].type = "InitAuth")
                        ~> (heard[c].answered \/ conn[c] # "connected")

(* "someone connected but never signed in" (GameServer.cs, where the end   *)
(* of a connection finds no player): such a connection does not sign in    *)
(* afterwards.                                                             *)
NeverSignedIn ==
    [][\A c \in closed \ ConnectedPlayers : c \notin ConnectedPlayers']_tickVars

=============================================================================
