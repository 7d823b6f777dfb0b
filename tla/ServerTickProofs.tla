-------------------------- MODULE ServerTickProofs --------------------------
(***************************************************************************)
(* Proofs about ServerTick: whatever the network does and when, the loop   *)
(* drives the handlers of EntityTracking as that module assumes, so what   *)
(* is proved there holds in the composed server.                           *)
(***************************************************************************)
EXTENDS ServerTick, EntityTrackingProofs

(* The part of the loop that decides what is handled next is well formed.  *)
LoopTyped ==
    /\ conn \in [Conns -> States]
    /\ callbacks \in Seq([conn : Conns, state : States, old : States])
    /\ arrived \in [Conns -> Seq(Asked)]
    /\ recvQueue \in Seq([conn : Conns, message : Asked])
    /\ sent \in [Conns -> Seq(Asked)]

Asks(c, i) == recvQueue[i].conn = c /\ recvQueue[i].message.type = "InitAuth"

(* The one InitAuth of a connection has been handled, or is in one place   *)
(* of the queues, or has not been sent.                                    *)
AskedOnce(c) ==
    /\ c \in greeted \/ (\E i \in DOMAIN recvQueue : Asks(c, i))
         \/ (\E i \in DOMAIN arrived[c] : arrived[c][i].type = "InitAuth")
       => \E i \in DOMAIN sent[c] : sent[c][i].type = "InitAuth"
    /\ c \in greeted => \A i \in DOMAIN recvQueue : ~Asks(c, i)
    /\ c \in greeted \/ (\E i \in DOMAIN recvQueue : Asks(c, i))
       => \A i \in DOMAIN arrived[c] : arrived[c][i].type # "InitAuth"
    /\ \A i, j \in DOMAIN recvQueue : Asks(c, i) /\ Asks(c, j) => i = j
    /\ \A i, j \in DOMAIN arrived[c] :
          arrived[c][i].type = "InitAuth" /\ arrived[c][j].type = "InitAuth" => i = j

AsksOnce == \A c \in Conns : AskedOnce(c)

(* A connection ends once, and is reported to the managed layer after it   *)
(* has ended.                                                              *)
EndsOnce ==
    /\ \A i \in DOMAIN callbacks :
          callbacks[i].state = "closed" =>
              /\ callbacks[i].conn \notin closed
              /\ conn[callbacks[i].conn] \in {"closed", "gone"}
    /\ \A i, j \in DOMAIN callbacks :
          /\ callbacks[i].state = "closed"
          /\ callbacks[j].state = "closed"
          /\ callbacks[i].conn = callbacks[j].conn
          => i = j
    /\ \A c \in closed : c \in Conns /\ conn[c] \in {"closed", "gone"}

LoopInv == LoopTyped /\ AsksOnce /\ EndsOnce

-----------------------------------------------------------------------------
(* Every step of the loop and of the network is a step of the handlers or  *)
(* leaves them alone.                                                      *)

LEMMA HandlingIsAStep ==
    ASSUME LoopInv, HandleHead
    PROVE  Next
<1> DEFINE c == Head(recvQueue).conn
           request == Head(recvQueue).message
<1>1. /\ 1 \in DOMAIN recvQueue
      /\ recvQueue[1] = Head(recvQueue)
      /\ c \in Conns
      /\ request \in Asked
  <2>1. /\ recvQueue \in Seq([conn : Conns, message : Asked])
        /\ recvQueue # <<>>
    BY DEF LoopInv, LoopTyped, HandleHead
  <2>2. /\ 1 \in DOMAIN recvQueue
        /\ recvQueue[1] = Head(recvQueue)
        /\ recvQueue[1] \in [conn : Conns, message : Asked]
    BY <2>1, HeadIsFirst
  <2> QED  BY <2>2
<1>2. Handle(c, request)
  BY DEF HandleHead
<1>3. request \in Requests
  BY <1>1, RequestsAssumption
<1>4. request.type = "InitAuth" => c \notin greeted
  BY <1>1 DEF LoopInv, AsksOnce, AskedOnce, Asks
<1> HIDE DEF c, request
<1> QED  BY <1>1, <1>2, <1>3, <1>4, HandleIsAStep

LEMMA CallbackIsAStep ==
    ASSUME LoopInv, RunCallback
    PROVE  Next \/ UNCHANGED vars
<1> DEFINE pInfo == Head(callbacks)
<1>1. /\ 1 \in DOMAIN callbacks
      /\ callbacks[1] = pInfo
      /\ pInfo.conn \in Conns
  <2>1. /\ callbacks \in Seq([conn : Conns, state : States, old : States])
        /\ callbacks # <<>>
    BY DEF LoopInv, LoopTyped, RunCallback
  <2>2. /\ 1 \in DOMAIN callbacks
        /\ callbacks[1] = pInfo
        /\ callbacks[1] \in [conn : Conns, state : States, old : States]
    BY <2>1, HeadIsFirst
  <2> QED  BY <2>2
<1>2. CASE pInfo.state = "connecting" /\ OnConnecting(pInfo.conn)
  BY <1>2 DEF OnConnecting, TellManaged, IsEnd
<1>3. CASE pInfo.state = "closed" /\ OnClosed(pInfo.conn, pInfo.old)
  <2>1. CASE ~TellsManaged(pInfo.old)
    BY <1>3, <2>1 DEF OnClosed
  <2>2. CASE TellsManaged(pInfo.old)
    <3>1. pInfo.conn \notin closed
      BY <1>1, <1>3 DEF LoopInv, EndsOnce
    <3>2. EndConnection(pInfo.conn)
      BY <1>3, <2>2, <3>1 DEF OnClosed, TellManaged, IsEnd, EndConnection
    <3> QED  BY <1>1, <3>2 DEF Next
  <2> QED  BY <2>1, <2>2
<1> QED  BY <1>2, <1>3 DEF RunCallback

LEMMA TickIsAStep ==
    ASSUME LoopInv, [TickNext]_tickVars
    PROVE  [Next]_vars
<1>1. CASE HandleHead
  BY <1>1, HandlingIsAStep
<1>2. CASE RunCallback
  BY <1>2, CallbackIsAStep
<1>3. CASE UNCHANGED tickVars
  BY <1>3 DEF tickVars
<1>4. CASE SendHead \/ Advance \/ \E c \in Conns : PollIncomingMessages(c)
  BY <1>4 DEF SendHead, Advance, PollIncomingMessages
<1>5. CASE \E c \in Conns : Connect(c) \/ Disconnect(c)
                              \/ \E request \in Asked : Arrive(c, request)
  BY <1>5 DEF Connect, Disconnect, Arrive
<1> QED  BY <1>1, <1>2, <1>3, <1>4, <1>5 DEF TickNext, Update

-----------------------------------------------------------------------------
LEMMA ArriveKeeps ==
    ASSUME LoopInv, NEW c \in Conns, NEW request \in Asked, Arrive(c, request)
    PROVE  LoopInv'
<1>1. /\ UNCHANGED <<conn, callbacks, recvQueue, closed, greeted>>
      /\ arrived[c] \in Seq(Asked)
      /\ sent[c] \in Seq(Asked)
      /\ arrived \in [Conns -> Seq(Asked)]
      /\ sent \in [Conns -> Seq(Asked)]
      /\ arrived' = [arrived EXCEPT ![c] = Append(arrived[c], request)]
      /\ sent' = [sent EXCEPT ![c] = Append(sent[c], request)]
  BY DEF Arrive, LoopInv, LoopTyped, vars, managed
<1>2. request.type = "InitAuth" => \A i \in DOMAIN sent[c] : sent[c][i].type # "InitAuth"
  BY DEF Arrive
<1>3. LoopTyped'
  BY <1>1, AppendAddsLast DEF LoopInv, LoopTyped
<1>4. AsksOnce'
  <2> SUFFICES ASSUME NEW d \in Conns
               PROVE  AskedOnce(d)'
    BY DEF AsksOnce
  <2>1. CASE d # c
    <3>1. UNCHANGED <<arrived[d], sent[d], recvQueue, greeted>>
      BY <1>1, <2>1
    <3> QED  BY <3>1 DEF LoopInv, AsksOnce, AskedOnce, Asks
  <2>2. CASE d = c
    <3>1. AskedOnce(c)
      BY DEF LoopInv, AsksOnce
    <3>2. /\ arrived'[c] = Append(arrived[c], request)
          /\ sent'[c] = Append(sent[c], request)
      BY <1>1
    <3> DEFINE last == Len(arrived[c]) + 1
    <3>3. /\ DOMAIN arrived'[c] = DOMAIN arrived[c] \cup {last}
          /\ \A i \in DOMAIN arrived[c] : arrived'[c][i] = arrived[c][i]
          /\ arrived'[c][last] = request
      BY <1>1, <3>2, AppendAddsLast
    <3>4. \E i \in DOMAIN sent'[c] : sent'[c][i] = request
      BY <1>1, <3>2, AppendAddsLast
    <3>5. \A i \in DOMAIN sent[c] : i \in DOMAIN sent'[c] /\ sent'[c][i] = sent[c][i]
      BY <1>1, <3>2, AppendAddsLast
    <3> HIDE DEF last
    <3> QED  BY <1>1, <1>2, <2>2, <3>1, <3>3, <3>4, <3>5 DEF AskedOnce, Asks
  <2> QED  BY <2>1, <2>2
<1>5. EndsOnce'
  BY <1>1 DEF LoopInv, EndsOnce
<1> QED  BY <1>3, <1>4, <1>5 DEF LoopInv

LEMMA PollKeeps ==
    ASSUME LoopInv, NEW c \in Conns, PollIncomingMessages(c)
    PROVE  LoopInv'
<1> DEFINE message == Received(c, Head(arrived[c]))
           last == Len(recvQueue) + 1
<1>1. /\ UNCHANGED <<conn, callbacks, sent, closed, greeted>>
      /\ arrived[c] \in Seq(Asked)
      /\ arrived[c] # <<>>
      /\ recvQueue \in Seq([conn : Conns, message : Asked])
      /\ arrived \in [Conns -> Seq(Asked)]
      /\ arrived' = [arrived EXCEPT ![c] = Tail(arrived[c])]
      /\ recvQueue' = Append(recvQueue, message)
  BY DEF PollIncomingMessages, AddToRecvQueue, LoopInv, LoopTyped, vars, managed, history
<1>2. /\ 1 \in DOMAIN arrived[c]
      /\ arrived[c][1] = message.message
      /\ message.conn = c
      /\ message \in [conn : Conns, message : Asked]
  BY <1>1, HeadIsFirst DEF Received
<1> HIDE DEF message
<1>3. /\ recvQueue' \in Seq([conn : Conns, message : Asked])
      /\ last \notin DOMAIN recvQueue
      /\ DOMAIN recvQueue' = DOMAIN recvQueue \cup {last}
      /\ \A i \in DOMAIN recvQueue : recvQueue'[i] = recvQueue[i]
      /\ recvQueue'[last] = message
  BY <1>1, <1>2, AppendAddsLast
<1> HIDE DEF last
<1>4. /\ arrived' \in [Conns -> Seq(Asked)]
      /\ DOMAIN arrived'[c] \subseteq Nat \ {0}
      /\ \A i \in DOMAIN arrived'[c] :
            i + 1 \in DOMAIN arrived[c] \ {1} /\ arrived'[c][i] = arrived[c][i + 1]
  BY <1>1, TailDropsFirst
<1>5. LoopTyped'
  BY <1>1, <1>3, <1>4 DEF LoopInv, LoopTyped
<1>6. AsksOnce'
  <2> SUFFICES ASSUME NEW d \in Conns
               PROVE  AskedOnce(d)'
    BY DEF AsksOnce
  <2>1. AskedOnce(d)
    BY DEF LoopInv, AsksOnce
  <2>2. CASE d # c
    <3>1. UNCHANGED <<arrived[d], sent[d], greeted>>
      BY <1>1, <2>2
    <3>2. \A i \in DOMAIN recvQueue' : Asks(d, i)' => i \in DOMAIN recvQueue /\ Asks(d, i)
      BY <1>2, <1>3, <2>2 DEF Asks
    <3> QED  BY <2>1, <3>1, <3>2 DEF AskedOnce
  <2>3. CASE d = c
    <3>1. CASE message.message.type = "InitAuth"
      <4>1. \A i \in DOMAIN arrived'[c] : arrived'[c][i].type # "InitAuth"
        BY <1>2, <1>4, <2>1, <2>3, <3>1 DEF AskedOnce
      <4>2. c \notin greeted /\ \A i \in DOMAIN recvQueue : ~Asks(c, i)
        BY <1>2, <2>1, <2>3, <3>1 DEF AskedOnce
      <4>3. \A i \in DOMAIN recvQueue' : Asks(c, i)' => i = last
        BY <1>3, <4>2 DEF Asks
      <4>4. \E i \in DOMAIN sent[c] : sent[c][i].type = "InitAuth"
        BY <1>2, <2>1, <2>3, <3>1 DEF AskedOnce
      <4> QED  BY <1>1, <2>3, <4>1, <4>2, <4>3, <4>4 DEF AskedOnce
    <3>2. CASE message.message.type # "InitAuth"
      <4>1. \A i \in DOMAIN recvQueue' : Asks(c, i)' => i \in DOMAIN recvQueue /\ Asks(c, i)
        BY <1>3, <3>2 DEF Asks
      <4>2. \A i, j \in DOMAIN arrived'[c] : i + 1 = j + 1 => i = j
        BY <1>4
      <4>3. \A i, j \in DOMAIN arrived'[c] :
               arrived'[c][i].type = "InitAuth" /\ arrived'[c][j].type = "InitAuth" => i = j
        BY <1>4, <2>1, <2>3, <4>2 DEF AskedOnce
      <4>4. (\E i \in DOMAIN arrived'[c] : arrived'[c][i].type = "InitAuth")
              => \E i \in DOMAIN arrived[c] : arrived[c][i].type = "InitAuth"
        BY <1>4
      <4> QED  BY <1>1, <2>1, <2>3, <4>1, <4>3, <4>4 DEF AskedOnce
    <3> QED  BY <3>1, <3>2
  <2> QED  BY <2>2, <2>3
<1>7. EndsOnce'
  BY <1>1 DEF LoopInv, EndsOnce
<1> QED  BY <1>5, <1>6, <1>7 DEF LoopInv

LEMMA HandleKeeps ==
    ASSUME LoopInv, HandleHead
    PROVE  LoopInv'
<1> DEFINE c == Head(recvQueue).conn
           request == Head(recvQueue).message
<1>1. /\ recvQueue \in Seq([conn : Conns, message : Asked])
      /\ recvQueue # <<>>
      /\ recvQueue' = Tail(recvQueue)
      /\ UNCHANGED <<conn, callbacks, arrived, sent>>
  BY DEF LoopInv, LoopTyped, HandleHead, PollRecvQueue
<1>2. /\ 1 \in DOMAIN recvQueue
      /\ recvQueue[1].conn = c
      /\ recvQueue[1].message = request
      /\ c \in Conns
  <2>1. /\ 1 \in DOMAIN recvQueue
        /\ recvQueue[1] = Head(recvQueue)
        /\ recvQueue[1] \in [conn : Conns, message : Asked]
    BY <1>1, HeadIsFirst
  <2> QED  BY <2>1
<1>3. /\ recvQueue' \in Seq([conn : Conns, message : Asked])
      /\ DOMAIN recvQueue' \subseteq Nat \ {0}
      /\ \A i \in DOMAIN recvQueue' :
            i + 1 \in DOMAIN recvQueue \ {1} /\ recvQueue'[i] = recvQueue[i + 1]
  BY <1>1, TailDropsFirst
<1>4. /\ greeted' = IF request.type = "InitAuth" THEN greeted \cup {c} ELSE greeted
      /\ UNCHANGED closed
  BY DEF HandleHead, Handle
<1> HIDE DEF c, request
<1>5. LoopTyped'
  BY <1>1, <1>3 DEF LoopInv, LoopTyped
<1>6. AsksOnce'
  <2> SUFFICES ASSUME NEW d \in Conns
               PROVE  AskedOnce(d)'
    BY DEF AsksOnce
  <2>1. AskedOnce(d)
    BY DEF LoopInv, AsksOnce
  <2>2. \A i \in DOMAIN recvQueue' :
           Asks(d, i)' => i + 1 \in DOMAIN recvQueue \ {1} /\ Asks(d, i + 1)
    BY <1>3 DEF Asks
  <2>3. \A i, j \in DOMAIN recvQueue' : Asks(d, i)' /\ Asks(d, j)' => i = j
    <3>1. \A i, j \in DOMAIN recvQueue' : i + 1 = j + 1 => i = j
      BY <1>3
    <3> QED  BY <2>1, <2>2, <3>1 DEF AskedOnce
  <2>4. CASE d = c /\ request.type = "InitAuth"
    <3>1. Asks(d, 1)
      BY <1>2, <2>4 DEF Asks
    <3>2. \A i \in DOMAIN recvQueue \ {1} : ~Asks(d, i)
      BY <1>2, <2>1, <3>1 DEF AskedOnce
    <3>3. \A i \in DOMAIN recvQueue' : ~Asks(d, i)'
      BY <2>2, <3>2
    <3>4. /\ \E i \in DOMAIN sent[d] : sent[d][i].type = "InitAuth"
          /\ \A i \in DOMAIN arrived[d] : arrived[d][i].type # "InitAuth"
      BY <1>2, <2>1, <3>1 DEF AskedOnce
    <3> QED  BY <1>1, <2>3, <3>3, <3>4 DEF AskedOnce
  <2>5. CASE ~(d = c /\ request.type = "InitAuth")
    <3>1. d \in greeted' <=> d \in greeted
      BY <1>4, <2>5
    <3>2. (\E i \in DOMAIN recvQueue' : Asks(d, i)') => \E i \in DOMAIN recvQueue : Asks(d, i)
      BY <2>2
    <3>3. d \in greeted => \A i \in DOMAIN recvQueue' : ~Asks(d, i)'
      BY <2>1, <2>2 DEF AskedOnce
    <3> QED  BY <1>1, <2>1, <2>3, <3>1, <3>2, <3>3 DEF AskedOnce
  <2> QED  BY <2>4, <2>5
<1>7. EndsOnce'
  BY <1>1, <1>4 DEF LoopInv, EndsOnce
<1> QED  BY <1>5, <1>6, <1>7 DEF LoopInv

(* What a callback does to the library's side of its connection.           *)
LEMMA CallbackChanges ==
    ASSUME LoopInv, RunCallback
    PROVE  LET pInfo == Head(callbacks)
               c == pInfo.conn
           IN  /\ c \in Conns
               /\ UNCHANGED <<recvQueue, sent, greeted>>
               /\ \/ UNCHANGED arrived
                  \/ arrived' = [arrived EXCEPT ![c] = <<>>]
               /\ \/ /\ conn[c] = "connecting"
                     /\ conn' = [conn EXCEPT ![c] = "connected"]
                     /\ UNCHANGED closed
                  \/ /\ conn' = [conn EXCEPT ![c] = "gone"]
                     /\ closed' = closed \/ (pInfo.state = "closed" /\ closed' = closed \cup {c})
<1> DEFINE pInfo == Head(callbacks)
           c == pInfo.conn
<1>1. c \in Conns
  <2>1. /\ callbacks \in Seq([conn : Conns, state : States, old : States])
        /\ callbacks # <<>>
    BY DEF LoopInv, LoopTyped, RunCallback
  <2>2. /\ callbacks[1] = pInfo
        /\ callbacks[1] \in [conn : Conns, state : States, old : States]
    BY <2>1, HeadIsFirst
  <2> QED  BY <2>2
<1>2. UNCHANGED <<recvQueue, sent>>
  BY DEF RunCallback, history
<1> HIDE DEF pInfo
<1>3. CASE pInfo.state = "connecting" /\ OnConnecting(c)
  BY <1>1, <1>2, <1>3 DEF OnConnecting, TellManaged, IsEnd, CloseConnection, vars, pInfo
<1>4. CASE pInfo.state = "closed" /\ OnClosed(c, pInfo.old)
  BY <1>1, <1>2, <1>4 DEF OnClosed, TellManaged, IsEnd, CloseConnection, vars, pInfo
<1> QED  BY <1>3, <1>4 DEF RunCallback, pInfo

LEMMA CallbackKeeps ==
    ASSUME LoopInv, RunCallback
    PROVE  LoopInv'
<1> DEFINE pInfo == Head(callbacks)
           c == pInfo.conn
<1>1. /\ callbacks \in Seq([conn : Conns, state : States, old : States])
      /\ callbacks # <<>>
      /\ callbacks' = Tail(callbacks)
  BY DEF LoopInv, LoopTyped, RunCallback
<1>2. /\ 1 \in DOMAIN callbacks
      /\ callbacks[1] = pInfo
  BY <1>1, HeadIsFirst
<1>3. /\ callbacks' \in Seq([conn : Conns, state : States, old : States])
      /\ DOMAIN callbacks' \subseteq Nat \ {0}
      /\ \A i \in DOMAIN callbacks' :
            i + 1 \in DOMAIN callbacks \ {1} /\ callbacks'[i] = callbacks[i + 1]
  BY <1>1, TailDropsFirst
<1>4. /\ c \in Conns
      /\ UNCHANGED <<recvQueue, sent, greeted>>
      /\ \/ UNCHANGED arrived
         \/ arrived' = [arrived EXCEPT ![c] = <<>>]
      /\ \/ /\ conn[c] = "connecting"
            /\ conn' = [conn EXCEPT ![c] = "connected"]
            /\ UNCHANGED closed
         \/ /\ conn' = [conn EXCEPT ![c] = "gone"]
            /\ closed' = closed \/ (pInfo.state = "closed" /\ closed' = closed \cup {c})
  BY CallbackChanges
<1> HIDE DEF pInfo
<1>5. LoopTyped'
  <2>1. conn' \in [Conns -> States]
    BY <1>4 DEF LoopInv, LoopTyped, States
  <2>2. arrived' \in [Conns -> Seq(Asked)]
    <3>1. <<>> \in Seq(Asked)
      BY EmptySeq
    <3> QED  BY <1>4, <3>1 DEF LoopInv, LoopTyped
  <2> QED  BY <1>3, <1>4, <2>1, <2>2 DEF LoopInv, LoopTyped
<1>6. AsksOnce'
  <2> SUFFICES ASSUME NEW d \in Conns
               PROVE  AskedOnce(d)'
    BY DEF AsksOnce
  <2>1. AskedOnce(d)
    BY DEF LoopInv, AsksOnce
  <2>2. arrived' [d] = arrived[d] \/ DOMAIN arrived'[d] = {}
    BY <1>4 DEF LoopInv, LoopTyped
  <2>3. \A i \in DOMAIN recvQueue' : Asks(d, i)' <=> Asks(d, i)
    BY <1>4 DEF Asks
  <2> QED  BY <1>4, <2>1, <2>2, <2>3 DEF AskedOnce
<1>7. EndsOnce'
  <2>1. \A d \in Conns : conn[d] \in {"closed", "gone"} => conn'[d] \in {"closed", "gone"}
    BY <1>4 DEF LoopInv, LoopTyped
  <2>2. \A i \in DOMAIN callbacks : callbacks[i].conn \in Conns
    <3>1. \A i \in DOMAIN callbacks :
             callbacks[i] \in [conn : Conns, state : States, old : States]
      BY <1>1, ElementsAreTyped
    <3> QED  BY <3>1
  <2>3. \A i \in DOMAIN callbacks' :
           callbacks'[i].state = "closed" =>
              /\ callbacks'[i].conn \notin closed
              /\ conn'[callbacks'[i].conn] \in {"closed", "gone"}
    BY <1>3, <2>1, <2>2 DEF LoopInv, EndsOnce
  <2>4. \A i \in DOMAIN callbacks' :
           callbacks'[i].state = "closed" /\ pInfo.state = "closed" => callbacks'[i].conn # c
    BY <1>2, <1>3 DEF LoopInv, EndsOnce
  <2>5. \A i \in DOMAIN callbacks' :
           callbacks'[i].state = "closed" => callbacks'[i].conn \notin closed'
    BY <1>4, <2>3, <2>4
  <2>6. \A i, j \in DOMAIN callbacks' :
           /\ callbacks'[i].state = "closed"
           /\ callbacks'[j].state = "closed"
           /\ callbacks'[i].conn = callbacks'[j].conn
           => i = j
    <3>1. \A i, j \in DOMAIN callbacks' : i + 1 = j + 1 => i = j
      BY <1>3
    <3> QED  BY <1>3, <3>1 DEF LoopInv, EndsOnce
  <2>7. \A d \in closed' : d \in Conns /\ conn'[d] \in {"closed", "gone"}
    <3>1. \A d \in closed : d \in Conns /\ conn'[d] \in {"closed", "gone"}
      BY <1>4 DEF LoopInv, EndsOnce, LoopTyped
    <3>2. c \in closed' /\ c \notin closed => conn'[c] \in {"closed", "gone"}
      BY <1>4 DEF LoopInv, LoopTyped
    <3> QED  BY <1>4, <3>1, <3>2
  <2> QED  BY <2>3, <2>5, <2>6, <2>7 DEF EndsOnce
<1> QED  BY <1>5, <1>6, <1>7 DEF LoopInv

(* The other steps of the network and of the loop.                         *)
LEMMA ConnectKeeps ==
    ASSUME LoopInv, NEW c \in Conns, Connect(c)
    PROVE  LoopInv'
<1> DEFINE change == Change(c, "connecting", "none")
           last == Len(callbacks) + 1
<1>1. /\ UNCHANGED <<arrived, recvQueue, sent, greeted, closed>>
      /\ callbacks \in Seq([conn : Conns, state : States, old : States])
      /\ callbacks' = Append(callbacks, change)
      /\ conn[c] = "none"
      /\ conn' = [conn EXCEPT ![c] = "connecting"]
      /\ conn \in [Conns -> States]
  BY DEF Connect, LoopInv, LoopTyped, vars, managed, queues, history
<1>2. /\ change \in [conn : Conns, state : States, old : States]
      /\ change.state # "closed"
  BY DEF Change, States
<1> HIDE DEF change
<1>3. /\ callbacks' \in Seq([conn : Conns, state : States, old : States])
      /\ DOMAIN callbacks' = DOMAIN callbacks \cup {last}
      /\ \A i \in DOMAIN callbacks : callbacks'[i] = callbacks[i]
      /\ callbacks'[last] = change
  BY <1>1, <1>2, AppendAddsLast
<1> HIDE DEF last
<1>4. LoopTyped'
  BY <1>1, <1>3 DEF LoopInv, LoopTyped, States
<1>5. AsksOnce'
  BY <1>1 DEF LoopInv, AsksOnce, AskedOnce, Asks
<1>6. EndsOnce'
  <2>1. \A d \in Conns : conn[d] \in {"closed", "gone"} => conn'[d] = conn[d]
    BY <1>1
  <2>2. \A d \in DOMAIN conn : d \in Conns
    BY <1>1
  <2>3. \A i \in DOMAIN callbacks : callbacks[i].conn \in Conns
    <3>1. \A i \in DOMAIN callbacks :
             callbacks[i] \in [conn : Conns, state : States, old : States]
      BY <1>1, ElementsAreTyped
    <3> QED  BY <3>1
  <2>4. \A d \in closed : d \in Conns /\ conn'[d] \in {"closed", "gone"}
    BY <1>1 DEF LoopInv, EndsOnce
  <2> QED  BY <1>1, <1>2, <1>3, <2>1, <2>3, <2>4 DEF LoopInv, EndsOnce
<1> QED  BY <1>4, <1>5, <1>6 DEF LoopInv

LEMMA DisconnectKeeps ==
    ASSUME LoopInv, NEW c \in Conns, Disconnect(c)
    PROVE  LoopInv'
<1> DEFINE change == Change(c, "closed", conn[c])
           last == Len(callbacks) + 1
<1>1. /\ UNCHANGED <<arrived, recvQueue, sent, greeted, closed>>
      /\ callbacks \in Seq([conn : Conns, state : States, old : States])
      /\ callbacks' = Append(callbacks, change)
      /\ conn[c] \in {"connecting", "connected"}
      /\ conn' = [conn EXCEPT ![c] = "closed"]
      /\ conn \in [Conns -> States]
  BY DEF Disconnect, LoopInv, LoopTyped, vars, managed, queues, history
<1>2. /\ change \in [conn : Conns, state : States, old : States]
      /\ change.conn = c
  BY <1>1 DEF Change, States
<1> HIDE DEF change
<1>3. /\ callbacks' \in Seq([conn : Conns, state : States, old : States])
      /\ DOMAIN callbacks' = DOMAIN callbacks \cup {last}
      /\ \A i \in DOMAIN callbacks : callbacks'[i] = callbacks[i]
      /\ callbacks'[last] = change
  BY <1>1, <1>2, AppendAddsLast
<1> HIDE DEF last
<1>4. LoopTyped'
  BY <1>1, <1>3 DEF LoopInv, LoopTyped, States
<1>5. AsksOnce'
  BY <1>1 DEF LoopInv, AsksOnce, AskedOnce, Asks
<1>6. EndsOnce'
  <2>1. \A d \in Conns : conn[d] \in {"closed", "gone"} => conn'[d] \in {"closed", "gone"}
    BY <1>1
  <2>2. conn'[c] = "closed"
    BY <1>1
  <2>3. \A i \in DOMAIN callbacks : callbacks[i].conn \in Conns
    <3>1. \A i \in DOMAIN callbacks :
             callbacks[i] \in [conn : Conns, state : States, old : States]
      BY <1>1, ElementsAreTyped
    <3> QED  BY <3>1
  <2>4. c \notin closed /\ \A i \in DOMAIN callbacks :
           callbacks[i].state = "closed" => callbacks[i].conn # c
    BY <1>1 DEF LoopInv, EndsOnce
  <2>5. \A d \in closed : d \in Conns /\ conn'[d] \in {"closed", "gone"}
    BY <1>1 DEF LoopInv, EndsOnce
  <2> QED  BY <1>1, <1>2, <1>3, <2>1, <2>2, <2>3, <2>4, <2>5 DEF LoopInv, EndsOnce
<1> QED  BY <1>4, <1>5, <1>6 DEF LoopInv

LEMMA LoopStepKeeps ==
    ASSUME LoopInv, [TickNext]_tickVars
    PROVE  LoopInv'
<1>1. CASE SendHead \/ Advance \/ UNCHANGED tickVars
  <2>1. UNCHANGED <<conn, callbacks, arrived, recvQueue, sent, greeted, closed>>
    BY <1>1 DEF SendHead, Advance, tickVars, vars, queues, history
  <2> QED  BY <2>1 DEF LoopInv, LoopTyped, AsksOnce, AskedOnce, Asks, EndsOnce
<1>2. CASE \E c \in Conns : PollIncomingMessages(c)
  BY <1>2, PollKeeps
<1>3. CASE RunCallback
  BY <1>3, CallbackKeeps
<1>4. CASE HandleHead
  BY <1>4, HandleKeeps
<1>5. CASE \E c \in Conns : Connect(c) \/ Disconnect(c)
  BY <1>5, ConnectKeeps, DisconnectKeeps
<1>6. CASE \E c \in Conns, request \in Asked : Arrive(c, request)
  BY <1>6, ArriveKeeps
<1> QED  BY <1>1, <1>2, <1>3, <1>4, <1>5, <1>6 DEF TickNext, Update

LEMMA LoopInit ==
    ASSUME TickInit
    PROVE  LoopInv
<1>1. <<>> \in Seq(Asked) /\ <<>> \in Seq([conn : Conns, message : Asked])
        /\ <<>> \in Seq([conn : Conns, state : States, old : States])
        /\ DOMAIN <<>> = {}
  BY EmptySeq
<1> QED  BY <1>1 DEF TickInit, Init, LoopInv, LoopTyped, AsksOnce, AskedOnce, EndsOnce, States

(* The one InitAuth of a connection and its one end, wherever they are.    *)
THEOREM LoopInvariant == TickSpec => []LoopInv
<1>1. TickInit => LoopInv
  BY LoopInit
<1>2. LoopInv /\ [TickNext]_tickVars => LoopInv'
  BY LoopStepKeeps
<1> QED  BY <1>1, <1>2, PTL DEF TickSpec

(* The loop drives the handlers as EntityTracking assumes: whatever the    *)
(* network does, InitAuth is handled at most once and the end reported at  *)
(* most once per connection, and no step runs half a handler or two.       *)
THEOREM LoopDrivesTheHandlers == TickSpec => DrivesTheHandlers
<1>1. TickInit => Init
  BY DEF TickInit
<1>2. LoopInv /\ [TickNext]_tickVars => [Next]_vars
  BY TickIsAStep
<1> QED  BY <1>1, <1>2, LoopInvariant, PTL DEF TickSpec, DrivesTheHandlers, Spec

-----------------------------------------------------------------------------
(* The messages of one connection in a queue of addressed messages.        *)

Owning == INSTANCE SequenceFacts WITH Op <- KeepOwn

LEMMA OfFolds ==
    ASSUME NEW c, NEW queue
    PROVE  Of(c, queue) = Owning!Fold([conn |-> c, messages |-> <<>>], queue).messages
BY DEF Of, FoldLeft, MapThenFoldSet, Max,
       Owning!Fold, Owning!FoldLeft, Owning!MapThenFoldSet, Owning!Max

LEMMA OfEmpty ==
    ASSUME NEW c
    PROVE  Of(c, <<>>) = <<>>
<1> DEFINE base == [conn |-> c, messages |-> <<>>]
<1>1. Of(c, <<>>) = Owning!Fold(base, <<>>).messages
  BY OfFolds
<1>2. Owning!Fold(base, <<>>) = base
  BY Owning!FoldEmpty
<1> QED  BY <1>1, <1>2

Queue(M) == Seq([conn : Conns, message : M])

LEMMA OwnTyped ==
    ASSUME NEW c, NEW M, NEW queue \in Queue(M)
    PROVE  Owning!Fold([conn |-> c, messages |-> <<>>], queue) \in [conn : {c}, messages : Seq(M)]
<1> DEFINE base == [conn |-> c, messages |-> <<>>]
           B == [conn : {c}, messages : Seq(M)]
           T == [conn : Conns, message : M]
<1>1. base \in B
  BY EmptySeq
<1>2. \A v \in B, y \in T : KeepOwn(v, y) \in B
  BY AppendProperties DEF KeepOwn
<1>3. queue \in Seq(T)
  BY DEF Queue
<1> HIDE DEF B, base, T
<1>4. Owning!Fold(base, queue) \in B
  BY <1>1, <1>2, <1>3, Owning!FoldTyped
<1> QED  BY <1>4 DEF B, base

LEMMA OfTyped ==
    ASSUME NEW c, NEW M, NEW queue \in Queue(M)
    PROVE  Of(c, queue) \in Seq(M)
BY OfFolds, OwnTyped

LEMMA OfAppend ==
    ASSUME NEW c, NEW M, NEW queue \in Queue(M), NEW x \in [conn : Conns, message : M]
    PROVE  Of(c, Append(queue, x))
             = IF x.conn = c THEN Append(Of(c, queue), x.message) ELSE Of(c, queue)
<1> DEFINE base == [conn |-> c, messages |-> <<>>]
           own == Owning!Fold(base, queue)
<1>1. own \in [conn : {c}, messages : Seq(M)]
  BY OwnTyped
<1>2. /\ Of(c, queue) = own.messages
      /\ Of(c, Append(queue, x)) = Owning!Fold(base, Append(queue, x)).messages
  BY OfFolds
<1> HIDE DEF base
<1>3. Owning!Fold(base, Append(queue, x)) = KeepOwn(own, x)
  BY Owning!FoldAppend DEF Queue
<1> HIDE DEF own
<1> QED  BY <1>1, <1>2, <1>3 DEF KeepOwn

LEMMA OfConcat ==
    ASSUME NEW c, NEW M, NEW s \in Queue(M)
    PROVE  \A t \in Queue(M) : Of(c, s \o t) = Of(c, s) \o Of(c, t)
<1> DEFINE T == [conn : Conns, message : M]
           S == {t \in Seq(T) : Of(c, s \o t) = Of(c, s) \o Of(c, t)}
<1>1. s \in Seq(T) /\ Of(c, s) \in Seq(M)
  BY OfTyped DEF Queue
<1> HIDE DEF T
<1>2. <<>> \in S
  <2>1. s \o <<>> = s /\ Of(c, s) \o <<>> = Of(c, s)
    BY <1>1, ConcatEmptySeq
  <2> QED  BY <2>1, OfEmpty, EmptySeq
<1>3. ASSUME NEW t \in Seq(T), NEW x \in T, t \in S
      PROVE  Append(t, x) \in S
  <2>1. s \o Append(t, x) = Append(s \o t, x)
    BY <1>1, AppendToConcat
  <2>2. s \o t \in Seq(T) /\ Append(t, x) \in Seq(T)
    BY <1>1, ConcatProperties, AppendProperties
  <2>3. /\ Of(c, t) \in Seq(M)
        /\ Of(c, Append(t, x)) = IF x.conn = c THEN Append(Of(c, t), x.message) ELSE Of(c, t)
        /\ Of(c, Append(s \o t, x))
             = IF x.conn = c THEN Append(Of(c, s \o t), x.message) ELSE Of(c, s \o t)
    <3>1. t \in Queue(M) /\ s \o t \in Queue(M) /\ x \in [conn : Conns, message : M]
      BY <2>2 DEF T, Queue
    <3> QED  BY <3>1, OfTyped, OfAppend
  <2>4. Of(c, s \o t) = Of(c, s) \o Of(c, t)
    BY <1>3
  <2>5. x.message \in M
    BY DEF T
  <2>6. CASE x.conn = c
    <3>1. Append(Of(c, s) \o Of(c, t), x.message) = Of(c, s) \o Append(Of(c, t), x.message)
      <4>1. \A a, b \in Seq(M), m \in M : a \o Append(b, m) = Append(a \o b, m)
        BY AppendToConcat
      <4> QED  BY <1>1, <2>3, <2>5, <4>1
    <3> QED  BY <2>1, <2>2, <2>3, <2>4, <2>6, <3>1
  <2>7. CASE x.conn # c
    BY <2>1, <2>2, <2>3, <2>4, <2>7
  <2> QED  BY <2>6, <2>7
<1> HIDE DEF S
<1>4. \A t \in Seq(T) : t \in S
  BY <1>2, <1>3, SequenceInduction
<1> QED  BY <1>4 DEF S, T, Queue

(* The first message of a queue is the first of its connection.            *)
LEMMA OfHead ==
    ASSUME NEW c, NEW M, NEW queue \in Queue(M), queue # <<>>
    PROVE  /\ Tail(queue) \in Queue(M)
           /\ Head(queue) \in [conn : Conns, message : M]
           /\ Of(c, Tail(queue)) \in Seq(M)
           /\ Of(c, queue) = IF Head(queue).conn = c
                             THEN <<Head(queue).message>> \o Of(c, Tail(queue))
                             ELSE Of(c, Tail(queue))
<1> DEFINE T == [conn : Conns, message : M]
           x == Head(queue)
           rest == Tail(queue)
<1>1. queue \in Seq(T)
  BY DEF Queue
<1>2. /\ x \in T
      /\ rest \in Seq(T)
      /\ <<x>> \in Seq(T)
      /\ queue = <<x>> \o rest
  <2> HIDE DEF T
  <2>1. x \in T /\ rest \in Seq(T)
    BY <1>1
  <2> QED  BY <1>1, <2>1
<1>3. /\ Of(c, rest) \in Seq(M)
      /\ Of(c, <<>>) = <<>>
      /\ Of(c, Append(<<>>, x)) = IF x.conn = c THEN Append(<<>>, x.message) ELSE <<>>
  <2>1. <<>> \in Queue(M) /\ rest \in Queue(M) /\ x \in [conn : Conns, message : M]
    BY <1>2, EmptySeq DEF Queue
  <2>2. Of(c, <<>>) = <<>>
    BY OfEmpty
  <2> HIDE DEF x, rest
  <2>3. Of(c, Append(<<>>, x)) = IF x.conn = c THEN Append(Of(c, <<>>), x.message) ELSE Of(c, <<>>)
    BY <2>1, OfAppend
  <2> QED  BY <2>1, <2>2, <2>3, OfTyped
<1>4. Append(<<>>, x) = <<x>> /\ Append(<<>>, x.message) = <<x.message>>
  OBVIOUS
<1>5. Of(c, <<x>> \o rest) = Of(c, <<x>>) \o Of(c, rest)
  <2>1. <<x>> \in Queue(M) /\ rest \in Queue(M)
    BY <1>2 DEF Queue
  <2> HIDE DEF x, rest
  <2> QED  BY <2>1, OfConcat
<1>6. <<>> \o Of(c, rest) = Of(c, rest)
  BY <1>3, ConcatEmptySeq
<1> HIDE DEF x, rest
<1>7. Of(c, queue) = IF x.conn = c THEN <<x.message>> \o Of(c, rest) ELSE Of(c, rest)
  BY <1>2, <1>3, <1>4, <1>5, <1>6
<1> QED  BY <1>2, <1>3, <1>7 DEF Queue, x, rest

(* What is addressed to d is all d's.                                      *)
LEMMA OfAddressed ==
    ASSUME NEW c, NEW d \in Conns, NEW M
    PROVE  \A messages \in Seq(M) :
              /\ Addressed(d, messages) \in Queue(M)
              /\ Of(c, Addressed(d, messages)) = IF d = c THEN messages ELSE <<>>
<1> DEFINE S == {messages \in Seq(M) :
                   /\ Addressed(d, messages) \in Queue(M)
                   /\ Of(c, Addressed(d, messages)) = IF d = c THEN messages ELSE <<>>}
<1>1. <<>> \in S
  <2>1. Addressed(d, <<>>) = <<>>
    <3>1. DOMAIN <<>> = 1 .. 0
      BY EmptySeq
    <3>2. Addressed(d, <<>>) \in Seq({}) /\ Len(Addressed(d, <<>>)) = 0
      BY <3>1 DEF Addressed
    <3> QED  BY <3>2, EmptySeq
  <2> QED  BY <2>1, OfEmpty, EmptySeq DEF Queue
<1>2. ASSUME NEW messages \in Seq(M), NEW m \in M, messages \in S
      PROVE  Append(messages, m) \in S
  <2> DEFINE x == [conn |-> d, message |-> m]
             n == Len(messages)
  <2>1. Addressed(d, Append(messages, m)) = Append(Addressed(d, messages), x)
    <3>1. n \in Nat /\ DOMAIN messages = 1 .. n /\ DOMAIN Append(messages, m) = 1 .. n + 1
          /\ Append(messages, m)[n + 1] = m
          /\ \A i \in 1 .. n : Append(messages, m)[i] = messages[i]
      OBVIOUS
    <3>2. Addressed(d, messages) \in Seq([conn : Conns, message : M])
      BY <1>2 DEF Queue
    <3>3. Len(Addressed(d, messages)) = n
      BY <3>1, <3>2 DEF Addressed
    <3>4. Append(Addressed(d, messages), x)
            = [i \in 1 .. n + 1 |-> IF i = n + 1 THEN x ELSE Addressed(d, messages)[i]]
      BY <3>2, <3>3
    <3> HIDE DEF n
    <3>5. \A i \in 1 .. n : Addressed(d, messages)[i] = [conn |-> d, message |-> messages[i]]
      BY <3>1 DEF Addressed
    <3>6. \A i \in 1 .. n + 1 : i # n + 1 => i \in 1 .. n
      BY <3>1
    <3>7. Addressed(d, Append(messages, m))
            = [i \in 1 .. n + 1 |-> [conn |-> d, message |-> Append(messages, m)[i]]]
      BY <3>1 DEF Addressed
    <3> QED  BY <3>1, <3>4, <3>5, <3>6, <3>7
  <2>2. x \in [conn : Conns, message : M] /\ x.conn = d /\ x.message = m
    OBVIOUS
  <2>3. Addressed(d, messages) \in Queue(M)
    BY <1>2
  <2> HIDE DEF x
  <2>4. Of(c, Append(Addressed(d, messages), x))
          = IF d = c THEN Append(Of(c, Addressed(d, messages)), m) ELSE Of(c, Addressed(d, messages))
    BY <2>2, <2>3, OfAppend
  <2>5. Append(Addressed(d, messages), x) \in Queue(M)
    BY <2>2, <2>3, AppendProperties DEF Queue
  <2> QED  BY <1>2, <2>1, <2>4, <2>5, AppendProperties
<1> HIDE DEF S
<1>3. \A messages \in Seq(M) : messages \in S
  BY <1>1, <1>2, SequenceInduction
<1> QED  BY <1>3 DEF S

(* The order in which a handler's messages are put is one of all           *)
(* connections, each once.                                                 *)
LEMMA ConnsInOrder ==
    LET order == SetToSeq(Conns)
    IN  /\ order \in Seq(Conns)
        /\ Elements(order) = Conns
        /\ Distinct(order)
<1> DEFINE n == Cardinality(Conns)
           order == SetToSeq(Conns)
<1>1. n \in Nat /\ ExistsBijection(1 .. n, Conns)
  BY ConnsAssumption, FS_CardinalityType
<1>2. \E f \in [1 .. n -> Conns] : IsInjective(f)
  BY <1>1 DEF ExistsBijection, Bijection, Injection
<1>3. order \in [1 .. n -> Conns] /\ IsInjective(order)
  BY <1>2 DEF SetToSeq
<1>4. \A i, j \in 1 .. n : i # j => order[i] # order[j]
  BY <1>3 DEF IsInjective
<1> HIDE DEF order
<1>5. order \in Orders(Conns)
  BY <1>3, <1>4 DEF Orders, SetToSeqs
<1>6. order \in Seq(Conns) /\ Elements(order) = Conns /\ Distinct(order)
  BY <1>5, ConnsAssumption, OrdersAreComplete
<1> QED  BY <1>6 DEF order

(* n connections in an order, one part each, and c's part is its own messages. *)
OnePartEach(n, order, parts, c, own) ==
    /\ \A i, j \in 1 .. n : order[i] = order[j] => i = j
    /\ \E i \in 1 .. n : order[i] = c
    /\ \A i \in 1 .. n : Of(c, parts[i]) = IF order[i] = c THEN own ELSE <<>>

(* One connection's messages after another's.                              *)
LEMMA OfFlattened ==
    ASSUME NEW M, NEW n \in Nat, NEW order, NEW c, NEW own \in Seq(M),
           NEW parts \in [1 .. n -> Queue(M)], OnePartEach(n, order, parts, c, own)
    PROVE  FlattenSeq(parts) \in Queue(M) /\ Of(c, FlattenSeq(parts)) = own
<1> SUFFICES ASSUME \A i, j \in 1 .. n : order[i] = order[j] => i = j,
                    \E i \in 1 .. n : order[i] = c,
                    \A i \in 1 .. n : Of(c, parts[i]) = IF order[i] = c THEN own ELSE <<>>
             PROVE  FlattenSeq(parts) \in Queue(M) /\ Of(c, FlattenSeq(parts)) = own
  BY DEF OnePartEach
<1> DEFINE seqs(k) == [i \in 1 .. k |-> parts[i]]
           Holds(k) == /\ FlattenSeq(seqs(k)) \in Queue(M)
                       /\ Of(c, FlattenSeq(seqs(k)))
                            = IF c \in {order[i] : i \in 1 .. k} THEN own ELSE <<>>
           S == {k \in 0 .. n : Holds(k)}
<1>1. Holds(0)
  <2>1. seqs(0) = <<>>
    <3>1. seqs(0) \in Seq({}) /\ Len(seqs(0)) = 0
      OBVIOUS
    <3> QED  BY <3>1, EmptySeq
  <2>2. FlattenSeq(seqs(0)) = <<>>
    BY <2>1, FlattenSeqEmpty
  <2>3. c \notin {order[i] : i \in 1 .. 0}
    OBVIOUS
  <2>4. <<>> \in Queue(M)
    BY EmptySeq DEF Queue
  <2> QED  BY <2>2, <2>3, <2>4, OfEmpty
<1>2. ASSUME NEW k \in 0 .. n - 1, Holds(k)
      PROVE  Holds(k + 1)
  <2>1. /\ k \in Nat
        /\ k + 1 \in 1 .. n
        /\ \A i \in 1 .. k : i \in 1 .. n /\ i # k + 1
        /\ \A i \in 1 .. k + 1 : i \in 1 .. k \/ i = k + 1
        /\ \A i \in 1 .. k : i \in 1 .. k + 1
        /\ k + 1 \in 1 .. k + 1
    OBVIOUS
  <2> DEFINE part == parts[k + 1]
             before == FlattenSeq(seqs(k))
  <2>2. FlattenSeq(seqs(k + 1)) = before \o part
    <3> DEFINE T == [conn : Conns, message : M]
    <3>1. seqs(k) \in Seq(Seq(T)) /\ Len(seqs(k)) = k /\ part \in Seq(T)
      <4>1. \A i \in 1 .. n : parts[i] \in Seq(T)
        BY DEF Queue
      <4> HIDE DEF T
      <4>2. part \in Seq(T)
        BY <2>1, <4>1
      <4>3. seqs(k) \in [1 .. k -> Seq(T)]
        BY <2>1, <4>1
      <4> HIDE DEF seqs
      <4> QED  BY <2>1, <4>2, <4>3
    <3>2. Append(seqs(k), part) = [i \in 1 .. k + 1 |-> IF i = k + 1 THEN part ELSE seqs(k)[i]]
      BY <3>1
    <3>3. seqs(k + 1) = Append(seqs(k), part)
      BY <2>1, <3>2
    <3> HIDE DEF seqs, part, T
    <3> QED  BY <3>1, <3>3, FlattenSeqAppend
  <2>3. /\ before \in Queue(M)
        /\ Of(c, before) = IF c \in {order[i] : i \in 1 .. k} THEN own ELSE <<>>
    BY <1>2
  <2>4. /\ part \in Queue(M)
        /\ Of(c, part) = IF order[k + 1] = c THEN own ELSE <<>>
    BY <2>1
  <2>5. order[k + 1] = c => c \notin {order[i] : i \in 1 .. k}
    BY <2>1
  <2>6. c \in {order[i] : i \in 1 .. k + 1}
          <=> c \in {order[i] : i \in 1 .. k} \/ order[k + 1] = c
    BY <2>1
  <2>7. own \o <<>> = own /\ <<>> \o own = own /\ <<>> \o <<>> = <<>>
    <3>1. own \in Seq(M) /\ <<>> \in Seq(M)
      BY EmptySeq
    <3> QED  BY <3>1, ConcatEmptySeq
  <2> HIDE DEF before, part
  <2>8. before \o part \in Queue(M)
    BY <2>3, <2>4, ConcatProperties DEF Queue
  <2>9. Of(c, before \o part) = Of(c, before) \o Of(c, part)
    <3>1. before \in Queue(M) /\ part \in Queue(M)
      BY <2>3, <2>4
    <3> QED  BY ONLY <3>1, OfConcat
  <2>10. Of(c, before \o part)
           = IF c \in {order[i] : i \in 1 .. k + 1} THEN own ELSE <<>>
    <3> DEFINE told(m) == c \in {order[i] : i \in 1 .. m}
    <3> HIDE DEF told
    <3> QED  BY <2>3, <2>4, <2>5, <2>6, <2>7, <2>9 DEF told
  <2> QED  BY <2>2, <2>8, <2>10
<1> HIDE DEF Holds
<1>4. 0 \in S /\ \A k \in 0 .. n - 1 : k \in S => k + 1 \in S
  BY <1>1, <1>2
<1> HIDE DEF S
<1>5. \A k \in 0 .. n : k \in S
  BY <1>4, InductionUpTo
<1>6. parts = [i \in 1 .. n |-> parts[i]]
  OBVIOUS
<1> QED  BY <1>5, <1>6 DEF S, Holds

(* Every connection's messages join its messages in dll_send_queue.        *)
LEMMA EnqueueSends ==
    ASSUME sendQueue \in Queue(Messages), \A d \in Conns : enqueued'[d] \in Seq(Messages),
           EnqueueSendQueue
    PROVE  /\ sendQueue' \in Queue(Messages)
           /\ \A c \in Conns : Of(c, sendQueue') = Of(c, sendQueue) \o enqueued'[c]
<1> DEFINE order == SetToSeq(Conns)
           n == Len(order)
           parts == [i \in 1 .. n |-> Addressed(order[i], enqueued'[order[i]])]
           added == FlattenSeq(parts)
<1>1. order \in Seq(Conns) /\ Elements(order) = Conns /\ Distinct(order)
  BY ConnsInOrder
<1>2. sendQueue' = sendQueue \o added
  BY DEF EnqueueSendQueue
<1> HIDE DEF order
<1>3. /\ n \in Nat
      /\ order \in [1 .. n -> Conns]
      /\ \A i, j \in 1 .. n : order[i] = order[j] => i = j
      /\ \A c \in Conns : c \in {order[i] : i \in 1 .. n}
  <2>1. n \in Nat /\ DOMAIN order = 1 .. n /\ order \in [1 .. n -> Conns]
    BY <1>1
  <2> QED  BY <1>1, <2>1 DEF Elements, Distinct
<1> HIDE DEF n
<1>4. ASSUME NEW c \in Conns
      PROVE  added \in Queue(Messages) /\ Of(c, added) = enqueued'[c]
  <2>1. \A i \in 1 .. n :
          /\ Addressed(order[i], enqueued'[order[i]]) \in Queue(Messages)
          /\ Of(c, Addressed(order[i], enqueued'[order[i]]))
               = IF order[i] = c THEN enqueued'[order[i]] ELSE <<>>
    <3> SUFFICES ASSUME NEW i \in 1 .. n
                 PROVE  /\ Addressed(order[i], enqueued'[order[i]]) \in Queue(Messages)
                        /\ Of(c, Addressed(order[i], enqueued'[order[i]]))
                             = IF order[i] = c THEN enqueued'[order[i]] ELSE <<>>
      OBVIOUS
    <3>1. order[i] \in Conns /\ enqueued'[order[i]] \in Seq(Messages)
      BY <1>3
    <3> DEFINE d == order[i]
               news == enqueued'[d]
    <3>2. d \in Conns /\ news \in Seq(Messages)
      BY <3>1
    <3> HIDE DEF d, news
    <3>3. Addressed(d, news) \in Queue(Messages)
      BY ONLY <3>2, OfAddressed
    <3>4. Of(c, Addressed(d, news)) = IF d = c THEN news ELSE <<>>
      BY ONLY <3>2, OfAddressed
    <3> QED  BY <3>3, <3>4 DEF d, news
  <2>2. /\ parts \in [1 .. n -> Queue(Messages)]
        /\ \A i \in 1 .. n : Of(c, parts[i]) = IF order[i] = c THEN enqueued'[c] ELSE <<>>
    BY <2>1
  <2>3. c \in {order[i] : i \in 1 .. n} /\ enqueued'[c] \in Seq(Messages)
    BY <1>3
  <2> DEFINE own == enqueued'[c]
  <2> HIDE DEF parts, own
  <2>4. /\ OnePartEach(n, order, parts, c, own)
        /\ n \in Nat /\ parts \in [1 .. n -> Queue(Messages)]
        /\ own \in Seq(Messages)
    BY <1>3, <2>2, <2>3 DEF own, OnePartEach
  <2>5. FlattenSeq(parts) \in Queue(Messages)
    <3> DEFINE T == [conn : Conns, message : Messages]
    <3>1. parts \in [1 .. n -> Seq(T)]
      BY <2>4 DEF Queue
    <3> HIDE DEF T
    <3>2. parts \in Seq(Seq(T))
      BY <2>4, <3>1
    <3>3. FlattenSeq(parts) \in Seq(T)
      BY <3>2, FlattenSeqTyped
    <3> QED  BY <3>3 DEF T, Queue
  <2>6. Of(c, FlattenSeq(parts)) = own
    BY ONLY <2>4, OfFlattened
  <2> QED  BY <2>5, <2>6 DEF own
<1>5. added \in Queue(Messages)
  <2>1. CASE Conns # {}
    BY <1>4, <2>1
  <2>2. CASE Conns = {}
    <3>1. n = 0
      BY <1>3, <2>2
    <3>2. parts \in Seq({}) /\ Len(parts) = 0
      BY <3>1
    <3>3. parts = <<>>
      BY <3>2, EmptySeq
    <3>4. added = <<>>
      BY <3>3, FlattenSeqEmpty
    <3> QED  BY <3>4, EmptySeq DEF Queue
  <2> QED  BY <2>1, <2>2
<1> HIDE DEF added
<1>6. sendQueue \o added \in Queue(Messages)
  BY <1>5, ConcatProperties DEF Queue
<1>7. ASSUME NEW c \in Conns
      PROVE  Of(c, sendQueue') = Of(c, sendQueue) \o enqueued'[c]
  <2>1. Of(c, sendQueue \o added) = Of(c, sendQueue) \o Of(c, added)
    BY <1>5, OfConcat
  <2> QED  BY <1>2, <1>4, <2>1
<1> QED  BY <1>2, <1>6, <1>7

-----------------------------------------------------------------------------
(* What is proved of the handlers holds in the loop that drives them.      *)

(* In the composed server, too, no player tracks what is gone or their own, *)
(* no connection has two vehicles and no puppet is without its player.     *)
THEOREM HandlersInvariant == TickSpec => []IInv
BY LoopDrivesTheHandlers, InductiveInvariant DEF DrivesTheHandlers

(* In the composed server, too, every handler is its sender acting alone.   *)
THEOREM PromiseKeptInTheLoop == TickSpec => KeepsThePromise
BY LoopDrivesTheHandlers, PromiseKept DEF DrivesTheHandlers

-----------------------------------------------------------------------------
(* The types of the queues and of what clients make of their packets.      *)

LEMMA StepMessagesTyped ==
    ASSUME IInv, Next
    PROVE  \A d \in Conns : enqueued'[d] \in Seq(Messages)
<1>1. CASE StepExplains
  <2>1. \A d \in Conns : enqueued'[d] \in Seq(News)
    BY <1>1 DEF StepExplains, Explains
  <2> QED  BY <2>1, NewsAreMessages
<1>2. ASSUME NEW c \in Conns, NEW versionMatches \in BOOLEAN, HandleInitAuth(c, versionMatches)
      PROVE  \A d \in Conns : enqueued'[d] \in Seq(Messages)
  <2>1. \A d \in Conns \ {c} : enqueued'[d] = <<>>
    BY <1>2, InitAuthAnswers
  <2>2. PICK answer \in Messages : enqueued'[c] = <<answer>>
    BY <1>2, InitAuthAnswers
  <2>3. <<>> \in Seq(Messages) /\ <<answer>> \in Seq(Messages)
    BY EmptySeq
  <2> QED  BY <2>1, <2>2, <2>3
<1> QED  BY <1>1, <1>2, NextExplained

(* A callback is the end of a connection or says nothing.                  *)
LEMMA CallbackSends ==
    ASSUME LoopInv, RunCallback
    PROVE  \/ UNCHANGED <<vars, sendQueue>>
           \/ \E c \in Conns :
                 /\ conn' = [conn EXCEPT ![c] = "gone"]
                 /\ EndConnection(c)
                 /\ EnqueueSendQueue
<1> DEFINE pInfo == Head(callbacks)
           c == pInfo.conn
<1>1. /\ 1 \in DOMAIN callbacks
      /\ callbacks[1] = pInfo
      /\ c \in Conns
  <2>1. /\ callbacks \in Seq([conn : Conns, state : States, old : States])
        /\ callbacks # <<>>
    BY DEF LoopInv, LoopTyped, RunCallback
  <2>2. /\ 1 \in DOMAIN callbacks
        /\ callbacks[1] = pInfo
        /\ callbacks[1] \in [conn : Conns, state : States, old : States]
    BY <2>1, HeadIsFirst
  <2> QED  BY <2>2
<1>2. CASE pInfo.state = "connecting" /\ OnConnecting(c)
  BY <1>2 DEF OnConnecting, TellManaged, IsEnd
<1>3. CASE pInfo.state = "closed" /\ OnClosed(c, pInfo.old)
  <2>1. CASE ~TellsManaged(pInfo.old)
    BY <1>3, <2>1 DEF OnClosed
  <2>2. CASE TellsManaged(pInfo.old)
    <3>1. c \notin closed
      BY <1>1, <1>3 DEF LoopInv, EndsOnce
    <3>2. EndConnection(c) /\ EnqueueSendQueue
      BY <1>3, <2>2, <3>1 DEF OnClosed, TellManaged, IsEnd, EndConnection
    <3>3. conn' = [conn EXCEPT ![c] = "gone"]
      BY <1>3 DEF OnClosed, CloseConnection
    <3> QED  BY <1>1, <3>2, <3>3
  <2> QED  BY <2>1, <2>2
<1> QED  BY <1>2, <1>3 DEF RunCallback

Beliefs == [answered : BOOLEAN, ids : SUBSET Ids, sound : BOOLEAN]

LEMMA HearTyped ==
    ASSUME NEW belief \in Beliefs, NEW message \in Messages
    PROVE  Hear(belief, message) \in Beliefs
<1>1. CASE message.type = "InitAuthResult"
  BY <1>1 DEF Hear, Beliefs
<1>2. CASE message.type = "SpawnEntity"
  <2>1. message.id \in Ids
    BY <1>2 DEF Messages
  <2> QED  BY <1>2, <2>1 DEF Hear, Believe, Beliefs
<1>3. CASE message.type = "TeleportEntity"
  BY <1>3 DEF Hear, Believe, Beliefs
<1>4. CASE message.type = "DestroyEntity"
  BY <1>4 DEF Hear, Believe, Beliefs
<1> QED  BY <1>1, <1>2, <1>3, <1>4 DEF Messages

(* The part of the types that LoopTyped leaves out.                        *)
RestTyped ==
    /\ phase \in {"send", "poll", "callbacks", "handle"}
    /\ sendQueue \in Queue(Messages)
    /\ heard \in [Conns -> Beliefs]
    /\ handled \in [Conns -> Seq(Asked)]

LEMMA RestStaysTyped ==
    ASSUME LoopInv, IInv, RestTyped, [TickNext]_tickVars
    PROVE  RestTyped'
<1> USE DEF RestTyped
<1>1. CASE UNCHANGED <<phase, sendQueue, heard, handled>>
  BY <1>1
<1>2. CASE SendHead
  <2> DEFINE val == Head(sendQueue)
  <2>1. /\ val \in [conn : Conns, message : Messages]
        /\ sendQueue' \in Queue(Messages)
    <3>1. sendQueue \in Seq([conn : Conns, message : Messages]) /\ sendQueue # <<>>
      BY <1>2 DEF SendHead, Queue
    <3>2. val \in [conn : Conns, message : Messages]
          /\ Tail(sendQueue) \in Seq([conn : Conns, message : Messages])
      BY <3>1, HeadTailProperties
    <3> QED  BY <1>2, <3>2 DEF SendHead, Queue
  <2>2. val.conn \in Conns /\ val.message \in Messages
    BY <2>1
  <2>3. heard' = [heard EXCEPT ![val.conn] = Hear(heard[val.conn], val.message)] \/ heard' = heard
    BY <1>2 DEF SendHead
  <2>4. heard[val.conn] \in Beliefs
    BY <2>2
  <2> HIDE DEF val
  <2>5. heard' \in [Conns -> Beliefs]
    BY <2>2, <2>3, <2>4, HearTyped
  <2> QED  BY <1>2, <2>1, <2>5 DEF SendHead
<1>3. CASE RunCallback
  <2>1. CASE UNCHANGED sendQueue
    BY <1>3, <2>1 DEF RunCallback, history
  <2>2. CASE EnqueueSendQueue /\ \E c \in Conns : EndConnection(c)
    <3>1. Next
      BY <2>2 DEF Next
    <3>2. sendQueue' \in Queue(Messages)
      BY <2>2, <3>1, StepMessagesTyped, EnqueueSends
    <3> QED  BY <1>3, <3>2 DEF RunCallback, history
  <2> QED  BY <1>3, <2>1, <2>2, CallbackSends
<1>4. CASE HandleHead
  <2> DEFINE c == Head(recvQueue).conn
             request == Head(recvQueue).message
  <2>1. c \in Conns /\ request \in Asked
    <3>1. recvQueue \in Seq([conn : Conns, message : Asked]) /\ recvQueue # <<>>
      BY <1>4 DEF HandleHead, LoopInv, LoopTyped
    <3>2. Head(recvQueue) \in [conn : Conns, message : Asked]
      BY <3>1, HeadTailProperties
    <3> QED  BY <3>2
  <2>2. handled' = [handled EXCEPT ![c] = Append(handled[c], request)]
    BY <1>4 DEF HandleHead
  <2> HIDE DEF c, request
  <2>3. handled' \in [Conns -> Seq(Asked)]
    BY <2>1, <2>2, AppendProperties
  <2>4. EnqueueSendQueue /\ UNCHANGED <<phase, heard>>
    BY <1>4 DEF HandleHead
  <2>5. Next
    BY <1>4, HandlingIsAStep
  <2>6. sendQueue' \in Queue(Messages)
    BY <2>4, <2>5, StepMessagesTyped, EnqueueSends
  <2> QED  BY <2>3, <2>4, <2>6
<1>5. CASE Advance
  BY <1>5 DEF Advance, queues, history
<1>6. CASE \E c \in Conns : PollIncomingMessages(c) \/ Connect(c) \/ Disconnect(c)
                              \/ \E request \in Asked : Arrive(c, request)
  BY <1>1, <1>6 DEF PollIncomingMessages, Connect, Disconnect, Arrive, queues, history
<1>7. CASE UNCHANGED tickVars
  BY <1>1, <1>7 DEF tickVars, queues, history
<1> QED  BY <1>2, <1>3, <1>4, <1>5, <1>6, <1>7 DEF TickNext, Update

(* The invariant's other half, for the queues LoopInv does not speak of.    *)
THEOREM RestInvariant == TickSpec => []RestTyped
<1>1. TickInit => RestTyped
  <2>1. <<>> \in Queue(Messages) /\ <<>> \in Seq(Asked)
    BY EmptySeq DEF Queue
  <2> QED  BY <2>1 DEF TickInit, RestTyped, Beliefs
<1>2. LoopInv /\ IInv /\ RestTyped /\ [TickNext]_tickVars => RestTyped'
  BY RestStaysTyped
<1> QED  BY <1>1, <1>2, LoopInvariant, HandlersInvariant, PTL DEF TickSpec

(* Every queue holds what belongs there, whatever the network does, and a   *)
(* client believes in ids alone.                                           *)
THEOREM TickTypeCorrect == TickSpec => []TickTypeOK
<1>1. LoopInv /\ RestTyped => TickTypeOK
  BY DEF LoopInv, LoopTyped, RestTyped, TickTypeOK, Beliefs, Queue
<1> QED  BY <1>1, LoopInvariant, RestInvariant, PTL

-----------------------------------------------------------------------------
(* The way of a request: from the library's queue through dll_recv_queue to *)
(* its handler.                                                            *)
Path(c) == handled[c] \o Of(c, recvQueue) \o arrived[c]

(* What was sent is the path and what the end of the connection lost.      *)
Loses(c, lost) ==
    /\ lost \in Seq(Asked)
    /\ sent[c] = Path(c) \o lost
    /\ conn[c] # "gone" => lost = <<>>

Paths == \A c \in Conns : \E lost : Loses(c, lost)

LEMMA PathTyped ==
    ASSUME LoopInv, RestTyped, NEW c \in Conns
    PROVE  /\ recvQueue \in Queue(Asked)
           /\ handled[c] \in Seq(Asked)
           /\ Of(c, recvQueue) \in Seq(Asked)
           /\ arrived[c] \in Seq(Asked)
           /\ sent[c] \in Seq(Asked)
           /\ conn[c] \in States
<1>1. recvQueue \in Queue(Asked)
  BY DEF LoopInv, LoopTyped, Queue
<1>2. Of(c, recvQueue) \in Seq(Asked)
  BY <1>1, OfTyped
<1> QED  BY <1>1, <1>2 DEF LoopInv, LoopTyped, RestTyped

(* A step that leaves a connection's path and what was sent alone.         *)
LEMMA PathStays ==
    ASSUME NEW c \in Conns, \E lost : Loses(c, lost),
           Path(c)' = Path(c), sent'[c] = sent[c], conn[c] = "gone" => conn'[c] = "gone"
    PROVE  (\E lost : Loses(c, lost))'
<1>1. PICK lost : Loses(c, lost)
  OBVIOUS
<1>2. (lost = <<>> \/ conn'[c] = "gone") /\ lost \in Seq(Asked) /\ sent'[c] = Path(c)' \o lost
  BY <1>1 DEF Loses
<1> QED  BY <1>2 DEF Loses

LEMMA ArriveKeepsPaths ==
    ASSUME LoopInv, RestTyped, Paths, NEW c \in Conns, NEW request \in Asked,
           Arrive(c, request)
    PROVE  Paths'
<1>1. /\ UNCHANGED <<conn, recvQueue, handled>>
      /\ arrived \in [Conns -> Seq(Asked)]
      /\ sent \in [Conns -> Seq(Asked)]
      /\ arrived' = [arrived EXCEPT ![c] = Append(arrived[c], request)]
      /\ sent' = [sent EXCEPT ![c] = Append(sent[c], request)]
      /\ conn[c] = "connected"
  BY DEF Arrive, LoopInv, LoopTyped
<1> SUFFICES ASSUME NEW d \in Conns
             PROVE  (\E lost : Loses(d, lost))'
  BY DEF Paths
<1>2. CASE d # c
  <2>1. arrived'[d] = arrived[d] /\ sent'[d] = sent[d]
    BY <1>1, <1>2
  <2>2. Path(d)' = Path(d)
    BY <1>1, <2>1 DEF Path
  <2> QED  BY <1>1, <2>1, <2>2, PathStays DEF Paths
<1>3. CASE d = c
  <2> DEFINE before == handled[c] \o Of(c, recvQueue)
  <2>1. before \in Seq(Asked) /\ arrived[c] \in Seq(Asked)
    BY PathTyped, ConcatProperties
  <2>2. sent[c] = before \o arrived[c]
    <3>1. sent[c] = (before \o arrived[c]) \o <<>>
      BY <1>1 DEF Paths, Loses, Path
    <3>2. before \o arrived[c] \in Seq(Asked)
      BY <2>1, ConcatProperties
    <3> QED  BY <3>1, <3>2, ConcatEmptySeq
  <2>3. Path(c)' = before \o Append(arrived[c], request)
    BY <1>1 DEF Path
  <2>4. sent'[c] = Append(sent[c], request)
    BY <1>1
  <2> HIDE DEF before
  <2>5. sent'[c] = Path(c)'
    <3>1. \A s, t \in Seq(Asked) : s \o Append(t, request) = Append(s \o t, request)
      BY AppendToConcat
    <3>2. before \o Append(arrived[c], request) = Append(before \o arrived[c], request)
      BY <2>1, <3>1
    <3> QED  BY <2>2, <2>3, <2>4, <3>2
  <2>6. Path(c)' \o <<>> = Path(c)' /\ <<>> \in Seq(Asked)
    <3>1. before \o Append(arrived[c], request) \in Seq(Asked)
      BY <2>1, ConcatProperties, AppendProperties
    <3> QED  BY <2>3, <3>1, ConcatEmptySeq, EmptySeq
  <2>7. Loses(c, <<>>)'
    BY <2>5, <2>6 DEF Loses
  <2> QED  BY <1>3, <2>7
<1> QED  BY <1>2, <1>3

LEMMA PollKeepsPaths ==
    ASSUME LoopInv, RestTyped, Paths, NEW c \in Conns, PollIncomingMessages(c)
    PROVE  Paths'
<1> DEFINE x == Received(c, Head(arrived[c]))
<1>1. /\ UNCHANGED <<conn, sent, handled>>
      /\ arrived \in [Conns -> Seq(Asked)]
      /\ arrived[c] # <<>>
      /\ arrived' = [arrived EXCEPT ![c] = Tail(arrived[c])]
      /\ recvQueue' = Append(recvQueue, x)
  BY DEF PollIncomingMessages, AddToRecvQueue, LoopInv, LoopTyped, history
<1>2. /\ x \in [conn : Conns, message : Asked]
      /\ x.conn = c
      /\ x.message = Head(arrived[c])
  <2>1. Head(arrived[c]) \in Asked
    BY <1>1, HeadTailProperties
  <2> QED  BY <2>1 DEF Received
<1> HIDE DEF x
<1> SUFFICES ASSUME NEW d \in Conns
             PROVE  (\E lost : Loses(d, lost))'
  BY DEF Paths
<1>3. recvQueue \in Queue(Asked)
  BY PathTyped
<1>4. Of(d, recvQueue') = IF x.conn = d THEN Append(Of(d, recvQueue), x.message)
                                        ELSE Of(d, recvQueue)
  BY <1>1, <1>2, <1>3, OfAppend
<1>5. Path(d)' = Path(d)
  <2>1. CASE d # c
    BY <1>1, <1>2, <1>4, <2>1 DEF Path
  <2>2. CASE d = c
    <3> DEFINE own == Of(c, recvQueue)
    <3>1. handled[c] \in Seq(Asked) /\ own \in Seq(Asked) /\ arrived[c] \in Seq(Asked)
      BY PathTyped
    <3>2. Of(c, recvQueue') = Append(own, Head(arrived[c]))
      BY <1>2, <1>4, <2>2
    <3>3. Path(c)' = (handled[c] \o Append(own, Head(arrived[c]))) \o Tail(arrived[c])
      BY <1>1, <3>2 DEF Path
    <3> HIDE DEF own
    <3>4. Head(arrived[c]) \in Asked
      BY <1>1, HeadTailProperties
    <3>5. handled[c] \o Append(own, Head(arrived[c])) = Append(handled[c] \o own, Head(arrived[c]))
      <4>1. \A s, t \in Seq(Asked), y \in Asked : s \o Append(t, y) = Append(s \o t, y)
        BY AppendToConcat
      <4> QED  BY <3>1, <3>4, <4>1
    <3>6. handled[c] \o own \in Seq(Asked)
      BY <3>1, ConcatProperties
    <3> DEFINE before == handled[c] \o own
    <3>7. before \in Seq(Asked) /\ Path(c)' = Append(before, Head(arrived[c])) \o Tail(arrived[c])
      BY <3>3, <3>5, <3>6
    <3>8. Path(c) = before \o arrived[c]
      BY DEF Path, own
    <3> HIDE DEF before
    <3>9. Append(before, Head(arrived[c])) \o Tail(arrived[c]) = before \o arrived[c]
      BY <1>1, <3>1, <3>7, HeadMovesOver
    <3> QED  BY <2>2, <3>7, <3>8, <3>9
  <2> QED  BY <2>1, <2>2
<1> QED  BY <1>1, <1>5, PathStays DEF Paths

LEMMA HandleKeepsPaths ==
    ASSUME LoopInv, RestTyped, Paths, HandleHead
    PROVE  Paths'
<1> DEFINE c == Head(recvQueue).conn
           request == Head(recvQueue).message
<1>1. /\ recvQueue # <<>>
      /\ recvQueue' = Tail(recvQueue)
      /\ handled' = [handled EXCEPT ![c] = Append(handled[c], request)]
      /\ UNCHANGED <<conn, arrived, sent>>
      /\ handled \in [Conns -> Seq(Asked)]
  BY DEF HandleHead, PollRecvQueue, RestTyped
<1>2. recvQueue \in Queue(Asked)
  BY DEF LoopInv, LoopTyped, Queue
<1>3. c \in Conns /\ request \in Asked
  <2>1. Head(recvQueue) \in [conn : Conns, message : Asked]
    BY <1>1, <1>2, HeadTailProperties DEF Queue
  <2> QED  BY <2>1
<1> SUFFICES ASSUME NEW d \in Conns
             PROVE  (\E lost : Loses(d, lost))'
  BY DEF Paths
<1> DEFINE rest == Of(d, Tail(recvQueue))
<1>4. rest \in Seq(Asked)
  BY <1>1, <1>2, OfHead
<1>5. Of(d, recvQueue) = IF c = d THEN <<request>> \o rest ELSE rest
  BY <1>1, <1>2, OfHead
<1>6. Of(d, recvQueue)' = rest
  BY <1>1
<1> HIDE DEF c, request, rest
<1>7. Path(d)' = Path(d)
  <2>1. CASE d # c
    BY <1>1, <1>5, <1>6, <2>1 DEF Path
  <2>2. CASE d = c
    <3>1. handled[d] \in Seq(Asked)
      BY PathTyped
    <3>2. Append(handled[d], request) \o rest = handled[d] \o (<<request>> \o rest)
      BY ONLY <1>3, <1>4, <3>1, FirstMovesOver, ZenonT(60)
    <3>3. handled'[d] = Append(handled[d], request)
      BY <1>1, <2>2
    <3> QED  BY <1>1, <1>5, <1>6, <2>2, <3>2, <3>3 DEF Path
  <2> QED  BY <2>1, <2>2
<1> QED  BY <1>1, <1>7, PathStays DEF Paths

LEMMA CallbackKeepsPaths ==
    ASSUME LoopInv, RestTyped, Paths, RunCallback
    PROVE  Paths'
<1> DEFINE c == Head(callbacks).conn
<1>1. /\ c \in Conns
      /\ UNCHANGED <<recvQueue, sent, handled>>
      /\ UNCHANGED arrived \/ (arrived' = [arrived EXCEPT ![c] = <<>>] /\ conn'[c] = "gone")
      /\ \A d \in Conns : conn[d] = "gone" => conn'[d] = "gone"
  <2>1. /\ c \in Conns
        /\ UNCHANGED <<recvQueue, sent>>
        /\ \A d \in Conns : conn[d] = "gone" => conn'[d] = "gone"
    BY CallbackChanges DEF LoopInv, LoopTyped
  <2>2. UNCHANGED handled
    BY DEF RunCallback, history
  <2>3. UNCHANGED arrived \/ CloseConnection(c)
    BY DEF RunCallback, OnConnecting, OnClosed
  <2> QED  BY <2>1, <2>2, <2>3 DEF CloseConnection, LoopInv, LoopTyped
<1> HIDE DEF c
<1> SUFFICES ASSUME NEW d \in Conns
             PROVE  (\E lost : Loses(d, lost))'
  BY DEF Paths
<1>2. CASE arrived'[d] = arrived[d]
  <2>1. Path(d)' = Path(d)
    BY <1>1, <1>2 DEF Path
  <2> QED  BY <1>1, <2>1, PathStays DEF Paths
<1>3. CASE arrived'[d] # arrived[d]
  <2>1. arrived'[d] = <<>> /\ conn'[d] = "gone"
    BY <1>1, <1>3 DEF LoopInv, LoopTyped
  <2> DEFINE before == handled[d] \o Of(d, recvQueue)
             own == arrived[d]
  <2>2. before \in Seq(Asked) /\ own \in Seq(Asked)
    BY PathTyped, ConcatProperties
  <2>3. Path(d)' = before \o <<>>
    BY <1>1, <2>1 DEF Path
  <2>4. PICK lost \in Seq(Asked) : sent[d] = (before \o own) \o lost
    BY DEF Paths, Loses, Path
  <2> HIDE DEF before, own
  <2>5. own \o lost \in Seq(Asked) /\ sent[d] = before \o (own \o lost)
    <3>1. own \o lost \in Seq(Asked)
      BY <2>2, <2>4, ConcatProperties
    <3>2. (before \o own) \o lost = before \o (own \o lost)
      BY <2>2, <2>4, ConcatAssociative
    <3> QED  BY <2>4, <3>1, <3>2
  <2>6. Path(d)' = before
    BY <2>2, <2>3, ConcatEmptySeq
  <2>7. PICK all : all = own \o lost
    OBVIOUS
  <2>8. sent'[d] = Path(d)' \o all /\ all \in Seq(Asked) /\ conn'[d] = "gone"
    BY <1>1, <2>1, <2>5, <2>6, <2>7
  <2>9. Loses(d, all)'
    BY <2>8 DEF Loses
  <2> QED  BY <2>9
<1> QED  BY <1>2, <1>3

LEMMA PathsStay ==
    ASSUME LoopInv, RestTyped, Paths, [TickNext]_tickVars
    PROVE  Paths'
<1>1. CASE SendHead \/ Advance \/ UNCHANGED tickVars
  <2>1. UNCHANGED <<conn, arrived, recvQueue, sent, handled>>
    BY <1>1 DEF SendHead, Advance, tickVars, queues, history
  <2> QED  BY <2>1 DEF Paths, Loses, Path
<1>2. CASE \E c \in Conns : Connect(c) \/ Disconnect(c)
  <2>1. UNCHANGED <<arrived, recvQueue, sent, handled>>
    BY <1>2 DEF Connect, Disconnect, queues, history
  <2>2. \A d \in Conns : conn[d] = "gone" => conn'[d] = "gone"
    BY <1>2 DEF Connect, Disconnect, LoopInv, LoopTyped
  <2> SUFFICES ASSUME NEW d \in Conns
               PROVE  (\E lost : Loses(d, lost))'
    BY DEF Paths
  <2>3. Path(d)' = Path(d)
    BY <2>1 DEF Path
  <2> QED  BY <2>1, <2>2, <2>3, PathStays DEF Paths
<1> QED  BY <1>1, <1>2, ArriveKeepsPaths, PollKeepsPaths, HandleKeepsPaths, CallbackKeepsPaths
         DEF TickNext, Update

LEMMA PathsInit ==
    ASSUME TickInit
    PROVE  Paths
<1> SUFFICES ASSUME NEW c \in Conns
             PROVE  Loses(c, <<>>)
  BY DEF Paths
<1>1. Of(c, recvQueue) = <<>>
  BY OfEmpty DEF TickInit
<1>2. handled[c] = <<>> /\ arrived[c] = <<>> /\ sent[c] = <<>>
  BY DEF TickInit
<1>3. <<>> \o <<>> = <<>> /\ <<>> \in Seq(Asked)
  BY EmptySeq, ConcatEmptySeq
<1> QED  BY <1>1, <1>2, <1>3 DEF Loses, Path

(* Whatever the network does, each request is handled once, in the order    *)
(* of its connection's requests, and only the end of the connection, which *)
(* destroys what the library still holds, loses any.                       *)
THEOREM RequestsInOrder == TickSpec => []HandledInOrder
<1>1. TickInit => Paths
  BY PathsInit
<1>2. LoopInv /\ RestTyped /\ Paths /\ [TickNext]_tickVars => Paths'
  BY PathsStay
<1>3. LoopInv /\ RestTyped /\ Paths => HandledInOrder
  <2> SUFFICES ASSUME LoopInv, RestTyped, NEW c \in Conns, NEW lost, Loses(c, lost)
               PROVE  IsPrefix(Path(c), sent[c]) /\ (conn[c] # "gone" => Path(c) = sent[c])
    BY DEF Paths, HandledInOrder, Path
  <2>1. Path(c) \in Seq(Asked) /\ lost \in Seq(Asked)
    BY PathTyped, ConcatProperties DEF Path, Loses
  <2>2. IsPrefix(Path(c), Path(c) \o lost) /\ Path(c) \o <<>> = Path(c)
    BY <2>1, PrefixOfConcat, ConcatEmptySeq
  <2> QED  BY <2>2 DEF Loses
<1> QED  BY <1>1, <1>2, <1>3, LoopInvariant, RestInvariant, PTL DEF TickSpec

-----------------------------------------------------------------------------
(* What a client makes of the packets it gets and will get.                *)

Hearing == INSTANCE SequenceFacts WITH Op <- Hear

LEMMA HearingFolds ==
    ASSUME NEW belief, NEW messages
    PROVE  FoldLeft(Hear, belief, messages) = Hearing!Fold(belief, messages)
BY DEF FoldLeft, MapThenFoldSet, Max,
       Hearing!Fold, Hearing!FoldLeft, Hearing!MapThenFoldSet, Hearing!Max

Picture(answered, ids) == [answered |-> answered, ids |-> ids, sound |-> TRUE]

(* Once answered, a client hears the news as EntityTracking has it believe. *)
LEMMA NewsAreHeard ==
    ASSUME NEW was \in SUBSET Ids
    PROVE  \A messages \in Seq(News) :
              LET belief == Believing!Fold(Belief(was), messages)
              IN  Hearing!Fold(Picture(TRUE, was), messages)
                    = [answered |-> TRUE, ids |-> belief.ids, sound |-> belief.sound]
<1> DEFINE B == [ids : SUBSET Ids, sound : BOOLEAN]
           believed(messages) == Believing!Fold(Belief(was), messages)
           Holds(messages) == Hearing!Fold(Picture(TRUE, was), messages)
               = [answered |-> TRUE, ids |-> believed(messages).ids,
                  sound |-> believed(messages).sound]
           S == {messages \in Seq(News) : Holds(messages)}
<1>1. \A messages \in Seq(News) : believed(messages) \in B
  <2>1. Belief(was) \in B
    BY DEF Belief
  <2>2. ASSUME NEW v \in B, NEW m \in News
        PROVE  Believe(v, m) \in B
    <3>1. m \in Messages /\ m.type # "InitAuthResult"
      BY DEF News
    <3>2. CASE m.type = "SpawnEntity"
      <4>1. m.id \in Ids
        BY <3>1, <3>2 DEF Messages
      <4> QED  BY <3>2, <4>1 DEF Believe
    <3>3. CASE m.type = "TeleportEntity"
      BY <3>3 DEF Believe
    <3>4. CASE m.type = "DestroyEntity"
      BY <3>4 DEF Believe
    <3> QED  BY <3>1, <3>2, <3>3, <3>4 DEF Messages
  <2> HIDE DEF B
  <2> QED  BY <2>1, <2>2, Believing!FoldTyped
<1>2. <<>> \in S
  <2>1. Hearing!Fold(Picture(TRUE, was), <<>>) = Picture(TRUE, was)
    BY Hearing!FoldEmpty
  <2>2. Believing!Fold(Belief(was), <<>>) = Belief(was)
    BY Believing!FoldEmpty
  <2>3. Holds(<<>>)
    <3>1. believed(<<>>) = Belief(was)
      BY <2>2
    <3>2. Picture(TRUE, was) = [answered |-> TRUE, ids |-> Belief(was).ids,
                                sound |-> Belief(was).sound]
      BY DEF Picture, Belief
    <3> HIDE DEF believed
    <3> QED  BY <2>1, <3>1, <3>2
  <2> HIDE DEF Holds
  <2> QED  BY <2>3, EmptySeq
<1>3. ASSUME NEW messages \in Seq(News), NEW m \in News, messages \in S
      PROVE  Append(messages, m) \in S
  <2>1. Hearing!Fold(Picture(TRUE, was), Append(messages, m))
          = Hear(Hearing!Fold(Picture(TRUE, was), messages), m)
    BY Hearing!FoldAppend
  <2>2. believed(Append(messages, m)) = Believe(believed(messages), m)
    BY Believing!FoldAppend
  <2>3. Holds(messages)
    BY <1>3
  <2>4. PICK b \in B : b = believed(messages)
    BY <1>1
  <2>5. PICK after \in B : after = believed(Append(messages, m))
    BY <1>1, AppendProperties
  <2> HIDE DEF believed
  <2>6. after = Believe([ids |-> b.ids, sound |-> b.sound], m)
    BY <2>2, <2>4, <2>5
  <2>7. Hear([answered |-> TRUE, ids |-> b.ids, sound |-> b.sound], m)
          = [answered |-> TRUE, ids |-> after.ids, sound |-> after.sound]
    BY <2>5, <2>6 DEF Hear, News
  <2>8. Holds(Append(messages, m))
    BY <2>1, <2>3, <2>4, <2>5, <2>7
  <2> QED  BY <2>8, AppendProperties
<1> HIDE DEF S
<1>4. \A messages \in Seq(News) : messages \in S
  BY <1>2, <1>3, SequenceInduction
<1> QED  BY <1>4 DEF S

(* What a step enqueues for c explains what it does to c's view, after c   *)
(* was answered, or is the answer.                                         *)
Told(c) ==
    \/ /\ Explains(enqueued'[c], View[c], View'[c])
       /\ c \in greeted' <=> c \in greeted
       /\ c \notin greeted => enqueued'[c] = <<>>
    \/ /\ c \notin greeted
       /\ c \in greeted'
       /\ View[c] = {} /\ View'[c] = {}
       /\ \E answer \in Messages :
             answer.type = "InitAuthResult" /\ enqueued'[c] = <<answer>>

LEMMA ToldIsHeard ==
    ASSUME NEW c \in Conns, Told(c), View[c] \in SUBSET Ids
    PROVE  Hearing!Fold(Picture(c \in greeted, View[c]), enqueued'[c])
             = Picture(c \in greeted', View'[c])
<1> DEFINE news == enqueued'[c]
           was == View[c]
           is == View'[c]
<1>1. CASE c \in greeted /\ c \in greeted' /\ Explains(news, was, is)
  <2> HIDE DEF news, was, is
  <2>1. news \in Seq(News) /\ Believing!Fold(Belief(was), news) = Belief(is)
    BY <1>1 DEF Explains
  <2>2. was \in SUBSET Ids
    BY DEF was
  <2>3. Hearing!Fold(Picture(TRUE, was), news) = Picture(TRUE, is)
    <3> DEFINE belief == Believing!Fold(Belief(was), news)
    <3>1. Hearing!Fold(Picture(TRUE, was), news)
            = [answered |-> TRUE, ids |-> belief.ids, sound |-> belief.sound]
      BY <2>1, <2>2, NewsAreHeard
    <3>2. belief = Belief(is)
      BY <2>1
    <3> HIDE DEF belief
    <3> QED  BY <3>1, <3>2 DEF Belief, Picture
  <2>4. (c \in greeted) = TRUE /\ (c \in greeted') = TRUE
    BY <1>1
  <2> QED  BY <2>3, <2>4 DEF news, was, is
<1>2. CASE c \notin greeted /\ c \notin greeted' /\ Explains(news, was, is) /\ news = <<>>
  <2>1. is = was
    <3>1. Believing!Fold(Belief(was), <<>>) = Belief(was)
      BY Believing!FoldEmpty
    <3>2. Belief(was) = Belief(is)
      BY <1>2, <3>1 DEF Explains
    <3> HIDE DEF was, is
    <3> QED  BY <3>2 DEF Belief
  <2>2. (c \in greeted) = FALSE /\ (c \in greeted') = FALSE
    BY <1>2
  <2> QED  BY <1>2, <2>1, <2>2, Hearing!FoldEmpty
<1>3. CASE /\ c \notin greeted /\ c \in greeted' /\ was = {} /\ is = {}
           /\ \E answer \in Messages : answer.type = "InitAuthResult" /\ news = <<answer>>
  <2>1. PICK answer \in Messages : answer.type = "InitAuthResult" /\ news = <<answer>>
    BY <1>3
  <2>2. Hearing!Fold(Picture(FALSE, {}), <<answer>>) = Hear(Picture(FALSE, {}), answer)
    BY Hearing!FoldSingle
  <2>3. Hear(Picture(FALSE, {}), answer) = Picture(TRUE, {})
    BY <2>1 DEF Hear, Picture
  <2>4. (c \in greeted) = FALSE /\ (c \in greeted') = TRUE
    BY <1>3
  <2> QED  BY <1>3, <2>1, <2>2, <2>3, <2>4
<1> QED  BY <1>1, <1>2, <1>3 DEF Told

LEMMA ViewsTyped ==
    ASSUME IInv, NEW c \in Conns
    PROVE  View[c] \in SUBSET Ids
<1>1. trackedEntities[c] \in SUBSET (0 .. entityIdCounter - 1) /\ entityIdCounter \in 0 .. MaxEntities
  BY DEF IInv, TypeOK
<1>2. 0 .. entityIdCounter - 1 \subseteq 0 .. MaxEntities - 1
  BY <1>1, ConstantsAssumption
<1> QED  BY <1>1, <1>2 DEF View, Ids

(* A handler that explains what it does and moves nobody in or out tells    *)
(* everybody.                                                              *)
LEMMA ExplainedIsTold ==
    ASSUME IInv, StepExplains, NEW c \in Conns, c \in greeted' <=> c \in greeted,
           c \in ConnectedPlayers' <=> c \in ConnectedPlayers
    PROVE  Told(c) /\ (c \notin greeted => enqueued'[c] = <<>>)
<1>1. /\ Explains(enqueued'[c], trackedEntities[c], trackedEntities'[c])
      /\ c \notin ConnectedPlayers => enqueued'[c] = <<>>
      /\ c \notin greeted => c \notin ConnectedPlayers
  BY DEF StepExplains, IInv, TypeOK
<1>2. CASE c \in ConnectedPlayers
  <2>1. View[c] = trackedEntities[c] /\ View'[c] = trackedEntities'[c]
    BY <1>2 DEF View
  <2> QED  BY <1>1, <1>2, <2>1 DEF Told
<1>3. CASE c \notin ConnectedPlayers
  <2>1. View[c] = {} /\ View'[c] = {}
    BY <1>3 DEF View
  <2>2. Explains(<<>>, {}, {})
    BY SilenceExplains
  <2> QED  BY <1>1, <1>3, <2>1, <2>2 DEF Told
<1> QED  BY <1>2, <1>3

LEMMA StrangerIsNotTold ==
    ASSUME IInv, NEW c \in Conns, enqueued'[c] = <<>>, UNCHANGED trackedEntities,
           c \in greeted' <=> c \in greeted, c \in ConnectedPlayers' <=> c \in ConnectedPlayers
    PROVE  Told(c)
<1>1. View'[c] = View[c]
  BY DEF View
<1>2. Explains(<<>>, View[c], View[c])
  BY SilenceExplains
<1> QED  BY <1>1, <1>2 DEF Told

(* A connection that has asked nothing is told nothing.                     *)
LEMMA HandlingTells ==
    ASSUME LoopInv, IInv, HandleHead, NEW c \in Conns
    PROVE  Told(c) /\ (sent[c] = <<>> => enqueued'[c] = <<>>)
<1> DEFINE d == Head(recvQueue).conn
           request == Head(recvQueue).message
<1>1. /\ 1 \in DOMAIN recvQueue
      /\ recvQueue[1] = Head(recvQueue)
      /\ d \in Conns
      /\ request \in Asked
  <2>1. recvQueue \in Seq([conn : Conns, message : Asked]) /\ recvQueue # <<>>
    BY DEF LoopInv, LoopTyped, HandleHead
  <2>2. /\ 1 \in DOMAIN recvQueue
        /\ recvQueue[1] = Head(recvQueue)
        /\ recvQueue[1] \in [conn : Conns, message : Asked]
    BY <2>1, HeadIsFirst
  <2> QED  BY <2>2
<1>2. Handle(d, request)
  BY DEF HandleHead
<1>3. request \in Requests
  BY <1>1, RequestsAssumption
<1>4. sent[c] = <<>> => c \notin greeted /\ ~(c = d /\ request.type = "InitAuth")
  <2>1. sent[c] = <<>> => ~\E i \in DOMAIN sent[c] : sent[c][i].type = "InitAuth"
    BY EmptySeq
  <2>2. c = d /\ request.type = "InitAuth" => Asks(c, 1)
    BY <1>1 DEF Asks
  <2> QED  BY <1>1, <2>1, <2>2 DEF LoopInv, AsksOnce, AskedOnce
<1>5. request.type = "InitAuth" => d \notin greeted
  BY <1>1 DEF LoopInv, AsksOnce, AskedOnce, Asks
<1> HIDE DEF d, request
<1>6. CASE request.type = "InitAuth"
  <2>1. request.versionMatches \in BOOLEAN
    BY <1>3, <1>6 DEF Requests
  <2>2. HandleInitAuth(d, request.versionMatches) /\ greeted' = greeted \cup {d}
    BY <1>2, <1>6 DEF Handle
  <2>3. /\ UNCHANGED trackedEntities
        /\ \A p \in Conns \ {d} : enqueued'[p] = <<>>
        /\ \E answer \in Messages : answer.type = "InitAuthResult" /\ enqueued'[d] = <<answer>>
    BY <1>1, <2>1, <2>2, InitAuthAnswers
  <2>4. ConnectedPlayers' = ConnectedPlayers \cup {d} \/ ConnectedPlayers' = ConnectedPlayers
    BY <2>2 DEF HandleInitAuth
  <2>5. CASE c = d
    <3>1. trackedEntities[c] = {}
      BY <1>5, <1>6, <2>5 DEF IInv, StartsWithEmptyView
    <3>2. View[c] = {} /\ View'[c] = {}
      BY <2>3, <3>1 DEF View
    <3> QED  BY <1>4, <1>5, <1>6, <2>2, <2>3, <2>5, <3>2 DEF Told
  <2>6. CASE c # d
    BY <1>4, <2>2, <2>3, <2>4, <2>6, StrangerIsNotTold
  <2> QED  BY <2>5, <2>6
<1>7. CASE request.type # "InitAuth"
  <2>1. UNCHANGED <<greeted, closed>>
    BY <1>2, <1>7 DEF Handle
  <2>2. StepExplains /\ UNCHANGED ConnectedPlayers
    BY <1>1, <1>2, <1>3, <1>7, RequestExplained
  <2> QED  BY <1>4, <2>1, <2>2, ExplainedIsTold
<1> QED  BY <1>6, <1>7

LEMMA EndTells ==
    ASSUME IInv, NEW d \in Conns, EndConnection(d), NEW c \in Conns, c # d
    PROVE  Told(c) /\ (c \notin greeted => enqueued'[c] = <<>>)
<1>1. UNCHANGED greeted /\ StepExplains
  BY ConnectionStateChangeExplained DEF EndConnection
<1>2. c \in ConnectedPlayers' <=> c \in ConnectedPlayers
  BY DEF EndConnection, OnConnectionStateChange, NothingHappens, managed
<1> QED  BY <1>1, <1>2, ExplainedIsTold

-----------------------------------------------------------------------------
(* The strengthening of PipelineExplainsTracking: it holds before the       *)
(* connection is up, too, and until then nothing is asked or said.         *)
Pipe(c) ==
    /\ conn[c] \in {"none", "connecting"} => sent[c] = <<>> /\ Of(c, sendQueue) = <<>>
    /\ conn[c] \in {"none", "connecting", "connected"} =>
          Hearing!Fold(heard[c], Of(c, sendQueue)) = Picture(c \in greeted, View[c])

Pipes == \A c \in Conns : Pipe(c)

LEMMA PipeInit ==
    ASSUME TickInit
    PROVE  Pipes
<1> SUFFICES ASSUME NEW c \in Conns
             PROVE  Pipe(c)
  BY DEF Pipes
<1>1. sent[c] = <<>> /\ Of(c, sendQueue) = <<>>
  BY OfEmpty DEF TickInit
<1>2. /\ heard[c] = [answered |-> FALSE, ids |-> {}, sound |-> TRUE]
      /\ greeted = {} /\ ConnectedPlayers = {}
  BY DEF TickInit, Init
<1>3. View[c] = {} /\ (c \in greeted) = FALSE
  BY <1>2 DEF View
<1>4. heard[c] = Picture(c \in greeted, View[c])
  BY <1>2, <1>3 DEF Picture
<1> QED  BY <1>1, <1>4, Hearing!FoldEmpty DEF Pipe

(* A pipe is not touched.                                                  *)
LEMMA PipeStays ==
    ASSUME NEW c \in Conns, Pipe(c), UNCHANGED <<ConnectedPlayers, trackedEntities, greeted>>,
           Of(c, sendQueue)' = Of(c, sendQueue), heard'[c] = heard[c],
           \/ conn'[c] \notin {"none", "connecting", "connected"}
           \/ conn'[c] = conn[c] /\ (conn[c] # "connected" => sent'[c] = sent[c])
           \/ conn[c] \in {"none", "connecting"} /\ sent'[c] = sent[c]
    PROVE  Pipe(c)'
<1>1. View'[c] = View[c] /\ (c \in greeted') = (c \in greeted)
  BY DEF View
<1> QED  BY <1>1 DEF Pipe

(* A handler, or the end of another connection, adds to a pipe.            *)
LEMMA PipeGrows ==
    ASSUME LoopInv, IInv, RestTyped, NEW c \in Conns, Pipe(c), Next, EnqueueSendQueue,
           Told(c), sent[c] = <<>> => enqueued'[c] = <<>>,
           sent'[c] = sent[c], heard'[c] = heard[c], conn'[c] = conn[c]
    PROVE  Pipe(c)'
<1> DEFINE own == Of(c, sendQueue)
           news == enqueued'[c]
<1>1. \A d \in Conns : enqueued'[d] \in Seq(Messages)
  BY StepMessagesTyped
<1>2. own \in Seq(Messages) /\ news \in Seq(Messages)
  BY <1>1, OfTyped DEF RestTyped
<1>3. Of(c, sendQueue') = own \o news
  BY <1>1, EnqueueSends DEF RestTyped
<1> HIDE DEF own, news
<1>4. CASE conn[c] \in {"none", "connecting", "connected"}
  <2>1. Hearing!Fold(heard[c], own) = Picture(c \in greeted, View[c])
    BY <1>4 DEF Pipe, own
  <2>2. Hearing!Fold(heard[c], own \o news) = Hearing!Fold(Hearing!Fold(heard[c], own), news)
    BY <1>2, Hearing!FoldConcat
  <2>3. Hearing!Fold(Picture(c \in greeted, View[c]), news) = Picture(c \in greeted', View'[c])
    BY ViewsTyped, ToldIsHeard DEF news
  <2>4. Hearing!Fold(heard'[c], Of(c, sendQueue')) = Picture(c \in greeted', View'[c])
    BY <1>3, <2>1, <2>2, <2>3
  <2>5. conn'[c] \in {"none", "connecting"} => sent'[c] = <<>> /\ Of(c, sendQueue') = <<>>
    <3> SUFFICES ASSUME conn[c] \in {"none", "connecting"}
                 PROVE  sent'[c] = <<>> /\ Of(c, sendQueue') = <<>>
      OBVIOUS
    <3>1. sent[c] = <<>> /\ own = <<>>
      BY DEF Pipe, own
    <3>2. news = <<>>
      BY <3>1 DEF news
    <3>3. own \o news = <<>>
      BY <1>2, <3>1, <3>2, ConcatEmptySeq
    <3> QED  BY <1>3, <3>1, <3>3
  <2> QED  BY <2>4, <2>5 DEF Pipe
<1>5. CASE conn[c] \notin {"none", "connecting", "connected"}
  BY <1>5 DEF Pipe
<1> QED  BY <1>4, <1>5

LEMMA SendingKeepsPipes ==
    ASSUME RestTyped, Pipes, SendHead, NEW c \in Conns
    PROVE  Pipe(c)'
<1> DEFINE val == Head(sendQueue)
           rest == Of(c, Tail(sendQueue))
<1>1. /\ sendQueue # <<>>
      /\ sendQueue' = Tail(sendQueue)
      /\ heard' = IF conn[val.conn] = "connected"
                  THEN [heard EXCEPT ![val.conn] = Hear(heard[val.conn], val.message)]
                  ELSE heard
      /\ UNCHANGED <<ConnectedPlayers, trackedEntities, greeted, conn, sent>>
  BY DEF SendHead, vars, managed
<1>2. sendQueue \in Queue(Messages) /\ heard \in [Conns -> Beliefs]
  BY DEF RestTyped
<1>3. /\ val \in [conn : Conns, message : Messages]
      /\ rest \in Seq(Messages)
  BY <1>1, <1>2, OfHead
<1>4. Of(c, sendQueue) = IF val.conn = c THEN <<val.message>> \o rest ELSE rest
  BY <1>1, <1>2, OfHead
<1>5. Of(c, sendQueue)' = rest
  BY <1>1
<1>6. val.conn \in Conns /\ val.message \in Messages
  BY <1>3
<1> HIDE DEF val, rest
<1>7. CASE val.conn # c
  <2>1. heard'[c] = heard[c]
    BY <1>1, <1>2, <1>7
  <2> QED  BY <1>1, <1>4, <1>5, <1>7, <2>1, PipeStays DEF Pipes
<1>8. CASE val.conn = c
  <2>1. <<val.message>> \in Seq(Messages) /\ Len(<<val.message>>) = 1
    BY <1>6
  <2>2. <<val.message>> \o rest # <<>>
    BY <1>3, <2>1, ConcatEqualIffEmpty, EmptySeq
  <2>3. conn[c] \notin {"none", "connecting"}
    BY <1>4, <1>8, <2>2 DEF Pipes, Pipe
  <2>4. CASE conn[c] = "connected"
    <3>1. heard'[c] = Hear(heard[c], val.message)
      BY <1>1, <1>2, <1>8, <2>4
    <3>2. Hearing!Fold(heard[c], <<val.message>> \o rest)
            = Hearing!Fold(Hearing!Fold(heard[c], <<val.message>>), rest)
      <4>1. PICK first \in Seq(Messages) : first = <<val.message>>
        BY <2>1
      <4>2. Hearing!Fold(heard[c], first \o rest) = Hearing!Fold(Hearing!Fold(heard[c], first), rest)
        BY <1>3, Hearing!FoldConcat
      <4> QED  BY <4>1, <4>2
    <3>3. Hearing!Fold(heard[c], <<val.message>>) = Hear(heard[c], val.message)
      BY Hearing!FoldSingle
    <3>4. Hearing!Fold(heard[c], <<val.message>> \o rest) = Picture(c \in greeted, View[c])
      BY <1>4, <1>8, <2>4 DEF Pipes, Pipe
    <3>5. Hearing!Fold(heard'[c], rest) = Picture(c \in greeted, View[c])
      BY <3>1, <3>2, <3>3, <3>4
    <3>6. View'[c] = View[c] /\ (c \in greeted') = (c \in greeted)
      BY <1>1 DEF View
    <3>7. conn'[c] = "connected"
      BY <1>1, <2>4
    <3> QED  BY <1>5, <3>5, <3>6, <3>7 DEF Pipe
  <2>5. CASE conn[c] # "connected"
    BY <1>1, <2>3, <2>5 DEF Pipe
  <2> QED  BY <2>4, <2>5
<1> QED  BY <1>7, <1>8

LEMMA CallbackKeepsPipes ==
    ASSUME LoopInv, IInv, RestTyped, Pipes, RunCallback, NEW c \in Conns
    PROVE  Pipe(c)'
<1> DEFINE d == Head(callbacks).conn
<1>1. /\ d \in Conns
      /\ UNCHANGED <<sent, heard>>
      /\ \/ conn[d] = "connecting" /\ conn' = [conn EXCEPT ![d] = "connected"]
         \/ conn' = [conn EXCEPT ![d] = "gone"]
  BY CallbackChanges DEF RunCallback, history
<1>2. conn \in [Conns -> States] /\ Pipe(c)
  BY DEF LoopInv, LoopTyped, Pipes
<1> HIDE DEF d
<1>3. CASE UNCHANGED <<vars, sendQueue>>
  <2>1. UNCHANGED <<ConnectedPlayers, trackedEntities, greeted, sendQueue>>
    BY <1>3 DEF vars, managed
  <2>2. \/ conn'[c] \notin {"none", "connecting", "connected"}
        \/ conn'[c] = conn[c]
        \/ conn[c] \in {"none", "connecting"}
    BY <1>1, <1>2
  <2> QED  BY <1>1, <1>2, <2>1, <2>2, PipeStays
<1>4. ASSUME NEW e \in Conns, conn' = [conn EXCEPT ![e] = "gone"],
             EndConnection(e), EnqueueSendQueue
      PROVE  Pipe(c)'
  <2>1. CASE c = e
    <3>1. conn'[c] = "gone"
      BY <1>2, <1>4, <2>1
    <3> QED  BY <3>1 DEF Pipe
  <2>2. CASE c # e
    <3>1. conn'[c] = conn[c]
      BY <1>2, <1>4, <2>2
    <3>2. Next
      BY <1>4 DEF Next
    <3>3. Told(c) /\ (c \notin greeted => enqueued'[c] = <<>>)
      BY <1>4, <2>2, EndTells
    <3>4. sent[c] = <<>> => c \notin greeted
      BY EmptySeq DEF LoopInv, AsksOnce, AskedOnce
    <3> QED  BY <1>1, <1>2, <1>4, <3>1, <3>2, <3>3, <3>4, PipeGrows
  <2> QED  BY <2>1, <2>2
<1> QED  BY <1>3, <1>4, CallbackSends

LEMMA PipesStay ==
    ASSUME LoopInv, IInv, RestTyped, Pipes, [TickNext]_tickVars
    PROVE  Pipes'
<1> SUFFICES ASSUME NEW c \in Conns
             PROVE  Pipe(c)'
  BY DEF Pipes
<1>1. Pipe(c) /\ conn \in [Conns -> States]
  BY DEF Pipes, LoopInv, LoopTyped
<1>2. CASE SendHead
  BY <1>2, SendingKeepsPipes
<1>3. CASE RunCallback
  BY <1>3, CallbackKeepsPipes
<1>4. CASE HandleHead
  <2>1. UNCHANGED <<conn, sent, heard>> /\ EnqueueSendQueue
    BY <1>4 DEF HandleHead
  <2> QED  BY <1>1, <1>4, <2>1, HandlingIsAStep, HandlingTells, PipeGrows
<1>5. CASE \/ Advance \/ UNCHANGED tickVars
           \/ \E d \in Conns : PollIncomingMessages(d)
  <2>1. UNCHANGED <<ConnectedPlayers, trackedEntities, greeted, conn, sent, sendQueue, heard>>
    BY <1>5 DEF Advance, PollIncomingMessages, tickVars, vars, managed, queues, history
  <2> QED  BY <1>1, <2>1, PipeStays
<1>6. CASE \E d \in Conns : Connect(d) \/ Disconnect(d)
  <2>1. UNCHANGED <<ConnectedPlayers, trackedEntities, greeted, sent, sendQueue, heard>>
    BY <1>6 DEF Connect, Disconnect, vars, managed, queues, history
  <2>2. \/ conn'[c] \notin {"none", "connecting", "connected"}
        \/ conn'[c] = conn[c]
        \/ conn[c] \in {"none", "connecting"}
    BY <1>1, <1>6 DEF Connect, Disconnect
  <2> QED  BY <1>1, <2>1, <2>2, PipeStays
<1>7. CASE \E d \in Conns, request \in Asked : Arrive(d, request)
  <2>1. UNCHANGED <<ConnectedPlayers, trackedEntities, greeted, conn, sendQueue, heard>>
    BY <1>7 DEF Arrive, vars, managed
  <2>2. conn[c] # "connected" => sent'[c] = sent[c]
    BY <1>7 DEF Arrive, LoopInv, LoopTyped
  <2> QED  BY <1>1, <2>1, <2>2, PipeStays
<1> QED  BY <1>2, <1>3, <1>4, <1>5, <1>6, <1>7 DEF TickNext, Update

(* End to end, whatever the network does: what a client whose connection is *)
(* up has made of its packets and will make of those on their way is what  *)
(* the server tracks for it, and it is answered, once, before all else.    *)
THEOREM PipelineIsRight == TickSpec => []PipelineExplainsTracking
<1>1. TickInit => Pipes
  BY PipeInit
<1>2. LoopInv /\ IInv /\ RestTyped /\ Pipes /\ [TickNext]_tickVars => Pipes'
  BY PipesStay
<1>3. Pipes => PipelineExplainsTracking
  BY HearingFolds DEF Pipes, Pipe, Picture, PipelineExplainsTracking
<1> QED  BY <1>1, <1>2, <1>3, LoopInvariant, HandlersInvariant, RestInvariant, PTL DEF TickSpec

=============================================================================
