------------------------- MODULE ReplicationProofs -------------------------
(***************************************************************************)
(* Proofs about Replication: the server and a client, as they are, keep    *)
(* what each takes for granted of the other, so what is proved of each     *)
(* alone holds of the two together.                                        *)
(***************************************************************************)
EXTENDS Replication, EntityTrackingProofs

Proved == INSTANCE GameClientProofs WITH NetworkedIds <- Ids, Places <- Positions

(* The constants are what GameClient asks for.                             *)
LEMMA ClientConstantsHold ==
    /\ Ids \subseteq Nat
    /\ FirstEntityID \in Nat
    /\ MaxEntityID \in Nat
    /\ Positions \subseteq Int
    /\ Origin \in Int
    /\ TenthSecond \in Nat \ {0}
    /\ DeltaTimes \subseteq Nat \ {0}
    /\ MaxInbox \in Nat
    /\ MaxLists \in Nat
<1>1. MaxEntities \in Nat /\ Positions \subseteq Int
  BY ConstantsAssumption
<1>2. Ids \subseteq Nat
  BY <1>1 DEF Ids
<1> QED  BY <1>1, <1>2, ReplicationAssumption

(* The client of the composition is the one the proofs are about.          *)
LEMMA SameInit == Client!Init <=> Proved!Init
  BY DEF Client!Init, Proved!Init

LEMMA SameNext == Client!Next <=> Proved!Next
<1> USE DEF Client!connecting, Client!menu, Client!session, Client!puppets, Client!server,
            Proved!connecting, Proved!menu, Proved!session, Proved!puppets, Proved!server
<1>1. Client!Network <=> Proved!Network
  BY DEF Client!Network, Client!Link, Client!Answer, Client!TellDestroy, Client!TellSpawn,
         Client!TellTeleport, Client!Tell, Client!Restrict,
         Proved!Network, Proved!Link, Proved!Answer, Proved!TellDestroy, Proved!TellSpawn,
         Proved!TellTeleport, Proved!Tell, Proved!Restrict
<1>2. Client!Game <=> Proved!Game
  BY DEF Client!Game, Client!NextFrame, Client!Attach, Client!OnSavesForLoadReady,
         Client!OnUninitialize, Client!EnqueueLoadLastCheckpoint,
         Client!OnGameRestored, Client!OnPlayerAction, Client!Report, Client!Actions,
         Client!EnqueueMessage, Client!LoadLastCheckpoint,
         Proved!Game, Proved!NextFrame, Proved!Attach, Proved!OnSavesForLoadReady,
         Proved!OnUninitialize, Proved!EnqueueLoadLastCheckpoint,
         Proved!OnGameRestored, Proved!OnPlayerAction, Proved!Report, Proved!Actions,
         Proved!EnqueueMessage, Proved!LoadLastCheckpoint
<1>3. (Client!FirstUpdate <=> Proved!FirstUpdate) /\ (Client!IdleUpdate <=> Proved!IdleUpdate)
  BY DEF Client!FirstUpdate, Client!IdleUpdate, Client!ConnectToServer,
         Proved!FirstUpdate, Proved!IdleUpdate, Proved!ConnectToServer
<1>4. Client!RunCallbacks <=> Proved!RunCallbacks
  BY DEF Client!RunCallbacks, Client!ConnectionStatusChangedCallback, Client!Greets,
         Client!EnqueueMessage,
         Proved!RunCallbacks, Proved!ConnectionStatusChangedCallback, Proved!Greets,
         Proved!EnqueueMessage
<1>5. Client!ReceiveMessage <=> Proved!ReceiveMessage
  <2>1. \A result : Client!AuthResult(result) <=> Proved!AuthResult(result)
    BY DEF Client!AuthResult, Client!LoadLastCheckpoint, Proved!AuthResult,
           Proved!LoadLastCheckpoint
  <2>2. \A id, place : Client!Spawn(id, place) <=> Proved!Spawn(id, place)
    <3>1. Client!Cardinality(DOMAIN entities) = Proved!Cardinality(DOMAIN entities)
      BY DEF Client!Cardinality, Proved!Cardinality
    <3>2. Client!NextEntityID = Proved!NextEntityID
      BY <3>1 DEF Client!NextEntityID, Proved!NextEntityID
    <3> QED  BY <3>2 DEF Client!Spawn, Client!CreateEntity, Client!Insert,
                         Client!ContinueWithMessage, Proved!Spawn, Proved!CreateEntity,
                         Proved!Insert, Proved!ContinueWithMessage
  <2>3. \A id, place : Client!TeleportEntity(id, place) <=> Proved!TeleportEntity(id, place)
    BY DEF Client!TeleportEntity, Client!NewInterpolation,
           Client!SetEntityPosition, Client!Exists, Proved!TeleportEntity,
           Proved!NewInterpolation, Proved!SetEntityPosition, Proved!Exists
  <2>4. \A id : Client!Destroy(id) <=> Proved!Destroy(id)
    BY DEF Client!Destroy, Client!Restrict, Client!ContinueWithMessage,
           Proved!Destroy, Proved!Restrict, Proved!ContinueWithMessage
  <2> QED  BY <2>1, <2>2, <2>3, <2>4 DEF Client!ReceiveMessage, Proved!ReceiveMessage
<1>6. \A deltaTime \in DeltaTimes :
        Client!TrackAndInterpolate(deltaTime) <=> Proved!TrackAndInterpolate(deltaTime)
  BY DEF Client!TrackAndInterpolate, Client!TrackPlayerPosition,
         Client!EnqueueMessage, Client!InterpolatePuppets, Client!CalcElapsed,
         Client!LerpLocal, Client!SetEntityPosition, Client!Exists,
         Proved!TrackAndInterpolate, Proved!TrackPlayerPosition,
         Proved!EnqueueMessage, Proved!InterpolatePuppets, Proved!CalcElapsed,
         Proved!LerpLocal, Proved!SetEntityPosition, Proved!Exists
<1> QED  BY <1>1, <1>2, <1>3, <1>4, <1>5, <1>6
         DEF Client!Next, Client!OnNetworkUpdate, Proved!Next, Proved!OnNetworkUpdate

LEMMA SameStep == [Client!Next]_(Client!vars) <=> [Proved!Next]_(Proved!vars)
<1>1. UNCHANGED Client!vars <=> UNCHANGED Proved!vars
  BY DEF Client!vars, Client!connecting, Client!menu, Client!session, Client!puppets, Client!server,
         Proved!vars, Proved!connecting, Proved!menu, Proved!session, Proved!puppets, Proved!server
<1> QED  BY <1>1, SameNext

-----------------------------------------------------------------------------
(* The joint invariant.  The client's one InitAuth has not been sent, is on *)
(* its way or was handled, or was lost with the connection.                *)
AsksAt(i) == toServer[i].type = "InitAuth"

SignsInOnce ==
    /\ toServer \in Seq(MyRequests)
    /\ greetings = 0 => me \notin greeted /\ \A i \in DOMAIN toServer : ~AsksAt(i)
    /\ me \in greeted => \A i \in DOMAIN toServer : ~AsksAt(i)
    /\ \A i, j \in DOMAIN toServer : AsksAt(i) /\ AsksAt(j) => i = j
    /\ me \in closed => link = "closed"

(* Before the server has handled InitAuth it says nothing; then it answers, *)
(* and what follows the answer explains the tracking.                      *)
Unasked ==
    /\ answered = "none"
    /\ me \notin greeted
    /\ toClient = <<>>
    /\ DOMAIN told = {}

AnswerComes ==
    /\ answered = "none"
    /\ me \in greeted
    /\ DOMAIN told = {}
    /\ toClient # <<>>
    /\ Head(toClient).type = "InitAuthResult"
    /\ Head(toClient).result = "Ok" <=> me \in ConnectedPlayers
    /\ Explains(Tail(toClient), {}, trackedEntities[me])
    /\ me \notin ConnectedPlayers => Tail(toClient) = <<>>

AnswerCame ==
    /\ answered # "none"
    /\ me \in greeted
    /\ answered = "Ok" <=> me \in ConnectedPlayers
    /\ Explains(toClient, DOMAIN told, trackedEntities[me])
    /\ me \notin ConnectedPlayers => toClient = <<>> /\ DOMAIN told = {}

Conversation == Unasked \/ AnswerComes \/ AnswerCame

Converses ==
    /\ toClient \in Seq(Messages)
    /\ link # "connected" => toClient = <<>>
    /\ link # "closed" => Conversation

JointInv == IInv /\ Proved!Typed /\ Proved!Greeting /\ SignsInOnce /\ Converses

LEMMA JointInit ==
    ASSUME ReplicationInit
    PROVE  JointInv
<1>1. IInv
  BY InitEstablishes DEF ReplicationInit
<1>2. Proved!Typed
  BY SameInit, ClientConstantsHold, Proved!InitTyped DEF ReplicationInit
<1>3. DOMAIN statusChanges = {}
  BY DEF ReplicationInit, Client!Init
<1>4. Proved!Greeting
  BY <1>3 DEF ReplicationInit, Client!Init, Proved!Greeting
<1>5. toServer \in Seq(MyRequests) /\ DOMAIN toServer = {} /\ toClient \in Seq(Messages)
  BY EmptySeq DEF ReplicationInit
<1>6. SignsInOnce
  BY <1>5 DEF ReplicationInit, Init, Client!Init, SignsInOnce
<1>7. Converses
  BY <1>5 DEF ReplicationInit, Init, Client!Init, Converses, Conversation, Unasked
<1> QED  BY <1>1, <1>2, <1>4, <1>6, <1>7 DEF JointInv

-----------------------------------------------------------------------------
(* What the client's own steps have to do with the streams.                *)
LEMMA ClientSteps ==
    ASSUME JointInv, ClientFrame \/ BetweenFrames
    PROVE  /\ Client!Next
           /\ UNCHANGED <<vars, toClient, answered, told>>
           /\ Send
           /\ link' = link \/ (link = "none" /\ link' = "connecting")
           /\ greetings \in {0, 1} /\ greetings' \in Nat
           /\ greetings' = 0 => greetings = 0
           /\ outgoing' # <<>> /\ outgoing'[1] = "InitAuth" => greetings = 0 /\ greetings' = 1
<1>1. /\ greetings \in {0, 1}
      /\ ~hasTriedToConnect => link = "none"
      /\ statusChanges \in Seq({"connecting", "connected", "closed"})
      /\ \A k \in DOMAIN statusChanges : statusChanges[k] = "connected" => greetings = 0
  BY DEF JointInv, Proved!Greeting, Proved!Typed, Proved!TypeOK
<1> DEFINE Says(message) == outgoing' = <<message>>
<1>2. ASSUME Client!RunCallbacks
      PROVE  /\ UNCHANGED <<link, answered, told>>
             /\ \/ greetings' = greetings /\ outgoing' = <<>>
                \/ greetings = 0 /\ greetings' = 1 /\ outgoing' = <<"InitAuth">>
  <2>1. CASE statusChanges = <<>>
    BY <1>2, <2>1 DEF Client!RunCallbacks
  <2>2. CASE statusChanges # <<>>
    <3>1. 1 \in DOMAIN statusChanges /\ Head(statusChanges) = statusChanges[1]
      BY <1>1, <2>2
    <3> QED  BY <1>1, <1>2, <2>2, <3>1
             DEF Client!RunCallbacks, Client!ConnectionStatusChangedCallback, Client!Greets,
                 Client!EnqueueMessage
  <2> QED  BY <2>1, <2>2
<1>3. ASSUME \/ Client!FirstUpdate \/ Client!IdleUpdate \/ Client!ReceiveMessage
             \/ \E deltaTime \in DeltaTimes : Client!TrackAndInterpolate(deltaTime)
             \/ Client!Game
      PROVE  /\ UNCHANGED <<answered, told, greetings>>
             /\ link' = link \/ (link = "none" /\ link' = "connecting")
             /\ \/ outgoing' = <<>>
                \/ \E message : message # "InitAuth" /\ outgoing' = <<message>>
  <2> USE DEF Client!server
  <2>1. CASE Client!FirstUpdate
    BY <1>1, <2>1 DEF Client!FirstUpdate, Client!ConnectToServer
  <2>2. CASE Client!IdleUpdate \/ Client!ReceiveMessage
    BY <2>2 DEF Client!IdleUpdate, Client!ReceiveMessage
  <2>3. CASE \E deltaTime \in DeltaTimes : Client!TrackAndInterpolate(deltaTime)
    BY <2>3 DEF Client!TrackAndInterpolate, Client!TrackPlayerPosition, Client!EnqueueMessage
  <2>4. CASE Client!Game
    BY <2>4 DEF Client!Game, Client!NextFrame, Client!Attach, Client!OnSavesForLoadReady,
                Client!OnUninitialize, Client!OnGameRestored, Client!OnPlayerAction,
                Client!Report, Client!Actions, Client!EnqueueMessage
  <2> QED  BY <1>3, <2>1, <2>2, <2>3, <2>4
<1>4. CASE ClientFrame
  <2>1. Client!OnNetworkUpdate \/ Client!NextFrame
    BY <1>4 DEF ClientFrame
  <2>2. Client!Next /\ UNCHANGED <<vars, toClient>> /\ Send
    BY <1>4 DEF ClientFrame, Client!Next, Client!Game
  <2>3. CASE Client!RunCallbacks
    BY <1>1, <1>2, <2>2, <2>3
  <2>4. CASE ~Client!RunCallbacks
    BY <1>1, <1>3, <2>1, <2>2, <2>4 DEF Client!OnNetworkUpdate, Client!Game
  <2> QED  BY <2>3, <2>4
<1>5. CASE BetweenFrames
  <2>1. Client!Game
    BY <1>5 DEF BetweenFrames, Client!Game
  <2>2. Client!Next /\ UNCHANGED <<vars, toClient>> /\ Send
    BY <1>5, <2>1 DEF BetweenFrames, Client!Next
  <2> QED  BY <1>1, <1>3, <2>1, <2>2
<1> QED  BY <1>4, <1>5

LEMMA ClientStepsKeep ==
    ASSUME JointInv, ClientFrame \/ BetweenFrames
    PROVE  SignsInOnce' /\ Converses'
<1>1. /\ UNCHANGED <<vars, toClient, answered, told>>
      /\ Send
      /\ link' = link \/ (link = "none" /\ link' = "connecting")
      /\ greetings \in {0, 1} /\ greetings' \in Nat
      /\ greetings' = 0 => greetings = 0
      /\ outgoing' # <<>> /\ outgoing'[1] = "InitAuth" => greetings = 0 /\ greetings' = 1
  BY ClientSteps
<1>2. SignsInOnce'
  <2>1. UNCHANGED <<greeted, closed>>
    BY <1>1 DEF vars
  <2>2. CASE UNCHANGED toServer
    BY <1>1, <2>1, <2>2 DEF JointInv, SignsInOnce, AsksAt
  <2>3. ASSUME NEW request \in MyRequests,
               outgoing' # <<>>, request.type = outgoing'[1],
               toServer' = Append(toServer, request)
        PROVE  SignsInOnce'
    <3>1. toServer \in Seq(MyRequests)
      BY DEF JointInv, SignsInOnce
    <3>2. /\ toServer' \in Seq(MyRequests)
          /\ Len(toServer) + 1 \notin DOMAIN toServer
          /\ DOMAIN toServer' = DOMAIN toServer \cup {Len(toServer) + 1}
          /\ \A i \in DOMAIN toServer : toServer'[i] = toServer[i]
          /\ toServer'[Len(toServer) + 1] = request
      BY <2>3, <3>1, AppendAddsLast
    <3> DEFINE last == Len(toServer) + 1
    <3>3. toServer'[last].type = "InitAuth" => greetings = 0 /\ greetings' = 1
      BY <1>1, <2>3, <3>2
    <3>4. DOMAIN toServer' = DOMAIN toServer \cup {last} /\ last \notin DOMAIN toServer
      BY <3>2
    <3> HIDE DEF last
    <3>5. \A i \in DOMAIN toServer : toServer'[i].type = toServer[i].type
      BY <3>2
    <3>6. /\ greetings = 0 => me \notin greeted
          /\ greetings = 0 => \A i \in DOMAIN toServer : toServer[i].type # "InitAuth"
          /\ me \in greeted => \A i \in DOMAIN toServer : toServer[i].type # "InitAuth"
          /\ \A i, j \in DOMAIN toServer :
                toServer[i].type = "InitAuth" /\ toServer[j].type = "InitAuth" => i = j
          /\ me \in closed => link = "closed"
      BY DEF JointInv, SignsInOnce, AsksAt
    <3>7. greetings' = 0 =>
              me \notin greeted' /\ \A i \in DOMAIN toServer' : toServer'[i].type # "InitAuth"
      BY <1>1, <2>1, <3>3, <3>4, <3>5, <3>6
    <3>8. me \in greeted' => \A i \in DOMAIN toServer' : toServer'[i].type # "InitAuth"
      BY <2>1, <3>3, <3>4, <3>5, <3>6
    <3>9. \A i, j \in DOMAIN toServer' :
             toServer'[i].type = "InitAuth" /\ toServer'[j].type = "InitAuth" => i = j
      BY <3>3, <3>4, <3>5, <3>6
    <3>10. me \in closed' => link' = "closed"
      BY <1>1, <2>1, <3>6
    <3> QED  BY <3>2, <3>7, <3>8, <3>9, <3>10 DEF SignsInOnce, AsksAt
  <2> QED  BY <1>1, <2>2, <2>3 DEF Send
<1>3. Converses'
  <2>1. UNCHANGED <<greeted, ConnectedPlayers, trackedEntities, toClient, answered, told>>
    BY <1>1 DEF vars, managed
  <2>2. Conversation' <=> Conversation
    BY <2>1 DEF Conversation, Unasked, AnswerComes, AnswerCame
  <2> QED  BY <1>1, <2>1, <2>2 DEF JointInv, Converses
<1> QED  BY <1>2, <1>3

-----------------------------------------------------------------------------
(* What a handler says to the client: the answer to its InitAuth, or what   *)
(* explains the change of its tracking.                                    *)
Answers ==
    /\ me \notin greeted
    /\ me \in greeted'
    /\ UNCHANGED trackedEntities
    /\ \E answer \in Messages :
          /\ answer.type = "InitAuthResult"
          /\ answer.result = "Ok" <=> me \in ConnectedPlayers'
          /\ enqueued'[me] = <<answer>>

Tells ==
    /\ me \in greeted' <=> me \in greeted
    /\ me \in ConnectedPlayers' <=> me \in ConnectedPlayers
    /\ Explains(enqueued'[me], trackedEntities[me], trackedEntities'[me])
    /\ me \notin ConnectedPlayers => enqueued'[me] = <<>>

LEMMA HandlerSpeaks ==
    ASSUME IInv, NEW c \in Conns, NEW request \in Requests, Handle(c, request),
           request.type = "InitAuth" => c \notin greeted
    PROVE  IF c = me /\ request.type = "InitAuth" THEN Answers ELSE Tells
<1>1. me \in Conns
  BY ReplicationAssumption
<1>2. CASE request.type = "InitAuth"
  <2>1. request.versionMatches \in BOOLEAN
    BY <1>2 DEF Requests
  <2>2. HandleInitAuth(c, request.versionMatches) /\ greeted' = greeted \cup {c}
    BY <1>2 DEF Handle
  <2>3. UNCHANGED trackedEntities /\ \A p \in Conns \ {c} : enqueued'[p] = <<>>
    BY <2>1, <2>2, InitAuthAnswers
  <2>4. CASE c # me
    <3>1. me \in ConnectedPlayers' <=> me \in ConnectedPlayers
      BY <2>2, <2>4 DEF HandleInitAuth
    <3>2. enqueued'[me] = <<>>
      BY <1>1, <2>3, <2>4
    <3> QED  BY <2>2, <2>3, <2>4, <3>1, <3>2, SilenceExplains DEF Tells
  <2>5. CASE c = me
    <3> DEFINE answer == AuthResult(IF request.versionMatches THEN "Ok" ELSE "VersionMismatch")
    <3>1. /\ answer \in Messages /\ answer.type = "InitAuthResult"
          /\ answer.result = IF request.versionMatches THEN "Ok" ELSE "VersionMismatch"
      BY DEF AuthResult, Messages
    <3>2. enqueued' = [Silence EXCEPT ![c] = <<answer>>]
      BY <2>2 DEF HandleInitAuth
    <3> HIDE DEF answer
    <3>3. enqueued'[me] = <<answer>>
      BY <1>1, <2>5, <3>2 DEF Silence
    <3>4. me \notin ConnectedPlayers
      BY <1>2, <2>5 DEF IInv, TypeOK
    <3>5. answer.result = "Ok" <=> me \in ConnectedPlayers'
      BY <2>2, <2>5, <3>1, <3>4 DEF HandleInitAuth
    <3> QED  BY <1>2, <2>2, <2>3, <2>5, <3>1, <3>3, <3>5 DEF Answers
  <2> QED  BY <1>2, <2>4, <2>5
<1>3. CASE request.type # "InitAuth"
  <2>1. StepExplains /\ UNCHANGED ConnectedPlayers
    BY <1>3, RequestExplained
  <2>2. UNCHANGED greeted
    BY <1>3 DEF Handle
  <2> QED  BY <1>1, <1>3, <2>1, <2>2 DEF StepExplains, Tells
<1> QED  BY <1>2, <1>3

LEMMA EndOfOthersTells ==
    ASSUME IInv, NEW c \in Conns \ {me}, EndConnection(c)
    PROVE  Tells
<1>1. UNCHANGED greeted /\ StepExplains
  BY ConnectionStateChangeExplained DEF EndConnection
<1>2. me \in ConnectedPlayers' <=> me \in ConnectedPlayers
  BY DEF EndConnection, OnConnectionStateChange, NothingHappens, managed
<1> QED  BY <1>1, <1>2, ReplicationAssumption DEF StepExplains, Tells

LEMMA HeadOfConcat ==
    ASSUME NEW T, NEW s \in Seq(T), NEW t \in Seq(T), s # <<>>
    PROVE  /\ s \o t # <<>>
           /\ Head(s \o t) = Head(s)
           /\ Tail(s \o t) = Tail(s) \o t
<1>1. /\ Head(s) \in T
      /\ Tail(s) \in Seq(T)
      /\ <<Head(s)>> \in Seq(T)
      /\ s = <<Head(s)>> \o Tail(s)
  OBVIOUS
<1>2. s \o t = <<Head(s)>> \o (Tail(s) \o t)
  BY <1>1, ConcatAssociative
<1>3. Tail(s) \o t \in Seq(T)
  BY <1>1
<1>4. \A rest \in Seq(T), x \in T :
        <<x>> \o rest # <<>> /\ Head(<<x>> \o rest) = x /\ Tail(<<x>> \o rest) = rest
  OBVIOUS
<1> QED  BY <1>1, <1>2, <1>3, <1>4

(* What the server says goes on with the conversation.                      *)
LEMMA SpeakingKeeps ==
    ASSUME JointInv, Answers \/ Tells, Reply, UNCHANGED <<link, answered, told>>,
           me \in greeted' => greetings > 0
    PROVE  Converses'
<1> DEFINE news == enqueued'[me]
<1>1. /\ toClient \in Seq(Messages)
      /\ link # "connected" => toClient = <<>>
      /\ link # "closed" => Conversation
      /\ link \in {"none", "connecting"} => greetings = 0
      /\ link \in {"none", "connecting", "connected", "closed"}
      /\ greetings \in {0, 1}
      /\ ConnectedPlayers \subseteq greeted
      /\ me \notin greeted => trackedEntities[me] = {}
  BY ReplicationAssumption
     DEF JointInv, Converses, Proved!Greeting, Proved!Typed, Proved!TypeOK, IInv, TypeOK,
         StartsWithEmptyView
<1>2. news \in Seq(Messages)
  <2>1. CASE Answers
    <3>1. PICK answer \in Messages : news = <<answer>>
      BY <2>1 DEF Answers
    <3>2. <<answer>> \in Seq(Messages)
      OBVIOUS
    <3> QED  BY <3>1, <3>2
  <2>2. CASE Tells
    BY <2>2, NewsAreMessages DEF Tells, Explains
  <2> QED  BY <2>1, <2>2
<1>3. toClient' \in Seq(Messages) /\ (link # "connected" => toClient' = <<>>)
  <2>1. <<>> \in Seq(Messages)
    BY EmptySeq
  <2> QED  BY <1>1, <1>2, <2>1, ConcatProperties DEF Reply
<1> HIDE DEF news
<1>4. SUFFICES ASSUME link # "closed"
               PROVE  Conversation'
  BY <1>3 DEF Converses
<1>5. CASE link # "connected"
  <2>1. me \notin greeted' /\ toClient' = <<>>
    BY <1>1, <1>3, <1>4, <1>5
  <2>2. Unasked'
    BY <1>1, <1>4, <2>1 DEF Conversation, Unasked, AnswerComes, AnswerCame, Answers, Tells
  <2> QED  BY <2>2 DEF Conversation
<1>6. CASE link = "connected"
  <2>1. toClient' = toClient \o news
    BY <1>6 DEF Reply, news
  <2>2. CASE Answers
    <3>1. Unasked
      BY <1>1, <1>4, <2>2 DEF Answers, Conversation, AnswerComes, AnswerCame
    <3>2. PICK answer \in Messages :
            /\ answer.type = "InitAuthResult"
            /\ answer.result = "Ok" <=> me \in ConnectedPlayers'
            /\ news = <<answer>>
      BY <2>2 DEF Answers, news
    <3>3. toClient' = <<answer>>
      BY <1>2, <2>1, <3>1, <3>2, ConcatEmptySeq DEF Unasked
    <3>4. toClient' # <<>> /\ Head(toClient') = answer /\ Tail(toClient') = <<>>
      BY <3>3
    <3>5. trackedEntities'[me] = {}
      BY <1>1, <3>1, <2>2 DEF Unasked, Answers
    <3>6. Explains(<<>>, {}, trackedEntities'[me])
      BY <3>5, SilenceExplains
    <3>7. AnswerComes'
      BY <2>2, <3>1, <3>2, <3>4, <3>6 DEF AnswerComes, Answers, Unasked
    <3> QED  BY <3>7 DEF Conversation
  <2>3. CASE Tells
    <3>1. /\ me \in greeted' <=> me \in greeted
          /\ me \in ConnectedPlayers' <=> me \in ConnectedPlayers
          /\ Explains(news, trackedEntities[me], trackedEntities'[me])
          /\ me \notin ConnectedPlayers => news = <<>>
      BY <2>3 DEF Tells, news
    <3>2. news = <<>> => toClient' = toClient
      BY <1>1, <2>1, ConcatEmptySeq
    <3>3. CASE Unasked
      <4>1. Unasked'
        BY <1>1, <3>1, <3>2, <3>3 DEF Unasked
      <4> QED  BY <4>1 DEF Conversation
    <3>4. CASE AnswerComes
      <4>1. /\ toClient' # <<>>
            /\ Head(toClient') = Head(toClient)
            /\ Tail(toClient') = Tail(toClient) \o news
        BY <1>1, <1>2, <2>1, <3>4, HeadOfConcat DEF AnswerComes
      <4>2. Explains(Tail(toClient) \o news, {}, trackedEntities'[me])
        BY <3>1, <3>4, ExplanationsChain DEF AnswerComes
      <4>3. me \notin ConnectedPlayers' => Tail(toClient') = <<>>
        BY <3>1, <3>2, <3>4 DEF AnswerComes
      <4>4. AnswerComes'
        BY <3>1, <3>4, <4>1, <4>2, <4>3 DEF AnswerComes
      <4> QED  BY <4>4 DEF Conversation
    <3>5. CASE AnswerCame
      <4>1. Explains(toClient \o news, DOMAIN told, trackedEntities'[me])
        BY <3>1, <3>5, ExplanationsChain DEF AnswerCame
      <4>2. me \notin ConnectedPlayers' => toClient' = <<>>
        BY <3>1, <3>2, <3>5 DEF AnswerCame
      <4>3. AnswerCame'
        BY <2>1, <3>1, <3>5, <4>1, <4>2 DEF AnswerCame
      <4> QED  BY <4>3 DEF Conversation
    <3> QED  BY <1>1, <1>4, <3>3, <3>4, <3>5 DEF Conversation
  <2> QED  BY <2>2, <2>3
<1> QED  BY <1>5, <1>6

(* The server's own steps.                                                 *)
LEMMA ServeMeKeeps ==
    ASSUME JointInv, ServeMe
    PROVE  Next /\ SignsInOnce' /\ Converses' /\ UNCHANGED client
<1> DEFINE request == Head(toServer)
<1>1. toServer \in Seq(MyRequests) /\ toServer # <<>> /\ toServer' = Tail(toServer)
  BY DEF JointInv, SignsInOnce, ServeMe
<1>2. /\ 1 \in DOMAIN toServer
      /\ toServer[1] = request
      /\ request \in MyRequests
      /\ toServer' \in Seq(MyRequests)
      /\ \A i \in DOMAIN toServer' : i + 1 \in DOMAIN toServer \ {1} /\ i \in Nat /\ toServer'[i] = toServer[i + 1]
  <2>1. /\ Tail(toServer) \in Seq(MyRequests)
        /\ DOMAIN Tail(toServer) \subseteq Nat \ {0}
        /\ \A i \in DOMAIN Tail(toServer) :
              i + 1 \in DOMAIN toServer \ {1} /\ Tail(toServer)[i] = toServer[i + 1]
    BY <1>1, TailDropsFirst
  <2> QED  BY <1>1, <2>1, HeadIsFirst
<1>3. request \in Requests
  BY <1>2, ReplicationAssumption
<1>4. Handle(me, request) /\ Reply /\ UNCHANGED client
  BY DEF ServeMe
<1> HIDE DEF request
<1>5. /\ greetings = 0 => me \notin greeted
      /\ greetings = 0 => \A i \in DOMAIN toServer : toServer[i].type # "InitAuth"
      /\ me \in greeted => \A i \in DOMAIN toServer : toServer[i].type # "InitAuth"
      /\ \A i, j \in DOMAIN toServer :
            toServer[i].type = "InitAuth" /\ toServer[j].type = "InitAuth" => i = j
      /\ me \in closed => link = "closed"
      /\ greetings \in {0, 1}
  BY DEF JointInv, SignsInOnce, AsksAt, Proved!Greeting
<1>6. UNCHANGED <<link, answered, told, greetings>>
  BY <1>4 DEF client, session
<1>7. request.type = "InitAuth" => me \notin greeted /\ greetings > 0
  BY <1>2, <1>5
<1>8. /\ UNCHANGED closed
      /\ greeted' = IF request.type = "InitAuth" THEN greeted \cup {me} ELSE greeted
  BY <1>4 DEF Handle
<1>9. Next
  BY <1>3, <1>4, <1>7, HandleIsAStep, ReplicationAssumption
<1>10. SignsInOnce'
  <2>1. \A i \in DOMAIN toServer' : toServer'[i].type = "InitAuth" => request.type # "InitAuth"
    BY <1>2, <1>5
  <2>2. greetings' = 0 =>
            me \notin greeted' /\ \A i \in DOMAIN toServer' : toServer'[i].type # "InitAuth"
    BY <1>2, <1>5, <1>6, <1>8
  <2>3. me \in greeted' => \A i \in DOMAIN toServer' : toServer'[i].type # "InitAuth"
    BY <1>2, <1>5, <1>8, <2>1
  <2>4. \A i, j \in DOMAIN toServer' :
          toServer'[i].type = "InitAuth" /\ toServer'[j].type = "InitAuth" => i = j
    <3> SUFFICES ASSUME NEW i \in DOMAIN toServer', NEW j \in DOMAIN toServer',
                        toServer'[i].type = "InitAuth", toServer'[j].type = "InitAuth"
                 PROVE  i = j
      OBVIOUS
    <3>1. i + 1 = j + 1
      BY <1>2, <1>5
    <3> QED  BY <1>2, <3>1
  <2> QED  BY <1>2, <1>5, <1>6, <1>8, <2>2, <2>3, <2>4 DEF SignsInOnce, AsksAt
<1>11. Converses'
  <2>1. Answers \/ Tells
    BY <1>3, <1>4, <1>7, HandlerSpeaks, ReplicationAssumption DEF JointInv
  <2>2. me \in greeted' => greetings > 0
    BY <1>5, <1>7, <1>8
  <2> QED  BY <1>4, <1>6, <2>1, <2>2, SpeakingKeeps
<1> QED  BY <1>4, <1>9, <1>10, <1>11

LEMMA ServeOthersKeeps ==
    ASSUME JointInv, ServeOthers \/ ResendOthers
    PROVE  Next /\ SignsInOnce' /\ Converses' /\ UNCHANGED client
<1>1. UNCHANGED <<client, toServer>> /\ Reply
  BY DEF ServeOthers, ResendOthers
<1>2. PICK c \in Conns \ {me} :
        \/ EndConnection(c)
        \/ \E request \in OthersRequests :
             (request.type = "InitAuth" => c \notin greeted) /\ Handle(c, request)
        \/ \E position \in Positions : Move(c, position)
  <2>1. CASE ServeOthers
    BY <2>1 DEF ServeOthers
  <2>2. CASE ResendOthers
    <3>1. PICK c \in Conns \ {me} : Resend(c)
      BY <2>2 DEF ResendOthers
    <3>2. PICK id \in OwnedBy(SpawnedEntities, c) : Move(c, SpawnedEntities[id].pos)
      BY <3>1 DEF Resend
    <3>3. SpawnedEntities[id].pos \in Positions
      BY <3>2 DEF OwnedBy, JointInv, IInv, TypeOK, Entity
    <3> QED  BY <3>2, <3>3
  <2> QED  BY <2>1, <2>2
<1>3. IInv /\ me \in Conns
  BY ReplicationAssumption DEF JointInv
<1>4. Next /\ Tells /\ (me \in greeted' <=> me \in greeted) /\ (me \in closed' <=> me \in closed)
  <2>1. CASE EndConnection(c)
    <3>1. Next
      BY <2>1 DEF Next
    <3> QED  BY <1>3, <2>1, <3>1, EndOfOthersTells DEF EndConnection
  <2>2. ASSUME NEW request \in OthersRequests,
               request.type = "InitAuth" => c \notin greeted, Handle(c, request)
        PROVE  Next /\ Tells /\ (me \in greeted' <=> me \in greeted) /\ (me \in closed' <=> me \in closed)
    <3>1. request \in Requests
      BY ReplicationAssumption
    <3>2. Next
      BY <2>2, <3>1, HandleIsAStep
    <3>3. Tells
      BY <1>3, <2>2, <3>1, HandlerSpeaks
    <3>4. (me \in greeted' <=> me \in greeted) /\ (me \in closed' <=> me \in closed)
      BY <2>2 DEF Handle
    <3> QED  BY <3>2, <3>3, <3>4
  <2>3. ASSUME NEW position \in Positions, Move(c, position)
        PROVE  Next /\ Tells /\ (me \in greeted' <=> me \in greeted) /\ (me \in closed' <=> me \in closed)
    <3>1. Next
      BY <2>3 DEF Next, ProcessMessage
    <3>2. UNCHANGED <<greeted, closed, ConnectedPlayers>>
      BY <2>3 DEF Move, HandlePositionUpdate, NothingHappens, managed
    <3>3. StepExplains
      BY <1>3, <2>3, PositionUpdateExplained DEF Move
    <3>4. Tells
      BY <1>3, <3>2, <3>3 DEF StepExplains, Tells
    <3> QED  BY <3>1, <3>2, <3>4
  <2> QED  BY <1>2, <2>1, <2>2, <2>3
<1>5. UNCHANGED <<link, answered, told, greetings>>
  BY <1>1 DEF client, session
<1>6. SignsInOnce'
  BY <1>1, <1>4, <1>5 DEF JointInv, SignsInOnce, AsksAt
<1>7. Converses'
  <2>1. me \in greeted' => greetings > 0
    BY <1>4 DEF JointInv, SignsInOnce, Proved!Greeting
  <2> QED  BY <1>1, <1>4, <1>5, <2>1, SpeakingKeeps
<1> QED  BY <1>1, <1>4, <1>6, <1>7

LEMMA EndMeKeeps ==
    ASSUME JointInv, EndMe
    PROVE  Next /\ SignsInOnce' /\ Converses' /\ UNCHANGED client
<1>1. /\ EndConnection(me) /\ me \in Conns
      /\ UNCHANGED <<client, toServer>>
      /\ link = "closed" /\ link' = "closed"
      /\ toClient' = <<>>
  BY ReplicationAssumption DEF EndMe, Reply, client
<1>2. Next
  BY <1>1 DEF Next
<1>3. UNCHANGED <<greeted, greetings>>
  BY <1>1 DEF EndConnection, client, session
<1>4. SignsInOnce'
  BY <1>1, <1>3 DEF JointInv, SignsInOnce, AsksAt
<1>5. Converses'
  BY <1>1, EmptySeq DEF Converses
<1> QED  BY <1>1, <1>2, <1>4, <1>5

-----------------------------------------------------------------------------
(* The first of the messages that explain the tracking is in its place, and *)
(* the others explain the rest.                                            *)
LEMMA HeadExplains ==
    ASSUME NEW was \in SUBSET Ids, NEW is, NEW messages, messages # <<>>,
           Explains(messages, was, is)
    PROVE  /\ Head(messages) \in News
           /\ Believe(Belief(was), Head(messages)).sound
           /\ Explains(Tail(messages), Believe(Belief(was), Head(messages)).ids, is)
<1> DEFINE B == [ids : SUBSET Ids, sound : BOOLEAN]
           Doubtful == {b \in B : ~b.sound}
           head == Head(messages)
           tail == Tail(messages)
           next == Believe(Belief(was), head)
<1>1. /\ head \in News
      /\ tail \in Seq(News)
      /\ <<head>> \in Seq(News)
      /\ messages = <<head>> \o tail
  BY DEF Explains
<1> HIDE DEF head, tail
<1>2. ASSUME NEW b \in B, NEW m \in News
      PROVE  Believe(b, m) \in B /\ (~b.sound => ~Believe(b, m).sound)
  <2>1. m \in Messages /\ m.type # "InitAuthResult"
    BY DEF News
  <2>2. CASE m.type = "SpawnEntity"
    <3>1. m.id \in Ids
      BY <2>1, <2>2 DEF Messages
    <3> QED  BY <2>2, <3>1 DEF Believe
  <2>3. CASE m.type = "TeleportEntity"
    BY <2>3 DEF Believe
  <2>4. CASE m.type = "DestroyEntity"
    BY <2>4 DEF Believe
  <2> QED  BY <2>1, <2>2, <2>3, <2>4 DEF Messages
<1>3. next \in B
  BY <1>1, <1>2 DEF Belief
<1>4. Believing!Fold(Belief(was), messages) = Believing!Fold(next, tail)
  <2>1. PICK one : one = <<head>>
    OBVIOUS
  <2>2. one \in Seq(News) /\ messages = one \o tail
    BY <1>1, <2>1
  <2>3. Believing!Fold(Belief(was), one \o tail)
          = Believing!Fold(Believing!Fold(Belief(was), one), tail)
    BY <1>1, <2>2, Believing!FoldConcat
  <2>4. Believing!Fold(Belief(was), one) = next
    BY <2>1, Believing!FoldSingle
  <2> QED  BY <2>2, <2>3, <2>4
<1>5. next.sound
  <2>1. \A b \in Doubtful, m \in News : Believe(b, m) \in Doubtful
    BY <1>2
  <2>2. ~Belief(is).sound = FALSE
    BY DEF Belief
  <2>3. Believing!Fold(next, tail).sound
    BY <1>4, <2>2 DEF Explains
  <2> HIDE DEF next, Doubtful
  <2>4. next \in Doubtful => \A seq \in Seq(News) : Believing!Fold(next, seq) \in Doubtful
    BY <2>1, Believing!FoldTyped
  <2>5. next \notin Doubtful
    BY <1>1, <2>3, <2>4 DEF Doubtful
  <2> QED  BY <1>3, <2>5 DEF Doubtful
<1>6. next = Belief(next.ids)
  <2> HIDE DEF next
  <2>1. next.sound = TRUE
    BY <1>3, <1>5
  <2> QED  BY <1>3, <2>1 DEF Belief
<1>7. Explains(tail, next.ids, is)
  BY <1>1, <1>4, <1>6 DEF Explains
<1> QED  BY <1>1, <1>5, <1>7 DEF head, tail

LEMMA DeliverKeeps ==
    ASSUME JointInv, Deliver
    PROVE  Client!Next /\ UNCHANGED vars /\ SignsInOnce' /\ Converses'
<1> DEFINE message == Head(toClient)
           rest == Tail(toClient)
           Told == CASE message.type \in {"SpawnEntity", "TeleportEntity"} ->
                             [id \in DOMAIN told \cup {message.id} |->
                                 IF id = message.id THEN message.pos ELSE told[id]]
                        [] message.type = "DestroyEntity" ->
                             [id \in DOMAIN told \ {message.id} |-> told[id]]
                        [] OTHER -> told
<1>1. /\ link = "connected" /\ toClient # <<>> /\ Len(inbox) < MaxInbox
      /\ toClient' = rest
      /\ inbox' = Append(inbox, message)
      /\ answered' = IF message.type = "InitAuthResult" THEN message.result ELSE answered
      /\ told' = Told
      /\ outgoing' = <<>>
      /\ UNCHANGED <<vars, phase, session, puppets, link, statusChanges, toServer, joins>>
  BY DEF Deliver
<1>2. /\ toClient \in Seq(Messages)
      /\ Conversation
      /\ told \in [DOMAIN told -> Positions] /\ DOMAIN told \subseteq Ids
      /\ greetings \in {0, 1}
      /\ me \in greeted => greetings > 0
  BY <1>1 DEF JointInv, Converses, SignsInOnce, Proved!Greeting, Proved!Typed, Proved!TypeOK
<1>3. message \in Messages /\ rest \in Seq(Messages)
  <2>1. Head(toClient) \in Messages /\ Tail(toClient) \in Seq(Messages)
    BY <1>1, <1>2, HeadTailProperties
  <2> QED  BY <2>1
<1>4. UNCHANGED <<greeted, closed, ConnectedPlayers, trackedEntities, greetings>>
  BY <1>1 DEF vars, managed, session
<1>5. SignsInOnce'
  BY <1>1, <1>4 DEF JointInv, SignsInOnce, AsksAt
<1> HIDE DEF message, rest
<1>6. CASE AnswerComes
  <2>1. /\ message.type = "InitAuthResult" /\ answered = "none" /\ DOMAIN told = {}
        /\ me \in greeted
        /\ message.result = "Ok" <=> me \in ConnectedPlayers
        /\ Explains(rest, {}, trackedEntities[me])
        /\ me \notin ConnectedPlayers => rest = <<>>
    BY <1>6 DEF AnswerComes, message, rest
  <2>2. /\ message.result \in {"Ok", "VersionMismatch"}
        /\ message = [type |-> "InitAuthResult", result |-> message.result]
    BY <1>3, <2>1 DEF Messages
  <2>3. told' = told /\ answered' = message.result
    BY <1>1, <2>1
  <2>4. Client!Answer(message.result)
    BY <1>1, <1>2, <2>1, <2>2, <2>3
       DEF Client!Answer, Client!Tell, session, puppets, Client!connecting, Client!menu,
           Client!session, Client!puppets
  <2>5. Client!Next
    BY <2>2, <2>4 DEF Client!Next, Client!Network
  <2>6. AnswerCame'
    BY <1>1, <1>4, <2>1, <2>2, <2>3 DEF AnswerCame
  <2> QED  BY <1>1, <1>3, <1>5, <2>5, <2>6 DEF Converses, Conversation
<1>7. CASE AnswerCame
  <2> DEFINE next == Believe(Belief(DOMAIN told), message)
  <2>1. message \in News /\ next.sound /\ Explains(rest, next.ids, trackedEntities[me])
    BY <1>1, <1>2, <1>7, HeadExplains DEF AnswerCame, message, rest
  <2>2. answered = "Ok" /\ me \in greeted /\ me \in ConnectedPlayers
    BY <1>1, <1>7 DEF AnswerCame
  <2>3. answered' = answered /\ message.type # "InitAuthResult"
    BY <1>1, <2>1 DEF News
  <2>4. Client!Next /\ DOMAIN told' = next.ids
    <3>2. Client!Tell(message)
      BY <1>1, <1>4 DEF Client!Tell, session, puppets, Client!connecting, Client!menu,
                        Client!session, Client!puppets
    <3>3. CASE message.type = "SpawnEntity"
      <4>1. /\ message.id \in Ids /\ message.pos \in Positions
            /\ message = [type |-> "SpawnEntity", id |-> message.id, pos |-> message.pos]
        BY <1>3, <3>3 DEF Messages
      <4>2. message.id \notin DOMAIN told /\ next.ids = DOMAIN told \cup {message.id}
        BY <2>1, <3>3 DEF Believe, Belief
      <4>3. told' = [i \in DOMAIN told \cup {message.id} |->
                        IF i = message.id THEN message.pos ELSE told[i]]
        BY <1>1, <3>3
      <4> HIDE DEF next
      <4>4. Client!TellSpawn(message.id, message.pos)
        BY <2>2, <2>3, <3>2, <4>1, <4>2, <4>3 DEF Client!TellSpawn
      <4> QED  BY <4>1, <4>2, <4>3, <4>4 DEF Client!Next, Client!Network
    <3>4. CASE message.type = "TeleportEntity"
      <4>1. /\ message.id \in Ids /\ message.pos \in Positions
            /\ message = [type |-> "TeleportEntity", id |-> message.id, pos |-> message.pos]
        BY <1>3, <3>4 DEF Messages
      <4>2. message.id \in DOMAIN told /\ next.ids = DOMAIN told
        BY <2>1, <3>4 DEF Believe, Belief
      <4>3. told' = [i \in DOMAIN told \cup {message.id} |->
                        IF i = message.id THEN message.pos ELSE told[i]]
        BY <1>1, <3>4
      <4>4. told' = [told EXCEPT ![message.id] = message.pos] /\ DOMAIN told' = DOMAIN told
        BY <1>2, <4>2, <4>3
      <4> HIDE DEF next
      <4>5. Client!TellTeleport(message.id, message.pos)
        BY <2>2, <2>3, <3>2, <4>1, <4>2, <4>4 DEF Client!TellTeleport
      <4> QED  BY <4>1, <4>2, <4>4, <4>5 DEF Client!Next, Client!Network
    <3>5. CASE message.type = "DestroyEntity"
      <4>1. /\ message.id \in Ids
            /\ message = [type |-> "DestroyEntity", id |-> message.id]
        BY <1>3, <3>5 DEF Messages
      <4>2. message.id \in DOMAIN told /\ next.ids = DOMAIN told \ {message.id}
        BY <2>1, <3>5 DEF Believe, Belief
      <4>3. told' = [i \in DOMAIN told \ {message.id} |-> told[i]]
        BY <1>1, <3>5
      <4> HIDE DEF next
      <4>4. Client!TellDestroy(message.id)
        BY <2>2, <2>3, <3>2, <4>1, <4>2, <4>3 DEF Client!TellDestroy, Client!Restrict
      <4> QED  BY <4>1, <4>2, <4>3, <4>4 DEF Client!Next, Client!Network
    <3> QED  BY <1>3, <2>3, <3>3, <3>4, <3>5 DEF Messages
  <2> HIDE DEF next
  <2>5. AnswerCame'
    BY <1>1, <1>4, <1>7, <2>1, <2>2, <2>3, <2>4 DEF AnswerCame
  <2> QED  BY <1>1, <1>3, <1>5, <2>4, <2>5 DEF Converses, Conversation
<1> QED  BY <1>1, <1>2, <1>6, <1>7 DEF Conversation, Unasked

LEMMA LinkKeeps ==
    ASSUME JointInv, Connected \/ Disconnect
    PROVE  Client!Next /\ UNCHANGED vars /\ SignsInOnce' /\ Converses'
<1>1. /\ toServer \in Seq(MyRequests)
      /\ toClient \in Seq(Messages)
      /\ me \in closed => link = "closed"
  BY DEF JointInv, SignsInOnce, Converses
<1>2. CASE Connected
  <2>1. /\ link = "connecting" /\ link' = "connected"
        /\ UNCHANGED <<vars, toServer, toClient, answered, told, greetings>>
    BY <1>2 DEF Connected, Client!Link, Client!server, streams
  <2>2. UNCHANGED <<greeted, closed, ConnectedPlayers, trackedEntities>>
    BY <2>1 DEF vars, managed
  <2>3. Client!Next
    BY <1>2 DEF Connected, Client!Next, Client!Network
  <2>4. SignsInOnce'
    BY <1>1, <2>1, <2>2 DEF JointInv, SignsInOnce, AsksAt
  <2>5. Converses'
    BY <2>1, <2>2 DEF JointInv, Converses, Conversation, Unasked, AnswerComes, AnswerCame
  <2> QED  BY <2>1, <2>3, <2>4, <2>5
<1>3. CASE Disconnect
  <2>1. /\ link \in {"connecting", "connected"} /\ link' = "closed"
        /\ UNCHANGED <<vars, answered, told, greetings>>
        /\ toClient' = <<>>
    BY <1>3 DEF Disconnect, Client!Link, Client!server
  <2>2. UNCHANGED <<greeted, closed>>
    BY <2>1 DEF vars
  <2>3. Client!Next
    BY <1>3 DEF Disconnect, Client!Next, Client!Network
  <2>4. PICK n \in 0 .. Len(toServer) : toServer' = SubSeq(toServer, 1, n)
    BY <1>3 DEF Disconnect
  <2>5. /\ toServer' \in Seq(MyRequests)
        /\ DOMAIN toServer' \subseteq DOMAIN toServer
        /\ \A i \in DOMAIN toServer' : toServer'[i] = toServer[i]
    BY <1>1, <2>4
  <2>6. SignsInOnce'
    BY <1>1, <2>1, <2>2, <2>5 DEF JointInv, SignsInOnce, AsksAt
  <2>7. Converses'
    BY <2>1, EmptySeq DEF Converses
  <2> QED  BY <2>1, <2>3, <2>6, <2>7
<1> QED  BY <1>2, <1>3

-----------------------------------------------------------------------------
(* The joint invariant is inductive, and every step of the two is one of    *)
(* each or leaves it alone.                                                *)
LEMMA JointStep ==
    ASSUME JointInv, [ReplicationNext]_replicationVars
    PROVE  JointInv' /\ [Next]_vars /\ [Client!Next]_(Client!vars)
<1>1. client' = client => UNCHANGED Client!vars
  BY DEF client, session, puppets, Client!vars, Client!connecting, Client!menu,
         Client!session, Client!puppets, Client!server
<1>2. [Next]_vars /\ [Client!Next]_(Client!vars) /\ SignsInOnce' /\ Converses'
  <2>1. CASE ClientFrame \/ BetweenFrames
    BY <2>1, ClientSteps, ClientStepsKeep
  <2>2. CASE ServeMe \/ ServeOthers \/ ResendOthers \/ EndMe
    BY <1>1, <2>2, ServeMeKeeps, ServeOthersKeeps, EndMeKeeps
  <2>3. CASE Deliver \/ Connected \/ Disconnect
    BY <2>3, DeliverKeeps, LinkKeeps
  <2>4. CASE UNCHANGED replicationVars
    <3>1. UNCHANGED <<vars, client, toServer, toClient>>
      BY <2>4 DEF replicationVars, streams
    <3>2. UNCHANGED <<greeted, closed, ConnectedPlayers, trackedEntities, link, answered, told,
                      greetings>>
      BY <3>1 DEF vars, managed, client, session
    <3>3. SignsInOnce'
      BY <3>1, <3>2 DEF JointInv, SignsInOnce, AsksAt
    <3>4. Converses'
      BY <3>1, <3>2 DEF JointInv, Converses, Conversation, Unasked, AnswerComes, AnswerCame
    <3> QED  BY <1>1, <3>1, <3>3, <3>4
  <2> QED  BY <2>1, <2>2, <2>3, <2>4 DEF ReplicationNext
<1>3. IInv'
  BY <1>2, StepPreserves DEF JointInv
<1>4. Proved!Typed' /\ Proved!Greeting'
  <2>1. [Proved!Next]_(Proved!vars)
    BY <1>2, SameStep
  <2>2. Proved!Typed'
    BY <2>1, ClientConstantsHold, Proved!StepTyped DEF JointInv
  <2>3. Proved!Greeting'
    BY <2>1, ClientConstantsHold, Proved!GreetingPreserved DEF JointInv
  <2> QED  BY <2>2, <2>3
<1> QED  BY <1>2, <1>3, <1>4 DEF JointInv

LEMMA JointInvariant == ReplicationSpec => []JointInv
<1>1. ReplicationInit => JointInv
  BY JointInit
<1>2. JointInv /\ [ReplicationNext]_replicationVars => JointInv'
  BY JointStep
<1> QED  BY <1>1, <1>2, PTL DEF ReplicationSpec

(* A client's frames and callbacks send InitAuth once per connection, and  *)
(* the end of the connection is reported once: with such a client at the   *)
(* other end the server is never in a state EntityTracking leaves out.     *)
THEOREM ClientKeeps == ReplicationSpec => ClientKeepsItsPart
<1>1. ReplicationInit => Init
  BY DEF ReplicationInit
<1>2. JointInv /\ [ReplicationNext]_replicationVars => [Next]_vars
  BY JointStep
<1> QED  BY <1>1, <1>2, JointInvariant, PTL DEF ReplicationSpec, ClientKeepsItsPart, Spec

(* The handlers, with any number of others joining, moving and leaving,     *)
(* keep the stream that GameClient takes for granted: one answer, and then *)
(* each message where it makes sense.                                      *)
THEOREM ServerKeeps == ReplicationSpec => ServerKeepsItsPart
<1>1. ReplicationInit => Client!Init
  BY DEF ReplicationInit
<1>2. JointInv /\ [ReplicationNext]_replicationVars => [Client!Next]_(Client!vars)
  BY JointStep
<1> QED  BY <1>1, <1>2, JointInvariant, PTL DEF ReplicationSpec, ServerKeepsItsPart, Client!Spec

-----------------------------------------------------------------------------
(* Where the client will have been told the entities are, once it has all   *)
(* that is on its way to it.                                               *)
Retell(at, message) ==
    CASE message.type \in {"SpawnEntity", "TeleportEntity"} ->
            [id \in DOMAIN at \cup {message.id} |->
                IF id = message.id THEN message.pos ELSE at[id]]
      [] message.type = "DestroyEntity" ->
            [id \in DOMAIN at \ {message.id} |-> at[id]]
      [] OTHER -> at

Retelling == INSTANCE SequenceFacts WITH Op <- Retell

RightAbout(world, id, at) == id \in DOMAIN at => at[id] = world[id].pos

(* True messages keep what is right, and a teleport puts it right.         *)
LEMMA TruthIsRetold ==
    ASSUME NEW world, NEW id, NEW at
    PROVE  \A seq \in Seq(TrueNews(world)) :
              RightAbout(world, id, at) \/ Mentions(seq, id) =>
                RightAbout(world, id, Retelling!Fold(at, seq))
<1> DEFINE T == TrueNews(world)
           Good(seq) == RightAbout(world, id, at) \/ Mentions(seq, id) =>
                          RightAbout(world, id, Retelling!Fold(at, seq))
           S == {seq \in Seq(T) : Good(seq)}
<1>1. <<>> \in S
  <2>1. <<>> \in Seq(T)
    BY EmptySeq
  <2>2. Retelling!Fold(at, <<>>) = at
    BY Retelling!FoldEmpty
  <2>3. PICK none : none = <<>>
    OBVIOUS
  <2>4. DOMAIN none = {}
    BY <2>3
  <2>5. ~Mentions(none, id)
    BY <2>4 DEF Mentions, Elements
  <2>6. Good(<<>>)
    BY <2>2, <2>3, <2>5
  <2> HIDE DEF Good, T
  <2> QED  BY <2>1, <2>6
<1>2. ASSUME NEW before, NEW message \in T
      PROVE  LET after == Retell(before, message)
             IN  /\ RightAbout(world, id, before) => RightAbout(world, id, after)
                 /\ message.type = "TeleportEntity" /\ message.id = id =>
                      RightAbout(world, id, after)
  <2>1. message \in Messages /\ (SaysWhere(message) => message.pos = world[message.id].pos)
    BY DEF TrueNews, News
  <2>2. CASE SaysWhere(message)
    <3>1. Retell(before, message) = [i \in DOMAIN before \cup {message.id} |->
                                        IF i = message.id THEN message.pos ELSE before[i]]
      BY <2>2 DEF Retell, SaysWhere
    <3> QED  BY <2>1, <2>2, <3>1 DEF RightAbout
  <2>3. CASE message.type = "DestroyEntity"
    <3>1. Retell(before, message) = [i \in DOMAIN before \ {message.id} |-> before[i]]
      BY <2>3 DEF Retell
    <3> QED  BY <2>3, <3>1 DEF RightAbout
  <2>4. CASE ~SaysWhere(message) /\ message.type # "DestroyEntity"
    BY <2>4 DEF Retell, SaysWhere
  <2> QED  BY <2>2, <2>3, <2>4
<1>3. ASSUME NEW seq \in Seq(T), NEW message \in T, Good(seq)
      PROVE  Good(Append(seq, message))
  <2> DEFINE longer == Append(seq, message)
             before == Retelling!Fold(at, seq)
  <2>1. Retelling!Fold(at, longer) = Retell(before, message)
    BY Retelling!FoldAppend
  <2>2. ASSUME Mentions(longer, id)
        PROVE  Mentions(seq, id) \/ (message.type = "TeleportEntity" /\ message.id = id)
    <3>1. Elements(longer) \subseteq Elements(seq) \cup {message}
      <4>1. \A i \in DOMAIN longer : longer[i] = message \/ (i \in DOMAIN seq /\ longer[i] = seq[i])
        BY AppendAddsLast
      <4> HIDE DEF longer
      <4> QED  BY <4>1 DEF Elements
    <3> HIDE DEF longer
    <3> QED  BY <2>2, <3>1 DEF Mentions
  <2> HIDE DEF longer, before
  <2> SUFFICES ASSUME RightAbout(world, id, at) \/ Mentions(longer, id)
               PROVE  RightAbout(world, id, Retelling!Fold(at, longer))
    BY DEF longer
  <2>3. \/ RightAbout(world, id, before)
        \/ message.type = "TeleportEntity" /\ message.id = id
    BY <1>3, <2>2 DEF before
  <2> QED  BY <1>2, <2>1, <2>3
<1> HIDE DEF Good, T
<1>4. \A seq \in Seq(T), message \in T : seq \in S => Append(seq, message) \in S
  BY <1>3, AppendProperties
<1>5. \A seq \in Seq(T) : seq \in S
  <2> HIDE DEF S
  <2> QED  BY <1>1, <1>4, SequenceInduction
<1> QED  BY <1>5 DEF Good, T

(* While the player is in the world, what is on its way to the client       *)
(* brings it to where the server has the entities it tracks for it.        *)
Placed ==
    link # "closed" /\ Puppets(me) # {} =>
        \A id \in trackedEntities[me] :
            RightAbout(SpawnedEntities, id, Retelling!Fold(told, toClient))

LEMMA PlacedAtFirst ==
    ASSUME ReplicationInit
    PROVE  Placed
<1>1. DOMAIN SpawnedEntities = {}
  BY DEF ReplicationInit, Init
<1> QED  BY <1>1 DEF Placed, Puppets, OwnedBy

LEMMA StayingPlaced ==
    ASSUME Placed, UNCHANGED vars, link # "closed" \/ link' = "closed",
           Retelling!Fold(told', toClient') = Retelling!Fold(told, toClient)
    PROVE  Placed'
<1>1. UNCHANGED <<SpawnedEntities, trackedEntities>>
  BY DEF vars, managed
<1>2. Puppets(me)' = Puppets(me)
  BY <1>1 DEF Puppets, OwnedBy
<1> QED  BY <1>1, <1>2 DEF Placed

(* A delivery brings what was on its way.                                  *)
LEMMA DeliveringPlaces ==
    ASSUME JointInv, Deliver
    PROVE  Retelling!Fold(told', toClient') = Retelling!Fold(told, toClient)
<1>1. toClient \in Seq(Messages) /\ toClient # <<>>
  BY DEF JointInv, Converses, Deliver
<1> DEFINE head == Head(toClient)
           tail == Tail(toClient)
<1>2. /\ tail \in Seq(Messages)
      /\ <<head>> \in Seq(Messages)
      /\ toClient = <<head>> \o tail
  BY <1>1
<1>3. told' = Retell(told, head) /\ toClient' = tail
  BY DEF Deliver, Retell
<1> HIDE DEF head, tail
<1>4. PICK one : one = <<head>>
  OBVIOUS
<1>5. Retelling!Fold(told, one \o tail) = Retelling!Fold(Retelling!Fold(told, one), tail)
  <2>1. one \in Seq(Messages) /\ tail \in Seq(Messages)
    BY <1>2, <1>4
  <2> QED  BY <2>1, Retelling!FoldConcat
<1>6. Retelling!Fold(told, one) = Retell(told, head)
  BY <1>4, Retelling!FoldSingle
<1> QED  BY <1>2, <1>3, <1>4, <1>5, <1>6

(* What a handler does to the world, the client is told of.                *)
LEMMA HandlerInforms ==
    ASSUME IInv, IInv', NEW c \in Conns, NEW request \in Requests, Handle(c, request),
           request.type = "InitAuth" => c \notin greeted
    PROVE  Informs(me) \/ Puppets(me)' = {}
<1>1. me \in Conns
  BY ReplicationAssumption
<1>2. CASE request.type # "InitAuth"
  BY <1>1, <1>2, RequestInforms
<1>3. CASE request.type = "InitAuth"
  <2>1. request.versionMatches \in BOOLEAN
    BY <1>3 DEF Requests
  <2>2. HandleInitAuth(c, request.versionMatches) /\ UNCHANGED SpawnedEntities
    BY <1>3 DEF Handle, HandleInitAuth
  <2>3. UNCHANGED trackedEntities /\ \A p \in Conns \ {c} : enqueued'[p] = <<>>
    BY <2>1, <2>2, InitAuthAnswers
  <2>4. CASE c # me
    BY <1>1, <2>2, <2>3, <2>4, SilenceInforms
  <2>5. CASE c = me
    <3>1. me \notin ConnectedPlayers
      BY <1>3, <2>5 DEF IInv, TypeOK
    <3> QED  BY <2>2, <3>1 DEF IInv, PuppetsBelongToPlayers, Puppets, OwnedBy
  <2> QED  BY <2>4, <2>5
<1> QED  BY <1>2, <1>3

LEMMA ServerInforms ==
    ASSUME JointInv, IInv', ServeMe \/ ServeOthers \/ ResendOthers
    PROVE  Informs(me) \/ Puppets(me)' = {}
<1>1. IInv /\ me \in Conns
  BY ReplicationAssumption DEF JointInv
<1>2. ASSUME NEW c \in Conns, NEW position \in Positions, Move(c, position)
      PROVE  Informs(me)
  BY <1>1, <1>2, PositionUpdateInforms DEF Move
<1>3. CASE ServeMe
  <2>1. toServer \in Seq(MyRequests) /\ toServer # <<>> /\ Handle(me, Head(toServer))
    BY <1>3 DEF JointInv, SignsInOnce, ServeMe
  <2>2. /\ 1 \in DOMAIN toServer
        /\ toServer[1] = Head(toServer)
        /\ Head(toServer) \in Requests
    BY <2>1, HeadIsFirst, ReplicationAssumption
  <2>3. Head(toServer).type = "InitAuth" => me \notin greeted
    BY <2>2 DEF JointInv, SignsInOnce, AsksAt
  <2> QED  BY <1>1, <2>1, <2>2, <2>3, HandlerInforms
<1>4. CASE ServeOthers
  <2>1. PICK c \in Conns \ {me} :
          \/ EndConnection(c)
          \/ \E request \in OthersRequests :
               (request.type = "InitAuth" => c \notin greeted) /\ Handle(c, request)
    BY <1>4 DEF ServeOthers
  <2>2. CASE EndConnection(c)
    BY <1>1, <2>2, ConnectionStateChangeInforms DEF EndConnection
  <2>3. ASSUME NEW request \in OthersRequests,
               request.type = "InitAuth" => c \notin greeted, Handle(c, request)
        PROVE  Informs(me) \/ Puppets(me)' = {}
    <3>1. request \in Requests
      BY ReplicationAssumption
    <3> QED  BY <1>1, <2>3, <3>1, HandlerInforms
  <2> QED  BY <2>1, <2>2, <2>3
<1>5. CASE ResendOthers
  <2>1. PICK c \in Conns \ {me} : Resend(c)
    BY <1>5 DEF ResendOthers
  <2>2. PICK id \in OwnedBy(SpawnedEntities, c) : Move(c, SpawnedEntities[id].pos)
    BY <2>1 DEF Resend
  <2>3. SpawnedEntities[id].pos \in Positions
    BY <1>1, <2>2 DEF OwnedBy, IInv, TypeOK, Entity
  <2> QED  BY <1>2, <2>1, <2>2, <2>3
<1> QED  BY <1>3, <1>4, <1>5

LEMMA ServingPlaces ==
    ASSUME JointInv, JointInv', Placed, ServeMe \/ ServeOthers \/ ResendOthers
    PROVE  Placed'
<1>1. UNCHANGED client /\ Reply
  BY DEF ServeMe, ServeOthers, ResendOthers
<1>2. UNCHANGED <<link, told, greetings>>
  BY <1>1 DEF client, session
<1>3. Informs(me) \/ Puppets(me)' = {}
  BY ServerInforms DEF JointInv
<1> SUFFICES ASSUME link' # "closed", Puppets(me)' # {}, NEW id \in trackedEntities'[me]
             PROVE  RightAbout(SpawnedEntities', id, Retelling!Fold(told', toClient'))
  BY DEF Placed
<1>4. link = "connected"
  <2>1. me \in greeted'
    BY DEF JointInv, IInv, TypeOK, PuppetsBelongToPlayers, Puppets, OwnedBy
  <2>2. greetings' # 0
    BY <2>1 DEF JointInv, SignsInOnce
  <2> QED  BY <1>2, <2>2 DEF JointInv, Proved!Greeting, Proved!Typed, Proved!TypeOK
<1> DEFINE news == enqueued'[me]
           world == SpawnedEntities'
           before == Retelling!Fold(told, toClient)
<1>5. toClient \in Seq(Messages) /\ toClient' = toClient \o news
  BY <1>1, <1>4 DEF JointInv, Converses, Reply
<1>6. /\ news \in Seq(TrueNews(world))
      /\ \/ Mentions(news, id)
         \/ /\ Puppets(me) # {}
            /\ id \in trackedEntities[me]
            /\ world[id].pos = SpawnedEntities[id].pos
  BY <1>3 DEF Informs
<1>7. Retelling!Fold(told', toClient') = Retelling!Fold(before, news)
  <2>1. news \in Seq(Messages)
    BY <1>6 DEF TrueNews, News
  <2> HIDE DEF news, before
  <2>2. Retelling!Fold(told, toClient \o news) = Retelling!Fold(Retelling!Fold(told, toClient), news)
    BY <1>5, <2>1, Retelling!FoldConcat
  <2> QED  BY <1>2, <1>5, <2>2 DEF before
<1>8. Mentions(news, id) \/ RightAbout(world, id, before)
  BY <1>2, <1>6 DEF Placed, RightAbout
<1> HIDE DEF news, world, before
<1>9. RightAbout(world, id, Retelling!Fold(before, news))
  BY <1>6, <1>8, TruthIsRetold
<1> QED  BY <1>7, <1>9 DEF world

LEMMA StepPlaces ==
    ASSUME JointInv, JointInv', Placed, [ReplicationNext]_replicationVars
    PROVE  Placed'
<1>1. CASE ClientFrame \/ BetweenFrames
  <2>1. UNCHANGED <<vars, toClient, told>> /\ (link # "closed" \/ link' = "closed")
    BY <1>1, ClientSteps
  <2> QED  BY <2>1, StayingPlaced
<1>2. CASE ServeMe \/ ServeOthers \/ ResendOthers
  BY <1>2, ServingPlaces
<1>3. CASE EndMe \/ Disconnect
  BY <1>3 DEF EndMe, Disconnect, Client!Link, client, Placed
<1>4. CASE Deliver
  BY <1>4, DeliveringPlaces, StayingPlaced DEF Deliver
<1>5. CASE Connected
  <2>1. UNCHANGED <<vars, told, toClient>> /\ link = "connecting"
    BY <1>5 DEF Connected, Client!Link, Client!server, streams
  <2> QED  BY <2>1, StayingPlaced
<1>6. CASE UNCHANGED replicationVars
  <2>1. UNCHANGED <<vars, told, toClient, link>>
    BY <1>6 DEF replicationVars, streams, client
  <2> QED  BY <2>1, StayingPlaced
<1> QED  BY <1>1, <1>2, <1>3, <1>4, <1>5, <1>6 DEF ReplicationNext

-----------------------------------------------------------------------------
(* With a server that keeps its part, what is proved of the client alone    *)
(* holds here.                                                             *)
LEMMA ClientCatchesUp ==
    ASSUME Proved!DistinctIds, Proved!OneSide
    PROVE  ReplicationSpec => [](Proved!NoGhosts /\ Proved!HeadsForTold)
<1>1. ReplicationSpec => Client!Spec
  BY ServerKeeps DEF ServerKeepsItsPart
<1>2. Client!Init => Proved!Init
  BY SameInit
<1>3. [Client!Next]_(Client!vars) => [Proved!Next]_(Proved!vars)
  BY SameStep
<1>4. Client!Spec => Proved!Spec
  BY <1>2, <1>3, PTL DEF Client!Spec, Proved!Spec
<1>5. Proved!Spec => []Proved!NoGhosts
  BY ClientConstantsHold, Proved!NobodyStaysBehind
<1>6. Proved!Spec => []Proved!HeadsForTold
  BY ClientConstantsHold, Proved!LastWordCounts
<1> QED  BY <1>1, <1>4, <1>5, <1>6, PTL

LEMMA QuietAgrees ==
    ASSUME JointInv, Placed, Proved!NoGhosts, Proved!HeadsForTold
    PROVE  QuietWorldsAgree
<1> SUFFICES ASSUME Quiet, NEW e \in DOMAIN entities, Client!Current(e)
             PROVE  LET id == entities[e].id
                    IN  /\ id \in trackedEntities[me]
                        /\ id \in DOMAIN SpawnedEntities
                        /\ (MyPuppets # {} /\ Client!Exists(e)
                              /\ e \in DOMAIN interpolationData \cup lastTeleportCommand)
                             => Destination(e) = SpawnedEntities[id].pos
  BY DEF QuietWorldsAgree
<1> DEFINE id == entities[e].id
<1>1. toClient = <<>> /\ inbox = <<>> /\ link = "connected"
  BY DEF Quiet
<1>2. id \in DOMAIN told /\ id \in DOMAIN networkedEntitiesLookup /\ networkedEntitiesLookup[id] = e
  <2>1. Proved!Current(e)
    BY DEF Client!Current, Proved!Current
  <2> QED  BY <1>1, <2>1 DEF Proved!NoGhosts
<1> HIDE DEF id
<1>3. AnswerCame
  BY <1>1, <1>2 DEF JointInv, Converses, Conversation, Unasked, AnswerComes
<1>4. DOMAIN told = trackedEntities[me]
  <2>1. Explains(<<>>, DOMAIN told, trackedEntities[me])
    BY <1>1, <1>3 DEF AnswerCame
  <2>2. Belief(DOMAIN told) = Belief(trackedEntities[me])
    BY <2>1, Believing!FoldEmpty DEF Explains
  <2> QED  BY <2>2 DEF Belief
<1>5. id \in trackedEntities[me] /\ id \in DOMAIN SpawnedEntities
  BY <1>2, <1>3, <1>4 DEF AnswerCame, JointInv, IInv, NoDanglingTracking
<1>6. ASSUME MyPuppets # {}, Client!Exists(e),
             e \in DOMAIN interpolationData \cup lastTeleportCommand
      PROVE  Destination(e) = SpawnedEntities[id].pos
  <2>1. Puppets(me) # {}
    BY <1>6 DEF MyPuppets, Puppets
  <2>2. told[id] = SpawnedEntities[id].pos
    <3>1. RightAbout(SpawnedEntities, id, Retelling!Fold(told, <<>>))
      BY <1>1, <1>5, <2>1 DEF Placed
    <3> QED  BY <1>2, <3>1, Retelling!FoldEmpty DEF RightAbout
  <2>3. Proved!Exists(e)
    BY <1>6 DEF Client!Exists, Proved!Exists
  <2>4. \/ e \in DOMAIN interpolationData /\ interpolationData[e].target = told[id]
        \/ /\ e \notin DOMAIN interpolationData
           /\ e \in lastTeleportCommand => entities[e].place = told[id]
    BY <1>1, <1>2, <2>3 DEF Proved!HeadsForTold
  <2> QED  BY <1>6, <2>2, <2>4 DEF Destination
<1> QED  BY <1>5, <1>6 DEF id

(* Whatever the interleaving of the players' requests, the handlers, the    *)
(* deliveries and the frames: once nothing is on its way, the game has      *)
(* entities only for what the server tracks for the client, and they head   *)
(* for where the server has them.  (The hypotheses are those of the client: *)
(* erase(entityId) in NetworkGameSystem.cpp takes an EntityID for a         *)
(* networked id, and a puppet at the origin counts as not yet placed.)      *)
THEOREM WorldsAgree ==
    ASSUME Proved!DistinctIds, Proved!OneSide
    PROVE  ReplicationSpec => []QuietWorldsAgree
<1>1. ReplicationInit => Placed
  BY PlacedAtFirst
<1>2. JointInv /\ JointInv' /\ Placed /\ [ReplicationNext]_replicationVars => Placed'
  BY StepPlaces
<1>3. ReplicationSpec => []Placed
  BY <1>1, <1>2, JointInvariant, PTL DEF ReplicationSpec
<1>4. JointInv /\ Placed /\ Proved!NoGhosts /\ Proved!HeadsForTold => QuietWorldsAgree
  BY QuietAgrees
<1> QED  BY <1>3, <1>4, JointInvariant, ClientCatchesUp, PTL

=============================================================================
