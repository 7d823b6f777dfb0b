# Cyberverse in TLA+

Cyberverse makes Cyberpunk 2077 a multiplayer game. Each player's game runs a
RED4ext plugin and a Redscript module that report what the player does and show
puppets, cars and items of the others; a server with a native half (queues on
top of GameNetworkingSockets) and a managed half (the logic) decides who sees
what. These modules model that logic, TLC checks it on small instances, and
TLAPS proves every safety property of the passing runs, but no liveness, for every
instance: of the server's handlers and loop, its buffers and packet layouts, the
client, the player's actions and the two ends together.

## Inventory

| Part | State | Operations | What makes it correct |
|---|---|---|---|
| PlayerService, EntityService (`server/Managed/Services`) | connected players, dictionary of entities, id counter | add, create, remove | an id names one entity forever |
| EntityTracker | for each connection the list of ids it was shown; the filter | start, stop, update, initial spawn | lists hold what exists and is another's; each change has its packet |
| Packet handlers (`server/Managed/PacketHandling`) | none | InitAuth, JoinWorld, PositionUpdate, SpawnCar, UnmountCar, Equip, Shoot | act for the sender alone |
| Managed GameServer, Program | handlers by message type | the loop, dispatch, end of a connection | one handler at a time; ended players are signed out |
| Native GameServer (`server/Native/src`) | receive queue, send queue | accept, close, poll, send | order kept, nothing lost while the connection lives |
| Native C API, marshalling (`api/`, `Native.cs`) | buffers on the native heap | allocate, release, marshal | each buffer freed once |
| NetworkGameSystem (`client/red4ext/src`) | connection, lookup of entities, interpolations, sync timer | a frame; savegame listed, game restored | the game shows what the server says |
| PlayerActionTracker | none | game events to packets | the server's car is there while the player rides |
| Redscript module | AutoContinueUsed | savegame handshake, create and delete entities | a listed savegame is loaded when the server has said Ok |
| Interpolation | source, target, time of each puppet | start, advance | arrives, turning the shorter way |
| Record ids, command line | none | pure functions | not modelled |
| Protocol structs (`shared/protocol`, `NativeLayer/Protocol`) | none | layout on both sides | both sides agree |
| Logging, plugin entry, build | | | not modelled |

They interact as follows. A client's packets reach the library's poll group;
`GameServer::Update` sends what is in `dll_send_queue`, moves arrived packets to
`dll_recv_queue`, and has the library report connection changes through a
callback into the managed server; the managed `Update` then drains
`dll_recv_queue` and runs a handler per packet, which changes the dictionaries
and enqueues packets. On the client a frame drains the incoming packets, reports
the position, moves the puppets and lets the library report changes; the game
calls in between.

What is hard here: there is one thread on each side, so nothing is a data race,
but the order of sends, polls, callbacks and handlers within a tick decides what
an ending connection leaves behind; tracking is incremental, so who sees whom
depends on who moved when; client and server keep two copies of one list and
only packets keep them equal; the game attaches entities some time after it was
asked to. PROJECT.json lists these hazards line by line.

## Modules

`SharedWorld` is the abstract promise: members, things that belong to one
participant each, a view for each member, and who acted last. A step is one
participant entering, leaving with all they own, or acting: only their own things change,
new ids were never used, views hold only others' things that are there, and
views change only in what they show of the actor.

`EntityTracking` models the managed half. Its variables are the fields of the
services (`ConnectedPlayers`, `SpawnedEntities`, `entityIdCounter`,
`trackedEntities`), the packets the last step enqueued (`enqueued`, one sequence
per connection), whose request it was (`sender`, which the refinement maps to the
actor of `SharedWorld`, so that nobody's request can do what only another may) and
two environment variables (`greeted`, `closed`). Each
handler is an action of the same name; `OnConnectionStateChange` is the end of a
connection. The nested loops of `UpdateTrackingOf` are given by their outcomes
(`Comparisons`, `TrackedAfterLoop`, `LoopMessages`), shared by all handlers in
`Broadcast`. The loop itself, turn by turn, stands beside them (`LoopByTurns`), and the
lemma `LoopIsByTurns` proves that the closed form sends and tracks what the loop does.
A Dictionary's enumeration order is unspecified, so each handler picks one.
Positions are points of a line; 0 also stands for the "faulty" position.
`HandlePositionUpdate` and the others accept requests of connections that have
not signed in or have ended, because the code does. `Spec` lets a connection
send InitAuth once and end once, which the two modules below justify.

`ServerTick` extends it with the native half: `phase` is where the tick is, the
library's connections and their queued state changes are external, `recvQueue`
and `sendQueue` are the two DLL queues. `HandleHead` runs the very handlers of
`EntityTracking`, and `DrivesTheHandlers` (its `Spec` as a property) says that
the loop is an implementation of it. `heard` folds what each client received;
`sent` and `handled` are histories.

`GameClient` models one client. The server side of it (`Answer`, `TellSpawn`,
`TellTeleport`, `TellDestroy`) sends what `PipelineExplainsTracking` and
`OutboxExplainsTracking` establish of the real server: one answer, then sound streams
per entity. Entities are the game's: created, attached later, deleted, EntityIDs
counted up. A menu lists the savegames (`OnSavesForLoadReady`) as often as it likes,
and `AutoContinueUsed`, which only the closing of a menu sets (`OnUninitialize`),
makes it stop loading: a second list while signed in loads again, and what was
enqueued before a menu was closed is still loaded at the Ok. `lists` counts those that
were to load. The game makes the client object by its RED4ext class descriptor, which
value-initialises it; so `Init` starts `m_pInterface` and the position timer, which
have no initializer, as null and 0, as the code itself takes for granted. Time is in
ticks. `leaked` are the library's messages that were not given back:
`OnlyRespawnsLeak` says when that happens.

`Turning` is the yaw of one puppet, which GameClient leaves out: the branches of
`InterpolatePuppets`, and the teleports that start a turn anew on the way. Yaws
are integers modulo a full turn, and the product of progress and distance is
rounded down, as it need not be with floats: no property depends on the rounding.

`Replication` composes EntityTracking with one GameClient (`Client == INSTANCE
GameClient`) over two ordered streams, which stand for the queues and the network
together; ServerTick shows that the queues are such streams. What GameClient
assumes of the server (its `Spec`, with the server's part in it) and what
EntityTracking assumes of its clients (its `Spec`) are here properties of the
whole: `ServerKeepsItsPart` and `ClientKeepsItsPart`. The other connections send
what they like.

`PlayerActionTracker` puts the game's events in front of the handlers: mounting
and unmounting (of the player and by the player, of vehicles and other things,
with references that may have expired), items, shots, jumps, savegames and the
greeting, which may come at any moment between them.

`MessageBuffers` is the memory of the server's queues: `heap` from the addresses
in use to packets, the two queues with addresses instead of packets, and the
message in the managed `Update`. The allocator gives out any free address again.
It assumes that every type the native half lets through has a handler or is
PlayerActionTracked, since ProcessMessage frees nothing else.

`PacketLayout` has no state: it lays each struct out as the compiler and as the
marshaller do (sizes and alignments are external) and reads it back with the
other's offsets, byte by byte, for all values of the flags and of the padding.
`Marshalling` puts the two together: what was marshalled for the handlers and
serialized for the network has crossed in the layout of its type.

The modules ending in `Proofs` hold the theorems, `MarshallingProofs` those of
MessageBuffers and Marshalling, and `SequenceFacts` the lemmas they share: induction
over numbers, sequences and finite sets, what FlattenSeq concatenates, and what a
fold from the left makes of a longer or a joined sequence. Its constant `Op` is the
folded operator: `Believing == INSTANCE SequenceFacts WITH Op <- Believe` gives the
facts about one fold. The `MC` modules give constants for
TLC; definitions marked "Mutant" are faulty variants of the operator after them,
which the properties must reject.

## Runs

| Run | Instance | Shows |
|---|---|---|
| handlers | 2 connections, one hidden from the other by the filter, positions 0, 100, 250, 1 item, 3 entities | type, NoDanglingTracking, NeverTracksOwn, OneVehiclePerOwner, StartsWithEmptyView, PuppetsBelongToPlayers, refinement of SharedWorld, packets explain tracking, moves settle tracking (the filter wins over range), players without an entity are shown nothing new |
| server_loop | 2 connections, 2 requests each, 2 entities, a fair thread | queues keep order, client views match, handlers driven as assumed, ends are noticed, InitAuth is answered |
| late_sign_in | 1 connection, 3 requests | finding: sign-in after the end |
| client | 1 entity id, 2 places, up to 2 packets under way, 2 lists of savegames, fair frames | one greeting, loading when listed and signed in, puppets head for where they are told and rest there, positions repeat |
| puppets | 2 entity ids, 1 place | no ghosts, first spawns appear, messages leak only when respawned |
| respawn | 1 entity id | finding: respawned entities stay invisible |
| replication | EntityTracking and one client of either version, another player in and out of range, 2 entities | each side keeps its part; worlds agree when nothing is on its way |
| replication_live | both ends and another player, 1 place, all fair | signing in settles; a neighbour appears |
| rides | one player of either version, 2 savegames, 1 item, 3 requests under way, 4 entities | the car follows the ride; one puppet per savegame loaded after InitAuth |
| buffers | 3 addresses, 3 packets in, 2 out, all types, one without a handler | one owner for each packet; packets arrive whole, in order and field by field, no read past the buffer |
| flags | 1 packet in | finding: bools do not arrive |
| turning | 12 yaws, interpolation of 3 ticks, frames of 1 to 3 | shorter way, never away from the target |

Why the bounds are enough to meet the interesting cases: positions 0, 100 and 250 are
within the range, exactly at its edge and out of it, and 100 to 250 is out too. Three
entities let one player own a puppet and a car, or a puppet and an item, while the
other owns one, so that loops have several turns with mixed outcomes; the filter hides
the first player from the second and not the second from the first, so one instance
has filtered and unfiltered views. Two requests per connection are a sign-in and a
join, or requests that race the end; three (one connection) add a car before any
sign-in and the unmounting. Two networked ids are enough to confuse two puppets. In
the client an interpolation lasts two ticks and a frame one or two, so it is seen half
way. In `replication` one entity of the other player, in range and out of it, and one
of the client are enough for a spawn, a teleport, a destroy and a second spawn to be
under way together with the client's own join; the stream to the server holds two
requests, the one to the client all that one handler says. In `client` the main menu
may list the savegames twice (`MaxLists`), on either side of the Ok; `puppets`,
`respawn` and `replication` allow no list, since nothing they check depends on the
loading, and `replication_live` one. `replication_live` has a single request on its
way at a time. `rides` has a vehicle, an item and two puppets in the world together.
`buffers` has fewer addresses than packets, so every address is used again while
others are in the queues. A dozen yaws has both sides of the seam at half a turn and
turns of exactly half. `buffers` and `flags` use symmetry of the addresses. The runs
with a view leave out only what the last step sent, on which no action depends; they
check no liveness, and their action properties are still evaluated on every step.
Deadlock is not checked: bounded runs end, and a server without clients has nothing to
do.

`NeverSignedIn`, `RespawnsAreSeen` and `FlagsSurvive` state what comments in the
code and the repository's README say and are violated by what the code does;
PROJECT.json quotes them. `flags` answers the question in PlayerEquipItem.cs why
isUnequipping is always false: a C++ bool is one byte, one that is marshalled
without MarshalAs four, so the flag is read from the struct's padding.

## Fairness

- `FairTickSpec`: the server's thread keeps running (`while (!quit)` in
  Program.cs, which nothing ends). The network is under no obligation. Requests
  are bounded, so each part of the tick ends; a peer that never pauses could
  starve the rest of a tick.
- `FairSpec` of GameClient: the game runs frames. Neither server, network nor
  the game's events are fair.
- `FairReplicationSpec`: frames run (`ClientFrame`), the server handles what
  arrives (`ServeMe`), the network delivers while the connection is up
  (`Deliver`), and the other player, as long as their connection is up, repeats a
  position (`ResendOthers`: `TrackPlayerPosition` does so every 0.1 s, unconditionally;
  `RepeatsPosition` checks it of `GameClient`, given that frames end).
  Connecting, the game's events and the end are not fair; the properties are
  about connections that stay. `ClientFrame` and `Deliver` are weakly fair; for the
  server's two the guard is written out (`CanServe` is when ServeMe is enabled,
  `CanResend` implies that ResendOthers is), so less is assumed than by weak fairness.

## What is proved

Each theorem holds for all values of the constants that the assumptions of its module
allow; some of the client's carry two further hypotheses, named below. `THEOREM X ==
Spec => []P` states a property P that a run checks on a small instance.

### The handlers: `EntityTrackingProofs`

For any set of connections, any positions, range, filter and enumeration order:

- `TypeCorrect`, `NothingDangles`, `NobodySeesOwn`, `VehiclesAreReplaced`,
  `ViewsStartEmpty`, `PuppetsArePlayers`: the invariants TypeOK,
  NoDanglingTracking, NeverTracksOwn, OneVehiclePerOwner, StartsWithEmptyView,
  PuppetsBelongToPlayers;
- `PromiseKept`: EntityTracking implements SharedWorld;
- `AbsenceBlinds`: a player without an entity is shown nothing new
  (AbsentSeeNothingNew);
- `OutboxIsRight`: the packets of a handler, applied in order, lead from what was
  tracked to what is (OutboxExplainsTracking);
- `MovesSettle`: after a move everybody else is right about the entity
  (MovesSettleTracking).

The argument is one inductive invariant, `IInv` (`InductiveInvariant`).
NoDanglingTracking is not inductive alone: a player who signs in would inherit whatever
list is kept for their connection, so StartsWithEmptyView (nothing is tracked before
InitAuth) is needed, which in turn needs ConnectedPlayers to be within `greeted` (in
TypeOK). NeverTracksOwn needs that a new entity's id is in nobody's list, hence that
lists hold only ids below the counter, also in TypeOK; lists of ended connections may
hold dead ids, so it cannot be had from NoDanglingTracking. The proof has one lemma on
`Broadcast` (what is tracked afterwards is what was, without `gone`, plus some of
`touched`) and one on each handler's effect; the refinement maps each handler to its
sender's Enter, Act or Leave (a handler without effect is an Act that changes
nothing). PuppetsBelongToPlayers is inductive with the rest of `IInv`: only JoinWorld
makes puppets, and it asks for a player; only the end of a connection removes players,
and it removes what they own; moving and replacing never change a record or an owner.

The packets are folds over sequences of unknown length. The lemma `LoopIsByTurns` is
an induction over the entities a player owns, one turn of the loop at a time, with the
set tracked so far and the messages sent so far as its state. `OutboxIsRight` folds
`Believe` over the flattened messages: one lemma says what a client makes of the
messages of one loop, the facts on folds put loops and handlers together.
`MovesSettle` looks at the last message about the moved entity, `LastOf`, in the
flattened sequence, and compares squares with distances once. `AbsenceBlinds` follows
each handler: without own entities a comparison stops or does nothing, and what is new
in the world is its maker's.

### The loop: `ServerTickProofs`

For any number of connections, requests and packets:

- `LoopDrivesTheHandlers`: the loop implements EntityTracking's Spec, hence
  `HandlersInvariant` (`IInv` holds in the loop) and `PromiseKeptInTheLoop` (so does
  SharedWorld's promise);
- `TickTypeCorrect`, `RequestsInOrder`, `PipelineIsRight`: TickTypeOK,
  HandledInOrder, PipelineExplainsTracking.

`LoopInv` (`LoopInvariant`) says where the one InitAuth and the one end of each
connection are: still to come, arrived in the library, in `recvQueue` or among the
queued callbacks, or handled; never in two of these places. It is what makes a handler's
guard on `greeted` and `closed` true when its turn comes. `RequestsInOrder` adds
`Paths`: what a client sent is what was handled, then what is in the queue, then what
arrived, then, once the connection is gone, what its end lost. `PipelineIsRight` adds `Pipes`:
what a client has made of its packets, folded on over those that are in `sendQueue`, is
what the server tracks for it; handlers append to that by `OutboxIsRight`.
`ConnsAssumption` makes the set of connections finite: handles are 32-bit numbers.

### The client: `GameClientProofs`

For any ids, places, durations and number of messages under way: `TypeCorrect`,
`GreetedOnce`, `ListAndOkMeet` (ListAndOkLoad), `NobodyStaysBehind` (NoGhosts), `NewcomersAreSeen`
(FirstSpawnsAreSeen), `FirstTimesAreReleased` (OnlyRespawnsLeak) and `LastWordCounts`
(HeadsForTold).

`Greeting` (a connection is reported as connected at most once, and greeted then), the
answer (`Answering`) and the handshake of the savegame (`Loading`: until something is
loaded, a list leaves the loading enqueued) carry GreetsOnce and ListAndOkLoad.
NoGhosts and the others are about an empty inbox, so their strengthening, `Lagging`,
is about every inbox: between what the server has told and what the client knows lies
one stage per waiting message (`Retells`); at the first of them the client's table
finds the one live puppet of every entity in sight, and a dead one only of earlier
times (`Mirrors`), and every puppet keeps the last word on where to go (`Heads`). A
frame takes the first message and the first stage away, the server adds a last one.

Two hypotheses, stated in the theorems that need them and met by every cfg:
`DistinctIds`, no EntityID of the game is also a networked id, because the client's
destroy erases from its table of interpolations by a key of the other kind; and
`OneSide`, no way leads through the origin, because a puppet that stands at the
origin counts as not yet placed (a TODO of the code says so).

### Both ends: `ReplicationProofs`

- `ClientKeeps`, `ServerKeeps`: with the other end as it is, the client is what
  EntityTracking assumes (ClientKeepsItsPart), and the server what GameClient assumes
  (ServerKeepsItsPart); so what is proved of each alone holds of the two together;
- `WorldsAgree`: when nothing is on its way the two worlds agree (QuietWorldsAgree),
  under the hypotheses of the client's theorems.

`JointInv` follows the conversation: the client's InitAuth is unsent, on its way,
handled or lost, and accordingly the stream to the client is empty, begins with the
answer, or has had it, and explains what the server tracks. `Placed` says of every
tracked entity that what is on its way brings the client to where the server has it;
each handler keeps it because its packets inform about what they moved (`Informs`).

### The player's actions: `PlayerActionTrackerProofs`

`PlayerDrivesTheHandlers` (the player's requests are what EntityTracking assumes),
`CarsFollow` (CarFollowsRide) and `PuppetsAreJoins` (PuppetPerJoin), for any number of
requests on their way. Both properties are about an empty queue; `TrackerInv`
(`TrackerInvariant`) is about its whole content: the joins behind InitAuth that are in
the queue and the puppets that came of others add up to the joins sent
(`JoinsCounted`, over cardinalities), and the last request of the queue that is about a
ride, or the vehicles if there is none, says whether the player rides (`RideIsKnown`).

### Buffers and layouts: `MarshallingProofs`

For any addresses, types within the assumptions and any number of packets:
`EveryPacketHasOneOwner` (OneOwner), `PacketsAreNotMixedUp` (PacketsSurvive),
`PacketsKeepTheirFields` (FieldsSurvive) and `PacketsFitTheirBuffers` (FitsTheBuffer).

OneOwner is inductive with the shape of the queues: whatever is in them, or in hand,
is a message with data and of a known type, which makes ProcessMessage free it.
`Contents` adds what stands behind the addresses: the packets received are those
marshalled, the one in hand and those of the queue, in order, because what one owner
frees or allocates is nobody else's. `Kinds` adds the direction of each type.

The layout of the fourteen structs is a constant, but not one to be listed: offsets
are a recursive function, and a struct is read for every value of its flags and every
padding. The proof shows that the recursion has a solution and so is what Offsets
chooses, that fields follow each other without overlap, and that both halves lay out
alike up to the flags, which stand last; so every other field is read from the bytes
it was written to. The two structs with flags are as long in both halves, though their
flags are not: two BOOLs of four bytes end where the padding of two bytes does. That
the flags themselves do not arrive is the finding of the run `flags`.

### Turning: `TurningProofs`

`TypeCorrect`, `ShorterWay` (TurnsTheShorterWay) and `TurnsToTheTarget`
(NeverTurnsAway) for any unit of yaw, any duration and any frame times: a case
analysis on which of the two ways around is shorter. For the last one the angle that
remains is the distance of yaw and target, full turns not counting, and the quotient of
progress times distance by the duration grows with the progress.

### Only model-checked

Liveness, since fairness and ENABLED are out of the prover's reach: `EndIsNoticed`,
`AnswerArrives`, `RepeatsPosition`, `PuppetsComeToRest`, `SignInSettles`,
`NeighbourAppears`. The findings are counterexamples and need TLC alone.

## Not modelled

- The contents of malformed packets (`RejectPacket` is all they do on the server),
  failing allocation and script calls, the library's internals, serialization by
  zpp::bits, logging, the build, the menu entry.
- Names, and which of several puppet records a player gets.
- Record ids (`RecordIdUtils.cs`) and the command line (`CommandLine.h`): two
  stateless conversions, of which a model would repeat the expressions. A record is
  a model value; GameClient assumes an address. A client started without one
  dereferences a null interface when the game reports anything.
- A server that fails to start: `server_create` returns nullptr, nobody asks, and
  the constructor does not survive it.
- `RunBlocking` and the native demo `main`, which the managed server does not use.

EntityTracking handles PlayerEquipItem for both values of isUnequipping, since what
the managed half reads is not what the client sent (`flags`).

## Plan

Every safety property of a passing run is a theorem. What is left:

1. Liveness as theorems, with a prover that handles ENABLED.
2. The record ids and the command line, should anything modelled here come to depend
   on what they compute.
3. `Replication` with two game clients instead of one and arbitrary others. The
   theorems do not ask for it: JointInv is about one client and takes the others'
   requests as they come.
