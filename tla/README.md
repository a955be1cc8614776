# A TLA+ model of SplashOnline

SplashOnline is a 2-4 player online fighting game.  Every peer simulates the
game on its own at 60 ticks a second from its local input and from predicted
inputs of the others; when a prediction turns out wrong it rolls back to the
last confirmed frame and replays.  One peer, the master client of the Photon
room, confirms frames and publishes a checksum of each.

The modules in this directory model that protocol, the way into a game and out
of it, the rules of a match and the services around it.  TLC checks them on
small instances; TLAPS proves the invariants, action properties and refinements
for every instance, except what section 4 names.  This file says what is
modelled, how it corresponds to the code, what every run shows, what is proved,
and what is left.  Paths are relative to the repository (`src/` is its root
here).

## 1. The system

| Component | State | Operations | Interacts with |
|---|---|---|---|
| `RollbackManager` (`src/src/rollback/rollback_manager.cpp`) | input rows `inputs_`, last received frame per player, last confirmed frame, dirty flag, a confirmed copy of the game | `SetInput`, `SetInputs`, `ConfirmLastFrame`, `SetDirty`, `GetInput(s)`, `GetLastReceivedFrame` | called by `GameManager` |
| `GameManager` (`src/src/game/game_manager.cpp`) | current frame, game over and desync flags, intro and game timers, the displayed game, the manager | `Update`, `Tick`, `RollbackUpdate`, `ExitGame`, `UpdateIntroTime`, `Begin`, `End` | reads the mailboxes of the network client, queues sends, ticks `GameSystems` |
| `NetworkClient` (`src/src/network/client.cpp`) | connection state (atomic), task queue, two double-buffered mailboxes, `isMaster_`, ping | Photon callbacks on the network thread, `Send*`, `Get*Packets`, GUI buttons | network thread and main thread share it |
| `SplashManager` (`src/src/game/splash.cpp`) | screen (LOGO, LOBBY, GAME, ERROR_STATE), owns the `GameManager` | `Update`, `SwitchToState` | polls the connection state |
| `GameSystems`, `PlayerManager`, `BulletManager`, `Level` (`src/src/game/`) | the deterministic game: characters, a pool of bullets, physics | `Tick`, triggers, `CalculateChecksum`, `RollbackFrom` | ticked by both managers |
| Packets (`src/include/network/packet.h`) | input, confirm, ping, desync packets and their serializers | (de)serialize | network client |
| Desync database (`src/src/utils/game_db.cpp`) | a queue of 50 queries to a job | `Add*`, open, close | `GameManager` |
| Engine (`src/src/engine/engine.cpp`) | tables of systems, GUI and draw interfaces with reused slots | add, remove, main loop | everything |
| Assets, audio, window, input, views | handles, animation state | load, play, draw | read the game, change nothing it reads |

**Hard behaviour.**  Input packets are sent unreliably: they are lost,
repeated and reordered; every packet therefore carries all inputs since the
last confirmed frame, cut to 26.  Confirm packets are reliable and ordered,
but arrive at any time relative to input packets, and may confirm inputs the
receiver has not received.  Inputs change under frames already displayed.
Peers tick without waiting for each other.  The network thread changes the
connection state, `isMaster_` and the countdown under the main thread.
`PROJECT.json` lists the hazards with their lines and the properties that
would catch them.

**What makes each component correct.**  The manager: rows exist wherever they
are read, a confirmed row is final, a changed prediction under a displayed
frame makes it dirty.  The protocol: every peer plays the same log of inputs
that were really pressed; only a machine that really computes differently
leaves the game.  The network client and `SplashManager`: a game exists exactly
on the GAME screen and imports only its own packets.  The player characters: one
move at a time, a way back after every fall, a credited player who exists, and
rates that no sequence of inputs beats.  The bullets: a slot belongs to one
flight at a time and every flight ends.  The view: it shows what the game is,
however the game got there.  The tables of the engine: a system is found where
it believes to be, and updated once a frame.  The loaders: what is made is made
of its own file.  The database: rows are stored in their order.

## 2. Modules

| Module | What it is | Run |
|---|---|---|
| `RollbackManager` | one manager: a record and pure operators, one per function of `rollback_manager.cpp` | |
| `RollbackUnit` | one manager under every legal sequence of calls, and the loops of the code written as loops | `manager_unit` |
| `RollbackProtocol` | all peers of a game: one action per step of `Update`, `Tick` and `RollbackUpdate`, and the network | |
| `RollbackSafety` | what the protocol promises, and the fair specification | |
| `AgreedLog` | abstract: peers play one log of pressed inputs, the master first | |
| `MCRollback` | the instances of the protocol for TLC | `two_peers`, `four_frames`, `three_peers`, `desync`, `no_end_screen`, `false_desync` |
| `Session`, `MCSession` | from the logo to a running game and back: connection, room, screens | `session_leave`, `session_live`, `stale_mailbox` |
| `PlayerFalls` | hits, falls, credits and the way back of the characters | `match` |
| `Stomp`, `Jetpack`, `WaterGun` | one character's stomp, its jumps and bursts, its gun | `match` |
| `BulletPool` | the pool of bullets and what the view copies of it | `match` |
| `PlayerView` | the states a character is drawn in while the game ticks and rolls back | `match` |
| `Timers`, `GamePlayers` | a timer that runs; the players of a match | |
| `MCMatch` | the six machines of a match side by side | `match` |
| `Registry` | the table of systems, changed during a pass over it | `services` |
| `SystemSet` | abstract: a set of systems that come and go | |
| `Loader` | textures, atlases and skeletons, some of them broken | `services` |
| `DesyncDb` | the queue of rows and the job that writes them | `services` |
| `NetworkTasks` | a packet from task to wire to mailbox | `services` |
| `Fifo` | abstract: a queue, each element read once and in order | |
| `IntroSync` | the countdown before a game and the pings that set it | `services` |
| `MCServices` | the five machines around a game side by side | `services` |
| `RollbackManager_proofs`, `RollbackUnit_proofs` | theorems about one manager | |
| `RollbackProtocol_proofs`, `RollbackTruth_proofs`, `RollbackAgreement_proofs` | theorems about the protocol of a game | |
| `Session_proofs` | theorems about connection, room and screens | |
| `Match_proofs` | theorems about the machines of a match | |
| `Services_proofs` | theorems about the machines around a game | |

*Side by side.*  The machines of `MCMatch` and of `MCServices` share no
variable: where one depends on another (the bullet a gun asks for, the other
timers that forbid a jump) the other is a free choice.  A behaviour is one of
them: `part` says which, `OfStomp(A)` is the action `A` of the stomp while the
others stay as they begin.  One run then checks all of them at the sum and not
the product of their sizes.  Only the specifications and the fairness are new in
these modules; every property is stated where its machine is.

*Composition.*  `NetworkTasks` implements `Fifo`, which is what
`RollbackProtocol` assumes of `confirmNet`.  `Session` leaves the protocol of a
game out and says who is in which game; that its peers agree on the players of a
game (`SlotsAgree`) is why `Connected` is one constant of `RollbackProtocol`,
and `OneMaster` is why `Master` is.  `WaterGun` bounds how often a player
shoots, which is `Reload` in `BulletPool`.  `OneMove` of `Stomp` is why a sight
of `PlayerView` has one `dash`.

### The protocol of a game

`rollback[n]` is the `RollbackManager` of peer `n`: `inputs` is `inputs_`
(frame `f` at `f+1`), `lastReceived[p]` is `inputDatas_[p].lastReceivedFrame`,
`lastConfirm` is `lastConfirmFrame_` (`-1` at first), `isDirty` is `isDirty_`,
`sim` is `confirmFrameGameSystems_`.  `gameSim[n]` is `gameSystems_`.
`currentFrame`, `isGameOver`, `hasDesync` are the fields of that name;
`endScreen` is `gameRenderer_.IsGameOver()`.  The game is deterministic in its
inputs, so a `GameSystems` is the sequence of the ticks it ran, each with the
previous and current input rows it read; its checksum is that sequence, i.e.
Adler32 is taken to be free of collisions.  A tick carries a flag, whether the
machine computed what every other machine computes: peers in `Diverging` may
get it wrong when they confirm a frame.

`pc[n]` is where the main thread of peer `n` stands; `inTick[n]` tells whether
`RollbackUpdate` was called by `Tick` or by the game over branch of `Update`.

| Action | Code (`game_manager.cpp`) |
|---|---|
| `BeginTick` | `Tick` up to `RollbackUpdate`: timer, `SetInput` of the local input (147-197) |
| `ImportInput` | one iteration over `GetInputPackets()` (257-272) |
| `ImportConfirm`, `RefuseConfirm` | one iteration over `GetConfirmPackets()`, with the next frame or another (274-339) |
| `ValidateFrame` | one iteration of the master's loop (341-369) |
| `EndTick` | the rollback (374-393), the displayed tick and the send (199-235) |
| `GameOverRollback`, `EndGameOverRollback`, `ShowEndScreen` | the game over branch (107-132) |

Packets: `inputNet` holds every input packet ever sent and none is taken out,
so any may be imported never, once or often, in any order, at any time.
`confirmNet[n]` is the queue of confirm packets to `n`, mailbox included, in
the order they were sent (Photon's reliable channel); a peer imports any number
of them in a tick.  `RefuseConfirm` drops the packets that the early return
leaves in the swapped-out buffer.  `SendDesync` raises the event code of a
confirm packet (`client.cpp:508`), which a receiver reads as a default
constructed confirm packet: that is `DefaultConfirm`.

`SetInput` with a frame beyond the next row underflows a 16-bit size
(`rollback_manager.cpp:57`) and writes out of bounds; `IsGap` names the case,
the model stops that peer in `"gap"`, and `NoGap` (a part of `PacketsSuffice`)
shows that it needs a packet that was cut.

Abstractions: a `PlayerInput` is one of two model values; frames are numbers
without a width (a game is 7200 frames, below 2^15); the master does not
change during a game (a peer that leaves ends it); the offline game is left
out; the countdown is `IntroSync`.  The history variables `pressed` and
`truncated` are read by properties and by the comparison with the local input
in `Tick` only.

### Connection, room and screens: `Session`

`net[p]` is what both threads of a program share: `state` is the connection
state, `link` the state of the library, `isMaster`, `index` and `players` the
fields of those names, `halfJoined` the moment in `joinRoomEventAction` after
the state is stored and before index and role are (`client.cpp:118-131`),
`tasks` the queued tasks and `mailbox` the games whose confirm packets wait.
`main[p]` is the screen, the step inside `SplashManager::Update`, and the game.
`room` and `chan` are the server and its events on their way (external).

| Actions | Code |
|---|---|
| `PressConnect`, `StoreConnecting`, `PressRegion`, `PressJoin`, `PressStart` | the buttons (`client.cpp:289-371`), the store after the job was scheduled |
| `LogoOver`, `LobbySeesGame`, `CreateGame`, `GameFirstRead`, `GamePing` | `SplashManager::Update`; each read of the state is a step, as it is written by the other thread |
| `onAvailableRegions`, `connectReturn`, `joinRoomEventAction`, `FinishJoin`, `leaveRoomEventAction`, `customEventStart`, `customEventConfirm` | the callbacks |
| `RunRegion`, `RunStart`, `RunConfirm` | the tasks |
| `ServerJoins`, `Quit`, `LoseConnection`, `Crash` | the server; the end of a program or of its connection |

What is easily missed and is in the model: Start can be pressed twice; the
number of players and the role are those of the press, not of the task; a leave
may be handled before or after a start, by each peer for itself; the room is
opened again (late) by whoever handles a leave, also during the next game's
start; a follower whose game was destroyed in this update still asks the null
`gameManager_` for the intro time, and an actor number beyond the array is
written out of bounds: for both the program may go on or end (`Crash`).
`ERROR_STATE` cannot be reached, as no `DESYNC` event is ever sent, and
`VICTORY_SCREEN` is never entered.

### The countdown: `IntroSync`

Every peer counts down from the moment its game begins (`IntroFrame`), which is
when its main thread next looks at the state (`Begin`), so either may be first; a
follower pings, the master answers on its network thread (`Deliver`), and the
answer may set the countdown to a second less half of the measured ping.  The
answer is the logical negation of the time: 1 when the master's countdown is
over and 0 otherwise.  A measured ping of two seconds leaves nothing to count,
and skips the branch that starts the clock of the game.  Chains of
pings never end: each answer sends the next one, and the timer starts more.

### A match

Time is counted in ticks.  A tick is a physics step, which reports any contacts
of active bodies, then the turn of the players, then the bullets
(`game_systems.cpp:29-71`).  Positions and forces are left out, so a contact, a
speed below a threshold or the direction of a velocity is a choice.

* `PlayerFalls`: `HitByBullet`, `Stomped`, `Collide`, `Fall` are branches of
  `OnTriggerEnter`; `FallsTick` is what `PlayerManager::Tick` does with the
  timers, those that run always and those that stop while the character is out.
  Several sensors of one character may enter a limit in one step, and count
  several falls, as in the code.  A hit keeps its credit across a respawn.
* `Stomp`: preparing, dashing, slowing down and bouncing.  Slowing down and
  bouncing may overlap; a dash frozen by a fall resumes after it.
* `Jetpack`: jumps from the ground and bursts in the air.  A ground jump may be
  followed by a burst at once; two bursts in the air are a preparation apart,
  also when the end of a dash (`StopDash`) has cut the cool down in between.
* `WaterGun`: tank, pause, quick shots.  Holding the trigger in a stomp drains
  the tank without a shot.  The water is counted in the units of the fixed point
  numbers: 4228 come back in a tick, and after the pause of 62 ticks 8 are still
  missing from a full tank, so that nobody who keeps aiming gets the quick shots
  back.  Neither the module nor its theorems assume that order.
* `BulletPool`: `Enter` is a contact of a bullet that flew as the physics step
  began (`flying`): it may enter several colliders in one step and is then struck
  by each of them, also when it was given back in between.  `Turn` shoots with the first slot that may be reused, `Struck`
  and `Aged` end a flight, `Render` is what `bullet_view.cpp` copies.  When no
  slot is free the program terminates; `PoolSuffices` holds for the instance,
  whose `MaxBulletNmb` is large enough for its rates.  With the numbers of the
  code (4 players, about 56 bullets of 3 s each at the rate of quick shots, 50
  slots) the sizing alone does not guarantee it.
* `PlayerView`: `sight` is what the view reads of one character and its input,
  and `GameMoves` changes it in any way between two frames, because the game may
  tick, catch up or roll back.  `Follows` is the switch of `PlayerView::Update`.
  `Heard` is where the switch fades the sound of the jet pack in and out, and
  nowhere else: that whoever is drawn in `JET` is heard is a property.

### The services

* `Registry`: `AddSystem`, `RemoveSystem`, and the pass of the main loop with
  its end taken at the start of a range-for (`BeginPass`, `Visit`, `EndPass`);
  a system may add or remove others while it is updated.
* `Loader`: `MakeSurface`/`Publish` are the job; `LoadFrame` is a frame, in
  which textures, then atlases, then skeletons are made until the time is over.
  Any one file may be broken, the sound banks included (they are loaded by the
  next job of the same worker).  An atlas without a page is only logged, and its
  skeletons are read with it all the same (`spine_manager.cpp:135-189`): the
  attachments they name are regions of that atlas, so they stay without data
  (`Readable`; what the spine library does with a region it does not find is not
  in the repository).  An image may also be read and no texture be made of it
  (`"pixels"`): surface and pixels are freed nevertheless
  (`texture_manager.cpp:214`), and again in the next frame.  What memory that was
  freed twice does to the rest of the program is not followed: it goes on
  (`"damaged"`) or ends (`"aborted"`).
* `DesyncDb`: the queue is `rigtorp::SPSCQueue`, whose `emplace` waits while it is
  full (`HasRoom`); the main thread (`OpenDatabase`, `Add`, `Wake`,
  `ResetAndSchedule`, `CloseDatabase`, `Join`, `CloseFile`) and the worker
  (`Take`, `CreateTables`, `RunQuery`, `FindEmpty`, `EndJob`).
* `NetworkTasks`: `Send` queues a task under the mutex, the network thread runs
  all of them under it and clears them; the receiver's network thread pushes to
  the mailbox, its main thread swaps the two vectors and reads the other one.

## 3. Runs

| Run | Instance | Shows |
|---|---|---|
| `two_peers` | 2 peers, 1 empty slot, 3 frames, packets of 3 inputs | all interleavings: types, rows exist, the local input survives every import, nothing is confirmed before it is pressed, the master's display is current, packets are truthful, none leaves a gap and each suffices, and the protocol implements `AgreedLog` |
| `four_frames` | 2 peers, 4 frames, packets of 3 inputs (the fourth frame may cut), a tick at a time | the master's rows and every prediction are truthful, confirmed ticks were played on pressed inputs, confirmed rows are final |
| `three_peers` | 3 peers, 2 frames, packets of 2 inputs, a tick at a time | two followers and a master that needs both |
| `desync` | 2 peers, 2 frames, packets of 1 input, one peer may diverge, a catch-up tick | divergence is found at its frame, and only divergence makes a peer leave, although inputs are cut |
| `manager_unit` | 1 manager, 2 players, 1 empty slot, frames 0-2, packets of 1-2 inputs | the closed forms of `RollbackManager` equal the loops of the code; a packet that changes a row sets dirty |
| `session_leave` | 2 peers in a room of 3 places, one more connected, 2 games, one peer quits or loses its connection | `SessionSound`: one master, equal states, equal players of a game once events are handled; the last player of a room survives the end of its game |
| `session_live` | 2 in a full room, one at the logo, 1 game, 1 confirm packet under way, one leaves | the same, and: a connected peer is not thrown back, a start reaches every member, a game that ended is destroyed |
| `match` | 2 players, 2 bullets, timers of a few ticks in the proportions of the code | a fall credits an existing player and is forgotten in time, a character comes back and is invincible then, one move at a time, a trail that fits the view, every dash is finished, bursts and shots at their rates, who aims shoots, no bullet is taken in flight and every flight ends, the pool suffices, the view settles on what the game is |
| `services` | 4 systems in 4 slots; 6+8 textures, 8 atlases, 27 skeletons; 5 rows, 2 games, a queue of 2; 4 packets; a countdown of 4 with delays up to 2 | a system is where it believes to be and updated exactly once a pass; rows in order; every asset made of its own file, a broken one costing only what is made of it, and nothing freed twice unless no texture can be made of it; loading ends unless a file of the last elements is broken; packets once and in order, and all of them; a follower starts unless answers keep setting its countdown or skip its end, never before the master, who plays once |
| `no_end_screen` | 2 peers, 2 frames, fair | **violated**: `EndScreenShown` |
| `false_desync` | 3 peers, packets of 1 input, one of them presses something, once | **violated**: `NoFalseAlarm` |
| `stale_mailbox` | 3 peers in a room, 2 games, 1 confirm packet under way, one leaves | **violated**: `OnlyRealDesync` |

The refinements are `ImplementsAgreedLog` (`two_peers`), `ImplementsFifo` and
`ImplementsSet` (`services`).  Invariants with several parts are conjunctions of
named ones: `PacketsSuffice`, `RowsTruthful`, `ManagerSound`, `SessionSound`,
`FallsSound`, `StompSound`, `PoolSound`, `ViewSound`, `RegistrySound`,
`DbSound`, `LoaderSound`, `NetworkSound`; `RatesKept` joins two action
properties.  Each part has its own comment.

Bounds.  Two input values tell a right prediction from a wrong one.  Three
frames are the least with which a row is confirmed, a later one predicted and
a third one late; with four and packets of three the window may be cut.  A frame
is confirmed once the following one is received, so two frames are enough for a
confirmation with three peers.  A slot nobody uses checks that `isValid` is
honoured.  `OneTickAtATime` (in `four_frames`, `three_peers`) lets one peer at a
time be inside a tick: in one tick all reads of the mailboxes precede all sends
and the rest is local, so no behaviour of the packets is lost.  `NoEndScreen`
(in the same two runs) stops at the step that shows the scores: it only ends
that peer's own loop.  `CatchUp` bounds the ticks that the `while` loop of
`Update` still runs after the game is over.  In `Session` three peers give a
leave, a join or a start seen in different orders by the two that stay; two
games give packets and members of an earlier one.  The timers of `match` keep
the order of their periods (a stun is shorter than the way back, a preparation
longer than a cool down), which is all their code compares and what the
assumptions of their modules ask for.  The gun's tank of 25 takes 6 a tick of the
pause of 4, one unit less than it holds, as in the code; quick shots empty it
twice as fast as others.  `Settle` of `PlayerView` is the least
number of frames that suffices, three do not.  A pool
of two slots is reused while its flights last.  Four reserved slots for four
systems are the proportion of the code, whose vector of ten never moves.  A
queue of two is filled and emptied by five rows over two games.

Deadlock is checked in `manager_unit` and `match`.  Elsewhere the system really
stops: a peer that left a game returns at once from `Update` for ever, programs
end, the files are loaded, the database is closed for the last time.

Fairness.  The main loop of `engine.cpp:71` goes on until the window is closed
and the network loop of `client.cpp:401` until the client ends, so a thread that
can take a step does (`WF` of `MainStep`, `NetworkStep`, `FallsTick`, `Turn`,
`PoolTick`, `MainThread`, `NetworkThread`).  Reliable events arrive
(`ServerJoins`, `Arrive`, `Deliver` of a start).  The worker runs its jobs.
Frames are drawn and time passes again and again although other things happen in
between, so `Render` and `IntroFrame` are under `SF`.  Nothing is assumed of
players: nobody must press, aim, send or leave.  Nothing is assumed of
unreliable packets.

### Disagreements found

Checked by a run:

* `no_end_screen`: at the end of a game `Update` calls `RollbackUpdate` when the
  last confirmed frame *is* `currentFrame_-1`, where nothing is left to
  confirm, and shows the end screen otherwise (`game_manager.cpp:109`).  A peer
  that has confirmed everything never sees the scores.
* `false_desync`: `SetInputs` skips packets older than the last received frame
  but not one of that very frame (`rollback_manager.cpp:124`), and rewrites its
  row even when it is confirmed.  As long as packets are whole the row does not
  change.  Once a window is cut (26 frames, 433 ms), the master may have
  confirmed a prediction, and a late packet brings the real input to one
  follower, after the confirmation and before `ConfirmLastFrame` ticks the row:
  its checksum differs and it leaves with "Desync happened", though all machines
  compute alike.  It takes a third peer: with two, the master is the only
  receiver of the follower's packets.  The run narrows what is pressed
  (`OneRestless`) to find the counterexample in seconds.
* `stale_mailbox`: the mailboxes are not cleared between games and an event is
  kept whenever the state is `IN_GAME`, so a game may import a confirm packet of
  the one before and report a desync.

The following hold in no version of the model that is true to the code.  Each is
stated in its module, and TLC refutes it when it is added to the `.cfg` named:

* `EveryDisplayCurrent` (`two_peers`): a confirm packet that corrects a
  prediction rewrites the row with `SetInput`, which never sets `isDirty_`
  (`game_manager.cpp:313`); the displayed game runs on with the wrong input
  until another packet makes the manager dirty.  On the master it cannot happen.
* `SameInputsSameGame` (`two_peers`): `ConfirmLastFrame` ticks frame 0 twice,
  from `lastConfirmFrame_` -1 and 0 (`rollback_manager.cpp:13`).  Confirmed
  games agree on that, but a displayed game has the extra tick only after its
  first rollback.
* `ConfirmsReceivedInput` (`two_peers`): `lastReceivedFrame` jumps over frames of
  lost packets, so "Not the same input for confirm input" fires for a prediction.
* `ConnectingEnds` (`session_live`): the job is scheduled before `CONNECTING` is
  stored, so the store may come after `CHOOSING_REGIONS` and hide the buttons
  (`client.cpp:304`).
* `TwoMinutes` (`services`): an answer handled between the end of the countdown
  and the first tick may set it again, and the game starts over on a manager
  that has rows (`game_manager.cpp:86`).
* `FlownByPlayer` (`match`): `destroyedTimer` is not stopped when its slot is
  shot again, and takes the new flight from its owner (`bullet.cpp:150`).
* `NoDryShot` (`match`): a shot may be made with an emptied tank.
* `SilentAfterwards` (`match`): a stomp or a fall takes the view out of `JET`
  before the switch that fades the jet pack's sound out, which is heard until
  the next flight ends (`player_view.cpp:162-177`).
* `RowsKept` (`services`): `CloseDatabase` waits for a job that runs, not for one
  that is scheduled and has not started; its rows go to the file of the next
  game, or are lost.

## 4. Proofs

The theorems hold for every value of the constants that the named assumptions
allow, where a run has one value.  The proofs are in modules of their own:

| Module | What it proves |
|---|---|
| `RollbackManager_proofs` | lemmas: what each function of the manager keeps of a sound manager, and of one that tells the truth |
| `RollbackUnit_proofs` | one manager: the closed forms are the loops of the code, and what a packet may change without setting dirty |
| `RollbackProtocol_proofs` | types, rows exist, who knows what when |
| `RollbackTruth_proofs` | what packets and rows hold |
| `RollbackAgreement_proofs` | agreement, no false alarm, the refinement of `AgreedLog`, and the master's display |
| `Session_proofs` | the state of the connection, the role of master, the players of a game |
| `Match_proofs` | the six machines of a match |
| `Services_proofs` | the five machines around a game, and the refinements of `SystemSet` and `Fifo` |

### The protocol of a game

Five invariants, each on top of the one before.

*Rows exist* (`TypeCorrect`, `RowsExistAlways`).  `IndexInv == TypeOK /\
RowsExist`.  Neither half is inductive alone: a row is written back as a row
only if the index it was read at is in range, and the range is known only for
well-typed managers.  `SetInput` grows the rows to the current frame, so a tick
has its row; the master confirms only when some player's last received frame is
beyond the first open one, which has a row, so the next frame has one too; a
follower grows its rows to the confirmed frame first.

*Who knows what when* (`ConfirmedWasPlayedAlways`, `LocalInputKeptAlways`).
`OrderInv` adds what orders the frames of a game: a player has pressed the
frames it ticked and the one it is in; a packet carries frames its player has
finished; peers and confirm packets are never ahead of the master, and the
master's last confirmed frame is pressed by everybody and *behind* the current
frame of every follower.  That last part is what protects the local input: a
follower that confirms a frame in the middle of a tick rewrites an older row
than the one it is in, and its own later rows stay because it has already
received its own input of them.

*What rows and packets hold* (`PacketsSufficeAlways`, `RowsTruthfulAlways`,
`ConfirmedRowsStay`).  `TruthInv` says, as long as no packet was cut: a row up
to the last received frame of a player holds what it pressed, rows beyond it
repeat that input (a prediction), confirmed rows are history, a packet starts
no later than the first frame the master has not confirmed, and so no packet
leaves a gap.  The last two need each other: only because a packet starts that
early does a late or repeated one write what is there already, and only because
no row is skipped is a row below the last received frame known.  The hypothesis
`~truncated` cannot be dropped: a cut packet makes the master confirm a
prediction, and what arrives later then contradicts a confirmed row
(`false_desync` is that behaviour, with three peers).

*Who agrees* (`ConfirmedAgreeAlways`, `NoFalseAlarmAlways`, `LogImplemented`).
`AgreeInv` needs no hypothesis about packets: a confirm packet holds the
checksum of a prefix of the master's confirmed game, so a peer that goes on
after comparing has that prefix.  `Sequenced` adds that, while nobody has left,
a mailbox holds exactly the frames its peer lacks, in order; with `TruthInv` a
confirmed frame is then ticked on the rows that the master ticked, so a
checksum that differs was computed differently by some machine, and a default
constructed packet is only ever sent by a peer that has left.
`ConfirmedIsPressedAlways` assumes `Diverging = {}`: a machine that computes
something else ends the game, and what its checksum stands for is then not the
game on the inputs pressed.  For the refinement each step is a step of the
abstract log or a stutter: `SetInput` of a new frame presses, a confirmation
plays a row, and the first confirmation of a peer, which ticks frame 0 a first
time, plays none.

*What the master shows* (`MasterDisplayCurrentAlways`).  `DisplayInv`: between
two ticks the master is not dirty, and whenever it is not dirty its displayed
game is its rows ticked from frame 0, where frame 0 may have been ticked twice.
A packet that changes no predicted input changes no row under the current frame
(`PacketAsPredicted`: the first input that contradicts the prediction decides),
one that does sets the manager dirty, and a rollback replays all.

### One manager

`ManagerSoundAlways`: the closed forms that every other module uses are what the
loops of `rollback_manager.cpp` compute, for any frame that leaves no gap, any
size of a packet, any order of the players and any number of slots.  The loops
are recursive functions, and an induction over a recursion is out of reach, so
each loop is met by a *guess*: the function that gives after `i` rounds the rows
predicted so far (`PredictedRows`), the manager once the first players are set
(`ConfirmedFor`), the manager that the first `i` inputs of the packet, taken as a
packet, would leave (`FirstInputs`).  That the guess takes the same steps as the
loop is an argument about one round, and a first round in which the two differ
cannot be (`SameLoop`).  For a packet the round has three cases: the frame is
skipped; it is the first one used, and the manager is as it was (`FirstImport`);
or the round before has written it over (`NextImport`), which is where
`HeldInput` says what the comparison that sets dirty reads.

The other two parts need no loop.  That a packet which changes a row sets dirty
rests on `UnitInv`: behind the last received frame of a player all rows repeat
the newest one (`Flat`), which every call keeps.  It is weaker than what a game
keeps (there they repeat the last input received), because a call may rewrite
the last received frame alone.

### From the logo to a game

`SessionSoundAlways` (with `OneMasterAlways`, `SameStateAlways` and
`SlotsAgreeAlways` for its parts) and `StateFollowsLinkAlways`.  None of them is
inductive: all but the last speak of moments at which nothing is under way, and
what is under way is what decides them.  Each invariant is on top of the one
before.

* *The state follows the link.*  `LinkInv` ties the state to the library's and to
  where the main thread is: between `PressConnect` and the store of `CONNECTING`
  nothing can have gone further than the list of regions, because the next step
  needs a button that is not shown, so the late store does no more harm than
  that.  A game on the screen means a complete join (`ScreenFits`).
* *Who has a seat.*  `SeatsInv`: a peer waits for a seat, or holds it, or has left
  for good, so a room gives no more numbers than there are peers (`Taken`).
* *What a member will hear.*  `News` relates what a peer knows and the events on
  their way to it with the room of the server: who has not left is in every later
  list, who has left in none, and each member is known or will be.  `Informed`
  adds that whoever joins later has a greater number, which is why a role
  computed from an old list is still right (`HasRole`), and with nothing under
  way `RoomInv` is `OneMaster`.  A role is computed before the state says that the
  game is over, so the last player of a room is the master by then, which is
  `LastPlayerSurvives`.
* *The games.*  `GamesInv` and `NumbersInv` are types (a game that is shown, sent or
  imported was started; numbers fit the peers); `CountInv` counts queued starts
  as games.
* *All play or all rest.*  `GameInv`: if no event of the room was on its way at any
  start, then either the room is closed and every member plays, or will when it
  has handled its events, or every member rests or will (`Ended`: each start on
  its way is followed by a leave).  The hypothesis cannot be dropped: a peer that
  handles an old leave after the start goes back to the room alone.
* *The players of a game.*  `WholeInv`: as long as nobody has left since such a
  start, the room is closed and has the members of the start, nothing about them
  is on its way, and therefore a list read later is the same list.

### A match

* *The pool.*  `PoolInv` adds to `PoolSound` that the bullets of one owner in
  flight were shot at least `Reload` apart (`Spaced`), and that a bullet's age
  and what is left of its owner's reload fit together (`ShotInTime`).  A player
  thus owns at most a salvo's worth of slots, and a pool that holds everybody's
  salvo has a free one, by counting: slots in flight map one-to-one to pairs of
  a player and a place in its salvo.
* *The falls.*  `FallsInv`: a character is in the physics exactly when it is in no
  phase of its way back and in just one phase otherwise; a running cause names
  another player; the causes run out before the character is put on its place
  (`Fades`, which is where the order of the periods is needed); who can still be
  struck in this physics step plays, or has fallen in it (`MovingPlays`).
* *The stomp.*  `StompFits`: preparing, dashing and slowing down exclude each
  other in the order the code writes them, and the trail and what is left of the
  dash are together no longer than a dash.
* *The rates.*  `PreparedSince`: a preparation that runs has done so since the
  last burst; nothing is needed of the cool down, which a dash may cut.  `WaterRuns`: the water timer runs with the time since the last
  shot.  `WaitsInTime`: the pause and the timer of the next shot never need more
  than what is left of the player's patience; how full the tank is after the
  pause does not matter, as long as it is not empty.
* *The view.*  `Fits`, `Fits1` ... `Fits4`: the view shows the sight, or will after
  so many updates without another change; four are enough from anywhere
  (`FourUpdates`), and each update lowers the number by one.
* `MatchTypesKept` and `RatesKeptAlways` are about the composition: a step of it
  is a step of one machine while the others stand.

### The services

* *The registry.*  `RegistrySound` is inductive with its types.  That the table
  never outgrows the reserved vector is a count: the slots of systems that are
  alive are as many as the systems, and a slot is only appended when none is
  empty.
* *The queue of packets.*  `Pending` is the rest of the mailbox that is read, the
  other mailbox, the wire and the tasks that have not run, in this order; each
  step moves a packet across one of the joints, where the concatenation only
  regroups.
* *The database.*  `DbInv`: the rows written and the rows queued are numbered
  through (`Numbered`), the job that opens a file is scheduled once
  (`OpensOnce`), a worker past it has tables (`WithTables`), and rows wait for
  somebody but those added after the job's last look (`Served`).
* *The loader.*  `LoaderInv`: each kind of asset is made in order with none
  passed over, so the last one is made last, whichever file is broken
  (`TexturesInOrder`, `PagesInOrder`, `SkeletonsInOrder`: a skeleton has its data
  if its file and its atlas are sound), and an image is freed with its texture or
  is the one of which none can be made (`FreedWithTexture`).
* *The countdown.*  `IntroInv`: the master counts down once (`CountedOnce`), what is
  played and what is left of anybody's game fit its length (`Fits`), and an
  answer that tells a follower to start was sent after the master had started.

### What the proofs changed

Some things that the runs had not shown came up as obligations nobody could
prove, and were put right where the code justifies it.  A countdown may fall
below zero by more than the type of `IntroSync` allowed (half of a measured
ping is taken off).  `StompSound` and `DashIsFinished` need a slowdown of more
than one tick, the gun needs quick shots to be strictly faster than the
others, and the view needs `Settle` of four frames: all
true of the code's numbers and now named assumptions.  `RollbackUnit` had
taken one order of the players for the loop over a confirm packet, and takes any
now.  `Session` had left open
that its peers are finitely many and that a room begins with different peers and
within its places; and its bound on the games counted the peers with a queued
start, of which one may have two.

### What stays with TLC

* Liveness under fairness: `StartReachesAll`, `LeavesGame`, `ComesBack`,
  `FlightsLand`, `LoadingEnds`, `EverythingArrives`, `FollowerStarts`; the
  prover does not reason about `ENABLED`.
* The three disagreements, which are counterexamples.

Well-foundedness replaces induction where it is needed: a set of numbers has a
smallest element (`Smallest`, `FirstIsThere`), and a counterexample to a claim
would be one.  The loops of `RollbackUnit` are recursive functions rather than
folds for this reason: what a recursive function is can be used in a proof
without an induction theorem.

## 5. Not modelled, and the plan

Left out, and why:

* Drawing: drawables, effects, positions on the screen, the level's and the end
  screen's views, the window.  They read the game and change nothing it reads.
* Physics: positions, velocities, forces.  The models take any contact; that two
  machines compute the same physics is the constant `Diverging`.
* Input devices: the models take any `PlayerInput`.  `input_manager.cpp` can also
  replay recorded inputs; its table of 3000 frames is shorter than a game of 7200
  and is read and written without a bound check (lines 69 and 189), which is
  local to that tool.
* The arithmetic of `Adler32`: a checksum stands for what it summarises, so
  collisions are excluded.  The bytes of the serializers.
* The offline game, in which nothing is confirmed, and the debug windows.
* `RollbackSystem`, which nothing instantiates, and the programs and tests.
* The vendored libraries, most of the lines below `src/` (sqlite, stb, FMOD,
  ImGui, SDL, spine, neko, Photon): of them only what the code relies on is
  modelled, as external definitions.  Of the 9054 lines of the project itself
  (`src/src`, `src/include`, `src/main`, `src/test`) the modules model a third.

What is left, in this order:

1. The countdown in front of `RollbackProtocol`, as one composition: `IntroSync`
   and the first tick are separate now, and `TwoMinutes` shows that the code does
   not keep them apart.
2. A change of the master in the middle of a game, between the event that names
   it and the end of the game.
