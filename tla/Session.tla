------------------------------- MODULE Session -------------------------------
(***************************************************************************)
(* From the logo to a running game and back: the connection state of every *)
(* peer (client.cpp), the screens that poll it (splash.cpp) and the room   *)
(* of the Photon server between them.                                      *)
(*                                                                         *)
(* A peer runs two threads.  The network thread runs the queued tasks and  *)
(* handles the events of the room; the main thread shows the buttons and   *)
(* the screens.  They share net[p]; main[p] belongs to the main thread.    *)
(* The server (external) answers at once and its events reach a peer in    *)
(* order, after any delay.                                                 *)
(***************************************************************************)
EXTENDS Integers, SequencesExt

CONSTANTS Peers,        \* one run of the program each: a restart is a new peer
          Fresh,        \* the peers that start at the logo
          InRoom,       \* the peers that start in the room, as they joined; the rest is connected
          MaxPlayers,   \* places in a room, and length of connectedPlayers (4)
          MaxGames,     \* bound: games started
          MaxQueue,     \* bound: confirm packets sent and not yet handled
          MaxQuits      \* bound: peers that quit or lose their connection

ASSUME SessionAssumption ==
    /\ IsFiniteSet(Peers) /\ Fresh \subseteq Peers
    /\ InRoom \in Seq(Peers \ Fresh) /\ Len(InRoom) <= MaxPlayers
    /\ \A i, j \in DOMAIN InRoom : InRoom[i] = InRoom[j] => i = j
    /\ MaxPlayers \in Nat \ {0} /\ MaxGames \in Nat
    /\ MaxQueue \in Nat /\ MaxQuits \in Nat

VARIABLES room,   \* the room on the server: members, open, next actor number, seat of a peer
          chan,   \* chan[p]: events of the room on their way to p
          net,    \* net[p]: the client, shared by both threads
          main,   \* main[p]: the screen and the game of p
          games,  \* history: members and quietness of every start
          quits   \* history: number of peers that left

vars == <<room, chan, net, main, games, quits>>

-----------------------------------------------------------------------------
NotSeated == 0
NoGame == 0

\* client.cpp: the globals.  link and players are the state of the library;
\* game is history: the start this peer is in.
NewNet == [state |-> "UNCONNECTED", link |-> "down", running |-> FALSE,
           isMaster |-> TRUE, index |-> NotSeated, players |-> {},
           halfJoined |-> FALSE, tasks |-> <<>>, mailbox |-> {}, game |-> NoGame]
Connected == [NewNet EXCEPT !.state = "CONNECTED_TO_MASTER", !.link = "up", !.running = TRUE]

NewMain(screen) == [screen |-> screen, at |-> "idle", game |-> NoGame,
                    slots |-> {}, desync |-> FALSE]

EmptyRoom(seat) == [members |-> {}, open |-> TRUE, next |-> 1, seat |-> seat, asked |-> {}]

SeatOf(p) == SelectInSeq(InRoom, LAMBDA q : q = p)      \* 0: not in the room
Joined(p) == [Connected EXCEPT !.state = "IN_ROOM", !.players = DOMAIN InRoom,
                               !.index = SeatOf(p), !.isMaster = SeatOf(p) = 1]

Init ==
    /\ room = [EmptyRoom([p \in Peers |-> SeatOf(p)]) EXCEPT
                  !.members = DOMAIN InRoom, !.next = Len(InRoom) + 1]
    /\ chan = [p \in Peers |-> <<>>]
    /\ net = [p \in Peers |-> IF p \in Fresh THEN NewNet
                             ELSE IF SeatOf(p) = NotSeated THEN Connected ELSE Joined(p)]
    /\ main = [p \in Peers |-> NewMain(IF p \in Fresh THEN "LOGO" ELSE "LOBBY")]
    /\ games = <<>>
    /\ quits = 0

Seated(p) == room.seat[p] # NotSeated
Alive(p) == main[p].screen # "GONE"
Master(members) == Min(members)

\* The server sends an event to these peers.
Sent(peers, event) == [p \in Peers |-> IF p \in peers THEN Append(chan[p], event) ELSE chan[p]]
Others(p) == {q \in Peers \ {p} : Seated(q)}

SetNet(p, fields) == net' = [net EXCEPT ![p] = fields]
SetMain(p, fields) == main' = [main EXCEPT ![p] = fields]

-----------------------------------------------------------------------------
(* The buttons (OnGui), on the main thread between two updates. *)

Idle(p) == Alive(p) /\ main[p].at = "idle"
ShowsButtons(p) == Idle(p) /\ main[p].screen # "LOGO"

\* The job is scheduled first: the network thread may answer before the store.
PressConnect(p) ==
    /\ ShowsButtons(p) /\ net[p].state = "UNCONNECTED"
    /\ SetNet(p, [net[p] EXCEPT !.running = TRUE])
    /\ SetMain(p, [main[p] EXCEPT !.at = "connect"])
    /\ UNCHANGED <<room, chan, games, quits>>

StoreConnecting(p) ==
    /\ main[p].at = "connect"
    /\ SetNet(p, [net[p] EXCEPT !.state = "CONNECTING"])
    /\ SetMain(p, [main[p] EXCEPT !.at = "idle"])
    /\ UNCHANGED <<room, chan, games, quits>>

Queue(p, task) == SetNet(p, [net[p] EXCEPT !.tasks = Append(@, task)])

PressRegion(p) ==
    /\ ShowsButtons(p) /\ net[p].state = "CHOOSING_REGIONS"
    /\ net[p].tasks = <<>>      \* bound: pressed once until the task has run
    /\ Queue(p, [do |-> "region"])
    /\ UNCHANGED <<room, chan, main, games, quits>>

\* Mutant: joins before it is connected.
PressJoin_Early(p) ==
    /\ ShowsButtons(p) /\ net[p].state = "CHOOSING_REGIONS"
    /\ SetNet(p, [net[p] EXCEPT !.state = "JOINING"])
    /\ room' = [room EXCEPT !.asked = @ \cup {p}]
    /\ UNCHANGED <<chan, main, games, quits>>

PressJoin(p) ==
    /\ ShowsButtons(p) /\ net[p].state = "CONNECTED_TO_MASTER"
    /\ SetNet(p, [net[p] EXCEPT !.state = "JOINING"])
    /\ room' = [room EXCEPT !.asked = @ \cup {p}]
    /\ UNCHANGED <<chan, main, games, quits>>

StartsOf(p) == {i \in DOMAIN net[p].tasks : net[p].tasks[i].do = "start"}
StartsQueued == UNION {{p} \X StartsOf(p) : p \in Peers}

\* The count and the role are those of the press; the task runs later.
PressStart(p) ==
    /\ ShowsButtons(p) /\ net[p].state = "IN_ROOM"
    /\ Cardinality(net[p].players) >= 2 /\ net[p].isMaster
    /\ Len(games) + Cardinality(StartsQueued) < MaxGames      \* bound
    /\ Queue(p, [do |-> "start"])
    /\ UNCHANGED <<room, chan, main, games, quits>>

-----------------------------------------------------------------------------
(* The screens (SplashManager::Update).  Every read of the connection state *)
(* is a step of its own: the network thread writes it between two reads.    *)

LogoOver(p) ==
    /\ Idle(p) /\ main[p].screen = "LOGO"
    /\ SetMain(p, [main[p] EXCEPT !.screen = "LOBBY"])
    /\ UNCHANGED <<room, chan, net, games, quits>>

\* Mutant: only the others watch for the start.
LobbySeesGame_Followers(p) ==
    /\ Idle(p) /\ main[p].screen = "LOBBY" /\ net[p].state = "IN_GAME" /\ ~net[p].isMaster
    /\ SetMain(p, [main[p] EXCEPT !.screen = "GAME", !.at = "create", !.game = net[p].game])
    /\ UNCHANGED <<room, chan, net, games, quits>>

LobbySeesGame(p) ==
    /\ Idle(p) /\ main[p].screen = "LOBBY" /\ net[p].state = "IN_GAME"
    /\ SetMain(p, [main[p] EXCEPT !.screen = "GAME", !.at = "create", !.game = net[p].game])
    /\ UNCHANGED <<room, chan, net, games, quits>>

\* Mutant: a place for every number.
CreateGame_AnyNumber(p) ==
    /\ main[p].at = "create"
    /\ SetMain(p, [main[p] EXCEPT !.at = "idle", !.slots = net[p].players])
    /\ UNCHANGED <<room, chan, net, games, quits>>

\* GetConnectedPlayers, the constructor and Begin.  A number past the array is
\* an out of bounds write: nothing visible here, or the end of the program.
CreateGame(p) ==
    /\ main[p].at = "create"
    /\ SetMain(p, [main[p] EXCEPT !.at = "idle", !.slots = net[p].players \cap 1..MaxPlayers])
    /\ UNCHANGED <<room, chan, net, games, quits>>

\* Mutant: the master stays in the game.
GameFirstRead_Followers(p) ==
    /\ Idle(p) /\ main[p].screen = "GAME"
    /\ SetMain(p, IF net[p].state = "IN_ROOM" /\ ~net[p].isMaster
                  THEN [NewMain("LOBBY") EXCEPT !.at = "ping"] ELSE [main[p] EXCEPT !.at = "ping"])
    /\ UNCHANGED <<room, chan, net, games, quits>>

\* The first read: IN_ROOM ends and destroys the game.
GameFirstRead(p) ==
    /\ Idle(p) /\ main[p].screen = "GAME"
    /\ SetMain(p, IF net[p].state = "IN_ROOM" THEN [NewMain("LOBBY") EXCEPT !.at = "ping"]
                                              ELSE [main[p] EXCEPT !.at = "ping"])
    /\ UNCHANGED <<room, chan, net, games, quits>>

\* The rest of the same update asks the game for its intro time unless this
\* peer is the master.  There may be no game any more: reading through the null
\* pointer gives any value, or ends the program (Crash below).
GamePing(p) ==
    /\ main[p].at = "ping"
    /\ SetMain(p, [main[p] EXCEPT !.at = "idle"])
    /\ UNCHANGED <<room, chan, net, games, quits>>

ReadsNull(p) == main[p].at = "ping" /\ ~net[p].isMaster /\ main[p].game = NoGame
WritesOutOfBounds(p) == main[p].at = "create" /\ ~(net[p].players \subseteq 1..MaxPlayers)

InFlight(p) == Len(SelectSeq(net[p].tasks, LAMBDA task : task.do = "confirm"))
               + FoldSet(LAMBDA q, n : n + Len(SelectSeq(chan[q], LAMBDA e : e.what = "confirm")), 0, Peers)

\* A running game: the master queues a confirm packet, everybody imports what
\* the mailbox holds.  A packet of another game is taken for a desync.
SendConfirm(p) ==
    /\ Idle(p) /\ main[p].screen = "GAME" /\ ~main[p].desync
    /\ net[p].isMaster /\ InFlight(p) < MaxQueue
    /\ Queue(p, [do |-> "confirm", game |-> main[p].game])
    /\ UNCHANGED <<room, chan, main, games, quits>>

Import(p) ==
    /\ Idle(p) /\ main[p].screen = "GAME" /\ ~main[p].desync
    /\ net[p].mailbox # {}
    /\ SetNet(p, [net[p] EXCEPT !.mailbox = {}])
    /\ SetMain(p, [main[p] EXCEPT !.desync = net[p].mailbox # {main[p].game}])
    /\ UNCHANGED <<room, chan, games, quits>>

-----------------------------------------------------------------------------
(* The network thread: the events of the connection and the tasks. *)

Awake(p) == Alive(p) /\ net[p].running /\ ~net[p].halfJoined

onAvailableRegions(p) ==
    /\ Awake(p) /\ net[p].link = "down"
    /\ SetNet(p, [net[p] EXCEPT !.link = "regions", !.state = "CHOOSING_REGIONS"])
    /\ UNCHANGED <<room, chan, main, games, quits>>

connectReturn(p) ==
    /\ Awake(p) /\ net[p].link = "selected"
    /\ SetNet(p, [net[p] EXCEPT !.link = "up", !.state = "CONNECTED_TO_MASTER"])
    /\ UNCHANGED <<room, chan, main, games, quits>>

HasTask(p, what) == Awake(p) /\ net[p].tasks # <<>> /\ Head(net[p].tasks).do = what

\* The library takes the first choice and ignores a second one.
RunRegion(p) ==
    /\ HasTask(p, "region")
    /\ SetNet(p, [net[p] EXCEPT !.tasks = Tail(@),
                                !.link = IF @ = "regions" THEN "selected" ELSE @])
    /\ UNCHANGED <<room, chan, main, games, quits>>

\* A join, a leave or another start is on its way to somebody.
Unsettled == \E p \in Peers : \/ net[p].halfJoined
                              \/ \E i \in DOMAIN chan[p] : chan[p][i].what # "confirm"

\* Mutant: the room stays open during a game.
RunStart_StaysOpen(p) ==
    LET again == net[p].state = "IN_GAME"
        g == IF again THEN net[p].game ELSE Len(games) + 1
    IN /\ HasTask(p, "start")
       /\ SetNet(p, [net[p] EXCEPT !.tasks = Tail(@), !.state = "IN_GAME", !.game = g])
       /\ chan' = IF Seated(p) THEN Sent(Others(p), [what |-> "start", game |-> g]) ELSE chan
       /\ games' = IF again THEN [games EXCEPT ![g].settled = FALSE]
                   ELSE Append(games, [members |-> room.members, settled |-> ~Unsettled, whole |-> Seated(p)])
       /\ UNCHANGED <<room, main, quits>>

RunStart(p) ==
    LET again == net[p].state = "IN_GAME"     \* a second press: the same game
        g == IF again THEN net[p].game ELSE Len(games) + 1
    IN /\ HasTask(p, "start")
       /\ SetNet(p, [net[p] EXCEPT !.tasks = Tail(@), !.state = "IN_GAME", !.game = g])
       /\ room' = IF Seated(p) THEN [room EXCEPT !.open = FALSE] ELSE room
       /\ chan' = IF Seated(p) THEN Sent(Others(p), [what |-> "start", game |-> g]) ELSE chan
       /\ games' = IF again THEN [games EXCEPT ![g].settled = FALSE]
                   ELSE Append(games, [members |-> room.members, settled |-> ~Unsettled, whole |-> Seated(p)])
       /\ UNCHANGED <<main, quits>>

RunConfirm(p) ==
    /\ HasTask(p, "confirm")
    /\ SetNet(p, [net[p] EXCEPT !.tasks = Tail(@)])
    /\ chan' = IF Seated(p) THEN Sent(Others(p), [what |-> "confirm", game |-> Head(net[p].tasks).game])
                            ELSE chan
    /\ UNCHANGED <<room, main, games, quits>>

-----------------------------------------------------------------------------
(* The network thread: the events of the room. *)

HasEvent(p, what) == Awake(p) /\ chan[p] # <<>> /\ Head(chan[p]).what = what
Handled(p) == chan' = [chan EXCEPT ![p] = Tail(@)]

\* The state is stored before the index and the role.
joinRoomEventAction(p) ==
    /\ HasEvent(p, "join")
    /\ LET mine == net[p].state = "JOINING"
       IN SetNet(p, [net[p] EXCEPT !.players = Head(chan[p]).members,
                                   !.halfJoined = mine,
                                   !.state = IF mine THEN "IN_ROOM" ELSE @])
    /\ Handled(p)
    /\ UNCHANGED <<room, main, games, quits>>

FinishJoin(p) ==
    /\ Alive(p) /\ net[p].halfJoined
    /\ SetNet(p, [net[p] EXCEPT !.halfJoined = FALSE, !.index = room.seat[p],
                                !.isMaster = Master(net[p].players) = room.seat[p]])
    /\ UNCHANGED <<room, chan, main, games, quits>>

\* Mutants: the role stays as it was; only the master goes back to the room.
leaveRoomEventAction_SameMaster(p) ==
    /\ HasEvent(p, "leave")
    /\ LET played == net[p].state = "IN_GAME"
       IN /\ SetNet(p, [net[p] EXCEPT !.players = @ \ {Head(chan[p]).who},
                                      !.state = IF played THEN "IN_ROOM" ELSE @,
                                      !.game = IF played THEN NoGame ELSE @])
          /\ room' = [room EXCEPT !.open = @ \/ played]
    /\ Handled(p)
    /\ UNCHANGED <<main, games, quits>>

leaveRoomEventAction_OnlyMaster(p) ==
    /\ HasEvent(p, "leave")
    /\ LET remain == net[p].players \ {Head(chan[p]).who}
           played == net[p].state = "IN_GAME" /\ Master(remain) = net[p].index
       IN /\ SetNet(p, [net[p] EXCEPT !.players = remain,
                                      !.isMaster = Master(remain) = net[p].index,
                                      !.state = IF played THEN "IN_ROOM" ELSE @,
                                      !.game = IF played THEN NoGame ELSE @])
          /\ room' = [room EXCEPT !.open = @ \/ played]
    /\ Handled(p)
    /\ UNCHANGED <<main, games, quits>>

\* Anybody who leaves ends the game and opens the room again.
leaveRoomEventAction(p) ==
    /\ HasEvent(p, "leave")
    /\ LET remain == net[p].players \ {Head(chan[p]).who}
           played == net[p].state = "IN_GAME"
       IN /\ SetNet(p, [net[p] EXCEPT !.players = remain,
                                      !.isMaster = Master(remain) = net[p].index,
                                      !.state = IF played THEN "IN_ROOM" ELSE @,
                                      !.game = IF played THEN NoGame ELSE @])
          /\ room' = [room EXCEPT !.open = @ \/ played]
    /\ Handled(p)
    /\ UNCHANGED <<main, games, quits>>

customEventStart(p) ==
    /\ HasEvent(p, "start")
    /\ SetNet(p, IF net[p].state = "IN_ROOM"
                 THEN [net[p] EXCEPT !.state = "IN_GAME", !.game = Head(chan[p]).game]
                 ELSE net[p])
    /\ Handled(p)
    /\ UNCHANGED <<room, main, games, quits>>

customEventConfirm(p) ==
    /\ HasEvent(p, "confirm")
    /\ SetNet(p, IF net[p].state = "IN_GAME"
                 THEN [net[p] EXCEPT !.mailbox = @ \cup {Head(chan[p]).game}]
                 ELSE net[p])
    /\ Handled(p)
    /\ UNCHANGED <<room, main, games, quits>>

-----------------------------------------------------------------------------
(* The server (external), and the end of a program or of its connection. *)

ServerJoins(p) ==
    LET members == room.members \cup {room.next}
    IN /\ Alive(p) /\ p \in room.asked /\ room.open /\ Cardinality(room.members) < MaxPlayers
       /\ room' = [room EXCEPT !.members = members, !.next = @ + 1,
                               !.seat[p] = room.next, !.asked = @ \ {p}]
       /\ chan' = Sent(Others(p) \cup {p}, [what |-> "join", members |-> members])
       /\ UNCHANGED <<net, main, games, quits>>

\* The seat of p is taken from it and the others are told.  An empty room is
\* removed: the next join creates a new one.
ServerDrops(p) ==
    LET seat == [room.seat EXCEPT ![p] = NotSeated]
        members == room.members \ {room.seat[p]}
    IN /\ Seated(p)
       /\ room' = IF members = {} THEN [EmptyRoom(seat) EXCEPT !.asked = room.asked]
                                  ELSE [room EXCEPT !.members = members, !.seat = seat]
       /\ chan' = [Sent(Others(p), [what |-> "leave", who |-> room.seat[p]]) EXCEPT ![p] = <<>>]
       /\ games' = [g \in DOMAIN games |-> [games[g] EXCEPT !.whole = FALSE]]

\* bound: how many leave or lose their connection; crashes follow from them.
Counted == quits < MaxQuits /\ quits' = quits + 1

Gone(p) ==
    /\ SetNet(p, NewNet)
    /\ SetMain(p, NewMain("GONE"))

\* disconnectReturn changes nothing: the program stays in its state.
LoseConnection(p) ==
    /\ Alive(p) /\ ~net[p].halfJoined /\ Counted /\ ServerDrops(p)
    /\ UNCHANGED <<net, main>>

Quit(p) == Idle(p) /\ Counted /\ ServerDrops(p) /\ Gone(p)

Crash(p) == (ReadsNull(p) \/ WritesOutOfBounds(p)) /\ ServerDrops(p) /\ Gone(p)
            /\ UNCHANGED quits

-----------------------------------------------------------------------------
MainStep(p) == \/ StoreConnecting(p) \/ LogoOver(p) \/ LobbySeesGame(p) \/ CreateGame(p)
               \/ GameFirstRead(p) \/ GamePing(p)
NetworkStep(p) == \/ onAvailableRegions(p) \/ connectReturn(p)
                  \/ RunRegion(p) \/ RunStart(p) \/ RunConfirm(p)
                  \/ joinRoomEventAction(p) \/ FinishJoin(p) \/ leaveRoomEventAction(p)
                  \/ customEventStart(p) \/ customEventConfirm(p)
UserStep(p) == \/ PressConnect(p) \/ PressRegion(p) \/ PressJoin(p) \/ PressStart(p)
               \/ SendConfirm(p) \/ Import(p)
               \/ LoseConnection(p) \/ Quit(p) \/ Crash(p)

Next == \E p \in Peers : MainStep(p) \/ NetworkStep(p) \/ UserStep(p) \/ ServerJoins(p)

Spec == Init /\ [][Next]_vars

\* Both threads of a program keep running and the server answers; nobody has to press
\* a button, send or leave.
FairSpec == Spec /\ \A p \in Peers : WF_vars(MainStep(p)) /\ WF_vars(NetworkStep(p))
                                     /\ WF_vars(ServerJoins(p))

-----------------------------------------------------------------------------
States == {"UNCONNECTED", "CONNECTING", "CHOOSING_REGIONS", "CONNECTED_TO_MASTER",
           "JOINING", "IN_ROOM", "IN_GAME"}
Numbers == 1..Cardinality(Peers)

\* Every variable keeps its type; queues and counters stay within the bounds.
TypeOK ==
    /\ \A p \in Peers :
          /\ net[p].state \in States /\ net[p].link \in {"down", "regions", "selected", "up"}
          /\ net[p].players \subseteq Numbers /\ net[p].index \in Numbers \cup {NotSeated}
          /\ net[p].mailbox \subseteq DOMAIN games /\ net[p].game \in DOMAIN games \cup {NoGame}
          /\ main[p].screen \in {"LOGO", "LOBBY", "GAME", "GONE"}
          /\ main[p].at \in {"idle", "connect", "create", "ping"}
          /\ main[p].slots \subseteq 1..MaxPlayers
          /\ main[p].game \in DOMAIN games \cup {NoGame}
    /\ room.members = {room.seat[p] : p \in {q \in Peers : Seated(q)}}
    /\ Cardinality(room.members) <= MaxPlayers /\ Len(games) <= MaxGames /\ quits <= MaxQuits

\* A peer is past the choice of the region exactly while it is connected: no late
\* callback and no late store throws it back (connectReturn, client.cpp:238).
StateFollowsLink ==
    \A p \in Peers : (net[p].link = "up") <=>
        (net[p].state \in {"CONNECTED_TO_MASTER", "JOINING", "IN_ROOM", "IN_GAME"})

\* Nothing is under way: every event of the room is handled and no start is queued.
Quiet == \A p \in Peers : Seated(p) => /\ chan[p] = <<>> /\ ~net[p].halfJoined
                                       /\ StartsOf(p) = {}
AllSettled == \A g \in DOMAIN games : games[g].settled

\* Once every event is handled exactly one member of the room takes itself for the
\* master (isMaster_, client.cpp:127 and 135), whoever joined and left in between.
OneMaster == Quiet => \A p \in Peers : Seated(p) =>
                         (net[p].isMaster <=> room.seat[p] = Master(room.members))

\* If no join or leave was on its way at any start and no start was pressed twice, all
\* members are in the game or all are back in the room once every event is handled.
SameState == Quiet /\ AllSettled => \A p, q \in Peers : Seated(p) /\ Seated(q) =>
                                       net[p].state = net[q].state

\* Two peers of one game have created it with the same players, those of its start:
\* the room is closed before the start is sent, though every peer reads its own list
\* later (GetConnectedPlayers, client.cpp:472).
SlotsAgree ==
    \A p \in Peers : LET g == main[p].game IN
        /\ g # NoGame /\ main[p].at # "create"
        /\ games[g].settled /\ games[g].whole /\ games[g].members \subseteq 1..MaxPlayers
        => main[p].slots = games[g].members

\* The update that destroys the game goes on and asks it for the intro time unless the
\* peer is the master (splash.cpp:97-108).  The last player of a room is safe: it has
\* become the master before its state says that the game is over (client.cpp:135-138).
LastPlayerSurvives == \A p \in Peers : ReadsNull(p) => Cardinality(net[p].players) >= 2

\* Whoever joined, started or left: roles, states and the players of a game agree.
SessionSound == TypeOK /\ OneMaster /\ SameState /\ SlotsAgree /\ LastPlayerSurvives

\* A start reaches every member of the room: each gets a game, unless somebody leaves
\* or another event of the room was under way.
StartReachesAll ==
    \A g \in 1..MaxGames :
        LET whole == g \in DOMAIN games /\ games[g].settled /\ games[g].whole
        IN whole ~> (~whole \/ \A p \in Peers : room.seat[p] \in games[g].members => main[p].game # NoGame)

\* A peer that is back in the room destroys its game, unless the next one has begun.
LeavesGame == \A p \in Peers : (Alive(p) /\ net[p].state = "IN_ROOM")
                                 ~> (main[p].game = NoGame \/ net[p].state = "IN_GAME")

\* "Connecting..." does not last for ever (client.cpp:311).  The code does not keep it:
\* the store of CONNECTING may come after the network thread's own.
ConnectingEnds == \A p \in Peers : net[p].state = "CONNECTING" ~> net[p].state # "CONNECTING"

\* "Desync happened" (game_manager.cpp:446) is said of a game only for packets of it.
OnlyRealDesync == \A p \in Peers : ~main[p].desync
=============================================================================
