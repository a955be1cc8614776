---------------------------- MODULE Session_proofs ----------------------------
(***************************************************************************)
(* Connection, room and screens, for any number of peers, places in a room *)
(* and games: the state follows the link, one member of a room takes       *)
(* itself for the master, and the peers of a game agree on its players.    *)
(***************************************************************************)
EXTENDS Session, FiniteSetTheorems, SequenceTheorems, TLAPS

\* What the queues and the records of a peer hold.
Event == [what : {"join"}, members : SUBSET Nat] \cup [what : {"leave"}, who : Nat]
         \cup [what : {"start", "confirm"}, game : Nat]
Task == [do : {"region", "start"}] \cup [do : {"confirm"}, game : Nat]

Client == [state : States, link : {"down", "regions", "selected", "up"},
           running : BOOLEAN, isMaster : BOOLEAN, index : Nat, players : SUBSET Nat,
           halfJoined : BOOLEAN, tasks : Seq(Task), mailbox : SUBSET Nat, game : Nat]
Screen == [screen : {"LOGO", "LOBBY", "GAME", "GONE"}, at : {"idle", "connect", "create", "ping"},
           game : Nat, slots : SUBSET (1 .. MaxPlayers), desync : BOOLEAN]
Room == [members : SUBSET Nat, open : BOOLEAN, next : Nat \ {0}, seat : [Peers -> Nat],
         asked : SUBSET Peers]
Start == [members : SUBSET Nat, settled : BOOLEAN, whole : BOOLEAN]

Shape == /\ room \in Room /\ chan \in [Peers -> Seq(Event)]
         /\ net \in [Peers -> Client] /\ main \in [Peers -> Screen]
         /\ games \in Seq(Start) /\ quits \in 0 .. MaxQuits

\* The order in which a peer joined: a place in InRoom, or 0.
LEMMA SeatOfFacts ==
  ASSUME NEW p \in Peers
  PROVE  /\ SeatOf(p) \in 0 .. Len(InRoom)
         /\ SeatOf(p) # 0 => InRoom[SeatOf(p)] = p
         /\ \A i \in 1 .. Len(InRoom) : InRoom[i] = p => SeatOf(p) = i
<1> DEFINE I == {i \in 1 .. Len(InRoom) : InRoom[i] = p}
<1>0. Len(InRoom) \in Nat /\ DOMAIN InRoom = 1 .. Len(InRoom)
  BY SessionAssumption, LenProperties
<1>1. SeatOf(p) = IF I # {} THEN Min(I) ELSE 0
  BY DEF SeatOf, SelectInSeq
<1>2. \A i, j \in I : i = j
  BY <1>0, SessionAssumption
<1>3. \A i \in I : Min(I) = i
  <2>1. ASSUME NEW i \in I PROVE Min(I) = i
    <3>1. I = {i} /\ i \in Nat
      BY <1>0, <1>2
    <3> QED
      BY <3>1 DEF Min
  <2> QED BY <2>1
<1> QED
  BY <1>0, <1>1, <1>3

\* The client of a peer that starts at the logo, in the lobby, in the room.
LEMMA FirstClients ==
  /\ NewNet.state = "UNCONNECTED" /\ NewNet.link = "down" /\ NewNet.tasks = <<>>
  /\ ~NewNet.halfJoined /\ NewNet.players = {} /\ NewNet.game = 0 /\ NewNet.mailbox = {}
  /\ Connected.state = "CONNECTED_TO_MASTER" /\ Connected.link = "up" /\ Connected.tasks = <<>>
  /\ ~Connected.halfJoined /\ Connected.players = {} /\ Connected.game = 0
  /\ Connected.mailbox = {}
  /\ \A p : /\ Joined(p).state = "IN_ROOM" /\ Joined(p).link = "up" /\ Joined(p).tasks = <<>>
            /\ ~Joined(p).halfJoined /\ Joined(p).players = DOMAIN InRoom
            /\ Joined(p).game = 0 /\ Joined(p).mailbox = {} /\ Joined(p).index = SeatOf(p)
            /\ Joined(p).isMaster = (SeatOf(p) = 1)
<1>1. /\ NewNet.state = "UNCONNECTED" /\ NewNet.link = "down" /\ NewNet.tasks = <<>>
      /\ ~NewNet.halfJoined /\ NewNet.players = {} /\ NewNet.game = 0 /\ NewNet.mailbox = {}
  BY DEF NewNet, NoGame
<1>2. Connected = [state |-> "CONNECTED_TO_MASTER", link |-> "up", running |-> TRUE,
                   isMaster |-> TRUE, index |-> NotSeated, players |-> {},
                   halfJoined |-> FALSE, tasks |-> <<>>, mailbox |-> {}, game |-> NoGame]
  <2> DEFINE n == NewNet
  <2>1. n = [state |-> "UNCONNECTED", link |-> "down", running |-> FALSE,
             isMaster |-> TRUE, index |-> NotSeated, players |-> {},
             halfJoined |-> FALSE, tasks |-> <<>>, mailbox |-> {}, game |-> NoGame]
    BY DEF NewNet
  <2>2. Connected = [n EXCEPT !.state = "CONNECTED_TO_MASTER", !.link = "up", !.running = TRUE]
    BY DEF Connected
  <2> HIDE DEF n
  <2> QED
    BY <2>1, <2>2
<1>3. ASSUME NEW p
      PROVE  Joined(p) = [state |-> "IN_ROOM", link |-> "up", running |-> TRUE,
                          isMaster |-> (SeatOf(p) = 1), index |-> SeatOf(p),
                          players |-> DOMAIN InRoom, halfJoined |-> FALSE, tasks |-> <<>>,
                          mailbox |-> {}, game |-> NoGame]
  <2> DEFINE n == Connected
             seat == SeatOf(p)
             here == DOMAIN InRoom
  <2>1. Joined(p) = [n EXCEPT !.state = "IN_ROOM", !.players = here, !.index = seat,
                              !.isMaster = (seat = 1)]
    BY DEF Joined
  <2>2. n = [state |-> "CONNECTED_TO_MASTER", link |-> "up", running |-> TRUE,
             isMaster |-> TRUE, index |-> NotSeated, players |-> {},
             halfJoined |-> FALSE, tasks |-> <<>>, mailbox |-> {}, game |-> NoGame]
    BY <1>2
  <2> HIDE DEF n, seat, here
  <2>3. Joined(p) = [state |-> "IN_ROOM", link |-> "up", running |-> TRUE,
                     isMaster |-> (seat = 1), index |-> seat, players |-> here,
                     halfJoined |-> FALSE, tasks |-> <<>>, mailbox |-> {}, game |-> NoGame]
    BY <2>1, <2>2
  <2> QED
    BY <2>3 DEF seat, here
<1> QED
  BY <1>1, <1>2, <1>3 DEF NoGame

LEMMA ShapeInitially == Init => Shape
<1> SUFFICES ASSUME Init PROVE Shape
  OBVIOUS
<1>1. /\ Len(InRoom) \in Nat /\ DOMAIN InRoom = 1 .. Len(InRoom)
      /\ \A p \in Peers : SeatOf(p) \in Nat
      /\ <<>> \in Seq(Event) /\ <<>> \in Seq(Task) /\ <<>> \in Seq(Start)
  BY SessionAssumption, SeatOfFacts, LenProperties, EmptySeq
<1>2. room \in Room
  <2> DEFINE seat == [p \in Peers |-> SeatOf(p)]
  <2>1. seat \in [Peers -> Nat] /\ Len(InRoom) + 1 \in Nat \ {0} /\ 1 .. Len(InRoom) \subseteq Nat
    BY <1>1
  <2>2. room = [EmptyRoom(seat) EXCEPT !.members = 1 .. Len(InRoom), !.next = Len(InRoom) + 1]
    BY <1>1 DEF Init
  <2> HIDE DEF seat
  <2> QED
    BY <2>1, <2>2 DEF EmptyRoom, Room
<1>3. chan \in [Peers -> Seq(Event)] /\ games \in Seq(Start) /\ quits \in 0 .. MaxQuits
  BY <1>1, SessionAssumption DEF Init
<1>4. NewNet \in Client /\ Connected \in Client
  BY <1>1 DEF NewNet, Connected, Client, States, NotSeated, NoGame
<1>5. ASSUME NEW p \in Peers PROVE Joined(p) \in Client
  <2> DEFINE seat == SeatOf(p)
             here == 1 .. Len(InRoom)
  <2>1. seat \in Nat /\ here \subseteq Nat
    BY <1>1
  <2>2. Joined(p) = [Connected EXCEPT !.state = "IN_ROOM", !.players = here,
                                      !.index = seat, !.isMaster = (seat = 1)]
    BY <1>1 DEF Joined
  <2> HIDE DEF seat, here
  <2> QED
    BY <1>4, <2>1, <2>2 DEF Client, States
<1>6. net \in [Peers -> Client]
  BY <1>4, <1>5 DEF Init
<1>7. main \in [Peers -> Screen]
  BY DEF Init, NewMain, Screen, NoGame
<1> QED
  BY <1>2, <1>3, <1>6, <1>7 DEF Shape

\* What is known of one peer.
LEMMA PeerShape ==
  ASSUME Shape, NEW p \in Peers
  PROVE  /\ net[p] \in Client /\ net[p].players \in SUBSET Nat /\ net[p].index \in Nat
         /\ net[p].game \in Nat /\ net[p].state \in States /\ net[p].mailbox \in SUBSET Nat
         /\ net[p].isMaster \in BOOLEAN /\ net[p].halfJoined \in BOOLEAN
         /\ net[p].tasks \in Seq(Task) /\ Len(net[p].tasks) \in Nat
         /\ DOMAIN net[p].tasks = 1 .. Len(net[p].tasks)
         /\ main[p] \in Screen /\ main[p].game \in Nat /\ main[p].slots \subseteq 1 .. MaxPlayers
         /\ chan[p] \in Seq(Event) /\ Len(chan[p]) \in Nat
         /\ DOMAIN chan[p] = 1 .. Len(chan[p])
         /\ room.seat \in [Peers -> Nat] /\ room.seat[p] \in Nat /\ room.next \in Nat \ {0}
         /\ room.members \in SUBSET Nat /\ room.open \in BOOLEAN /\ room.asked \in SUBSET Peers
         /\ games \in Seq(Start) /\ Len(games) \in Nat /\ DOMAIN games = 1 .. Len(games)
<1>1. net[p] \in Client /\ main[p] \in Screen /\ chan[p] \in Seq(Event) /\ room \in Room
      /\ games \in Seq(Start)
  BY DEF Shape
<1>2. net[p].tasks \in Seq(Task)
  BY <1>1 DEF Client
<1>3. /\ Len(net[p].tasks) \in Nat /\ DOMAIN net[p].tasks = 1 .. Len(net[p].tasks)
      /\ Len(chan[p]) \in Nat /\ DOMAIN chan[p] = 1 .. Len(chan[p])
      /\ Len(games) \in Nat /\ DOMAIN games = 1 .. Len(games)
  BY <1>1, <1>2, LenProperties
<1> QED
  BY <1>1, <1>2, <1>3 DEF Client, Screen, Room

\* What is left of a queue that is not empty, and what its first element is.
LEMMA QueueFacts ==
  ASSUME NEW S, NEW s \in Seq(S), s # <<>>
  PROVE  /\ Head(s) = s[1] /\ s[1] \in S /\ Tail(s) \in Seq(S) /\ Len(s) \in Nat \ {0}
         /\ Len(Tail(s)) = Len(s) - 1
         /\ \A i \in 1 .. Len(s) - 1 : Tail(s)[i] = s[i + 1] /\ i + 1 \in 1 .. Len(s)
         /\ DOMAIN s = 1 .. Len(s) /\ DOMAIN Tail(s) = 1 .. Len(s) - 1
<1>1. Len(s) \in Nat \ {0} /\ DOMAIN s = 1 .. Len(s)
  BY EmptySeq, LenProperties
<1>2. Head(s) = s[1] /\ Tail(s) \in Seq(S) /\ Len(Tail(s)) = Len(s) - 1
  BY HeadTailProperties
<1>3. DOMAIN Tail(s) = 1 .. Len(s) - 1
  BY <1>2, LenProperties
<1>4. \A i \in 1 .. Len(s) - 1 : Tail(s)[i] = s[i + 1]
  BY <1>1, HeadTailProperties
<1>5. s[1] \in S
  BY <1>1, ElementOfSeq
<1> QED
  BY <1>1, <1>2, <1>3, <1>4, <1>5

\* What the server sends to some peers comes last.
LEMMA SentFacts ==
  ASSUME Shape, NEW T, NEW e \in Event, NEW q \in Peers
  PROVE  /\ Sent(T, e) \in [Peers -> Seq(Event)]
         /\ Sent(T, e)[q] = IF q \in T THEN Append(chan[q], e) ELSE chan[q]
         /\ Append(chan[q], e) \in Seq(Event) /\ Len(Append(chan[q], e)) = Len(chan[q]) + 1
         /\ DOMAIN Append(chan[q], e) = 1 .. Len(chan[q]) + 1
         /\ \A i \in 1 .. Len(chan[q]) : Append(chan[q], e)[i] = chan[q][i]
         /\ Append(chan[q], e)[Len(chan[q]) + 1] = e
<1>1. \A r \in Peers : chan[r] \in Seq(Event)
  BY DEF Shape
<1>2. \A r \in Peers : Append(chan[r], e) \in Seq(Event)
  BY <1>1, AppendProperties
<1>3. /\ Len(Append(chan[q], e)) = Len(chan[q]) + 1
      /\ \A i \in 1 .. Len(chan[q]) : Append(chan[q], e)[i] = chan[q][i]
      /\ Append(chan[q], e)[Len(chan[q]) + 1] = e
  BY <1>1, AppendProperties
<1>4. DOMAIN Append(chan[q], e) = 1 .. Len(chan[q]) + 1
  BY <1>2, <1>3, LenProperties
<1> QED
  BY <1>1, <1>2, <1>3, <1>4 DEF Sent

\* A peer that changes its own records and nothing else.
LEMMA OwnKept ==
  ASSUME Shape, NEW p \in Peers, NEW c \in Client, NEW m \in Screen,
         net' = [net EXCEPT ![p] = c], main' = [main EXCEPT ![p] = m],
         room' \in Room, chan' \in [Peers -> Seq(Event)], games' \in Seq(Start),
         quits' \in 0 .. MaxQuits
  PROVE  Shape'
BY DEF Shape

LEMMA QueueKept ==
  ASSUME Shape, NEW p \in Peers, NEW task \in Task
  PROVE  [net[p] EXCEPT !.tasks = Append(@, task)] \in Client
<1>1. net[p] \in Client /\ Append(net[p].tasks, task) \in Seq(Task)
  BY PeerShape, AppendProperties
<1> QED
  BY <1>1 DEF Client

\* The steps of the main thread and the buttons.
LEMMA MainShape ==
  ASSUME Shape, NEW p \in Peers, MainStep(p)
  PROVE  Shape'
<1>0. /\ net[p] \in Client /\ main[p] \in Screen /\ net = [net EXCEPT ![p] = net[p]]
      /\ main = [main EXCEPT ![p] = main[p]] /\ net[p].game \in Nat
      /\ net[p].players \cap 1 .. MaxPlayers \subseteq 1 .. MaxPlayers
  BY PeerShape DEF Shape
<1>1. NewMain("LOBBY") \in Screen /\ [NewMain("LOBBY") EXCEPT !.at = "ping"] \in Screen
  BY DEF NewMain, Screen, NoGame
<1>2. CASE StoreConnecting(p)
  <2>1. [net[p] EXCEPT !.state = "CONNECTING"] \in Client /\ [main[p] EXCEPT !.at = "idle"] \in Screen
    BY <1>0 DEF Client, Screen, States
  <2> QED
    BY <1>2, <2>1, OwnKept DEF StoreConnecting, SetNet, SetMain, Shape
<1>3. CASE LogoOver(p)
  <2>1. [main[p] EXCEPT !.screen = "LOBBY"] \in Screen
    BY <1>0 DEF Screen
  <2> QED
    BY <1>0, <1>3, <2>1, OwnKept DEF LogoOver, SetMain, Shape
<1>4. CASE LobbySeesGame(p)
  <2>1. [main[p] EXCEPT !.screen = "GAME", !.at = "create", !.game = net[p].game] \in Screen
    BY <1>0 DEF Screen
  <2> QED
    BY <1>0, <1>4, <2>1, OwnKept DEF LobbySeesGame, SetMain, Shape
<1>5. CASE CreateGame(p)
  <2>1. [main[p] EXCEPT !.at = "idle", !.slots = net[p].players \cap 1 .. MaxPlayers] \in Screen
    BY <1>0 DEF Screen
  <2> QED
    BY <1>0, <1>5, <2>1, OwnKept DEF CreateGame, SetMain, Shape
<1>6. CASE GameFirstRead(p)
  <2>1. [main[p] EXCEPT !.at = "ping"] \in Screen
    BY <1>0 DEF Screen
  <2> QED
    BY <1>0, <1>1, <1>6, <2>1, OwnKept DEF GameFirstRead, SetMain, Shape
<1>7. CASE GamePing(p)
  <2>1. [main[p] EXCEPT !.at = "idle"] \in Screen
    BY <1>0 DEF Screen
  <2> QED
    BY <1>0, <1>7, <2>1, OwnKept DEF GamePing, SetMain, Shape
<1> QED
  BY <1>2, <1>3, <1>4, <1>5, <1>6, <1>7 DEF MainStep

\* The first event of a peer and what is left when it is handled.
LEMMA HandledFacts ==
  ASSUME Shape, NEW p \in Peers, chan[p] # <<>>
  PROVE  /\ [chan EXCEPT ![p] = Tail(chan[p])] \in [Peers -> Seq(Event)]
         /\ Head(chan[p]) = chan[p][1] /\ Head(chan[p]) \in Event
         /\ Tail(chan[p]) \in Seq(Event) /\ Len(chan[p]) \in Nat \ {0}
         /\ Len(Tail(chan[p])) = Len(chan[p]) - 1
         /\ DOMAIN chan[p] = 1 .. Len(chan[p]) /\ DOMAIN Tail(chan[p]) = 1 .. Len(chan[p]) - 1
         /\ \A i \in 1 .. Len(chan[p]) - 1 :
              Tail(chan[p])[i] = chan[p][i + 1] /\ i + 1 \in 1 .. Len(chan[p])
<1>1. chan[p] \in Seq(Event) /\ chan \in [Peers -> Seq(Event)]
  BY PeerShape DEF Shape
<1> QED
  BY <1>1, QueueFacts

\* The first task of a peer and what is left when it has run.
LEMMA TaskFacts ==
  ASSUME Shape, NEW p \in Peers, net[p].tasks # <<>>
  PROVE  /\ Head(net[p].tasks) = net[p].tasks[1] /\ Head(net[p].tasks) \in Task
         /\ Tail(net[p].tasks) \in Seq(Task) /\ Len(net[p].tasks) \in Nat \ {0}
         /\ Len(Tail(net[p].tasks)) = Len(net[p].tasks) - 1
         /\ DOMAIN Tail(net[p].tasks) = 1 .. Len(net[p].tasks) - 1
         /\ \A i \in 1 .. Len(net[p].tasks) - 1 :
              /\ Tail(net[p].tasks)[i] = net[p].tasks[i + 1]
              /\ i + 1 \in 1 .. Len(net[p].tasks)
BY PeerShape, QueueFacts

LEMMA EventKinds ==
  ASSUME NEW e \in Event
  PROVE  /\ e.what = "join" => e.members \in SUBSET Nat
         /\ e.what = "leave" => e.who \in Nat
         /\ e.what \in {"start", "confirm"} => e.game \in Nat
         /\ e.what \in {"join", "leave", "start", "confirm"}
BY DEF Event

\* The history of the starts when a flag of theirs is taken back.
LEMMA FlagsKept ==
  ASSUME NEW s \in Seq(Start)
  PROVE  /\ DOMAIN s = 1 .. Len(s) /\ Len(s) \in Nat
         /\ \A k \in DOMAIN s : s[k] \in Start
         /\ \A g : /\ [s EXCEPT ![g].settled = FALSE] \in Seq(Start)
                  /\ DOMAIN [s EXCEPT ![g].settled = FALSE] = DOMAIN s
         /\ [g \in DOMAIN s |-> [s[g] EXCEPT !.whole = FALSE]] \in Seq(Start)
<1>1. Len(s) \in Nat /\ DOMAIN s = 1 .. Len(s)
  BY LenProperties
<1> DEFINE n == Len(s)
<1>2. s \in [1 .. n -> Start]
  BY <1>1, LenProperties
<1>3. \A f \in [1 .. n -> Start] : f \in Seq(Start)
  BY <1>1, SeqDef
<1> HIDE DEF n
<1>4. \A x \in Start : [x EXCEPT !.settled = FALSE] \in Start /\ [x EXCEPT !.whole = FALSE] \in Start
  BY DEF Start
<1>5. ASSUME NEW g
      PROVE  [s EXCEPT ![g].settled = FALSE] \in [1 .. n -> Start]
  <2>1. [s EXCEPT ![g].settled = FALSE] = [s EXCEPT ![g] = [s[g] EXCEPT !.settled = FALSE]]
    OBVIOUS
  <2>2. CASE g \in 1 .. n
    <3> DEFINE x == [s[g] EXCEPT !.settled = FALSE]
    <3>1. x \in Start
      BY <1>2, <1>4, <2>2
    <3> HIDE DEF x
    <3>2. [s EXCEPT ![g] = x] \in [1 .. n -> Start]
      BY <1>2, <3>1
    <3> QED
      BY <2>1, <3>2 DEF x
  <2>3. CASE g \notin 1 .. n
    <3>1. [s EXCEPT ![g] = [s[g] EXCEPT !.settled = FALSE]] = s
      BY <1>2, <2>3
    <3> QED
      BY <1>2, <2>1, <3>1
  <2> QED
    BY <2>2, <2>3
<1>6. [g \in DOMAIN s |-> [s[g] EXCEPT !.whole = FALSE]] \in [1 .. n -> Start]
  BY <1>2, <1>4
<1>7. \A k \in DOMAIN s : s[k] \in Start
  BY <1>2
<1>8. \A g : DOMAIN [s EXCEPT ![g].settled = FALSE] = DOMAIN s
  BY <1>2
<1> QED
  BY <1>1, <1>3, <1>5, <1>6, <1>7, <1>8

LEMMA NetworkShape ==
  ASSUME Shape, NEW p \in Peers, NetworkStep(p)
  PROVE  Shape'
<1>0. /\ net[p] \in Client /\ main[p] \in Screen /\ net = [net EXCEPT ![p] = net[p]]
      /\ main = [main EXCEPT ![p] = main[p]] /\ net[p].game \in Nat /\ room \in Room
      /\ games \in Seq(Start) /\ quits \in 0 .. MaxQuits /\ chan \in [Peers -> Seq(Event)]
      /\ net[p].players \in SUBSET Nat /\ room.seat[p] \in Nat /\ room.open \in BOOLEAN
      /\ Len(games) \in Nat /\ net[p].mailbox \in SUBSET Nat
  BY PeerShape DEF Shape
<1>1. CASE onAvailableRegions(p)
  <2>1. [net[p] EXCEPT !.link = "regions", !.state = "CHOOSING_REGIONS"] \in Client
    BY <1>0 DEF Client, States
  <2> QED
    BY <1>0, <1>1, <2>1, OwnKept DEF onAvailableRegions, SetNet
<1>2. CASE connectReturn(p)
  <2>1. [net[p] EXCEPT !.link = "up", !.state = "CONNECTED_TO_MASTER"] \in Client
    BY <1>0 DEF Client, States
  <2> QED
    BY <1>0, <1>2, <2>1, OwnKept DEF connectReturn, SetNet
<1>3. CASE RunRegion(p)
  <2>1. Tail(net[p].tasks) \in Seq(Task)
    BY <1>3, TaskFacts DEF RunRegion, HasTask
  <2>2. [net[p] EXCEPT !.tasks = Tail(@),
                       !.link = IF @ = "regions" THEN "selected" ELSE @] \in Client
    BY <1>0, <2>1 DEF Client
  <2> QED
    BY <1>0, <1>3, <2>2, OwnKept DEF RunRegion, SetNet
<1>4. CASE RunStart(p)
  <2> DEFINE again == net[p].state = "IN_GAME"
             g == IF again THEN net[p].game ELSE Len(games) + 1
             new == [members |-> room.members, settled |-> ~Unsettled, whole |-> Seated(p)]
  <2>1. Tail(net[p].tasks) \in Seq(Task) /\ g \in Nat
    BY <1>0, <1>4, TaskFacts DEF RunStart, HasTask
  <2>2. [net[p] EXCEPT !.tasks = Tail(@), !.state = "IN_GAME", !.game = g] \in Client
    <3> HIDE DEF g
    <3> QED
      BY <1>0, <2>1 DEF Client, States
  <2>3. chan' \in [Peers -> Seq(Event)]
    <3>1. [what |-> "start", game |-> g] \in Event
      BY <2>1 DEF Event
    <3> HIDE DEF g
    <3>2. Sent(Others(p), [what |-> "start", game |-> g]) \in [Peers -> Seq(Event)]
      BY <3>1, SentFacts
    <3> QED
      BY <1>0, <1>4, <3>2 DEF RunStart, g
  <2>4. games' \in Seq(Start)
    <3>1. new \in Start
      BY <1>0 DEF Room, Start, Unsettled, Seated
    <3>2. Append(games, new) \in Seq(Start)
      BY <1>0, <3>1, AppendProperties
    <3>4. [games EXCEPT ![g].settled = FALSE] \in Seq(Start)
      BY <1>0, FlagsKept
    <3> QED
      BY <1>4, <3>2, <3>4 DEF RunStart
  <2>5. room' \in Room
    BY <1>0, <1>4 DEF RunStart, Room
  <2> HIDE DEF g
  <2> QED
    BY <1>0, <1>4, <2>2, <2>3, <2>4, <2>5, OwnKept DEF RunStart, SetNet, g
<1>5. CASE RunConfirm(p)
  <2>1. Tail(net[p].tasks) \in Seq(Task) /\ Head(net[p].tasks).game \in Nat
    BY <1>5, TaskFacts DEF RunConfirm, HasTask, Task
  <2>2. [net[p] EXCEPT !.tasks = Tail(@)] \in Client
    BY <1>0, <2>1 DEF Client
  <2>3. [what |-> "confirm", game |-> Head(net[p].tasks).game] \in Event
    BY <2>1 DEF Event
  <2>4. chan' \in [Peers -> Seq(Event)]
    BY <1>0, <1>5, <2>3, SentFacts DEF RunConfirm
  <2> QED
    BY <1>0, <1>5, <2>2, <2>4, OwnKept DEF RunConfirm, SetNet
<1>6. CASE joinRoomEventAction(p)
  <2>1. /\ chan' \in [Peers -> Seq(Event)] /\ Head(chan[p]).members \in SUBSET Nat
    BY <1>6, HandledFacts, EventKinds DEF joinRoomEventAction, HasEvent, Handled
  <2>2. [net[p] EXCEPT !.players = Head(chan[p]).members,
                       !.halfJoined = (net[p].state = "JOINING"),
                       !.state = IF net[p].state = "JOINING" THEN "IN_ROOM" ELSE @] \in Client
    BY <1>0, <2>1 DEF Client, States
  <2> QED
    BY <1>0, <1>6, <2>1, <2>2, OwnKept DEF joinRoomEventAction, SetNet
<1>7. CASE FinishJoin(p)
  <2>1. [net[p] EXCEPT !.halfJoined = FALSE, !.index = room.seat[p],
                       !.isMaster = (Master(net[p].players) = room.seat[p])] \in Client
    BY <1>0 DEF Client
  <2> QED
    BY <1>0, <1>7, <2>1, OwnKept DEF FinishJoin, SetNet
<1>8. CASE leaveRoomEventAction(p)
  <2> DEFINE remain == net[p].players \ {Head(chan[p]).who}
             played == net[p].state = "IN_GAME"
  <2>1. chan' \in [Peers -> Seq(Event)]
    BY <1>8, HandledFacts DEF leaveRoomEventAction, HasEvent, Handled
  <2>2. [net[p] EXCEPT !.players = remain, !.isMaster = (Master(remain) = net[p].index),
                       !.state = IF played THEN "IN_ROOM" ELSE @,
                       !.game = IF played THEN NoGame ELSE @] \in Client
    BY <1>0 DEF Client, States, NoGame
  <2>3. room' \in Room
    BY <1>0, <1>8 DEF leaveRoomEventAction, Room
  <2> QED
    BY <1>0, <1>8, <2>1, <2>2, <2>3, OwnKept DEF leaveRoomEventAction, SetNet
<1>9. CASE customEventStart(p)
  <2>1. /\ chan' \in [Peers -> Seq(Event)] /\ Head(chan[p]).game \in Nat
    BY <1>9, HandledFacts, EventKinds DEF customEventStart, HasEvent, Handled
  <2>2. [net[p] EXCEPT !.state = "IN_GAME", !.game = Head(chan[p]).game] \in Client
    BY <1>0, <2>1 DEF Client, States
  <2> QED
    BY <1>0, <1>9, <2>1, <2>2, OwnKept DEF customEventStart, SetNet
<1>10. CASE customEventConfirm(p)
  <2>1. /\ chan' \in [Peers -> Seq(Event)] /\ Head(chan[p]).game \in Nat
    BY <1>10, HandledFacts, EventKinds DEF customEventConfirm, HasEvent, Handled
  <2>2. [net[p] EXCEPT !.mailbox = @ \cup {Head(chan[p]).game}] \in Client
    BY <1>0, <2>1 DEF Client
  <2> QED
    BY <1>0, <1>10, <2>1, <2>2, OwnKept DEF customEventConfirm, SetNet
<1> QED
  BY <1>1, <1>2, <1>3, <1>4, <1>5, <1>6, <1>7, <1>8, <1>9, <1>10, NetworkStep(p)
     DEF NetworkStep

\* What the server does when it drops a peer.
LEMMA DropsShape ==
  ASSUME Shape, NEW p \in Peers, ServerDrops(p)
  PROVE  room' \in Room /\ chan' \in [Peers -> Seq(Event)] /\ games' \in Seq(Start)
<1>0. /\ room \in Room /\ room.seat \in [Peers -> Nat] /\ room.members \in SUBSET Nat
      /\ room.asked \in SUBSET Peers /\ room.seat[p] \in Nat /\ games \in Seq(Start)
      /\ chan \in [Peers -> Seq(Event)]
  BY PeerShape DEF Shape
<1> DEFINE seats == [room.seat EXCEPT ![p] = NotSeated]
           rest == room.members \ {room.seat[p]}
<1>1. seats \in [Peers -> Nat] /\ rest \in SUBSET Nat /\ {} \in SUBSET Nat /\ 1 \in Nat \ {0}
  BY <1>0 DEF NotSeated
<1>2. room' = IF rest = {} THEN [EmptyRoom(seats) EXCEPT !.asked = room.asked]
                           ELSE [room EXCEPT !.members = rest, !.seat = seats]
  BY DEF ServerDrops
<1> HIDE DEF seats, rest
<1>3. room' \in Room
  <2>1. [EmptyRoom(seats) EXCEPT !.asked = room.asked] \in Room
    BY <1>0, <1>1 DEF EmptyRoom, Room
  <2>2. [room EXCEPT !.members = rest, !.seat = seats] \in Room
    BY <1>0, <1>1 DEF Room
  <2> QED
    BY <1>2, <2>1, <2>2
<1>4. [what |-> "leave", who |-> room.seat[p]] \in Event
  BY <1>0 DEF Event
<1>5. Sent(Others(p), [what |-> "leave", who |-> room.seat[p]]) \in [Peers -> Seq(Event)]
  BY <1>4, SentFacts
<1>6. chan' \in [Peers -> Seq(Event)]
  <2>1. <<>> \in Seq(Event)
    BY EmptySeq
  <2> QED
    BY <1>5, <2>1 DEF ServerDrops
<1>7. games' \in Seq(Start)
  BY <1>0, FlagsKept DEF ServerDrops
<1> QED
  BY <1>3, <1>6, <1>7

LEMMA UserShape ==
  ASSUME Shape, NEW p \in Peers, UserStep(p) \/ ServerJoins(p)
  PROVE  Shape'
<1>0. /\ net[p] \in Client /\ main[p] \in Screen /\ net = [net EXCEPT ![p] = net[p]]
      /\ main = [main EXCEPT ![p] = main[p]] /\ main[p].game \in Nat /\ room \in Room
      /\ games \in Seq(Start) /\ quits \in 0 .. MaxQuits /\ chan \in [Peers -> Seq(Event)]
      /\ MaxQuits \in Nat
  BY PeerShape, SessionAssumption DEF Shape
<1>1. CASE PressConnect(p)
  <2>1. [net[p] EXCEPT !.running = TRUE] \in Client /\ [main[p] EXCEPT !.at = "connect"] \in Screen
    BY <1>0 DEF Client, Screen
  <2> QED
    BY <1>0, <1>1, <2>1, OwnKept DEF PressConnect, SetNet, SetMain
<1>2. CASE PressRegion(p)
  <2>1. [net[p] EXCEPT !.tasks = Append(@, [do |-> "region"])] \in Client
    BY QueueKept DEF Task
  <2> QED
    BY <1>0, <1>2, <2>1, OwnKept DEF PressRegion, Queue, SetNet
<1>3. CASE PressJoin(p)
  <2>1. [net[p] EXCEPT !.state = "JOINING"] \in Client
    BY <1>0 DEF Client, States
  <2>2. room' \in Room
    <3> DEFINE asked == room.asked \cup {p}
    <3>1. asked \in SUBSET Peers /\ room' = [room EXCEPT !.asked = asked]
      BY <1>3, PeerShape DEF PressJoin
    <3> HIDE DEF asked
    <3> QED
      BY <1>0, <3>1 DEF Room
  <2> QED
    BY <1>0, <1>3, <2>1, <2>2, OwnKept DEF PressJoin, SetNet
<1>4. CASE PressStart(p)
  <2>1. [net[p] EXCEPT !.tasks = Append(@, [do |-> "start"])] \in Client
    BY QueueKept DEF Task
  <2> QED
    BY <1>0, <1>4, <2>1, OwnKept DEF PressStart, Queue, SetNet
<1>5. CASE SendConfirm(p)
  <2>1. [do |-> "confirm", game |-> main[p].game] \in Task
    BY <1>0 DEF Task
  <2>2. [net[p] EXCEPT !.tasks = Append(@, [do |-> "confirm", game |-> main[p].game])] \in Client
    BY <2>1, QueueKept
  <2> QED
    BY <1>0, <1>5, <2>2, OwnKept DEF SendConfirm, Queue, SetNet
<1>6. CASE Import(p)
  <2>1. /\ [net[p] EXCEPT !.mailbox = {}] \in Client
        /\ [main[p] EXCEPT !.desync = (net[p].mailbox # {main[p].game})] \in Screen
    BY <1>0 DEF Client, Screen
  <2> QED
    BY <1>0, <1>6, <2>1, OwnKept DEF Import, SetNet, SetMain
<1>7. CASE LoseConnection(p)
  <2>1. /\ net' = [net EXCEPT ![p] = net[p]] /\ main' = [main EXCEPT ![p] = main[p]]
        /\ quits' \in 0 .. MaxQuits /\ ServerDrops(p)
    BY <1>0, <1>7 DEF LoseConnection, Counted
  <2> QED
    BY <1>0, <2>1, DropsShape, OwnKept
<1>8. CASE Quit(p) \/ Crash(p)
  <2>1. /\ net' = [net EXCEPT ![p] = NewNet] /\ main' = [main EXCEPT ![p] = NewMain("GONE")]
        /\ quits' \in 0 .. MaxQuits /\ ServerDrops(p)
    BY <1>0, <1>8 DEF Quit, Crash, Counted, Gone, SetNet, SetMain
  <2>2. NewNet \in Client /\ NewMain("GONE") \in Screen
    BY EmptySeq DEF NewNet, NewMain, Client, Screen, States, NotSeated, NoGame
  <2> QED
    BY <2>1, <2>2, DropsShape, OwnKept
<1>9. CASE ServerJoins(p)
  <2> DEFINE members == room.members \cup {room.next}
  <2>0. room.members \in SUBSET Nat /\ room.next \in Nat \ {0} /\ room.seat \in [Peers -> Nat]
    BY PeerShape
  <2>1. members \in SUBSET Nat /\ room.next \in Nat \ {0} /\ room.next + 1 \in Nat \ {0}
    BY <2>0
  <2>2. room' = [room EXCEPT !.members = members, !.next = @ + 1,
                             !.seat[p] = room.next, !.asked = @ \ {p}]
    BY <1>9 DEF ServerJoins
  <2>3. [what |-> "join", members |-> members] \in Event
    BY <2>1 DEF Event
  <2>4. chan' \in [Peers -> Seq(Event)]
    <3>1. chan' = Sent(Others(p) \cup {p}, [what |-> "join", members |-> members])
      BY <1>9 DEF ServerJoins
    <3> HIDE DEF members
    <3>2. Sent(Others(p) \cup {p}, [what |-> "join", members |-> members]) \in [Peers -> Seq(Event)]
      BY <2>3, SentFacts
    <3> QED
      BY <3>1, <3>2
  <2> HIDE DEF members
  <2>5. room' \in Room
    <3> DEFINE next == room.next + 1
               seat == [room.seat EXCEPT ![p] = room.next]
               asked == room.asked \ {p}
    <3>1. /\ next \in Nat \ {0} /\ seat \in [Peers -> Nat] /\ asked \in SUBSET Peers
          /\ room' = [room EXCEPT !.members = members, !.next = next, !.seat = seat, !.asked = asked]
      BY <2>0, <2>1, <2>2, PeerShape
    <3> HIDE DEF next, seat, asked
    <3> QED
      BY <1>0, <2>1, <3>1 DEF Room
  <2> QED
    BY <1>0, <1>9, <2>4, <2>5, OwnKept DEF ServerJoins
<1> QED
  BY <1>1, <1>2, <1>3, <1>4, <1>5, <1>6, <1>7, <1>8, <1>9, UserStep(p) \/ ServerJoins(p)
     DEF UserStep

LEMMA ShapeKept == Shape /\ [Next]_vars => Shape'
<1> SUFFICES ASSUME Shape, [Next]_vars PROVE Shape'
  OBVIOUS
<1>1. CASE UNCHANGED vars
  BY <1>1 DEF vars, Shape
<1>2. ASSUME NEW p \in Peers, MainStep(p) \/ NetworkStep(p) \/ UserStep(p) \/ ServerJoins(p)
      PROVE  Shape'
  BY <1>2, MainShape, NetworkShape, UserShape
<1> QED
  BY <1>1, <1>2 DEF Next

-----------------------------------------------------------------------------
(* The state follows the link.                                              *)

Late == {"CONNECTED_TO_MASTER", "JOINING", "IN_ROOM", "IN_GAME"}
InTheRoom(c) == c.state \in {"IN_ROOM", "IN_GAME"}

\* The state of the library and the state that the client keeps, where the main thread is.
LinkFits(c, at) ==
  /\ at = "connect" => /\ c.link \in {"down", "regions"} /\ c.tasks = <<>>
                       /\ c.state \in {"UNCONNECTED", "CHOOSING_REGIONS"}
  /\ c.state = "UNCONNECTED" => c.tasks = <<>>
  /\ c.link = "down" => c.state \in {"UNCONNECTED", "CONNECTING"}
  /\ c.link \in {"regions", "selected"} => c.state \in {"CONNECTING", "CHOOSING_REGIONS"}
  /\ c.link = "up" => c.state \in Late
  /\ \A i \in DOMAIN c.tasks : c.tasks[i].do = "start" => InTheRoom(c)

\* A game is on the screen of a peer whose join is complete.
ScreenFits(c, m) ==
  /\ m.screen = "GAME" \/ m.at \in {"create", "ping"} => InTheRoom(c) /\ ~c.halfJoined
  /\ c.halfJoined => c.state = "IN_ROOM"

Linked(c, m) == LinkFits(c, m.at) /\ ScreenFits(c, m)
LinkInv == Shape /\ \A p \in Peers : Linked(net[p], main[p])

\* No step of one peer touches the records of another.
LEMMA OthersStay ==
  ASSUME Shape, NEW p \in Peers, NEW q \in Peers \ {p},
         MainStep(p) \/ NetworkStep(p) \/ UserStep(p) \/ ServerJoins(p)
  PROVE  net'[q] = net[q] /\ main'[q] = main[q]
<1>0. DOMAIN net = Peers /\ DOMAIN main = Peers
  BY DEF Shape
<1>1. CASE MainStep(p)
  BY <1>0, <1>1 DEF MainStep, StoreConnecting, LogoOver, LobbySeesGame, CreateGame,
                    GameFirstRead, GamePing, SetNet, SetMain
<1>2. CASE NetworkStep(p)
  <2>1. main' = main
    BY <1>2 DEF NetworkStep, onAvailableRegions, connectReturn, RunRegion, RunStart, RunConfirm,
                joinRoomEventAction, FinishJoin, leaveRoomEventAction, customEventStart,
                customEventConfirm
  <2>2. CASE onAvailableRegions(p) \/ connectReturn(p) \/ RunRegion(p) \/ RunConfirm(p)
    BY <1>0, <2>2 DEF onAvailableRegions, connectReturn, RunRegion, RunConfirm, SetNet
  <2>3. CASE RunStart(p)
    BY <1>0, <2>3 DEF RunStart, SetNet
  <2>4. CASE joinRoomEventAction(p) \/ FinishJoin(p) \/ leaveRoomEventAction(p)
    BY <1>0, <2>4 DEF joinRoomEventAction, FinishJoin, leaveRoomEventAction, SetNet
  <2>5. CASE customEventStart(p) \/ customEventConfirm(p)
    BY <1>0, <2>5 DEF customEventStart, customEventConfirm, SetNet
  <2> QED
    BY <1>2, <2>1, <2>2, <2>3, <2>4, <2>5 DEF NetworkStep
<1>3. CASE UserStep(p) \/ ServerJoins(p)
  <2>1. CASE PressConnect(p) \/ PressRegion(p) \/ PressJoin(p) \/ PressStart(p)
    BY <1>0, <2>1 DEF PressConnect, PressRegion, PressJoin, PressStart, Queue, SetNet, SetMain
  <2>2. CASE SendConfirm(p) \/ Import(p) \/ LoseConnection(p) \/ ServerJoins(p)
    BY <1>0, <2>2 DEF SendConfirm, Import, LoseConnection, ServerJoins, Queue, SetNet, SetMain
  <2>3. CASE Quit(p) \/ Crash(p)
    BY <1>0, <2>3 DEF Quit, Crash, Gone, SetNet, SetMain
  <2> QED
    BY <1>3, <2>1, <2>2, <2>3 DEF UserStep
<1> QED
  BY <1>1, <1>2, <1>3, MainStep(p) \/ NetworkStep(p) \/ UserStep(p) \/ ServerJoins(p)

LEMMA LinkMain ==
  ASSUME LinkInv, NEW p \in Peers, MainStep(p)
  PROVE  Linked(net'[p], main'[p])
<1>0. /\ net[p] \in Client /\ main[p] \in Screen /\ Linked(net[p], main[p])
      /\ net \in [Peers -> Client] /\ main \in [Peers -> Screen]
  BY PeerShape DEF LinkInv, Shape
<1>1. CASE StoreConnecting(p)
  BY <1>0, <1>1 DEF StoreConnecting, SetNet, SetMain, Linked, LinkFits, ScreenFits, InTheRoom,
                    Client, Screen, Late
<1>2. CASE LogoOver(p)
  BY <1>0, <1>2 DEF LogoOver, Idle, SetMain, Linked, LinkFits, ScreenFits, Screen
<1>3. CASE LobbySeesGame(p)
  BY <1>0, <1>3 DEF LobbySeesGame, Idle, SetMain, Linked, LinkFits, ScreenFits, Screen, InTheRoom
<1>4. CASE CreateGame(p)
  BY <1>0, <1>4 DEF CreateGame, SetMain, Linked, LinkFits, ScreenFits, Screen
<1>5. CASE GameFirstRead(p)
  BY <1>0, <1>5 DEF GameFirstRead, Idle, SetMain, NewMain, Linked, LinkFits, ScreenFits, Screen
<1>6. CASE GamePing(p)
  BY <1>0, <1>6 DEF GamePing, SetMain, Linked, LinkFits, ScreenFits, Screen
<1> QED
  BY <1>1, <1>2, <1>3, <1>4, <1>5, <1>6 DEF MainStep

LEMMA LinkNetwork ==
  ASSUME LinkInv, NEW p \in Peers, NetworkStep(p)
  PROVE  Linked(net'[p], main'[p])
<1>0. /\ net[p] \in Client /\ main[p] \in Screen /\ Linked(net[p], main[p])
      /\ net \in [Peers -> Client] /\ main \in [Peers -> Screen] /\ Shape
  BY PeerShape DEF LinkInv, Shape
<1>1. CASE onAvailableRegions(p)
  BY <1>0, <1>1 DEF onAvailableRegions, SetNet, Linked, LinkFits, ScreenFits, InTheRoom, Client, Late
<1>2. CASE connectReturn(p)
  BY <1>0, <1>2 DEF connectReturn, SetNet, Linked, LinkFits, ScreenFits, InTheRoom, Client, Late
<1>3. ASSUME net[p].tasks # <<>>, NEW c, c.tasks = Tail(net[p].tasks),
             c.state = net[p].state \/ c.state = "IN_GAME",
             \A i \in DOMAIN net[p].tasks : net[p].tasks[i].do = "start" => InTheRoom(net[p])
      PROVE  \A i \in DOMAIN c.tasks : c.tasks[i].do = "start" => InTheRoom(c)
  <2>1. ASSUME NEW i \in DOMAIN Tail(net[p].tasks), Tail(net[p].tasks)[i].do = "start"
        PROVE  InTheRoom(net[p])
    <3>1. i + 1 \in DOMAIN net[p].tasks /\ net[p].tasks[i + 1].do = "start"
      BY <1>0, <1>3, <2>1, TaskFacts, PeerShape
    <3> QED
      BY <1>3, <3>1
  <2> QED
    BY <1>3, <2>1 DEF InTheRoom
<1>4. CASE RunRegion(p)
  <2>1. /\ net'[p].tasks = Tail(net[p].tasks) /\ net'[p].state = net[p].state
        /\ net'[p].link = IF net[p].link = "regions" THEN "selected" ELSE net[p].link
        /\ net'[p].halfJoined = net[p].halfJoined /\ main'[p] = main[p] /\ net[p].tasks # <<>>
    BY <1>0, <1>4 DEF RunRegion, HasTask, SetNet, Client
  <2>2. \A i \in DOMAIN net'[p].tasks : net'[p].tasks[i].do = "start" => InTheRoom(net'[p])
    BY <1>0, <1>3, <2>1 DEF Linked, LinkFits
  <2> QED
    BY <1>0, <2>1, <2>2 DEF Linked, LinkFits, ScreenFits, InTheRoom
<1>5. CASE RunStart(p)
  <2>1. /\ net'[p].tasks = Tail(net[p].tasks) /\ net'[p].state = "IN_GAME"
        /\ net'[p].link = net[p].link
        /\ net'[p].halfJoined = net[p].halfJoined /\ main'[p] = main[p]
        /\ net[p].tasks # <<>> /\ Head(net[p].tasks).do = "start" /\ ~net[p].halfJoined
    BY <1>0, <1>5 DEF RunStart, HasTask, Awake, SetNet, Client
  <2>2. \A i \in DOMAIN net'[p].tasks : net'[p].tasks[i].do = "start" => InTheRoom(net'[p])
    BY <1>0, <1>3, <2>1 DEF Linked, LinkFits
  <2>3. InTheRoom(net[p])
    <3>1. 1 \in DOMAIN net[p].tasks /\ net[p].tasks[1].do = "start"
      BY <1>0, <2>1, TaskFacts, PeerShape
    <3> QED
      BY <1>0, <3>1 DEF Linked, LinkFits
  <2> QED
    BY <1>0, <2>1, <2>2, <2>3 DEF Linked, LinkFits, ScreenFits, InTheRoom, Late
<1>6. CASE RunConfirm(p)
  <2>1. /\ net'[p].tasks = Tail(net[p].tasks) /\ net'[p].state = net[p].state
        /\ net'[p].link = net[p].link
        /\ net'[p].halfJoined = net[p].halfJoined /\ main'[p] = main[p] /\ net[p].tasks # <<>>
    BY <1>0, <1>6 DEF RunConfirm, HasTask, SetNet, Client
  <2>2. \A i \in DOMAIN net'[p].tasks : net'[p].tasks[i].do = "start" => InTheRoom(net'[p])
    BY <1>0, <1>3, <2>1 DEF Linked, LinkFits
  <2> QED
    BY <1>0, <2>1, <2>2 DEF Linked, LinkFits, ScreenFits, InTheRoom
<1>7. CASE joinRoomEventAction(p)
  BY <1>0, <1>7 DEF joinRoomEventAction, HasEvent, Awake, SetNet, Linked, LinkFits, ScreenFits,
                    InTheRoom, Client, Late
<1>8. CASE FinishJoin(p)
  BY <1>0, <1>8 DEF FinishJoin, SetNet, Linked, LinkFits, ScreenFits, InTheRoom, Client
<1>9. CASE leaveRoomEventAction(p)
  <2>1. /\ net'[p].tasks = net[p].tasks /\ net'[p].link = net[p].link
        /\ net'[p].state = IF net[p].state = "IN_GAME" THEN "IN_ROOM" ELSE net[p].state
        /\ net'[p].halfJoined = net[p].halfJoined /\ main'[p] = main[p]
    BY <1>0, <1>9 DEF leaveRoomEventAction, SetNet, Client
  <2> QED
    BY <1>0, <2>1 DEF Linked, LinkFits, ScreenFits, InTheRoom, Late
<1>10. CASE customEventStart(p)
  BY <1>0, <1>10 DEF customEventStart, HasEvent, Awake, SetNet, Linked, LinkFits, ScreenFits,
                     InTheRoom, Client, Late
<1>11. CASE customEventConfirm(p)
  BY <1>0, <1>11 DEF customEventConfirm, SetNet, Linked, LinkFits, ScreenFits, InTheRoom, Client
<1> QED
  BY <1>1, <1>2, <1>4, <1>5, <1>6, <1>7, <1>8, <1>9, <1>10, <1>11 DEF NetworkStep

\* A task that is queued by a peer in the room.
LEMMA LinkQueue ==
  ASSUME LinkInv, NEW p \in Peers, NEW task \in Task, Queue(p, task), main' = main,
         main[p].at # "connect", net[p].state # "UNCONNECTED",
         task.do = "start" => InTheRoom(net[p])
  PROVE  Linked(net'[p], main'[p])
<1>0. /\ net[p] \in Client /\ Linked(net[p], main[p]) /\ net \in [Peers -> Client]
      /\ net[p].tasks \in Seq(Task) /\ DOMAIN net[p].tasks = 1 .. Len(net[p].tasks)
      /\ Len(net[p].tasks) \in Nat
  BY PeerShape DEF LinkInv, Shape
<1>1. /\ net'[p].tasks = Append(net[p].tasks, task) /\ net'[p].state = net[p].state
      /\ net'[p].link = net[p].link /\ net'[p].halfJoined = net[p].halfJoined
  BY <1>0 DEF Queue, SetNet, Client
<1>2. /\ DOMAIN Append(net[p].tasks, task) = 1 .. Len(net[p].tasks) + 1
      /\ \A i \in 1 .. Len(net[p].tasks) : Append(net[p].tasks, task)[i] = net[p].tasks[i]
      /\ Append(net[p].tasks, task)[Len(net[p].tasks) + 1] = task
  BY <1>0, AppendProperties, LenProperties
<1>3. ASSUME NEW i \in DOMAIN net'[p].tasks, net'[p].tasks[i].do = "start"
      PROVE  InTheRoom(net[p])
  BY <1>0, <1>1, <1>2, <1>3 DEF Linked, LinkFits
<1> QED
  BY <1>0, <1>1, <1>3 DEF Linked, LinkFits, ScreenFits, InTheRoom

LEMMA LinkUser ==
  ASSUME LinkInv, NEW p \in Peers, UserStep(p) \/ ServerJoins(p)
  PROVE  Linked(net'[p], main'[p])
<1>0. /\ net[p] \in Client /\ main[p] \in Screen /\ Linked(net[p], main[p])
      /\ net \in [Peers -> Client] /\ main \in [Peers -> Screen] /\ Shape
      /\ main[p].game \in Nat
  BY PeerShape DEF LinkInv, Shape
<1>1. CASE PressConnect(p)
  <2>1. /\ net'[p].tasks = net[p].tasks /\ net'[p].link = net[p].link
        /\ net'[p].state = net[p].state /\ net[p].state = "UNCONNECTED"
        /\ net'[p].halfJoined = net[p].halfJoined
        /\ main'[p].at = "connect" /\ main'[p].screen = main[p].screen /\ main[p].at = "idle"
    BY <1>0, <1>1 DEF PressConnect, ShowsButtons, Idle, SetNet, SetMain, Client, Screen
  <2>2. net[p].link \in {"down", "regions", "selected", "up"}
    BY <1>0 DEF Client
  <2> QED
    BY <1>0, <2>1, <2>2 DEF Linked, LinkFits, ScreenFits, InTheRoom, Late
<1>2. CASE PressRegion(p)
  BY <1>0, <1>2, LinkQueue DEF PressRegion, ShowsButtons, Idle, Task
<1>3. CASE PressJoin(p)
  <2>1. /\ net'[p].tasks = net[p].tasks /\ net'[p].link = net[p].link
        /\ net'[p].state = "JOINING" /\ net[p].state = "CONNECTED_TO_MASTER"
        /\ net'[p].halfJoined = net[p].halfJoined /\ main'[p] = main[p] /\ main[p].at = "idle"
    BY <1>0, <1>3 DEF PressJoin, ShowsButtons, Idle, SetNet, Client
  <2> QED
    BY <1>0, <2>1 DEF Linked, LinkFits, ScreenFits, InTheRoom, Late
<1>4. CASE PressStart(p)
  BY <1>0, <1>4, LinkQueue DEF PressStart, ShowsButtons, Idle, Task, InTheRoom
<1>5. CASE SendConfirm(p)
  <2>1. InTheRoom(net[p]) /\ [do |-> "confirm", game |-> main[p].game] \in Task
    BY <1>0, <1>5 DEF SendConfirm, Idle, Linked, ScreenFits, Task
  <2> QED
    BY <1>0, <1>5, <2>1, LinkQueue DEF SendConfirm, Idle, InTheRoom
<1>6. CASE Import(p)
  <2>1. /\ net'[p].tasks = net[p].tasks /\ net'[p].link = net[p].link
        /\ net'[p].state = net[p].state /\ net'[p].halfJoined = net[p].halfJoined
        /\ main'[p].at = main[p].at /\ main'[p].screen = main[p].screen
    BY <1>0, <1>6 DEF Import, SetNet, SetMain, Client, Screen
  <2> QED
    BY <1>0, <2>1 DEF Linked, LinkFits, ScreenFits, InTheRoom
<1>7. CASE LoseConnection(p) \/ ServerJoins(p)
  BY <1>0, <1>7 DEF LoseConnection, ServerJoins
<1>8. CASE Quit(p) \/ Crash(p)
  <2>1. net'[p] = NewNet /\ main'[p] = NewMain("GONE")
    BY <1>0, <1>8 DEF Quit, Crash, Gone, SetNet, SetMain
  <2>2. DOMAIN NewNet.tasks = {}
    <3>1. NewNet.tasks = <<>>
      BY DEF NewNet
    <3> QED
      BY <3>1
  <2> QED
    BY <2>1, <2>2 DEF NewNet, NewMain, Linked, LinkFits, ScreenFits, InTheRoom
<1> QED
  BY <1>1, <1>2, <1>3, <1>4, <1>5, <1>6, <1>7, <1>8, UserStep(p) \/ ServerJoins(p) DEF UserStep

LEMMA LinkInitially == Init => LinkInv
<1> SUFFICES ASSUME Init PROVE LinkInv
  OBVIOUS
<1>1. Shape
  BY ShapeInitially
<1>2. ASSUME NEW p \in Peers PROVE Linked(net[p], main[p])
  <2>1. net[p] = NewNet \/ net[p] = Connected \/ net[p] = Joined(p)
    BY DEF Init
  <2>2. main[p].at = "idle" /\ main[p].screen # "GAME"
    BY DEF Init, NewMain
  <2>3. /\ net[p].tasks = <<>> /\ ~net[p].halfJoined
        /\ \/ net[p].link = "down" /\ net[p].state = "UNCONNECTED"
           \/ net[p].link = "up" /\ net[p].state \in {"CONNECTED_TO_MASTER", "IN_ROOM"}
    BY <2>1, FirstClients
  <2>4. DOMAIN net[p].tasks = {}
    BY <2>3
  <2> QED
    BY <2>2, <2>3, <2>4 DEF Linked, LinkFits, ScreenFits, InTheRoom, Late
<1> QED
  BY <1>1, <1>2 DEF LinkInv

LEMMA LinkKept == LinkInv /\ [Next]_vars => LinkInv'
<1> SUFFICES ASSUME LinkInv, [Next]_vars PROVE LinkInv'
  OBVIOUS
<1>1. Shape'
  BY ShapeKept DEF LinkInv
<1>2. UNCHANGED vars => \A q \in Peers : Linked(net'[q], main'[q])
  BY DEF vars, LinkInv
<1>3. ASSUME NEW p \in Peers, MainStep(p) \/ NetworkStep(p) \/ UserStep(p) \/ ServerJoins(p)
      PROVE  \A q \in Peers : Linked(net'[q], main'[q])
  <2>1. Linked(net'[p], main'[p])
    BY <1>3, LinkMain, LinkNetwork, LinkUser
  <2>2. ASSUME NEW q \in Peers \ {p} PROVE Linked(net'[q], main'[q])
    BY <1>3, OthersStay DEF LinkInv
  <2> QED
    BY <2>1, <2>2
<1>4. \A q \in Peers : Linked(net'[q], main'[q])
  BY <1>2, <1>3 DEF Next
<1> QED
  BY <1>1, <1>4 DEF LinkInv

LEMMA LinkAlways == Spec => []LinkInv
BY LinkInitially, LinkKept, PTL DEF Spec

\* A peer is past the choice of the region exactly while its library is connected: no
\* late callback and no late store of CONNECTING throws it back (client.cpp:238, 304),
\* for any number of peers and any interleaving of the two threads.
THEOREM StateFollowsLinkAlways == Spec => []StateFollowsLink
<1>1. LinkInv => StateFollowsLink
  <2> SUFFICES ASSUME LinkInv, NEW p \in Peers
               PROVE  (net[p].link = "up") <=> (net[p].state \in Late)
    BY DEF StateFollowsLink, Late
  <2>1. Linked(net[p], main[p]) /\ net[p].link \in {"down", "regions", "selected", "up"}
    BY PeerShape DEF LinkInv, Client
  <2> QED
    BY <2>1 DEF Linked, LinkFits, Late
<1> QED
  BY <1>1, LinkAlways, PTL

-----------------------------------------------------------------------------
(* What the steps do to the room and to a peer's place in it.               *)

Here == {"JOINING", "IN_ROOM", "IN_GAME"}

\* From c to d a client keeps what it knows of the room, its role and its game.
KeepsPlace(c, d) ==
  /\ d.players = c.players /\ d.halfJoined = c.halfJoined /\ d.index = c.index
  /\ d.isMaster = c.isMaster /\ d.game = c.game
  /\ d.state = c.state \/ (c.state \notin Here /\ d.state \notin Here)

AllKeepTheirPlaces ==
  \A q \in Peers : KeepsPlace(net[q], net'[q]) /\ (Alive(q)' <=> Alive(q))

\* A step that the room does not see.
Calm == UNCHANGED <<room, chan, games>> /\ AllKeepTheirPlaces

LEMMA OnePlace ==
  ASSUME Shape, NEW p \in Peers, KeepsPlace(net[p], net'[p]), Alive(p)' <=> Alive(p),
         MainStep(p) \/ NetworkStep(p) \/ UserStep(p) \/ ServerJoins(p)
  PROVE  AllKeepTheirPlaces
<1>1. ASSUME NEW q \in Peers \ {p}
      PROVE  KeepsPlace(net[q], net'[q]) /\ (Alive(q)' <=> Alive(q))
  BY OthersStay DEF KeepsPlace, Alive
<1> QED
  BY <1>1 DEF AllKeepTheirPlaces

LEMMA MainIsCalm ==
  ASSUME LinkInv, NEW p \in Peers, MainStep(p)
  PROVE  Calm
<1>0. /\ net[p] \in Client /\ main[p] \in Screen /\ Linked(net[p], main[p])
      /\ net \in [Peers -> Client] /\ main \in [Peers -> Screen] /\ Shape
  BY PeerShape DEF LinkInv, Shape
<1>1. UNCHANGED <<room, chan, games>>
  BY DEF MainStep, StoreConnecting, LogoOver, LobbySeesGame, CreateGame, GameFirstRead, GamePing
<1>2. CASE StoreConnecting(p)
  <2>1. KeepsPlace(net[p], net'[p]) /\ main'[p].screen = main[p].screen
    BY <1>0, <1>2 DEF StoreConnecting, SetNet, SetMain, KeepsPlace, Here, Linked, LinkFits,
                      Client, Screen
  <2> QED
    BY <1>0, <1>1, <2>1, OnePlace DEF Calm, Alive
<1>3. CASE LogoOver(p) \/ LobbySeesGame(p) \/ CreateGame(p) \/ GameFirstRead(p) \/ GamePing(p)
  <2>1. net' = net
    BY <1>3 DEF LogoOver, LobbySeesGame, CreateGame, GameFirstRead, GamePing
  <2>7. Alive(p)' <=> Alive(p)
    <3>1. (LogoOver(p) => Alive(p)') /\ (LogoOver(p) => Alive(p))
      BY <1>0 DEF LogoOver, Idle, SetMain, Alive, Screen
    <3>2. (LobbySeesGame(p) => Alive(p)') /\ (LobbySeesGame(p) => Alive(p))
      BY <1>0 DEF LobbySeesGame, Idle, SetMain, Alive, Screen
    <3>3. (GameFirstRead(p) => Alive(p)') /\ (GameFirstRead(p) => Alive(p))
      BY <1>0 DEF GameFirstRead, Idle, SetMain, NewMain, Alive, Screen
    <3>4. CreateGame(p) \/ GamePing(p) => main'[p].screen = main[p].screen
      BY <1>0 DEF CreateGame, GamePing, SetMain, Screen
    <3> QED
      BY <1>3, <3>1, <3>2, <3>3, <3>4 DEF Alive
  <2> QED
    BY <1>0, <1>1, <2>1, <2>7, OnePlace DEF Calm, KeepsPlace
<1> QED
  BY <1>2, <1>3 DEF MainStep

LEMMA QueueKeepsPlace ==
  ASSUME Shape, NEW p \in Peers, NEW task, Queue(p, task)
  PROVE  KeepsPlace(net[p], net'[p])
<1>1. net[p] \in Client /\ net \in [Peers -> Client]
  BY PeerShape DEF Shape
<1> QED
  BY <1>1 DEF Queue, SetNet, KeepsPlace, Client

LEMMA NetworkIsCalm ==
  ASSUME LinkInv, NEW p \in Peers,
         onAvailableRegions(p) \/ connectReturn(p) \/ RunRegion(p)
  PROVE  Calm
<1>0. /\ net[p] \in Client /\ Linked(net[p], main[p]) /\ net \in [Peers -> Client] /\ Shape
  BY PeerShape DEF LinkInv, Shape
<1>1. UNCHANGED <<room, chan, games, main>>
  BY DEF onAvailableRegions, connectReturn, RunRegion
<1>5. KeepsPlace(net[p], net'[p])
  <2>1. onAvailableRegions(p) => KeepsPlace(net[p], net'[p])
    BY <1>0 DEF onAvailableRegions, SetNet, KeepsPlace, Here, Linked, LinkFits, Client
  <2>2. connectReturn(p) => KeepsPlace(net[p], net'[p])
    BY <1>0 DEF connectReturn, SetNet, KeepsPlace, Here, Linked, LinkFits, Client
  <2>3. RunRegion(p) => KeepsPlace(net[p], net'[p])
    BY <1>0 DEF RunRegion, SetNet, KeepsPlace, Client
  <2> QED
    BY <2>1, <2>2, <2>3
<1>6. AllKeepTheirPlaces
  BY <1>0, <1>1, <1>5, OnePlace DEF NetworkStep, Alive
<1> QED
  BY <1>1, <1>6 DEF Calm

LEMMA UserIsCalm ==
  ASSUME LinkInv, NEW p \in Peers,
         \/ PressConnect(p) \/ PressRegion(p) \/ PressStart(p) \/ SendConfirm(p) \/ Import(p)
  PROVE  Calm
<1>0. /\ net[p] \in Client /\ main[p] \in Screen /\ net \in [Peers -> Client]
      /\ main \in [Peers -> Screen] /\ Shape
  BY PeerShape DEF LinkInv, Shape
<1>1. UNCHANGED <<room, chan, games>>
  BY DEF PressConnect, PressRegion, PressStart, SendConfirm, Import
<1>2. KeepsPlace(net[p], net'[p])
  <2>1. PressRegion(p) \/ PressStart(p) \/ SendConfirm(p) => KeepsPlace(net[p], net'[p])
    BY <1>0, QueueKeepsPlace DEF PressRegion, PressStart, SendConfirm
  <2>2. PressConnect(p) => KeepsPlace(net[p], net'[p])
    BY <1>0 DEF PressConnect, SetNet, KeepsPlace, Client
  <2>3. Import(p) => KeepsPlace(net[p], net'[p])
    BY <1>0 DEF Import, SetNet, KeepsPlace, Client
  <2> QED
    BY <2>1, <2>2, <2>3
<1>3. Alive(p)' <=> Alive(p)
  <2>1. main' = main \/ PressConnect(p) \/ Import(p)
    BY DEF PressRegion, PressStart, SendConfirm
  <2>2. PressConnect(p) \/ Import(p) => main'[p].screen = main[p].screen
    BY <1>0 DEF PressConnect, Import, SetMain, Screen
  <2> QED
    BY <2>1, <2>2 DEF Alive
<1>4. AllKeepTheirPlaces
  BY <1>0, <1>2, <1>3, OnePlace DEF UserStep
<1> QED
  BY <1>1, <1>4 DEF Calm

\* A confirm packet is sent, or one is handled: the room does not see it.
ConfirmsMove(p) ==
  /\ UNCHANGED <<room, games>> /\ AllKeepTheirPlaces
  /\ \/ chan' = chan
     \/ \E g \in Nat : chan' = Sent(Others(p), [what |-> "confirm", game |-> g])
     \/ chan[p] # <<>> /\ Head(chan[p]).what = "confirm" /\ Handled(p)

LEMMA ConfirmSteps ==
  ASSUME LinkInv, NEW p \in Peers, RunConfirm(p) \/ customEventConfirm(p)
  PROVE  ConfirmsMove(p)
<1>0. /\ net[p] \in Client /\ net \in [Peers -> Client] /\ Shape
  BY PeerShape DEF LinkInv, Shape
<1>1. UNCHANGED <<room, games, main>>
  BY DEF RunConfirm, customEventConfirm
<1>2. KeepsPlace(net[p], net'[p])
  <2>1. RunConfirm(p) => KeepsPlace(net[p], net'[p])
    BY <1>0 DEF RunConfirm, SetNet, KeepsPlace, Client
  <2>2. customEventConfirm(p) => KeepsPlace(net[p], net'[p])
    BY <1>0 DEF customEventConfirm, SetNet, KeepsPlace, Client
  <2> QED
    BY <2>1, <2>2
<1>3. AllKeepTheirPlaces
  BY <1>0, <1>1, <1>2, OnePlace DEF NetworkStep, Alive
<1>4. RunConfirm(p) => Head(net[p].tasks).game \in Nat
  BY <1>0, TaskFacts DEF RunConfirm, HasTask, Task
<1> QED
  BY <1>1, <1>3, <1>4 DEF ConfirmsMove, RunConfirm, customEventConfirm, HasEvent

\* The other steps, as far as the room sees them.
Stays(p) == \A q \in Peers \ {p} : net'[q] = net[q] /\ main'[q] = main[q]

LEMMA PressJoinDoes ==
  ASSUME LinkInv, NEW p \in Peers, PressJoin(p)
  PROVE  /\ Stays(p) /\ UNCHANGED <<chan, main, games>> /\ Alive(p)
         /\ net[p].state = "CONNECTED_TO_MASTER" /\ net'[p].state = "JOINING"
         /\ net'[p].players = net[p].players /\ net'[p].halfJoined = net[p].halfJoined
         /\ net'[p].index = net[p].index /\ net'[p].isMaster = net[p].isMaster
         /\ net'[p].game = net[p].game
         /\ room'.asked = room.asked \cup {p} /\ room'.members = room.members
         /\ room'.open = room.open /\ room'.next = room.next /\ room'.seat = room.seat
<1>0. /\ net[p] \in Client /\ net \in [Peers -> Client] /\ Shape /\ room \in Room
  BY PeerShape DEF LinkInv, Shape
<1>1. Stays(p)
  BY <1>0, OthersStay DEF UserStep, Stays
<1>2. /\ net'[p].state = "JOINING"
      /\ net'[p].players = net[p].players /\ net'[p].halfJoined = net[p].halfJoined
      /\ net'[p].index = net[p].index /\ net'[p].isMaster = net[p].isMaster
      /\ net'[p].game = net[p].game
  BY <1>0 DEF PressJoin, SetNet, Client
<1>3. /\ room'.asked = room.asked \cup {p} /\ room'.members = room.members
      /\ room'.open = room.open /\ room'.next = room.next /\ room'.seat = room.seat
  BY <1>0 DEF PressJoin, Room
<1> QED
  BY <1>1, <1>2, <1>3 DEF PressJoin, ShowsButtons, Idle

LEMMA RunStartDoes ==
  ASSUME LinkInv, NEW p \in Peers, RunStart(p)
  PROVE  LET again == net[p].state = "IN_GAME"
             g == IF again THEN net[p].game ELSE Len(games) + 1
         IN  /\ Stays(p) /\ main' = main /\ Alive(p) /\ ~net[p].halfJoined
             /\ InTheRoom(net[p]) /\ net'[p].state = "IN_GAME" /\ net'[p].game = g /\ g \in Nat
             /\ net'[p].players = net[p].players /\ net'[p].halfJoined = net[p].halfJoined
             /\ net'[p].index = net[p].index /\ net'[p].isMaster = net[p].isMaster
             /\ chan' = IF Seated(p) THEN Sent(Others(p), [what |-> "start", game |-> g]) ELSE chan
             /\ games' = IF again THEN [games EXCEPT ![g].settled = FALSE]
                         ELSE Append(games, [members |-> room.members, settled |-> ~Unsettled,
                                             whole |-> Seated(p)])
             /\ room'.open = (room.open /\ ~Seated(p)) /\ room'.members = room.members
             /\ room'.next = room.next /\ room'.seat = room.seat /\ room'.asked = room.asked
<1> DEFINE again == net[p].state = "IN_GAME"
           g == IF again THEN net[p].game ELSE Len(games) + 1
<1>0. /\ net[p] \in Client /\ net \in [Peers -> Client] /\ Shape /\ room \in Room
      /\ Linked(net[p], main[p]) /\ net[p].tasks # <<>> /\ Head(net[p].tasks).do = "start"
      /\ net[p].game \in Nat /\ Len(games) \in Nat
  BY PeerShape DEF LinkInv, Shape, RunStart, HasTask
<1>1. Stays(p)
  BY <1>0, OthersStay DEF NetworkStep, Stays
<1>2. InTheRoom(net[p])
  <2>1. 1 \in DOMAIN net[p].tasks /\ net[p].tasks[1].do = "start"
    BY <1>0, TaskFacts, PeerShape
  <2> QED
    BY <1>0, <2>1 DEF Linked, LinkFits
<1>3. g \in Nat
  BY <1>0
<1>4. /\ net' = [net EXCEPT ![p] = [net[p] EXCEPT !.tasks = Tail(@), !.state = "IN_GAME", !.game = g]]
      /\ room' = IF Seated(p) THEN [room EXCEPT !.open = FALSE] ELSE room
      /\ chan' = IF Seated(p) THEN Sent(Others(p), [what |-> "start", game |-> g]) ELSE chan
      /\ games' = IF again THEN [games EXCEPT ![g].settled = FALSE]
                  ELSE Append(games, [members |-> room.members, settled |-> ~Unsettled,
                                      whole |-> Seated(p)])
      /\ main' = main /\ Alive(p) /\ ~net[p].halfJoined
  BY DEF RunStart, SetNet, HasTask, Awake
<1> HIDE DEF g, again
<1>5. /\ net'[p].state = "IN_GAME" /\ net'[p].game = g
      /\ net'[p].players = net[p].players /\ net'[p].halfJoined = net[p].halfJoined
      /\ net'[p].index = net[p].index /\ net'[p].isMaster = net[p].isMaster
  BY <1>0, <1>4 DEF Client
<1>6. /\ room'.open = (room.open /\ ~Seated(p)) /\ room'.members = room.members
      /\ room'.next = room.next /\ room'.seat = room.seat /\ room'.asked = room.asked
  BY <1>0, <1>4 DEF Room
<1> QED
  BY <1>1, <1>2, <1>3, <1>4, <1>5, <1>6 DEF g, again

LEMMA JoinDoes ==
  ASSUME LinkInv, NEW p \in Peers, joinRoomEventAction(p)
  PROVE  /\ Stays(p) /\ UNCHANGED <<room, main, games>> /\ Alive(p) /\ ~net[p].halfJoined
         /\ chan[p] # <<>> /\ Head(chan[p]).what = "join" /\ Handled(p)
         /\ net'[p].players = Head(chan[p]).members
         /\ net'[p].halfJoined = (net[p].state = "JOINING")
         /\ net'[p].state = IF net[p].state = "JOINING" THEN "IN_ROOM" ELSE net[p].state
         /\ net'[p].index = net[p].index /\ net'[p].isMaster = net[p].isMaster
         /\ net'[p].game = net[p].game
<1>0. net[p] \in Client /\ net \in [Peers -> Client] /\ Shape
  BY PeerShape DEF LinkInv, Shape
<1>1. Stays(p)
  BY <1>0, OthersStay DEF NetworkStep, Stays
<1>2. /\ net'[p].players = Head(chan[p]).members
      /\ net'[p].halfJoined = (net[p].state = "JOINING")
      /\ net'[p].state = IF net[p].state = "JOINING" THEN "IN_ROOM" ELSE net[p].state
      /\ net'[p].index = net[p].index /\ net'[p].isMaster = net[p].isMaster
      /\ net'[p].game = net[p].game
  BY <1>0 DEF joinRoomEventAction, SetNet, Client
<1> QED
  BY <1>1, <1>2 DEF joinRoomEventAction, HasEvent, Awake

LEMMA FinishJoinDoes ==
  ASSUME LinkInv, NEW p \in Peers, FinishJoin(p)
  PROVE  /\ Stays(p) /\ UNCHANGED <<room, chan, main, games>> /\ Alive(p)
         /\ net[p].halfJoined /\ net[p].state = "IN_ROOM" /\ net'[p].halfJoined = FALSE
         /\ net'[p].state = net[p].state /\ net'[p].players = net[p].players
         /\ net'[p].index = room.seat[p]
         /\ net'[p].isMaster = (Master(net[p].players) = room.seat[p])
         /\ net'[p].game = net[p].game
<1>0. net[p] \in Client /\ net \in [Peers -> Client] /\ Shape /\ Linked(net[p], main[p])
  BY PeerShape DEF LinkInv, Shape
<1>1. Stays(p)
  BY <1>0, OthersStay DEF NetworkStep, Stays
<1>2. /\ net'[p].halfJoined = FALSE
      /\ net'[p].state = net[p].state /\ net'[p].players = net[p].players
      /\ net'[p].index = room.seat[p]
      /\ net'[p].isMaster = (Master(net[p].players) = room.seat[p])
      /\ net'[p].game = net[p].game
  BY <1>0 DEF FinishJoin, SetNet, Client
<1> QED
  BY <1>0, <1>1, <1>2 DEF FinishJoin, Linked, ScreenFits

LEMMA LeaveDoes ==
  ASSUME LinkInv, NEW p \in Peers, leaveRoomEventAction(p)
  PROVE  LET remain == net[p].players \ {Head(chan[p]).who}
             played == net[p].state = "IN_GAME"
         IN  /\ Stays(p) /\ UNCHANGED <<main, games>> /\ Alive(p) /\ ~net[p].halfJoined
             /\ chan[p] # <<>> /\ Head(chan[p]).what = "leave" /\ Handled(p)
             /\ net'[p].players = remain
             /\ net'[p].halfJoined = net[p].halfJoined /\ net'[p].index = net[p].index
             /\ net'[p].isMaster = (Master(remain) = net[p].index)
             /\ net'[p].state = IF played THEN "IN_ROOM" ELSE net[p].state
             /\ net'[p].game = IF played THEN NoGame ELSE net[p].game
             /\ room'.open = (room.open \/ played) /\ room'.members = room.members
             /\ room'.next = room.next /\ room'.seat = room.seat /\ room'.asked = room.asked
<1> DEFINE remain == net[p].players \ {Head(chan[p]).who}
           played == net[p].state = "IN_GAME"
<1>0. net[p] \in Client /\ net \in [Peers -> Client] /\ Shape /\ room \in Room
  BY PeerShape DEF LinkInv, Shape
<1>1. Stays(p)
  BY <1>0, OthersStay DEF NetworkStep, Stays
<1>2. /\ net' = [net EXCEPT ![p] = [net[p] EXCEPT !.players = remain,
                   !.isMaster = (Master(remain) = net[p].index),
                   !.state = IF played THEN "IN_ROOM" ELSE @,
                   !.game = IF played THEN NoGame ELSE @]]
      /\ room' = [room EXCEPT !.open = @ \/ played]
      /\ UNCHANGED <<main, games>> /\ Alive(p) /\ ~net[p].halfJoined
      /\ chan[p] # <<>> /\ Head(chan[p]).what = "leave" /\ Handled(p)
  BY DEF leaveRoomEventAction, SetNet, HasEvent, Awake
<1> HIDE DEF remain, played
<1>3. /\ net'[p].players = remain
      /\ net'[p].halfJoined = net[p].halfJoined /\ net'[p].index = net[p].index
      /\ net'[p].isMaster = (Master(remain) = net[p].index)
      /\ net'[p].state = IF played THEN "IN_ROOM" ELSE net[p].state
      /\ net'[p].game = IF played THEN NoGame ELSE net[p].game
  BY <1>0, <1>2 DEF Client
<1>4. /\ room'.open = (room.open \/ played) /\ room'.members = room.members
      /\ room'.next = room.next /\ room'.seat = room.seat /\ room'.asked = room.asked
  BY <1>0, <1>2 DEF Room
<1> QED
  BY <1>1, <1>2, <1>3, <1>4 DEF remain, played

LEMMA StartDoes ==
  ASSUME LinkInv, NEW p \in Peers, customEventStart(p)
  PROVE  /\ Stays(p) /\ UNCHANGED <<room, main, games>> /\ Alive(p) /\ ~net[p].halfJoined
         /\ chan[p] # <<>> /\ Head(chan[p]).what = "start" /\ Handled(p)
         /\ net'[p].players = net[p].players /\ net'[p].halfJoined = net[p].halfJoined
         /\ net'[p].index = net[p].index /\ net'[p].isMaster = net[p].isMaster
         /\ net'[p].state = IF net[p].state = "IN_ROOM" THEN "IN_GAME" ELSE net[p].state
         /\ net'[p].game = IF net[p].state = "IN_ROOM" THEN Head(chan[p]).game ELSE net[p].game
<1>0. net[p] \in Client /\ net \in [Peers -> Client] /\ Shape
  BY PeerShape DEF LinkInv, Shape
<1>1. Stays(p)
  BY <1>0, OthersStay DEF NetworkStep, Stays
<1>2. /\ net'[p].players = net[p].players /\ net'[p].halfJoined = net[p].halfJoined
      /\ net'[p].index = net[p].index /\ net'[p].isMaster = net[p].isMaster
      /\ net'[p].state = IF net[p].state = "IN_ROOM" THEN "IN_GAME" ELSE net[p].state
      /\ net'[p].game = IF net[p].state = "IN_ROOM" THEN Head(chan[p]).game ELSE net[p].game
  BY <1>0 DEF customEventStart, SetNet, Client
<1> QED
  BY <1>1, <1>2 DEF customEventStart, HasEvent, Awake

\* An event that the server sends to T, and one that a peer handles, peer by peer.
LEMMA SentTo ==
  ASSUME Shape, NEW T, NEW e \in Event, chan' = Sent(T, e), NEW q \in Peers
  PROVE  chan'[q] = IF q \in T THEN Append(chan[q], e) ELSE chan[q]
BY SentFacts

LEMMA HandledBy ==
  ASSUME Shape, NEW p \in Peers, Handled(p), NEW q \in Peers
  PROVE  chan'[q] = IF q = p THEN Tail(chan[p]) ELSE chan[q]
BY DEF Shape, Handled

JoinEvent == [what |-> "join", members |-> room.members \cup {room.next}]
LeaveEvent(p) == [what |-> "leave", who |-> room.seat[p]]

LEMMA JoinsDoes ==
  ASSUME LinkInv, NEW p \in Peers, ServerJoins(p)
  PROVE  /\ UNCHANGED <<net, main, games>> /\ Alive(p) /\ p \in room.asked
         /\ Cardinality(room.members) < MaxPlayers
         /\ room.open /\ room'.open
         /\ room'.members = room.members \cup {room.next} /\ room'.next = room.next + 1
         /\ room'.asked = room.asked \ {p}
         /\ room'.seat[p] = room.next /\ \A q \in Peers \ {p} : room'.seat[q] = room.seat[q]
         /\ JoinEvent \in Event
         /\ \A q \in Peers : chan'[q] = IF q = p \/ Seated(q) THEN Append(chan[q], JoinEvent)
                                                             ELSE chan[q]
<1>0. /\ Shape /\ room \in Room /\ room.seat \in [Peers -> Nat] /\ room.next \in Nat \ {0}
      /\ room.members \in SUBSET Nat
  BY PeerShape DEF LinkInv, Shape
<1> DEFINE here == room.members \cup {room.next}
<1>1. JoinEvent \in Event
  <2>1. here \in SUBSET Nat
    BY <1>0
  <2> QED
    BY <2>1 DEF Event, JoinEvent
<1>2. /\ room' = [room EXCEPT !.members = here, !.next = @ + 1,
                              !.seat[p] = room.next, !.asked = @ \ {p}]
      /\ chan' = Sent(Others(p) \cup {p}, JoinEvent)
      /\ UNCHANGED <<net, main, games>> /\ Alive(p) /\ p \in room.asked
      /\ Cardinality(room.members) < MaxPlayers /\ room.open
  BY DEF ServerJoins, JoinEvent
<1> HIDE DEF here
<1>3. \A q \in Peers : chan'[q] = IF q \in Others(p) \cup {p} THEN Append(chan[q], JoinEvent)
                                                             ELSE chan[q]
  BY <1>0, <1>1, <1>2, SentTo
<1>4. room' = [room EXCEPT !.members = here, !.next = room.next + 1,
                           !.seat = [room.seat EXCEPT ![p] = room.next],
                           !.asked = room.asked \ {p}]
  BY <1>0, <1>2 DEF Room
<1>5. /\ room'.members = here /\ room'.next = room.next + 1 /\ room'.open = room.open
      /\ room'.asked = room.asked \ {p} /\ room'.seat = [room.seat EXCEPT ![p] = room.next]
  <2> DEFINE n == room.next + 1
             seats == [room.seat EXCEPT ![p] = room.next]
             left == room.asked \ {p}
  <2>1. room' = [room EXCEPT !.members = here, !.next = n, !.seat = seats, !.asked = left]
    BY <1>4
  <2> HIDE DEF n, seats, left
  <2>2. /\ room'.members = here /\ room'.next = n /\ room'.open = room.open
        /\ room'.asked = left /\ room'.seat = seats
    BY <1>0, <2>1 DEF Room
  <2> QED
    BY <2>2 DEF n, seats, left
<1>6. room'.seat[p] = room.next /\ \A q \in Peers \ {p} : room'.seat[q] = room.seat[q]
  BY <1>0, <1>5
<1> QED
  BY <1>1, <1>2, <1>3, <1>5, <1>6 DEF here, Others

LEMMA DropDoes ==
  ASSUME LinkInv, NEW p \in Peers, LoseConnection(p) \/ Quit(p) \/ Crash(p)
  PROVE  /\ Stays(p) /\ Seated(p)
         /\ \/ net' = net /\ main' = main /\ ~net[p].halfJoined
            \/ net'[p] = NewNet /\ main'[p] = NewMain("GONE")
         /\ room'.members = room.members \ {room.seat[p]} /\ room'.asked = room.asked
         /\ IF room'.members = {} THEN room'.next = 1 /\ room'.open
                                  ELSE room'.next = room.next /\ room'.open = room.open
         /\ room'.seat[p] = 0 /\ \A q \in Peers \ {p} : room'.seat[q] = room.seat[q]
         /\ LeaveEvent(p) \in Event /\ chan'[p] = <<>>
         /\ \A q \in Peers \ {p} :
              chan'[q] = IF Seated(q) THEN Append(chan[q], LeaveEvent(p)) ELSE chan[q]
         /\ games' = [g \in DOMAIN games |-> [games[g] EXCEPT !.whole = FALSE]]
<1>0. /\ Shape /\ room \in Room /\ room.seat \in [Peers -> Nat] /\ room.next \in Nat \ {0}
      /\ room.members \in SUBSET Nat /\ net \in [Peers -> Client] /\ main \in [Peers -> Screen]
  BY PeerShape DEF LinkInv, Shape
<1>1. ServerDrops(p)
  BY DEF LoseConnection, Quit, Crash
<1>2. Stays(p)
  BY <1>0, OthersStay DEF UserStep, Stays
<1>3. \/ net' = net /\ main' = main /\ ~net[p].halfJoined
      \/ net'[p] = NewNet /\ main'[p] = NewMain("GONE")
  BY <1>0 DEF LoseConnection, Quit, Crash, Gone, SetNet, SetMain
<1> DEFINE seats == [room.seat EXCEPT ![p] = NotSeated]
           rest == room.members \ {room.seat[p]}
<1>4. /\ room' = IF rest = {} THEN [EmptyRoom(seats) EXCEPT !.asked = room.asked]
                              ELSE [room EXCEPT !.members = rest, !.seat = seats]
      /\ seats[p] = 0 /\ \A q \in Peers \ {p} : seats[q] = room.seat[q]
      /\ Seated(p) /\ games' = [g \in DOMAIN games |-> [games[g] EXCEPT !.whole = FALSE]]
      /\ chan' = [Sent(Others(p), LeaveEvent(p)) EXCEPT ![p] = <<>>]
  BY <1>0, <1>1 DEF ServerDrops, NotSeated, LeaveEvent
<1>5. LeaveEvent(p) \in Event
  BY <1>0 DEF LeaveEvent, Event
<1>6. /\ Sent(Others(p), LeaveEvent(p)) \in [Peers -> Seq(Event)]
      /\ \A q \in Peers : Sent(Others(p), LeaveEvent(p))[q] =
              IF q \in Others(p) THEN Append(chan[q], LeaveEvent(p)) ELSE chan[q]
  BY <1>0, <1>5, SentFacts
<1>7. /\ chan'[p] = <<>>
      /\ \A q \in Peers \ {p} :
              chan'[q] = IF Seated(q) THEN Append(chan[q], LeaveEvent(p)) ELSE chan[q]
  BY <1>4, <1>6 DEF Others
<1> HIDE DEF seats, rest
<1>8. /\ room'.members = rest /\ room'.asked = room.asked /\ room'.seat = seats
      /\ IF rest = {} THEN room'.next = 1 /\ room'.open
                      ELSE room'.next = room.next /\ room'.open = room.open
  BY <1>0, <1>4 DEF Room, EmptyRoom
<1> QED
  BY <1>2, <1>3, <1>4, <1>5, <1>7, <1>8 DEF rest

-----------------------------------------------------------------------------
(* Who has a seat.  A seat is given once: its peer has pressed the button    *)
(* and waits for it, or holds it, or has left for good.  No more seats have  *)
(* been given in a room than there are peers that are past the wait.         *)

Taken == {p \in Peers : ~Alive(p) \/ (p \notin room.asked /\ net[p].state \in Here)}

OnSeat(p) == /\ Alive(p) /\ net[p].state \in Here /\ p \notin room.asked
             /\ room.seat[p] < room.next
             /\ \A q \in Peers : room.seat[q] = room.seat[p] => q = p
OffSeat(p) == chan[p] = <<>> /\ ~net[p].halfJoined
Waits(p) == ~Seated(p) /\ Alive(p) /\ net[p].state = "JOINING"

Seats == /\ \A p \in Peers : IF Seated(p) THEN OnSeat(p) ELSE OffSeat(p)
         /\ \A p \in room.asked : Waits(p)
         /\ \A p \in Peers : ~InTheRoom(net[p]) => net[p].players = {}
         /\ \A m \in Nat : m \in room.members <=> \E p \in Peers : Seated(p) /\ room.seat[p] = m
         /\ IsFiniteSet(room.members) /\ Cardinality(room.members) <= MaxPlayers
         /\ room.next - 1 <= Cardinality(Taken)
SeatsInv == LinkInv /\ Seats

LEMMA TakenFinite == IsFiniteSet(Taken) /\ Cardinality(Taken) \in Nat
                     /\ Cardinality(Taken) <= Cardinality(Peers)
<1>1. Taken \in SUBSET Peers /\ IsFiniteSet(Peers)
  BY SessionAssumption DEF Taken
<1> QED
  BY <1>1, FS_Subset, FS_CardinalityType

LEMMA TakenGrows ==
  ASSUME Taken \subseteq Taken'
  PROVE  Cardinality(Taken) <= Cardinality(Taken')
<1>1. Taken' \in SUBSET Peers /\ IsFiniteSet(Peers)
  BY SessionAssumption DEF Taken
<1>2. IsFiniteSet(Taken') /\ Taken \in SUBSET Taken'
  BY <1>1, FS_Subset
<1> QED
  BY <1>2, FS_Subset

\* The steps that leave the room as it is, and everybody in it.
LEMMA SeatsKept ==
  ASSUME SeatsInv, LinkInv',
         room'.seat = room.seat, room'.next = room.next, room'.asked = room.asked,
         room'.members = room.members,
         \A q \in Peers : /\ Alive(q)' <=> Alive(q)
                          /\ net'[q].state \in Here <=> net[q].state \in Here
                          /\ q \in room.asked => net'[q].state = net[q].state
                          /\ ~Seated(q) => chan'[q] = chan[q] /\ net'[q].halfJoined = net[q].halfJoined
                          /\ ~InTheRoom(net'[q]) => net'[q].players = {}
  PROVE  SeatsInv'
<1>1. \A q \in Peers : Seated(q)' <=> Seated(q)
  BY DEF Seated
<1>2. ASSUME NEW q \in Peers
      PROVE  IF Seated(q)' THEN OnSeat(q)' ELSE OffSeat(q)'
  BY <1>1, <1>2 DEF SeatsInv, Seats, OnSeat, OffSeat
<1>3. ASSUME NEW q \in room'.asked PROVE Waits(q)'
  <2>1. q \in Peers
    BY PeerShape DEF LinkInv, SeatsInv, Shape, Room
  <2> QED
    BY <1>1, <1>3, <2>1 DEF SeatsInv, Seats, Waits
<1>4. \A m \in Nat : m \in room'.members <=> \E q \in Peers : Seated(q)' /\ room'.seat[q] = m
  BY <1>1 DEF SeatsInv, Seats
<1>5. room'.next - 1 <= Cardinality(Taken')
  <2>1. Taken' = Taken
    BY DEF Taken
  <2> QED
    BY <2>1 DEF SeatsInv, Seats
<1>6. IsFiniteSet(room'.members) /\ Cardinality(room'.members) <= MaxPlayers
  BY DEF SeatsInv, Seats
<1> QED
  BY <1>2, <1>3, <1>4, <1>5, <1>6 DEF SeatsInv, Seats

\* A client that keeps its place keeps what Seats says of it.
LEMMA PlaceKept ==
  ASSUME SeatsInv, AllKeepTheirPlaces, NEW q \in Peers
  PROVE  /\ Alive(q)' <=> Alive(q)
         /\ net'[q].state \in Here <=> net[q].state \in Here
         /\ q \in room.asked => net'[q].state = net[q].state
         /\ net'[q].halfJoined = net[q].halfJoined
         /\ InTheRoom(net'[q]) <=> InTheRoom(net[q])
         /\ ~InTheRoom(net'[q]) => net'[q].players = {}
BY DEF AllKeepTheirPlaces, KeepsPlace, SeatsInv, Seats, Waits, Here, InTheRoom

LEMMA SeatsPressJoin ==
  ASSUME SeatsInv, LinkInv', NEW p \in Peers, PressJoin(p)
  PROVE  SeatsInv'
<1>0. /\ Shape /\ room.asked \in SUBSET Peers
  BY PeerShape DEF SeatsInv, LinkInv
<1>1. /\ Stays(p) /\ UNCHANGED <<chan, main, games>> /\ Alive(p)
      /\ net[p].state = "CONNECTED_TO_MASTER" /\ net'[p].state = "JOINING"
      /\ net'[p].players = net[p].players /\ net'[p].halfJoined = net[p].halfJoined
      /\ room'.asked = room.asked \cup {p} /\ room'.members = room.members
      /\ room'.open = room.open /\ room'.next = room.next /\ room'.seat = room.seat
  BY PressJoinDoes DEF SeatsInv
<1>2. \A q \in Peers : (Seated(q)' <=> Seated(q)) /\ (Alive(q)' <=> Alive(q))
  BY <1>1 DEF Seated, Alive
<1>3. ~Seated(p) /\ p \notin room.asked
  BY <1>1 DEF SeatsInv, Seats, OnSeat, Here, Waits
<1>4. ASSUME NEW q \in Peers
      PROVE  IF Seated(q)' THEN OnSeat(q)' ELSE OffSeat(q)'
  <2>1. CASE q = p
    BY <1>1, <1>2, <1>3, <2>1 DEF SeatsInv, Seats, OffSeat
  <2>2. CASE q # p
    BY <1>1, <1>2, <1>3, <2>2 DEF SeatsInv, Seats, OnSeat, OffSeat, Stays
  <2> QED
    BY <2>1, <2>2
<1>5. ASSUME NEW q \in room'.asked PROVE Waits(q)'
  <2>1. q = p \/ (q \in room.asked /\ q \in Peers /\ q # p)
    BY <1>0, <1>1, <1>3, <1>5
  <2> QED
    BY <1>1, <1>2, <1>3, <2>1 DEF SeatsInv, Seats, Waits, Stays
<1>6. \A q \in Peers : ~InTheRoom(net'[q]) => net'[q].players = {}
  BY <1>1 DEF SeatsInv, Seats, Stays, InTheRoom
<1>7. \A m \in Nat : m \in room'.members <=> \E q \in Peers : Seated(q)' /\ room'.seat[q] = m
  BY <1>1, <1>2 DEF SeatsInv, Seats
<1>8. room'.next - 1 <= Cardinality(Taken')
  <2>1. Taken' = Taken
    BY <1>1, <1>2, <1>3 DEF Taken, Stays, Here
  <2> QED
    BY <1>1, <2>1 DEF SeatsInv, Seats
<1>9. IsFiniteSet(room'.members) /\ Cardinality(room'.members) <= MaxPlayers
  BY <1>1 DEF SeatsInv, Seats
<1> QED
  BY <1>4, <1>5, <1>6, <1>7, <1>8, <1>9 DEF SeatsInv, Seats

LEMMA SeatsServerJoins ==
  ASSUME SeatsInv, LinkInv', NEW p \in Peers, ServerJoins(p)
  PROVE  SeatsInv'
<1>0. /\ Shape /\ room.next \in Nat \ {0} /\ room.seat \in [Peers -> Nat]
      /\ room.members \in SUBSET Nat /\ MaxPlayers \in Nat /\ room.asked \in SUBSET Peers
  BY PeerShape, SessionAssumption DEF SeatsInv, LinkInv
<1>1. /\ UNCHANGED <<net, main, games>> /\ Alive(p) /\ p \in room.asked
      /\ Cardinality(room.members) < MaxPlayers
      /\ room'.members = room.members \cup {room.next} /\ room'.next = room.next + 1
      /\ room'.asked = room.asked \ {p}
      /\ room'.seat[p] = room.next /\ \A q \in Peers \ {p} : room'.seat[q] = room.seat[q]
      /\ \A q \in Peers : chan'[q] = IF q = p \/ Seated(q) THEN Append(chan[q], JoinEvent)
                                                          ELSE chan[q]
  BY JoinsDoes DEF SeatsInv
<1>2. ~Seated(p) /\ net[p].state = "JOINING"
  BY <1>1 DEF SeatsInv, Seats, Waits
<1>3. /\ Seated(p)' /\ \A q \in Peers \ {p} : Seated(q)' <=> Seated(q)
      /\ \A q \in Peers : Alive(q)' <=> Alive(q)
  BY <1>0, <1>1 DEF Seated, Alive, NotSeated
<1>4. \A q \in Peers : Seated(q) => room.seat[q] < room.next
  BY DEF SeatsInv, Seats, OnSeat
<1>5. \A q \in Peers \ {p} : room'.seat[q] # room.next
  BY <1>0, <1>1, <1>4 DEF Seated, NotSeated
<1>6. OnSeat(p)'
  BY <1>0, <1>1, <1>2, <1>3, <1>5 DEF OnSeat, Here
<1>7. ASSUME NEW q \in Peers \ {p}
      PROVE  IF Seated(q)' THEN OnSeat(q)' ELSE OffSeat(q)'
  <2>1. CASE Seated(q)
    <3>1. OnSeat(q)
      BY <2>1 DEF SeatsInv, Seats
    <3>2. \A r \in Peers : room'.seat[r] = room'.seat[q] => r = q
      BY <1>1, <1>5, <3>1 DEF OnSeat
    <3>3. room'.seat[q] < room'.next
      BY <1>0, <1>1, <3>1 DEF OnSeat
    <3> QED
      BY <1>1, <1>3, <2>1, <3>1, <3>2, <3>3 DEF OnSeat
  <2>2. CASE ~Seated(q)
    BY <1>1, <1>3, <2>2 DEF SeatsInv, Seats, OffSeat
  <2> QED
    BY <2>1, <2>2
<1>8. \A q \in room'.asked : Waits(q)'
  BY <1>0, <1>1, <1>3 DEF SeatsInv, Seats, Waits
<1>9. ASSUME NEW m \in Nat
      PROVE  m \in room'.members <=> \E q \in Peers : Seated(q)' /\ room'.seat[q] = m
  <2>1. m \in room.members <=> \E q \in Peers : Seated(q) /\ room.seat[q] = m
    BY DEF SeatsInv, Seats
  <2>2. m = room.next => \E q \in Peers : Seated(q)' /\ room'.seat[q] = m
    BY <1>1, <1>3
  <2>3. ASSUME NEW q \in Peers, Seated(q), room.seat[q] = m
        PROVE  Seated(q)' /\ room'.seat[q] = m
    BY <1>1, <1>2, <1>3, <2>3
  <2>4. ASSUME NEW q \in Peers, Seated(q)', room'.seat[q] = m
        PROVE  m = room.next \/ (Seated(q) /\ room.seat[q] = m)
    BY <1>1, <1>3, <2>4
  <2> QED
    BY <1>1, <2>1, <2>2, <2>3, <2>4
<1>10. IsFiniteSet(room'.members) /\ Cardinality(room'.members) <= MaxPlayers
  <2>1. IsFiniteSet(room.members) /\ Cardinality(room.members) \in Nat
    BY FS_CardinalityType DEF SeatsInv, Seats
  <2>2. /\ IsFiniteSet(room.members \cup {room.next})
        /\ Cardinality(room.members \cup {room.next}) <= Cardinality(room.members) + 1
    BY <2>1, FS_AddElement
  <2>3. Cardinality(room.members \cup {room.next}) \in Nat
    BY <2>2, FS_CardinalityType
  <2> QED
    BY <1>0, <1>1, <2>1, <2>2, <2>3
<1>11. room'.next - 1 <= Cardinality(Taken')
  <2>1. Taken' = Taken \cup {p} /\ p \notin Taken
    BY <1>1, <1>2, <1>3 DEF Taken, Here
  <2>2. Cardinality(Taken') = Cardinality(Taken) + 1
    BY <2>1, TakenFinite, FS_AddElement
  <2> QED
    BY <1>0, <1>1, <2>2, TakenFinite DEF SeatsInv, Seats
<1>12. \A q \in Peers : ~InTheRoom(net'[q]) => net'[q].players = {}
  BY <1>1 DEF SeatsInv, Seats
<1>13. ASSUME NEW q \in Peers
       PROVE  IF Seated(q)' THEN OnSeat(q)' ELSE OffSeat(q)'
  BY <1>3, <1>6, <1>7
<1> QED
  BY <1>8, <1>9, <1>10, <1>11, <1>12, <1>13 DEF SeatsInv, Seats

LEMMA SeatsDrop ==
  ASSUME SeatsInv, LinkInv', NEW p \in Peers, LoseConnection(p) \/ Quit(p) \/ Crash(p)
  PROVE  SeatsInv'
<1>0. /\ Shape /\ room.next \in Nat \ {0} /\ room.seat \in [Peers -> Nat]
      /\ room.members \in SUBSET Nat /\ MaxPlayers \in Nat /\ room.asked \in SUBSET Peers
  BY PeerShape, SessionAssumption DEF SeatsInv, LinkInv
<1>1. /\ Stays(p) /\ Seated(p)
      /\ \/ net' = net /\ main' = main /\ ~net[p].halfJoined
         \/ net'[p] = NewNet /\ main'[p] = NewMain("GONE")
      /\ room'.members = room.members \ {room.seat[p]} /\ room'.asked = room.asked
      /\ IF room'.members = {} THEN room'.next = 1 ELSE room'.next = room.next
      /\ room'.seat[p] = 0 /\ \A q \in Peers \ {p} : room'.seat[q] = room.seat[q]
      /\ chan'[p] = <<>>
      /\ \A q \in Peers \ {p} :
           chan'[q] = IF Seated(q) THEN Append(chan[q], LeaveEvent(p)) ELSE chan[q]
  BY DropDoes DEF SeatsInv
<1>2. OnSeat(p)
  BY <1>1 DEF SeatsInv, Seats
<1>3. /\ ~Seated(p)' /\ \A q \in Peers \ {p} : Seated(q)' <=> Seated(q)
      /\ \A q \in Peers \ {p} : Alive(q)' <=> Alive(q)
  BY <1>0, <1>1 DEF Seated, Alive, NotSeated, Stays
<1>4. OffSeat(p)'
  BY <1>1, FirstClients DEF OffSeat
<1>5. ASSUME NEW m \in Nat
      PROVE  m \in room'.members <=> \E q \in Peers : Seated(q)' /\ room'.seat[q] = m
  <2>1. m \in room.members <=> \E q \in Peers : Seated(q) /\ room.seat[q] = m
    BY DEF SeatsInv, Seats
  <2>2. ASSUME NEW q \in Peers, Seated(q), room.seat[q] = m, m # room.seat[p]
        PROVE  Seated(q)' /\ room'.seat[q] = m
    BY <1>1, <1>3, <2>2
  <2>3. ASSUME NEW q \in Peers, Seated(q)', room'.seat[q] = m
        PROVE  m # room.seat[p] /\ Seated(q) /\ room.seat[q] = m
    BY <1>1, <1>2, <1>3, <2>3 DEF OnSeat
  <2> QED
    BY <1>1, <2>1, <2>2, <2>3
<1>6. \A q \in Peers : Seated(q)' => room'.members # {}
  BY <1>1, <1>3, <1>5, <1>0
<1>7. ASSUME NEW q \in Peers \ {p}
      PROVE  IF Seated(q)' THEN OnSeat(q)' ELSE OffSeat(q)'
  <2>1. CASE Seated(q)
    <3>1. OnSeat(q)
      BY <2>1 DEF SeatsInv, Seats
    <3>2. \A r \in Peers : room'.seat[r] = room'.seat[q] => r = q
      BY <1>0, <1>1, <2>1, <3>1 DEF OnSeat, Seated, NotSeated
    <3>3. room'.next = room.next
      BY <1>1, <1>3, <1>6, <2>1
    <3> QED
      BY <1>1, <1>3, <2>1, <3>1, <3>2, <3>3 DEF OnSeat, Stays
  <2>2. CASE ~Seated(q)
    BY <1>1, <1>3, <2>2 DEF SeatsInv, Seats, OffSeat, Stays
  <2> QED
    BY <2>1, <2>2
<1>8. ASSUME NEW q \in room'.asked PROVE Waits(q)'
  <2>1. q \in Peers \ {p} /\ q \in room.asked
    BY <1>0, <1>1, <1>2, <1>8 DEF OnSeat
  <2> QED
    BY <1>1, <1>3, <2>1 DEF SeatsInv, Seats, Waits, Stays
<1>9. IsFiniteSet(room'.members) /\ Cardinality(room'.members) <= MaxPlayers
  <2>1. IsFiniteSet(room.members) /\ Cardinality(room.members) <= MaxPlayers
    BY DEF SeatsInv, Seats
  <2>2. room'.members \in SUBSET room.members
    BY <1>1
  <2>3. /\ IsFiniteSet(room'.members) /\ Cardinality(room'.members) <= Cardinality(room.members)
        /\ Cardinality(room'.members) \in Nat /\ Cardinality(room.members) \in Nat
    BY <2>1, <2>2, FS_Subset, FS_CardinalityType
  <2> QED
    BY <1>0, <2>1, <2>3
<1>10. room'.next - 1 <= Cardinality(Taken')
  <2>1. Taken \subseteq Taken'
    <3>1. p \in Taken'
      BY <1>1, <1>2, FirstClients DEF Taken, OnSeat, Alive, NewMain
    <3>2. \A q \in Taken : q # p => q \in Taken'
      BY <1>1, <1>3 DEF Taken, Stays
    <3> QED
      BY <3>1, <3>2
  <2>2. Cardinality(Taken) <= Cardinality(Taken') /\ Cardinality(Taken) \in Nat
    BY <2>1, TakenFinite, TakenGrows
  <2>3. Cardinality(Taken') \in Nat
    BY TakenFinite, <2>1, SessionAssumption, FS_Subset, FS_CardinalityType DEF Taken
  <2>4. room'.next \in {1, room.next} /\ room.next - 1 <= Cardinality(Taken)
    BY <1>1 DEF SeatsInv, Seats
  <2> QED
    BY <1>0, <2>2, <2>3, <2>4
<1>11. \A q \in Peers : ~InTheRoom(net'[q]) => net'[q].players = {}
  <2>1. ~InTheRoom(net'[p]) => net'[p].players = {}
    BY <1>1, FirstClients DEF SeatsInv, Seats
  <2> QED
    BY <1>1, <2>1 DEF SeatsInv, Seats, Stays
<1>12. ASSUME NEW q \in Peers
       PROVE  IF Seated(q)' THEN OnSeat(q)' ELSE OffSeat(q)'
  BY <1>3, <1>4, <1>7
<1> QED
  BY <1>5, <1>8, <1>9, <1>10, <1>11, <1>12 DEF SeatsInv, Seats

LEMMA SeatsInitially == Init => SeatsInv
<1> SUFFICES ASSUME Init PROVE SeatsInv
  OBVIOUS
<1>0. LinkInv /\ Shape
  BY LinkInitially DEF LinkInv
<1>1. /\ Len(InRoom) \in Nat /\ DOMAIN InRoom = 1 .. Len(InRoom) /\ Len(InRoom) <= MaxPlayers
      /\ MaxPlayers \in Nat
      /\ \A i \in 1 .. Len(InRoom) : InRoom[i] \in Peers \ Fresh
      /\ \A i, j \in 1 .. Len(InRoom) : InRoom[i] = InRoom[j] => i = j
  BY SessionAssumption, LenProperties, ElementOfSeq
<1>2. /\ room.members = 1 .. Len(InRoom) /\ room.next = Len(InRoom) + 1 /\ room.asked = {}
      /\ \A p \in Peers : room.seat[p] = SeatOf(p)
  <2> DEFINE seats == [p \in Peers |-> SeatOf(p)]
  <2>1. room = [EmptyRoom(seats) EXCEPT !.members = 1 .. Len(InRoom), !.next = Len(InRoom) + 1]
    BY <1>1 DEF Init
  <2>2. \A p \in Peers : seats[p] = SeatOf(p)
    OBVIOUS
  <2> HIDE DEF seats
  <2>3. /\ room.members = 1 .. Len(InRoom) /\ room.next = Len(InRoom) + 1 /\ room.asked = {}
        /\ room.seat = seats
    BY <2>1 DEF EmptyRoom
  <2> QED
    BY <2>2, <2>3
<1>3. ASSUME NEW p \in Peers
      PROVE  /\ main[p].screen # "GONE" /\ chan[p] = <<>> /\ ~net[p].halfJoined
             /\ SeatOf(p) # 0 => net[p] = Joined(p)
             /\ net[p].state # "JOINING"
             /\ InTheRoom(net[p]) => net[p] = Joined(p)
             /\ ~InTheRoom(net[p]) => net[p].players = {}
  <2>1. main[p].screen # "GONE" /\ chan[p] = <<>>
    BY DEF Init, NewMain
  <2>2. SeatOf(p) # 0 => p \notin Fresh
    BY <1>1, SeatOfFacts
  <2>3. /\ net[p] = NewNet \/ net[p] = Connected \/ net[p] = Joined(p)
        /\ SeatOf(p) # 0 => net[p] = Joined(p)
    BY <2>2 DEF Init, NotSeated
  <2> QED
    BY <2>1, <2>3, FirstClients DEF InTheRoom
<1>4. ASSUME NEW p \in Peers
      PROVE  IF Seated(p) THEN OnSeat(p) ELSE OffSeat(p)
  <2>1. CASE SeatOf(p) = 0
    BY <1>2, <1>3, <2>1 DEF Seated, NotSeated, OffSeat
  <2>2. CASE SeatOf(p) # 0
    <3>1. SeatOf(p) \in 1 .. Len(InRoom) /\ InRoom[SeatOf(p)] = p
      BY <1>1, <2>2, SeatOfFacts
    <3>2. \A q \in Peers : SeatOf(q) = SeatOf(p) => q = p
      BY <2>2, <3>1, SeatOfFacts
    <3>3. net[p].state = "IN_ROOM"
      BY <1>3, <2>2, FirstClients
    <3> QED
      BY <1>1, <1>2, <1>3, <2>2, <3>1, <3>2, <3>3 DEF Seated, NotSeated, OnSeat, Alive, Here
  <2> QED
    BY <2>1, <2>2
<1>5. ASSUME NEW m \in Nat
      PROVE  m \in room.members <=> \E p \in Peers : Seated(p) /\ room.seat[p] = m
  <2>1. ASSUME m \in room.members
        PROVE  InRoom[m] \in Peers /\ Seated(InRoom[m]) /\ room.seat[InRoom[m]] = m
    <3>1. m \in 1 .. Len(InRoom) /\ InRoom[m] \in Peers
      BY <1>1, <1>2, <2>1
    <3>2. SeatOf(InRoom[m]) = m
      BY <3>1, SeatOfFacts
    <3> QED
      BY <1>2, <3>1, <3>2 DEF Seated, NotSeated
  <2>2. ASSUME NEW p \in Peers, Seated(p), room.seat[p] = m
        PROVE  m \in room.members
    BY <1>1, <1>2, <2>2, SeatOfFacts DEF Seated, NotSeated
  <2> QED
    BY <2>1, <2>2
<1>6. IsFiniteSet(room.members) /\ Cardinality(room.members) = Len(InRoom)
  <2> DEFINE n == Len(InRoom)
  <2>1. n \in Nat /\ 1 \in Int /\ n \in Int /\ room.members = 1 .. n
    BY <1>1, <1>2
  <2> HIDE DEF n
  <2>2. IsFiniteSet(1 .. n) /\ Cardinality(1 .. n) = IF 1 > n THEN 0 ELSE n - 1 + 1
    BY <2>1, FS_Interval
  <2>3. Cardinality(1 .. n) = n
    BY <2>1, <2>2
  <2> QED
    BY <2>1, <2>2, <2>3 DEF n
<1>7. room.next - 1 <= Cardinality(Taken)
  <2> DEFINE f == [i \in 1 .. Len(InRoom) |-> InRoom[i]]
  <2>1. ASSUME NEW i \in 1 .. Len(InRoom) PROVE InRoom[i] \in Taken
    <3>1. InRoom[i] \in Peers /\ SeatOf(InRoom[i]) = i
      BY <1>1, SeatOfFacts
    <3>2. net[InRoom[i]].state = "IN_ROOM"
      BY <1>3, <3>1, FirstClients
    <3> QED
      BY <1>2, <3>1, <3>2 DEF Taken, Here
  <2>2. f \in Injection(1 .. Len(InRoom), Taken)
    BY <1>1, <2>1 DEF Injection, IsInjective
  <2>3. Cardinality(1 .. Len(InRoom)) <= Cardinality(Taken)
    BY <2>2, TakenFinite, FS_Injection
  <2> QED
    BY <1>1, <1>2, <1>6, <2>3
<1>8. Cardinality(room.members) <= MaxPlayers
  BY <1>1, <1>6
<1> QED
  BY <1>0, <1>2, <1>3, <1>4, <1>5, <1>6, <1>7, <1>8 DEF SeatsInv, Seats

\* What a step may be, as far as the room sees it.
LEMMA Steps ==
  ASSUME LinkInv, [Next]_vars
  PROVE  \/ Calm
         \/ \E p \in Peers :
              \/ ConfirmsMove(p) \/ PressJoin(p) \/ RunStart(p) \/ joinRoomEventAction(p)
              \/ FinishJoin(p) \/ leaveRoomEventAction(p) \/ customEventStart(p)
              \/ ServerJoins(p) \/ LoseConnection(p) \/ Quit(p) \/ Crash(p)
<1>1. CASE UNCHANGED vars
  BY <1>1 DEF vars, Calm, AllKeepTheirPlaces, KeepsPlace, Alive
<1>2. ASSUME NEW p \in Peers, MainStep(p) \/ NetworkStep(p) \/ UserStep(p) \/ ServerJoins(p)
      PROVE  \/ Calm \/ ConfirmsMove(p) \/ PressJoin(p) \/ RunStart(p) \/ joinRoomEventAction(p)
             \/ FinishJoin(p) \/ leaveRoomEventAction(p) \/ customEventStart(p)
             \/ ServerJoins(p) \/ LoseConnection(p) \/ Quit(p) \/ Crash(p)
  <2>1. CASE MainStep(p)
    BY <2>1, MainIsCalm
  <2>2. CASE NetworkStep(p)
    BY <2>2, NetworkIsCalm, ConfirmSteps DEF NetworkStep
  <2>3. CASE UserStep(p) \/ ServerJoins(p)
    BY <2>3, UserIsCalm DEF UserStep
  <2> QED
    BY <1>2, <2>1, <2>2, <2>3
<1> QED
  BY <1>1, <1>2 DEF Next

LEMMA SeatsKeptByStep == SeatsInv /\ [Next]_vars => SeatsInv'
<1> SUFFICES ASSUME SeatsInv, [Next]_vars PROVE SeatsInv'
  OBVIOUS
<1>0. LinkInv' /\ LinkInv /\ Shape
  BY LinkKept DEF SeatsInv, LinkInv
<1>1. CASE Calm
  BY <1>0, <1>1, PlaceKept, SeatsKept DEF Calm
<1>2. ASSUME NEW p \in Peers, ConfirmsMove(p) PROVE SeatsInv'
  <2>1. \A q \in Peers : ~Seated(q) => chan'[q] = chan[q]
    <3>1. ASSUME NEW g \in Nat, chan' = Sent(Others(p), [what |-> "confirm", game |-> g]),
                 NEW q \in Peers, ~Seated(q)
          PROVE  chan'[q] = chan[q]
      BY <1>0, <3>1, SentTo DEF Others, Event
    <3>2. ASSUME chan[p] # <<>>, Handled(p), NEW q \in Peers, ~Seated(q)
          PROVE  chan'[q] = chan[q]
      BY <1>0, <3>2, HandledBy DEF SeatsInv, Seats, OffSeat
    <3> QED
      BY <1>2, <3>1, <3>2 DEF ConfirmsMove
  <2> QED
    BY <1>0, <1>2, <2>1, PlaceKept, SeatsKept DEF ConfirmsMove
<1>3. ASSUME NEW p \in Peers, RunStart(p) PROVE SeatsInv'
  <2>1. \A q \in Peers : ~Seated(q) => chan'[q] = chan[q]
    <3> DEFINE g == IF net[p].state = "IN_GAME" THEN net[p].game ELSE Len(games) + 1
    <3>1. /\ chan' = IF Seated(p) THEN Sent(Others(p), [what |-> "start", game |-> g]) ELSE chan
          /\ g \in Nat
      BY <1>0, <1>3, RunStartDoes
    <3> HIDE DEF g
    <3>2. [what |-> "start", game |-> g] \in Event
      BY <3>1 DEF Event
    <3> QED
      BY <1>0, <3>1, <3>2, SentTo DEF Others
  <2>2. /\ room'.members = room.members /\ room'.next = room.next /\ room'.seat = room.seat
        /\ room'.asked = room.asked /\ Stays(p) /\ main' = main
        /\ net'[p].state \in Here /\ net[p].state \in Here /\ net[p].state # "JOINING"
        /\ net'[p].halfJoined = net[p].halfJoined /\ InTheRoom(net'[p])
    BY <1>0, <1>3, RunStartDoes DEF InTheRoom, Here
  <2>3. p \notin room.asked
    BY <2>2 DEF SeatsInv, Seats, Waits
  <2>4. ASSUME NEW q \in Peers
        PROVE  /\ Alive(q)' <=> Alive(q)
               /\ net'[q].state \in Here <=> net[q].state \in Here
               /\ q \in room.asked => net'[q].state = net[q].state
               /\ ~Seated(q) => chan'[q] = chan[q] /\ net'[q].halfJoined = net[q].halfJoined
               /\ ~InTheRoom(net'[q]) => net'[q].players = {}
    BY <2>1, <2>2, <2>3 DEF Stays, Alive, SeatsInv, Seats
  <2> QED
    BY <1>0, <2>2, <2>4, SeatsKept
<1>4. ASSUME NEW p \in Peers, joinRoomEventAction(p) \/ leaveRoomEventAction(p) \/ customEventStart(p)
      PROVE  SeatsInv'
  <2>1. /\ room'.members = room.members /\ room'.next = room.next /\ room'.seat = room.seat
        /\ room'.asked = room.asked /\ Stays(p) /\ main' = main /\ Handled(p) /\ chan[p] # <<>>
    BY <1>0, <1>4, JoinDoes, LeaveDoes, StartDoes
  <2>2. Seated(p) /\ net[p].state \in Here /\ p \notin room.asked
    BY <2>1 DEF SeatsInv, Seats, OffSeat, OnSeat
  <2>3. net'[p].state \in Here
    BY <1>0, <1>4, <2>2, JoinDoes, LeaveDoes, StartDoes DEF Here
  <2>4. ~InTheRoom(net'[p]) => net'[p].players = {}
    <3>1. joinRoomEventAction(p) => InTheRoom(net'[p])
      BY <1>0, <2>2, JoinDoes DEF InTheRoom, Here
    <3>2. leaveRoomEventAction(p) => (InTheRoom(net'[p]) <=> InTheRoom(net[p]))
                                     /\ net'[p].players \subseteq net[p].players
      BY <1>0, LeaveDoes DEF InTheRoom
    <3>3. customEventStart(p) => (InTheRoom(net'[p]) <=> InTheRoom(net[p]))
                                 /\ net'[p].players = net[p].players
      BY <1>0, StartDoes DEF InTheRoom
    <3> QED
      BY <1>4, <3>1, <3>2, <3>3 DEF SeatsInv, Seats
  <2>5. ASSUME NEW q \in Peers
        PROVE  /\ Alive(q)' <=> Alive(q)
               /\ net'[q].state \in Here <=> net[q].state \in Here
               /\ q \in room.asked => net'[q].state = net[q].state
               /\ ~Seated(q) => chan'[q] = chan[q] /\ net'[q].halfJoined = net[q].halfJoined
               /\ ~InTheRoom(net'[q]) => net'[q].players = {}
    BY <1>0, <2>1, <2>2, <2>3, <2>4, HandledBy DEF Stays, Alive, SeatsInv, Seats
  <2> QED
    BY <1>0, <2>1, <2>5, SeatsKept
<1>5. ASSUME NEW p \in Peers, FinishJoin(p) PROVE SeatsInv'
  <2>1. /\ Stays(p) /\ UNCHANGED <<room, chan, main, games>> /\ net[p].halfJoined
        /\ net'[p].state = net[p].state /\ net'[p].players = net[p].players
    BY <1>0, <1>5, FinishJoinDoes
  <2>2. Seated(p)
    BY <2>1 DEF SeatsInv, Seats, OffSeat
  <2>3. ASSUME NEW q \in Peers
        PROVE  /\ Alive(q)' <=> Alive(q)
               /\ net'[q].state \in Here <=> net[q].state \in Here
               /\ q \in room.asked => net'[q].state = net[q].state
               /\ ~Seated(q) => chan'[q] = chan[q] /\ net'[q].halfJoined = net[q].halfJoined
               /\ ~InTheRoom(net'[q]) => net'[q].players = {}
    BY <2>1, <2>2 DEF Stays, Alive, SeatsInv, Seats, InTheRoom
  <2> QED
    BY <1>0, <2>1, <2>3, SeatsKept
<1> QED
  BY <1>0, <1>1, <1>2, <1>3, <1>4, <1>5, Steps, SeatsPressJoin, SeatsServerJoins, SeatsDrop

LEMMA SeatsAlways == Spec => []SeatsInv
BY SeatsInitially, SeatsKeptByStep, PTL DEF Spec

-----------------------------------------------------------------------------
(* What a member of the room knows and what it will hear agree with the room *)
(* of the server.                                                            *)

\* m is said to have left, in the first i events of c.
LeftBy(c, i, m) == \E k \in 1 .. i : c[k].what = "leave" /\ c[k].who = m
Joins(c) == {i \in 1 .. Len(c) : c[i].what = "join"}

LEMMA TailsOfNews ==
  ASSUME NEW c \in Seq(Event), c # <<>>
  PROVE  /\ Head(c) = c[1] /\ c[1] \in Event /\ Tail(c) \in Seq(Event)
         /\ Len(c) \in Nat \ {0} /\ Len(Tail(c)) = Len(c) - 1
         /\ \A i \in Joins(Tail(c)) : i + 1 \in Joins(c) /\ Tail(c)[i] = c[i + 1] /\ i \in 1 .. Len(c) - 1
         /\ \A i \in Joins(c) : i # 1 => i - 1 \in Joins(Tail(c)) /\ Tail(c)[i - 1] = c[i]
         /\ \A i \in 0 .. Len(c) - 1 : \A m :
              LeftBy(c, i + 1, m) <=> \/ c[1].what = "leave" /\ c[1].who = m
                                      \/ LeftBy(Tail(c), i, m)
<1>0. /\ Head(c) = c[1] /\ c[1] \in Event /\ Tail(c) \in Seq(Event)
      /\ Len(c) \in Nat \ {0} /\ Len(Tail(c)) = Len(c) - 1
      /\ \A i \in 1 .. Len(c) - 1 : Tail(c)[i] = c[i + 1]
  BY QueueFacts
<1> DEFINE t == Tail(c)
           n == Len(c)
<1> HIDE DEF t, n
<1>1. n \in Nat \ {0} /\ Len(t) = n - 1 /\ \A i \in 1 .. n - 1 : t[i] = c[i + 1]
  BY <1>0 DEF t, n
<1>2. \A i \in Joins(t) : i + 1 \in Joins(c) /\ t[i] = c[i + 1] /\ i \in 1 .. n - 1
  BY <1>1 DEF Joins, n
<1>3. \A i \in Joins(c) : i # 1 => i - 1 \in Joins(t) /\ t[i - 1] = c[i]
  <2>1. ASSUME NEW i \in 1 .. n, i # 1 PROVE i - 1 \in 1 .. n - 1 /\ t[i - 1] = c[i]
    <3>1. i - 1 \in 1 .. n - 1 /\ (i - 1) + 1 = i
      BY <1>1, <2>1
    <3> QED
      BY <1>1, <3>1
  <2> QED
    BY <1>1, <2>1 DEF Joins, n
<1>4. ASSUME NEW i \in 0 .. n - 1, NEW m
      PROVE  LeftBy(c, i + 1, m) <=> (c[1].what = "leave" /\ c[1].who = m) \/ LeftBy(t, i, m)
  <2>1. ASSUME NEW k \in 1 .. i + 1, c[k].what = "leave", c[k].who = m, k # 1
        PROVE  LeftBy(t, i, m)
    <3>1. k - 1 \in 1 .. i /\ k - 1 \in 1 .. n - 1 /\ (k - 1) + 1 = k
      BY <1>1, <2>1
    <3>2. t[k - 1] = c[k]
      BY <1>1, <3>1
    <3> QED
      BY <2>1, <3>1, <3>2 DEF LeftBy
  <2>2. ASSUME NEW k \in 1 .. i, t[k].what = "leave", t[k].who = m
        PROVE  LeftBy(c, i + 1, m)
    <3>1. k + 1 \in 1 .. i + 1 /\ k \in 1 .. n - 1
      BY <1>1
    <3> QED
      BY <1>1, <2>2, <3>1 DEF LeftBy
  <2>3. 1 \in 1 .. i + 1
    BY <1>1
  <2> QED
    BY <2>1, <2>2, <2>3 DEF LeftBy
<1> QED
  BY <1>0, <1>2, <1>3, <1>4 DEF t, n

LEMMA MoreNews ==
  ASSUME NEW c \in Seq(Event), NEW e \in Event
  PROVE  /\ Append(c, e) \in Seq(Event) /\ Len(c) \in Nat /\ Len(Append(c, e)) = Len(c) + 1
         /\ \A i \in 1 .. Len(c) : Append(c, e)[i] = c[i]
         /\ Append(c, e)[Len(c) + 1] = e
         /\ \A i : i \in Joins(Append(c, e)) <=> \/ i \in Joins(c)
                                                 \/ i = Len(c) + 1 /\ e.what = "join"
         /\ \A i \in 0 .. Len(c) : \A m : LeftBy(Append(c, e), i, m) <=> LeftBy(c, i, m)
         /\ \A m : LeftBy(Append(c, e), Len(c) + 1, m) <=> \/ LeftBy(c, Len(c), m)
                                                           \/ e.what = "leave" /\ e.who = m
<1> DEFINE d == Append(c, e)
           n == Len(c)
<1>1. /\ d \in Seq(Event) /\ n \in Nat /\ Len(d) = n + 1
      /\ (\A i \in 1 .. n : d[i] = c[i]) /\ d[n + 1] = e
  BY AppendProperties, LenProperties
<1> HIDE DEF d
<1>2. \A i : i \in Joins(d) <=> i \in Joins(c) \/ (i = n + 1 /\ e.what = "join")
  <2> HIDE DEF n
  <2>1. \A i : i \in 1 .. n + 1 <=> i \in 1 .. n \/ i = n + 1
    BY <1>1
  <2> QED
    BY <1>1, <2>1 DEF Joins, n
<1>3. \A i \in 0 .. n : \A m : LeftBy(d, i, m) <=> LeftBy(c, i, m)
  <2>1. \A i \in 0 .. n : \A k \in 1 .. i : k \in 1 .. n
    BY <1>1
  <2> QED
    BY <1>1, <2>1 DEF LeftBy
<1>4. \A m : LeftBy(d, n + 1, m) <=> LeftBy(c, n, m) \/ (e.what = "leave" /\ e.who = m)
  <2> HIDE DEF n
  <2>1. \A k : k \in 1 .. n + 1 <=> k \in 1 .. n \/ k = n + 1
    BY <1>1
  <2> QED
    BY <1>1, <2>1 DEF LeftBy
<1> QED
  BY <1>1, <1>2, <1>3, <1>4 DEF d

\* P: the players a member knows; c: its events on their way; members, next: the room.
\*   - who has left has no more to come and is in no later list of members;
\*   - who has not left is in every later list, and in the room;
\*   - each member of the room is known or will be.
News(P, c, members, next) ==
  /\ \A k \in 1 .. Len(c) : c[k].what = "leave" => c[k].who < next
  /\ \A i \in Joins(c) : \A m \in c[i].members : ~LeftBy(c, i, m) /\ m < next
  /\ \A i \in Joins(c) : \A m \in P : ~LeftBy(c, i, m) => m \in c[i].members
  /\ \A i, j \in Joins(c) : j < i =>
       \A m \in c[j].members : ~LeftBy(c, i, m) => m \in c[i].members
  /\ \A m \in members : ~LeftBy(c, Len(c), m) /\ m < next
  /\ \A m \in P : ~LeftBy(c, Len(c), m) => m \in members
  /\ \A i \in Joins(c) : \A m \in c[i].members : ~LeftBy(c, Len(c), m) => m \in members
  /\ \A m \in members : m \in P \/ \E i \in Joins(c) : m \in c[i].members

\* A member handles its next event.
LEMMA NewsHandled ==
  ASSUME NEW P, NEW c \in Seq(Event), c # <<>>, NEW members, NEW next, News(P, c, members, next),
         NEW Q, Q = IF Head(c).what = "join" THEN Head(c).members
                    ELSE IF Head(c).what = "leave" THEN P \ {Head(c).who} ELSE P
  PROVE  News(Q, Tail(c), members, next)
<1> DEFINE t == Tail(c)
           n == Len(c)
<1>0. /\ Head(c) = c[1] /\ n \in Nat \ {0} /\ Len(t) = n - 1
      /\ \A i \in Joins(t) : i + 1 \in Joins(c) /\ t[i] = c[i + 1] /\ i \in 1 .. n - 1
      /\ \A i \in Joins(c) : i # 1 => i - 1 \in Joins(t) /\ t[i - 1] = c[i]
      /\ \A i \in 0 .. n - 1 : \A m : LeftBy(c, i + 1, m) <=>
              (c[1].what = "leave" /\ c[1].who = m) \/ LeftBy(t, i, m)
      /\ \A i \in 1 .. n - 1 : t[i] = c[i + 1]
  BY TailsOfNews, QueueFacts
<1> HIDE DEF t, n
<1>1. /\ \A i \in 0 .. n - 1 : \A m : ~LeftBy(c, i + 1, m) => ~LeftBy(t, i, m)
      /\ \A m : LeftBy(c, n, m) <=> (c[1].what = "leave" /\ c[1].who = m) \/ LeftBy(t, n - 1, m)
      /\ \A i \in Joins(t) : i \in 0 .. n - 1 /\ i + 1 \in Joins(c) /\ t[i] = c[i + 1] /\ 1 < i + 1
  <2>1. n - 1 \in 0 .. n - 1 /\ (n - 1) + 1 = n
    BY <1>0
  <2> QED
    BY <1>0, <2>1
<1>2. 1 \in Joins(c) <=> c[1].what = "join"
  BY <1>0 DEF Joins, n
\* who is known after the event was known before, or joins with it
<1>3. \A m \in Q : \/ m \in P /\ ~(c[1].what = "leave" /\ c[1].who = m)
                   \/ 1 \in Joins(c) /\ m \in c[1].members
  BY <1>0, <1>2
<1>4. \A k \in 1 .. n - 1 : t[k].what = "leave" => t[k].who < next
  <2>1. \A k \in 1 .. n - 1 : k + 1 \in 1 .. n
    BY <1>0
  <2> QED
    BY <1>0, <2>1 DEF News, n
<1>5. \A i \in Joins(t) : \A m \in t[i].members : ~LeftBy(t, i, m) /\ m < next
  BY <1>1 DEF News
<1>6. \A i \in Joins(t) : \A m \in Q : ~LeftBy(t, i, m) => m \in t[i].members
  <2>1. ASSUME NEW i \in Joins(t), NEW m \in Q, ~LeftBy(t, i, m)
        PROVE  m \in c[i + 1].members
    <3>1. i + 1 \in Joins(c) /\ i \in 0 .. n - 1 /\ 1 < i + 1
      BY <1>1
    <3>2. CASE m \in P /\ ~(c[1].what = "leave" /\ c[1].who = m)
      <4>1. ~LeftBy(c, i + 1, m)
        BY <1>0, <2>1, <3>1, <3>2
      <4> QED
        BY <3>1, <3>2, <4>1 DEF News
    <3>3. CASE 1 \in Joins(c) /\ m \in c[1].members
      <4>1. ~LeftBy(c, i + 1, m)
        BY <1>0, <1>2, <2>1, <3>1, <3>3
      <4> QED
        BY <3>1, <3>3, <4>1 DEF News
    <3> QED
      BY <1>3, <3>2, <3>3
  <2> QED
    BY <1>1, <2>1
<1>7. \A i, j \in Joins(t) : j < i => \A m \in t[j].members : ~LeftBy(t, i, m) => m \in t[i].members
  <2>1. ASSUME NEW i \in Joins(t), NEW j \in Joins(t), j < i, NEW m \in t[j].members, ~LeftBy(t, i, m)
        PROVE  m \in t[i].members
    <3>1. /\ i + 1 \in Joins(c) /\ j + 1 \in Joins(c) /\ i \in 0 .. n - 1 /\ j + 1 < i + 1
          /\ m \in c[j + 1].members /\ t[i] = c[i + 1] /\ j \in 0 .. n - 1
      BY <1>0, <1>1, <2>1
    <3>2. ~LeftBy(c, j + 1, m)
      BY <3>1 DEF News
    <3>3. ~LeftBy(c, i + 1, m)
      BY <1>0, <2>1, <3>1, <3>2
    <3> QED
      BY <3>1, <3>3 DEF News
  <2> QED
    BY <2>1
<1>8. \A m \in members : ~LeftBy(t, n - 1, m) /\ m < next
  BY <1>1 DEF News, n
<1>9. \A m \in Q : ~LeftBy(t, n - 1, m) => m \in members
  <2>1. ASSUME NEW m \in Q, ~LeftBy(t, n - 1, m) PROVE m \in members
    <3>2. CASE m \in P /\ ~(c[1].what = "leave" /\ c[1].who = m)
      BY <1>1, <2>1, <3>2 DEF News, n
    <3>3. CASE 1 \in Joins(c) /\ m \in c[1].members
      BY <1>1, <1>2, <2>1, <3>3 DEF News, n
    <3> QED
      BY <1>3, <3>2, <3>3
  <2> QED
    BY <2>1
<1>10. \A i \in Joins(t) : \A m \in t[i].members : ~LeftBy(t, n - 1, m) => m \in members
  <2>1. ASSUME NEW i \in Joins(t), NEW m \in t[i].members, ~LeftBy(t, n - 1, m)
        PROVE  m \in members
    <3>1. i + 1 \in Joins(c) /\ m \in c[i + 1].members /\ i \in 0 .. n - 1
      BY <1>1
    <3>2. ~LeftBy(c, i + 1, m)
      BY <3>1 DEF News
    <3>3. ~LeftBy(c, n, m)
      BY <1>0, <1>1, <2>1, <3>1, <3>2
    <3> QED
      BY <3>1, <3>3 DEF News, n
  <2> QED
    BY <2>1
<1>11. \A m \in members : m \in Q \/ \E i \in Joins(t) : m \in t[i].members
  <2>1. ASSUME NEW m \in members PROVE m \in Q \/ \E i \in Joins(t) : m \in t[i].members
    <3>1. ~(c[1].what = "leave" /\ c[1].who = m)
      BY <1>1 DEF News, n
    <3>2. CASE m \in P
      <4>1. CASE c[1].what = "join"
        <5>1. ~LeftBy(c, 1, m)
          <6>1. \A k \in 1 .. 1 : k = 1
            OBVIOUS
          <6> QED
            BY <4>1, <6>1 DEF LeftBy
        <5> QED
          BY <1>0, <1>2, <3>2, <4>1, <5>1 DEF News
      <4> QED
        BY <1>0, <3>1, <3>2, <4>1
    <3>3. CASE \E i \in Joins(c) : m \in c[i].members
      <4>1. PICK i \in Joins(c) : m \in c[i].members
        BY <3>3
      <4>2. i = 1 => m \in Q
        BY <1>0, <1>2, <4>1
      <4>3. i # 1 => i - 1 \in Joins(t) /\ m \in t[i - 1].members
        BY <1>0, <4>1
      <4> QED
        BY <4>2, <4>3
    <3> QED
      BY <3>2, <3>3 DEF News
  <2> QED
    BY <2>1
<1> QED
  BY <1>0, <1>4, <1>5, <1>6, <1>7, <1>8, <1>9, <1>10, <1>11 DEF News, t

\* The server sends a member what happens to the room.
LEMMA NewsSent ==
  ASSUME NEW P, NEW c \in Seq(Event), NEW members \in SUBSET Nat, NEW next \in Nat,
         News(P, c, members, next), NEW e \in Event, NEW here \in SUBSET Nat, NEW after \in Nat,
         \/ e.what = "join" /\ e.members = here /\ here = members \cup {next} /\ after = next + 1
         \/ e.what = "leave" /\ e.who < next /\ here = members \ {e.who} /\ after = next
         \/ e.what \in {"start", "confirm"} /\ here = members /\ after = next
  PROVE  News(P, Append(c, e), here, after)
<1> DEFINE d == Append(c, e)
           n == Len(c)
<1>0. /\ n \in Nat /\ Len(d) = n + 1
      /\ (\A i \in 1 .. n : d[i] = c[i]) /\ d[n + 1] = e
      /\ \A i : i \in Joins(d) <=> i \in Joins(c) \/ (i = n + 1 /\ e.what = "join")
      /\ \A i \in 0 .. n : \A m : LeftBy(d, i, m) <=> LeftBy(c, i, m)
      /\ \A m : LeftBy(d, n + 1, m) <=> LeftBy(c, n, m) \/ (e.what = "leave" /\ e.who = m)
  BY MoreNews
<1> HIDE DEF d
<1>1. \A i \in Joins(c) : /\ i \in 1 .. n /\ i \in 0 .. n /\ d[i] = c[i] /\ i < n + 1
                          /\ c[i].members \in SUBSET Nat
  <2>1. \A i \in 1 .. n : c[i] \in Event
    BY ElementOfSeq
  <2> QED
    BY <1>0, <2>1, EventKinds DEF Joins
<1>2. /\ \A k \in 1 .. n : c[k].what = "leave" => c[k].who < next
      /\ \A i \in Joins(c) : \A m \in c[i].members : ~LeftBy(c, i, m) /\ m < next
      /\ \A i \in Joins(c) : \A m \in P : ~LeftBy(c, i, m) => m \in c[i].members
      /\ \A i, j \in Joins(c) : j < i =>
             \A m \in c[j].members : ~LeftBy(c, i, m) => m \in c[i].members
      /\ \A m \in members : ~LeftBy(c, n, m) /\ m < next
      /\ \A m \in P : ~LeftBy(c, n, m) => m \in members
      /\ \A i \in Joins(c) : \A m \in c[i].members : ~LeftBy(c, n, m) => m \in members
      /\ \A m \in members : m \in P \/ \E i \in Joins(c) : m \in c[i].members
  BY DEF News
<1>3. next <= after /\ \A m \in here : m < after
  BY <1>2
<1>4. e.what = "join" => /\ \A m \in e.members : m \in here /\ ~LeftBy(c, n, m) /\ ~LeftBy(d, n + 1, m)
                         /\ \A m \in members : m \in e.members
  <2>1. ~LeftBy(c, n, next)
    <3>1. \A k \in 1 .. n : c[k] \in Event
      BY ElementOfSeq
    <3>2. \A k \in 1 .. n : c[k].what = "leave" => c[k].who # next
      BY <1>2, <3>1, EventKinds
    <3> QED
      BY <3>2 DEF LeftBy
  <2> QED
    BY <1>0, <1>2, <2>1
<1>5. \A k \in 1 .. n + 1 : d[k].what = "leave" => d[k].who < after
  <2>1. ASSUME NEW k \in 1 .. n, d[k].what = "leave" PROVE d[k].who < after
    <3>1. c[k] \in Event /\ d[k] = c[k]
      BY <1>0, ElementOfSeq
    <3>2. c[k].who \in Nat /\ c[k].who < next
      BY <1>2, <2>1, <3>1, EventKinds
    <3> QED
      BY <1>3, <3>1, <3>2
  <2>2. e.what = "leave" => e.who < after
    OBVIOUS
  <2>3. \A k \in 1 .. n + 1 : k \in 1 .. n \/ k = n + 1
    BY <1>0
  <2> QED
    BY <1>0, <2>1, <2>2, <2>3
<1>6. \A i \in Joins(d) : \A m \in d[i].members : ~LeftBy(d, i, m) /\ m < after
  <2>1. ASSUME NEW i \in Joins(c), NEW m \in c[i].members PROVE ~LeftBy(d, i, m) /\ m < after
    <3>1. ~LeftBy(c, i, m) /\ m < next /\ m \in Nat
      BY <1>1, <1>2
    <3> QED
      BY <1>0, <1>1, <1>3, <3>1
  <2>2. e.what = "join" => \A m \in e.members : ~LeftBy(d, n + 1, m) /\ m < after
    BY <1>3, <1>4
  <2> QED
    BY <1>0, <1>1, <2>1, <2>2
<1>7. \A i \in Joins(d) : \A m \in P : ~LeftBy(d, i, m) => m \in d[i].members
  <2>1. \A i \in Joins(c) : \A m \in P : ~LeftBy(d, i, m) => m \in d[i].members
    BY <1>0, <1>1, <1>2
  <2>2. e.what = "join" => \A m \in P : ~LeftBy(d, n + 1, m) => m \in d[n + 1].members
    BY <1>0, <1>2, <1>4
  <2> QED
    BY <1>0, <2>1, <2>2
<1>8. \A i, j \in Joins(d) : j < i => \A m \in d[j].members : ~LeftBy(d, i, m) => m \in d[i].members
  <2>1. \A i, j \in Joins(c) : j < i => \A m \in d[j].members : ~LeftBy(d, i, m) => m \in d[i].members
    BY <1>0, <1>1, <1>2
  <2>2. e.what = "join" => \A j \in Joins(c) : \A m \in d[j].members :
                             ~LeftBy(d, n + 1, m) => m \in d[n + 1].members
    BY <1>0, <1>1, <1>2, <1>4
  <2>3. ASSUME NEW i \in Joins(d), NEW j \in Joins(d), j < i
        PROVE  j \in Joins(c) /\ (i \in Joins(c) \/ (i = n + 1 /\ e.what = "join"))
    BY <1>0, <1>1, <2>3
  <2> QED
    BY <2>1, <2>2, <2>3
<1>9. \A m \in here : ~LeftBy(d, n + 1, m)
  BY <1>0, <1>2, <1>4
<1>10. \A m \in P : ~LeftBy(d, n + 1, m) => m \in here
  BY <1>0, <1>2, <1>4
<1>11. \A i \in Joins(d) : \A m \in d[i].members : ~LeftBy(d, n + 1, m) => m \in here
  <2>1. \A i \in Joins(c) : \A m \in d[i].members : ~LeftBy(d, n + 1, m) => m \in here
    BY <1>0, <1>1, <1>2, <1>4
  <2>2. e.what = "join" => \A m \in d[n + 1].members : m \in here
    BY <1>0, <1>4
  <2> QED
    BY <1>0, <2>1, <2>2
<1>12. \A m \in here : m \in P \/ \E i \in Joins(d) : m \in d[i].members
  <2>1. \A m \in members : m \in P \/ \E i \in Joins(d) : m \in d[i].members
    BY <1>0, <1>1, <1>2
  <2>2. e.what = "join" => n + 1 \in Joins(d) /\ \A m \in here : m \in d[n + 1].members
    BY <1>0
  <2>3. e.what # "join" => here \subseteq members
    OBVIOUS
  <2> QED
    BY <2>1, <2>2, <2>3
<1>13. News(P, d, here, after)
  BY <1>0, <1>3, <1>5, <1>6, <1>7, <1>8, <1>9, <1>10, <1>11, <1>12 DEF News
<1> QED
  BY <1>13 DEF d

\* The first event of a new member is its own join.
LEMMA FirstNews ==
  ASSUME NEW e \in Event, e.what = "join", NEW members, e.members = members, NEW next,
         \A m \in members : m < next
  PROVE  /\ News({}, Append(<<>>, e), members, next) /\ Append(<<>>, e) # <<>>
         /\ Head(Append(<<>>, e)) = e /\ Append(<<>>, e)[1] = e
         /\ \A i \in Joins(Append(<<>>, e)) : i = 1
<1> DEFINE c == <<>>
           d == Append(c, e)
<1>1. c \in Seq(Event) /\ Len(c) = 0
  BY EmptySeq
<1> HIDE DEF c
<1>2. /\ d \in Seq(Event) /\ Len(d) = 1 /\ d[1] = e
      /\ \A i : i \in Joins(d) <=> i \in Joins(c) \/ i = 1
      /\ \A m : LeftBy(d, 1, m) <=> LeftBy(c, 0, m)
  <2>1. /\ d \in Seq(Event) /\ Len(d) = Len(c) + 1 /\ d[Len(c) + 1] = e
        /\ \A i : i \in Joins(d) <=> i \in Joins(c) \/ (i = Len(c) + 1 /\ e.what = "join")
        /\ \A m : LeftBy(d, Len(c) + 1, m) <=> LeftBy(c, Len(c), m) \/ (e.what = "leave" /\ e.who = m)
    BY <1>1, MoreNews
  <2>2. Len(c) + 1 = 1
    BY <1>1
  <2> HIDE DEF d
  <2> QED
    BY <1>1, <2>1, <2>2
<1>3. Joins(c) = {} /\ \A m : ~LeftBy(c, 0, m)
  <2>1. 1 .. 0 = {}
    OBVIOUS
  <2>2. Joins(c) = {}
    BY <1>1, <2>1 DEF Joins
  <2> QED
    BY <2>1, <2>2 DEF LeftBy
<1> HIDE DEF d
<1>4. d # <<>> /\ Head(d) = e
  <2>1. d # <<>>
    <3>1. \A s \in Seq(Event) : s = <<>> => Len(s) = 0
      BY EmptySeq
    <3>2. d \in Seq(Event) /\ Len(d) # 0
      BY <1>2
    <3> QED
      BY <3>1, <3>2
  <2> QED
    BY <1>2, <2>1, QueueFacts
<1>5. \A k \in 1 .. 1 : k = 1
  OBVIOUS
<1>6. News({}, d, members, next)
  BY <1>2, <1>3, <1>5 DEF News
<1> QED
  BY <1>2, <1>3, <1>4, <1>6 DEF c, d

-----------------------------------------------------------------------------
(* One member takes itself for the master.                                   *)

\* The players a member knows, or the list that it joins with.
Known(c, es) == IF InTheRoom(c) THEN c.players ELSE es[1].members

\* A member with this seat: its client c, its events es, and the room.  Whoever joins
\* later has a greater number, which cannot be the master's.
Informed(c, es, seat, members, next) ==
  /\ News(c.players, es, members, next)
  /\ c.state = "JOINING" => es # <<>> /\ es[1].what = "join" /\ seat \in es[1].members
  /\ InTheRoom(c) => seat \in c.players
  /\ InTheRoom(c) /\ ~c.halfJoined => c.index = seat
  /\ \A i \in Joins(es) : \A m \in es[i].members : m > seat \/ m \in Known(c, es)

HasRole(c) == InTheRoom(c) /\ ~c.halfJoined =>
                /\ c.index \in c.players
                /\ c.isMaster <=> \A m \in c.players : c.index <= m

RoomInv == /\ SeatsInv
           /\ \A p \in Peers : /\ Seated(p) => Informed(net[p], chan[p], room.seat[p],
                                                        room.members, room.next)
                               /\ HasRole(net[p])

LEMMA InformedSent ==
  ASSUME NEW c \in Client, NEW es \in Seq(Event), NEW members \in SUBSET Nat, NEW next \in Nat,
         NEW n \in Nat, n < next, Informed(c, es, n, members, next), c.state \in Here,
         ~InTheRoom(c) => c.players = {},
         NEW e \in Event, NEW here \in SUBSET Nat, NEW after \in Nat,
         \/ e.what = "join" /\ e.members = here /\ here = members \cup {next} /\ after = next + 1
         \/ e.what = "leave" /\ e.who < next /\ here = members \ {e.who} /\ after = next
         \/ e.what \in {"start", "confirm"} /\ here = members /\ after = next
  PROVE  Informed(c, Append(es, e), n, here, after)
<1> DEFINE d == Append(es, e)
<1>0. /\ News(c.players, es, members, next)
      /\ c.state = "JOINING" => es # <<>> /\ es[1].what = "join" /\ n \in es[1].members
      /\ InTheRoom(c) => n \in c.players
      /\ InTheRoom(c) /\ ~c.halfJoined => c.index = n
      /\ \A i \in Joins(es) : \A m \in es[i].members : m > n \/ m \in Known(c, es)
  BY DEF Informed
<1>1. News(c.players, d, here, after)
  BY <1>0, NewsSent
<1>2. /\ d \in Seq(Event) /\ Len(es) \in Nat /\ Len(d) = Len(es) + 1
      /\ (\A i \in 1 .. Len(es) : d[i] = es[i]) /\ d[Len(es) + 1] = e
      /\ \A i : i \in Joins(d) <=> i \in Joins(es) \/ (i = Len(es) + 1 /\ e.what = "join")
  BY MoreNews
<1> HIDE DEF d
<1>3. c.state = "JOINING" => d # <<>> /\ d[1] = es[1] /\ 1 \in Joins(es)
  <2>1. ASSUME c.state = "JOINING" PROVE 1 \in 1 .. Len(es)
    BY <1>0, <1>2, <2>1, EmptySeq
  <2>2. \A s \in Seq(Event) : s = <<>> => Len(s) = 0
    BY EmptySeq
  <2>3. d # <<>>
    BY <1>2, <2>2
  <2> QED
    BY <1>0, <1>2, <2>1, <2>3 DEF Joins
<1>4. Known(c, d) = Known(c, es)
  BY <1>3 DEF Known, InTheRoom, Here
<1>5. \A i \in Joins(es) : \A m \in d[i].members : m > n \/ m \in Known(c, d)
  BY <1>0, <1>2, <1>4 DEF Joins
<1>6. \A m \in members : m > n \/ m \in Known(c, es)
  <2>1. ASSUME NEW m \in members, m \in c.players PROVE m \in Known(c, es)
    BY <2>1 DEF Known
  <2> QED
    BY <1>0, <2>1 DEF News
<1>7. e.what = "join" => \A m \in e.members : m > n \/ m \in Known(c, d)
  BY <1>4, <1>6
<1>8. \A i \in Joins(d) : \A m \in d[i].members : m > n \/ m \in Known(c, d)
  BY <1>2, <1>5, <1>7
<1>9. Informed(c, d, n, here, after)
  BY <1>0, <1>1, <1>3, <1>8 DEF Informed
<1> QED
  BY <1>9 DEF d

LEMMA InformedHandled ==
  ASSUME NEW c \in Client, NEW es \in Seq(Event), es # <<>>, NEW members, NEW next,
         NEW n \in Nat, Informed(c, es, n, members, next), n \in members, c.state \in Here,
         NEW d, d.players = IF Head(es).what = "join" THEN Head(es).members
                            ELSE IF Head(es).what = "leave" THEN c.players \ {Head(es).who}
                            ELSE c.players,
         InTheRoom(d), ~d.halfJoined => d.index = n
  PROVE  Informed(d, Tail(es), n, members, next)
<1> DEFINE t == Tail(es)
<1>0. /\ News(c.players, es, members, next)
      /\ c.state = "JOINING" => es # <<>> /\ es[1].what = "join" /\ n \in es[1].members
      /\ InTheRoom(c) => n \in c.players
      /\ \A i \in Joins(es) : \A m \in es[i].members : m > n \/ m \in Known(c, es)
  BY DEF Informed
<1>1. News(d.players, t, members, next)
  BY <1>0, NewsHandled
<1>2. /\ Head(es) = es[1] /\ Len(es) \in Nat \ {0}
      /\ \A i \in Joins(t) : i + 1 \in Joins(es) /\ t[i] = es[i + 1] /\ i \in 1 .. Len(es) - 1
  BY TailsOfNews
<1> HIDE DEF t
<1>3. 1 \in Joins(es) <=> es[1].what = "join"
  BY <1>2 DEF Joins
<1>4. \A m : LeftBy(es, 1, m) <=> es[1].what = "leave" /\ es[1].who = m
  <2>1. \A k \in 1 .. 1 : k = 1
    OBVIOUS
  <2> QED
    BY <2>1 DEF LeftBy
<1>5. \A m : es[1].what = "leave" /\ es[1].who = m =>
               \A i \in 1 .. Len(es) : LeftBy(es, i, m)
  BY <1>2 DEF LeftBy
<1>6. n \in d.players
  <2>1. CASE es[1].what = "join"
    <3>1. InTheRoom(c) => n \in es[1].members
      BY <1>0, <1>3, <1>4, <2>1 DEF News
    <3> QED
      BY <1>0, <1>2, <2>1, <3>1 DEF InTheRoom, Here
  <2>2. CASE es[1].what # "join"
    <3>1. InTheRoom(c) /\ n \in c.players
      BY <1>0, <2>2 DEF InTheRoom, Here
    <3>2. ~LeftBy(es, Len(es), n)
      BY <1>0 DEF News
    <3>3. es[1].what = "leave" => es[1].who # n
      BY <1>2, <1>5, <3>2
    <3> QED
      BY <1>2, <2>2, <3>1, <3>3
  <2> QED
    BY <2>1, <2>2
<1>7. \A i \in Joins(t) : \A m \in t[i].members : m > n \/ m \in d.players
  <2>1. ASSUME NEW i \in Joins(t), NEW m \in t[i].members, ~(m > n) PROVE m \in d.players
    <3>1. i + 1 \in Joins(es) /\ m \in es[i + 1].members /\ i + 1 \in 1 .. Len(es)
      BY <1>2
    <3>2. m \in Known(c, es) /\ ~LeftBy(es, i + 1, m)
      BY <1>0, <2>1, <3>1 DEF News
    <3>3. CASE es[1].what = "join"
      <4>1. InTheRoom(c) => m \in es[1].members
        BY <1>0, <1>3, <1>4, <3>2, <3>3 DEF News, Known
      <4> QED
        BY <1>2, <3>2, <3>3, <4>1 DEF Known
    <3>4. CASE es[1].what # "join"
      <4>1. m \in c.players
        BY <1>0, <3>2, <3>4 DEF InTheRoom, Here, Known
      <4>2. es[1].what = "leave" => es[1].who # m
        BY <1>5, <3>1, <3>2
      <4> QED
        BY <1>2, <3>4, <4>1, <4>2
    <3> QED
      BY <3>3, <3>4
  <2> QED
    BY <2>1
<1>8. Informed(d, t, n, members, next)
  BY <1>1, <1>6, <1>7 DEF Informed, Known, InTheRoom
<1> QED
  BY <1>8 DEF t

\* A client that keeps its part is as well informed and has the same role.
KeepsPart(c, d) ==
  /\ d.players = c.players /\ d.halfJoined = c.halfJoined /\ d.index = c.index
  /\ d.isMaster = c.isMaster
  /\ InTheRoom(d) <=> InTheRoom(c)
  /\ d.state = "JOINING" <=> c.state = "JOINING"

LEMMA PartKept ==
  ASSUME NEW c, NEW d, KeepsPart(c, d)
  PROVE  /\ HasRole(c) => HasRole(d)
         /\ \A es, n, members, next :
              Informed(c, es, n, members, next) => Informed(d, es, n, members, next)
<1>1. HasRole(c) => HasRole(d)
  BY DEF HasRole, KeepsPart
<1>2. ASSUME NEW es, NEW n, NEW members, NEW next, Informed(c, es, n, members, next)
      PROVE  Informed(d, es, n, members, next)
  <2>1. Known(d, es) = Known(c, es)
    BY DEF KeepsPart, Known
  <2> QED
    BY <1>2, <2>1 DEF Informed, KeepsPart
<1> QED
  BY <1>1, <1>2

LEMMA PlaceIsPart ==
  ASSUME NEW c, NEW d, KeepsPlace(c, d)
  PROVE  KeepsPart(c, d)
BY DEF KeepsPlace, KeepsPart, InTheRoom, Here

\* The least number of the players is the master's.
LEMMA MasterFacts ==
  ASSUME NEW S \in SUBSET Nat, NEW n \in S
  PROVE  (Master(S) = n) <=> \A m \in S : n <= m
<1>0. S # {}
  OBVIOUS
<1>1. PICK i \in S : \A j \in S : <<j, i>> \notin OpToRel(<, Nat)
  BY <1>0, NatLessThanWellFounded, WFMin
<1>2. \A j \in S : ~(j < i)
  BY <1>1 DEF OpToRel
<1>3. \A j \in S : i =< j
  BY <1>2
<1>4. Master(S) \in S /\ \A j \in S : Master(S) =< j
  <2> DEFINE least == CHOOSE x \in S : \A y \in S : x =< y
  <2>1. Master(S) = least
    BY DEF Master, Min
  <2>2. \E x \in S : \A y \in S : x =< y
    BY <1>1, <1>3
  <2>3. least \in S /\ \A j \in S : least =< j
    BY <2>2, Zenon
  <2> HIDE DEF least
  <2> QED
    BY <2>1, <2>3
<1>5. \A x, y \in S : x =< y /\ y =< x => x = y
  OBVIOUS
<1> QED
  BY <1>4, <1>5

\* What is known of a member.
LEMMA MemberFacts ==
  ASSUME RoomInv, NEW q \in Peers, Seated(q)
  PROVE  /\ net[q] \in Client /\ chan[q] \in Seq(Event) /\ room.members \in SUBSET Nat
         /\ room.next \in Nat /\ room.seat[q] \in Nat /\ room.seat[q] < room.next
         /\ room.seat[q] \in room.members /\ net[q].state \in Here
         /\ ~InTheRoom(net[q]) => net[q].players = {}
         /\ Informed(net[q], chan[q], room.seat[q], room.members, room.next)
         /\ HasRole(net[q]) /\ net[q].players \in SUBSET Nat
         /\ chan[q] # <<>> /\ Head(chan[q]).what # "join" => InTheRoom(net[q])
<1>1. /\ net[q] \in Client /\ chan[q] \in Seq(Event) /\ room.members \in SUBSET Nat
      /\ room.next \in Nat /\ room.seat[q] \in Nat /\ net[q].players \in SUBSET Nat
  BY PeerShape DEF RoomInv, SeatsInv, LinkInv
<1>2. /\ room.seat[q] < room.next /\ room.seat[q] \in room.members /\ net[q].state \in Here
      /\ ~InTheRoom(net[q]) => net[q].players = {}
  BY <1>1 DEF RoomInv, SeatsInv, Seats, OnSeat
<1>3. /\ Informed(net[q], chan[q], room.seat[q], room.members, room.next)
      /\ HasRole(net[q])
  BY DEF RoomInv
<1>4. chan[q] # <<>> /\ Head(chan[q]).what # "join" => InTheRoom(net[q])
  <2>1. chan[q] # <<>> => Head(chan[q]) = chan[q][1]
    BY <1>1, TailsOfNews
  <2> QED
    BY <1>2, <1>3, <2>1 DEF Informed, InTheRoom, Here
<1> QED
  BY <1>1, <1>2, <1>3, <1>4

\* A member that keeps its part and hears nothing, or hears of a start or a packet, or
\* handles one of those.
LEMMA MemberKept ==
  ASSUME RoomInv, NEW q \in Peers, Seated(q), KeepsPart(net[q], net'[q]),
         NEW es,
         \/ es = chan[q]
         \/ \E e \in Event : e.what \in {"start", "confirm"} /\ es = Append(chan[q], e)
         \/ chan[q] # <<>> /\ Head(chan[q]).what \in {"start", "confirm"} /\ es = Tail(chan[q])
  PROVE  Informed(net'[q], es, room.seat[q], room.members, room.next)
<1>0. /\ net[q] \in Client /\ chan[q] \in Seq(Event) /\ room.members \in SUBSET Nat
      /\ room.next \in Nat /\ room.seat[q] \in Nat /\ room.seat[q] < room.next
      /\ room.seat[q] \in room.members /\ net[q].state \in Here
      /\ ~InTheRoom(net[q]) => net[q].players = {}
      /\ Informed(net[q], chan[q], room.seat[q], room.members, room.next)
      /\ chan[q] # <<>> /\ Head(chan[q]).what # "join" => InTheRoom(net[q])
  BY MemberFacts
<1>1. CASE es = chan[q]
  BY <1>0, <1>1, PartKept
<1>2. ASSUME NEW e \in Event, e.what \in {"start", "confirm"}, es = Append(chan[q], e)
      PROVE  Informed(net'[q], es, room.seat[q], room.members, room.next)
  <2>1. Informed(net[q], Append(chan[q], e), room.seat[q], room.members, room.next)
    BY <1>0, <1>2, InformedSent
  <2> QED
    BY <1>2, <2>1, PartKept
<1>3. CASE chan[q] # <<>> /\ Head(chan[q]).what \in {"start", "confirm"} /\ es = Tail(chan[q])
  <2>1. /\ Head(chan[q]).what # "join" /\ Head(chan[q]).what # "leave" /\ InTheRoom(net[q])
    BY <1>0, <1>3
  <2>2. ~net[q].halfJoined => net[q].index = room.seat[q]
    BY <1>0, <2>1 DEF Informed
  <2>3. /\ net'[q].players = net[q].players /\ InTheRoom(net'[q])
        /\ ~net'[q].halfJoined => net'[q].index = room.seat[q]
    BY <2>1, <2>2 DEF KeepsPart
  <2>4. net'[q].players = IF Head(chan[q]).what = "join" THEN Head(chan[q]).members
                          ELSE IF Head(chan[q]).what = "leave"
                               THEN net[q].players \ {Head(chan[q]).who} ELSE net[q].players
    BY <2>1, <2>3
  <2> QED
    BY <1>0, <1>3, <2>3, <2>4, InformedHandled
<1> QED
  BY <1>1, <1>2, <1>3

\* The steps that the room does not see, and those of a start or a packet.
LEMMA RoomQuietSteps ==
  ASSUME RoomInv, SeatsInv', NEW p \in Peers, Calm \/ ConfirmsMove(p) \/ RunStart(p) \/ customEventStart(p)
  PROVE  RoomInv'
<1>0. LinkInv /\ Shape
  BY DEF RoomInv, SeatsInv, LinkInv
<1>1. /\ room'.seat = room.seat /\ room'.members = room.members /\ room'.next = room.next
      /\ \A q \in Peers : KeepsPart(net[q], net'[q])
  <2>1. CASE Calm \/ ConfirmsMove(p)
    BY <2>1, PlaceIsPart DEF Calm, ConfirmsMove, AllKeepTheirPlaces
  <2>2. CASE RunStart(p) \/ customEventStart(p)
    <3>1. /\ Stays(p) /\ room'.seat = room.seat /\ room'.members = room.members
          /\ room'.next = room.next /\ KeepsPart(net[p], net'[p])
      <4>1. CASE RunStart(p)
        BY <1>0, <4>1, RunStartDoes DEF KeepsPart, InTheRoom
      <4>2. CASE customEventStart(p)
        BY <1>0, <4>2, StartDoes DEF KeepsPart, InTheRoom
      <4> QED
        BY <2>2, <4>1, <4>2
    <3> QED
      BY <3>1 DEF Stays, KeepsPart
  <2> QED
    BY <2>1, <2>2
<1>2. ASSUME NEW q \in Peers
      PROVE  \/ chan'[q] = chan[q]
             \/ \E e \in Event : e.what \in {"start", "confirm"} /\ chan'[q] = Append(chan[q], e)
             \/ chan[q] # <<>> /\ Head(chan[q]).what \in {"start", "confirm"} /\ chan'[q] = Tail(chan[q])
  <2>1. ASSUME NEW e \in Event, e.what \in {"start", "confirm"}, chan' = Sent(Others(p), e)
        PROVE  chan'[q] = chan[q] \/ chan'[q] = Append(chan[q], e)
    BY <1>0, <2>1, SentTo
  <2>2. ASSUME chan[p] # <<>>, Head(chan[p]).what \in {"start", "confirm"}, Handled(p)
        PROVE  \/ chan'[q] = chan[q]
               \/ chan[q] # <<>> /\ Head(chan[q]).what \in {"start", "confirm"} /\ chan'[q] = Tail(chan[q])
    BY <1>0, <2>2, HandledBy
  <2>3. CASE Calm
    BY <2>3 DEF Calm
  <2>4. CASE ConfirmsMove(p)
    <3>1. \A g \in Nat : [what |-> "confirm", game |-> g] \in Event
      BY DEF Event
    <3> QED
      BY <2>1, <2>2, <2>4, <3>1 DEF ConfirmsMove
  <2>5. CASE RunStart(p)
    <3> DEFINE g == IF net[p].state = "IN_GAME" THEN net[p].game ELSE Len(games) + 1
    <3>1. /\ chan' = IF Seated(p) THEN Sent(Others(p), [what |-> "start", game |-> g]) ELSE chan
          /\ g \in Nat
      BY <1>0, <2>5, RunStartDoes
    <3> HIDE DEF g
    <3>2. [what |-> "start", game |-> g] \in Event
      BY <3>1 DEF Event
    <3> QED
      BY <2>1, <3>1, <3>2
  <2>6. CASE customEventStart(p)
    BY <1>0, <2>2, <2>6, StartDoes
  <2> QED
    BY <2>3, <2>4, <2>5, <2>6
<1>3. ASSUME NEW q \in Peers, Seated(q)'
      PROVE  Informed(net'[q], chan'[q], room'.seat[q], room'.members, room'.next)
  <2>1. Seated(q)
    BY <1>1, <1>3 DEF Seated
  <2>2. Informed(net'[q], chan'[q], room.seat[q], room.members, room.next)
    BY <1>1, <1>2, <2>1, MemberKept
  <2> QED
    BY <1>1, <2>2
<1>4. \A q \in Peers : HasRole(net'[q])
  BY <1>1, PartKept DEF RoomInv
<1> QED
  BY <1>3, <1>4 DEF RoomInv

\* One peer changes and the room does not.
LEMMA OneMemberMoves ==
  ASSUME RoomInv, SeatsInv', NEW p \in Peers, Stays(p),
         room'.seat = room.seat, room'.members = room.members, room'.next = room.next,
         \A q \in Peers \ {p} : chan'[q] = chan[q],
         Seated(p) => Informed(net'[p], chan'[p], room.seat[p], room.members, room.next),
         HasRole(net'[p])
  PROVE  RoomInv'
<1>1. ASSUME NEW q \in Peers
      PROVE  /\ Seated(q)' => Informed(net'[q], chan'[q], room'.seat[q], room'.members, room'.next)
             /\ HasRole(net'[q])
  <2>1. CASE q = p
    BY <2>1 DEF Seated
  <2>2. CASE q # p
    BY <2>2 DEF Seated, Stays, RoomInv
  <2> QED
    BY <2>1, <2>2
<1> QED
  BY <1>1 DEF RoomInv

LEMMA RoomPressJoin ==
  ASSUME RoomInv, SeatsInv', NEW p \in Peers, PressJoin(p)
  PROVE  RoomInv'
<1>0. LinkInv
  BY DEF RoomInv, SeatsInv
<1>1. /\ Stays(p) /\ chan' = chan /\ net[p].state = "CONNECTED_TO_MASTER"
      /\ net'[p].state = "JOINING"
      /\ room'.members = room.members /\ room'.next = room.next /\ room'.seat = room.seat
  BY <1>0, PressJoinDoes
<1>2. ~Seated(p)
  BY <1>1 DEF RoomInv, SeatsInv, Seats, OnSeat, Here
<1>3. HasRole(net'[p])
  BY <1>1 DEF HasRole, InTheRoom
<1> QED
  BY <1>1, <1>2, <1>3, OneMemberMoves

LEMMA RoomFinishJoin ==
  ASSUME RoomInv, SeatsInv', NEW p \in Peers, FinishJoin(p)
  PROVE  RoomInv'
<1>0. LinkInv
  BY DEF RoomInv, SeatsInv
<1>1. /\ Stays(p) /\ UNCHANGED <<room, chan>> /\ net[p].halfJoined
      /\ net'[p].state = net[p].state /\ net'[p].players = net[p].players
      /\ net'[p].index = room.seat[p] /\ net[p].state = "IN_ROOM"
      /\ net'[p].isMaster = (Master(net[p].players) = room.seat[p])
  BY <1>0, FinishJoinDoes
<1>2. Seated(p)
  BY <1>1 DEF RoomInv, SeatsInv, Seats, OffSeat
<1>3. /\ net[p].players \in SUBSET Nat /\ room.seat[p] \in net[p].players
      /\ Informed(net[p], chan[p], room.seat[p], room.members, room.next)
  BY <1>1, <1>2, MemberFacts DEF Informed, InTheRoom
<1>4. HasRole(net'[p])
  BY <1>1, <1>3, MasterFacts DEF HasRole
<1>5. Informed(net'[p], chan[p], room.seat[p], room.members, room.next)
  BY <1>1, <1>3 DEF Informed, Known, InTheRoom
<1> QED
  BY <1>1, <1>4, <1>5, OneMemberMoves

LEMMA RoomLeave ==
  ASSUME RoomInv, SeatsInv', NEW p \in Peers, leaveRoomEventAction(p)
  PROVE  RoomInv'
<1>0. LinkInv /\ Shape
  BY DEF RoomInv, SeatsInv, LinkInv
<1>1. /\ Stays(p) /\ ~net[p].halfJoined
      /\ chan[p] # <<>> /\ Head(chan[p]).what = "leave" /\ Handled(p)
      /\ net'[p].players = net[p].players \ {Head(chan[p]).who}
      /\ net'[p].halfJoined = net[p].halfJoined /\ net'[p].index = net[p].index
      /\ net'[p].isMaster = (Master(net'[p].players) = net[p].index)
      /\ net'[p].state = IF net[p].state = "IN_GAME" THEN "IN_ROOM" ELSE net[p].state
      /\ room'.members = room.members /\ room'.next = room.next /\ room'.seat = room.seat
  BY <1>0, LeaveDoes
<1>2. Seated(p)
  BY <1>1 DEF RoomInv, SeatsInv, Seats, OffSeat
<1>3. /\ net[p] \in Client /\ chan[p] \in Seq(Event) /\ room.seat[p] \in Nat
      /\ room.seat[p] \in room.members /\ net[p].state \in Here
      /\ Informed(net[p], chan[p], room.seat[p], room.members, room.next)
      /\ net[p].players \in SUBSET Nat /\ InTheRoom(net[p])
  BY <1>1, <1>2, MemberFacts
<1>4. net[p].index = room.seat[p] /\ InTheRoom(net'[p])
  BY <1>1, <1>3 DEF Informed, InTheRoom
<1>5. Informed(net'[p], Tail(chan[p]), room.seat[p], room.members, room.next)
  <2>1. net'[p].players = IF Head(chan[p]).what = "join" THEN Head(chan[p]).members
                          ELSE IF Head(chan[p]).what = "leave"
                               THEN net[p].players \ {Head(chan[p]).who} ELSE net[p].players
    BY <1>1
  <2> QED
    BY <1>1, <1>3, <1>4, <2>1, InformedHandled
<1>6. HasRole(net'[p])
  <2>1. net'[p].index \in net'[p].players /\ net'[p].players \in SUBSET Nat
    BY <1>1, <1>3, <1>4, <1>5 DEF Informed
  <2>2. (Master(net'[p].players) = net'[p].index) <=>
           \A m \in net'[p].players : net'[p].index <= m
    BY <2>1, MasterFacts
  <2>3. net'[p].isMaster <=> (Master(net'[p].players) = net'[p].index)
    BY <1>1
  <2> QED
    BY <2>1, <2>2, <2>3 DEF HasRole
<1>7. \A q \in Peers : chan'[q] = IF q = p THEN Tail(chan[p]) ELSE chan[q]
  BY <1>0, <1>1, HandledBy
<1> QED
  BY <1>1, <1>5, <1>6, <1>7, OneMemberMoves

LEMMA RoomJoin ==
  ASSUME RoomInv, SeatsInv', NEW p \in Peers, joinRoomEventAction(p)
  PROVE  RoomInv'
<1>0. LinkInv /\ Shape
  BY DEF RoomInv, SeatsInv, LinkInv
<1>1. /\ Stays(p) /\ UNCHANGED room /\ ~net[p].halfJoined
      /\ chan[p] # <<>> /\ Head(chan[p]).what = "join" /\ Handled(p)
      /\ net'[p].players = Head(chan[p]).members
      /\ net'[p].halfJoined = (net[p].state = "JOINING")
      /\ net'[p].state = IF net[p].state = "JOINING" THEN "IN_ROOM" ELSE net[p].state
      /\ net'[p].index = net[p].index /\ net'[p].isMaster = net[p].isMaster
  BY <1>0, JoinDoes
<1>2. Seated(p)
  BY <1>1 DEF RoomInv, SeatsInv, Seats, OffSeat
<1>3. /\ net[p] \in Client /\ chan[p] \in Seq(Event) /\ room.seat[p] \in Nat
      /\ room.seat[p] \in room.members /\ net[p].state \in Here
      /\ Informed(net[p], chan[p], room.seat[p], room.members, room.next)
      /\ HasRole(net[p]) /\ net[p].players \in SUBSET Nat
  BY <1>2, MemberFacts
<1>4. /\ InTheRoom(net'[p])
      /\ ~net'[p].halfJoined => InTheRoom(net[p]) /\ net'[p].index = room.seat[p]
  BY <1>1, <1>3 DEF Informed, InTheRoom, Here
<1>5. Informed(net'[p], Tail(chan[p]), room.seat[p], room.members, room.next)
  <2>1. net'[p].players = IF Head(chan[p]).what = "join" THEN Head(chan[p]).members
                          ELSE IF Head(chan[p]).what = "leave"
                               THEN net[p].players \ {Head(chan[p]).who} ELSE net[p].players
    BY <1>1
  <2> QED
    BY <1>1, <1>3, <1>4, <2>1, InformedHandled
<1>6. HasRole(net'[p])
  <2> SUFFICES ASSUME InTheRoom(net[p]), ~net'[p].halfJoined, net'[p].index = room.seat[p]
               PROVE  /\ net'[p].index \in net'[p].players
                      /\ net'[p].isMaster <=> \A m \in net'[p].players : net'[p].index <= m
    BY <1>4 DEF HasRole
  <2>1. net'[p].index \in net'[p].players
    BY <1>4, <1>5 DEF Informed
  <2>2. /\ Head(chan[p]) = chan[p][1] /\ 1 \in Joins(chan[p])
    <3>1. Head(chan[p]) = chan[p][1] /\ Len(chan[p]) \in Nat \ {0}
      BY <1>1, <1>3, TailsOfNews
    <3> QED
      BY <1>1, <3>1 DEF Joins
  <2>3. \A m : ~LeftBy(chan[p], 1, m)
    <3>1. \A k \in 1 .. 1 : k = 1
      OBVIOUS
    <3> QED
      BY <1>1, <2>2, <3>1 DEF LeftBy
  <2>4. net[p].players \subseteq net'[p].players
    BY <1>1, <1>3, <2>2, <2>3 DEF Informed, News
  <2>5. \A m \in net'[p].players : m > room.seat[p] \/ m \in net[p].players
    BY <1>1, <1>3, <2>2 DEF Informed, Known
  <2>6. net[p].isMaster <=> \A m \in net[p].players : room.seat[p] <= m
    BY <1>1, <1>3 DEF HasRole
  <2>7. \A m \in net'[p].players : m > room.seat[p] => room.seat[p] <= m
    <3>1. net'[p].players \in SUBSET Nat
      BY <1>1, <1>3, <2>2, HandledFacts, EventKinds, <1>0
    <3> QED
      BY <1>3, <3>1
  <2> QED
    BY <1>1, <2>1, <2>4, <2>5, <2>6, <2>7
<1>7. \A q \in Peers : chan'[q] = IF q = p THEN Tail(chan[p]) ELSE chan[q]
  BY <1>0, <1>1, HandledBy
<1> QED
  BY <1>1, <1>5, <1>6, <1>7, OneMemberMoves

LEMMA RoomServerJoins ==
  ASSUME RoomInv, SeatsInv', NEW p \in Peers, ServerJoins(p)
  PROVE  RoomInv'
<1>0. /\ LinkInv /\ Shape /\ room.members \in SUBSET Nat /\ room.next \in Nat
  BY PeerShape DEF RoomInv, SeatsInv, LinkInv
<1> DEFINE here == room.members \cup {room.next}
           after == room.next + 1
           e == JoinEvent
<1>1. /\ UNCHANGED <<net, main, games>> /\ p \in room.asked
      /\ room'.members = here /\ room'.next = after
      /\ room'.seat[p] = room.next /\ \A q \in Peers \ {p} : room'.seat[q] = room.seat[q]
      /\ e \in Event
      /\ \A q \in Peers : chan'[q] = IF q = p \/ Seated(q) THEN Append(chan[q], e) ELSE chan[q]
  BY <1>0, JoinsDoes
<1>2. /\ here \in SUBSET Nat /\ after \in Nat /\ e.what = "join" /\ e.members = here
  BY <1>0 DEF JoinEvent
<1>3. ~Seated(p) /\ net[p].state = "JOINING" /\ chan[p] = <<>> /\ net[p].players = {}
  BY <1>1 DEF RoomInv, SeatsInv, Seats, Waits, OffSeat, InTheRoom
<1> HIDE DEF here, after, e
<1>4. Informed(net'[p], chan'[p], room'.seat[p], room'.members, room'.next)
  <2>1. \A m \in here : m < after
    BY <1>0 DEF here, after, RoomInv, SeatsInv, Seats, OnSeat
  <2>2. room.next \in here
    BY DEF here
  <2> DEFINE es == Append(<<>>, e)
  <2>3. /\ News({}, es, here, after) /\ es # <<>> /\ es[1] = e /\ \A i \in Joins(es) : i = 1
    BY <1>1, <1>2, <2>1, FirstNews
  <2>4. chan'[p] = es
    BY <1>1, <1>3
  <2> HIDE DEF es
  <2>5. Informed(net[p], es, room.next, here, after)
    BY <1>2, <1>3, <2>2, <2>3 DEF Informed, InTheRoom, Known
  <2> QED
    BY <1>1, <2>4, <2>5
<1>5. ASSUME NEW q \in Peers \ {p}, Seated(q)
      PROVE  Informed(net'[q], chan'[q], room'.seat[q], room'.members, room'.next)
  <2>1. /\ net[q] \in Client /\ chan[q] \in Seq(Event)
        /\ room.seat[q] \in Nat /\ room.seat[q] < room.next /\ net[q].state \in Here
        /\ ~InTheRoom(net[q]) => net[q].players = {}
        /\ Informed(net[q], chan[q], room.seat[q], room.members, room.next)
    BY <1>5, MemberFacts
  <2>2. /\ e \in Event /\ e.what = "join" /\ e.members = here
        /\ here = room.members \cup {room.next} /\ after = room.next + 1
    BY <1>1, <1>2 DEF here, after
  <2>3. Informed(net[q], Append(chan[q], e), room.seat[q], here, after)
    BY <1>0, <1>2, <2>1, <2>2, InformedSent
  <2> QED
    BY <1>1, <1>5, <2>3
<1>6. ASSUME NEW q \in Peers
      PROVE  /\ Seated(q)' => Informed(net'[q], chan'[q], room'.seat[q], room'.members, room'.next)
             /\ HasRole(net'[q])
  <2>1. q # p => (Seated(q)' <=> Seated(q))
    BY <1>1 DEF Seated
  <2> QED
    BY <1>1, <1>4, <1>5, <2>1 DEF RoomInv
<1> QED
  BY <1>6 DEF RoomInv

LEMMA RoomDrop ==
  ASSUME RoomInv, SeatsInv', NEW p \in Peers, LoseConnection(p) \/ Quit(p) \/ Crash(p)
  PROVE  RoomInv'
<1>0. /\ LinkInv /\ Shape /\ room.members \in SUBSET Nat /\ room.next \in Nat
      /\ room.seat[p] \in Nat
  BY PeerShape DEF RoomInv, SeatsInv, LinkInv
<1> DEFINE here == room.members \ {room.seat[p]}
           e == LeaveEvent(p)
<1>1. /\ Stays(p) /\ Seated(p)
      /\ net'[p] = net[p] \/ net'[p] = NewNet
      /\ room'.members = here
      /\ room'.members # {} => room'.next = room.next
      /\ room'.seat[p] = 0 /\ \A q \in Peers \ {p} : room'.seat[q] = room.seat[q]
      /\ e \in Event
      /\ \A q \in Peers \ {p} : chan'[q] = IF Seated(q) THEN Append(chan[q], e) ELSE chan[q]
  BY <1>0, DropDoes
<1>2. /\ here \in SUBSET Nat /\ e.what = "leave" /\ e.who = room.seat[p] /\ e.who < room.next
  BY <1>0, <1>1 DEF LeaveEvent, RoomInv, SeatsInv, Seats, OnSeat
<1>3. /\ ~Seated(p)' /\ \A q \in Peers \ {p} : Seated(q)' <=> Seated(q)
  BY <1>1 DEF Seated, NotSeated
<1>4. HasRole(net'[p])
  <2>1. ~InTheRoom(NewNet)
    BY FirstClients DEF InTheRoom
  <2> QED
    BY <1>1, <2>1 DEF RoomInv, HasRole
<1> HIDE DEF here, e
<1>5. ASSUME NEW q \in Peers \ {p}, Seated(q)
      PROVE  Informed(net'[q], chan'[q], room'.seat[q], room'.members, room'.next)
  <2>1. /\ net[q] \in Client /\ chan[q] \in Seq(Event)
        /\ room.seat[q] \in Nat /\ room.seat[q] < room.next /\ net[q].state \in Here
        /\ ~InTheRoom(net[q]) => net[q].players = {}
        /\ Informed(net[q], chan[q], room.seat[q], room.members, room.next)
    BY <1>5, MemberFacts
  <2>2. here = room.members \ {e.who}
    BY <1>2 DEF here
  <2>3. room'.members # {}
    <3>1. Seated(q)' /\ room'.seat[q] \in Nat
      BY <1>1, <1>3, <1>5, <2>1
    <3> QED
      BY <3>1 DEF SeatsInv, Seats
  <2>4. Informed(net[q], Append(chan[q], e), room.seat[q], here, room.next)
    BY <1>0, <1>1, <1>2, <2>1, <2>2, InformedSent
  <2>5. net'[q] = net[q] /\ chan'[q] = Append(chan[q], e)
    BY <1>1, <1>5 DEF Stays
  <2> QED
    BY <1>1, <2>3, <2>4, <2>5
<1>6. ASSUME NEW q \in Peers
      PROVE  /\ Seated(q)' => Informed(net'[q], chan'[q], room'.seat[q], room'.members, room'.next)
             /\ HasRole(net'[q])
  <2>1. q # p => net'[q] = net[q] /\ (Seated(q)' <=> Seated(q))
    BY <1>1, <1>3 DEF Stays
  <2> QED
    BY <1>3, <1>4, <1>5, <2>1 DEF RoomInv
<1> QED
  BY <1>6 DEF RoomInv

\* The peers and the room at the beginning.
LEMMA FirstPeers ==
  ASSUME Init, NEW p \in Peers
  PROVE  /\ Len(InRoom) \in Nat /\ DOMAIN InRoom = 1 .. Len(InRoom)
         /\ SeatOf(p) \in 0 .. Len(InRoom)
         /\ IF SeatOf(p) = 0 THEN net[p] \in {NewNet, Connected} ELSE net[p] = Joined(p)
         /\ main[p].screen \in {"LOGO", "LOBBY"} /\ main[p].at = "idle" /\ main[p].game = NoGame
         /\ main[p].slots = {}
         /\ chan[p] = <<>> /\ games = <<>> /\ quits = 0
         /\ room.members = 1 .. Len(InRoom) /\ room.next = Len(InRoom) + 1 /\ room.asked = {}
         /\ room.open /\ room.seat[p] = SeatOf(p)
<1>1. /\ Len(InRoom) \in Nat /\ DOMAIN InRoom = 1 .. Len(InRoom)
      /\ \A i \in 1 .. Len(InRoom) : InRoom[i] \in Peers \ Fresh
  BY SessionAssumption, LenProperties, ElementOfSeq
<1>2. SeatOf(p) \in 0 .. Len(InRoom) /\ (SeatOf(p) # 0 => p \notin Fresh)
  BY <1>1, SeatOfFacts
<1>3. IF SeatOf(p) = 0 THEN net[p] \in {NewNet, Connected} ELSE net[p] = Joined(p)
  BY <1>2 DEF Init, NotSeated
<1>4. /\ main[p].screen \in {"LOGO", "LOBBY"} /\ main[p].at = "idle" /\ main[p].game = NoGame
      /\ main[p].slots = {} /\ chan[p] = <<>> /\ games = <<>> /\ quits = 0
  BY DEF Init, NewMain
<1>5. /\ room.members = 1 .. Len(InRoom) /\ room.next = Len(InRoom) + 1 /\ room.asked = {}
      /\ room.open /\ room.seat[p] = SeatOf(p)
  <2> DEFINE seats == [q \in Peers |-> SeatOf(q)]
  <2>1. room = [EmptyRoom(seats) EXCEPT !.members = 1 .. Len(InRoom), !.next = Len(InRoom) + 1]
    BY <1>1 DEF Init
  <2>2. seats[p] = SeatOf(p)
    OBVIOUS
  <2> HIDE DEF seats
  <2>3. /\ room.members = 1 .. Len(InRoom) /\ room.next = Len(InRoom) + 1 /\ room.asked = {}
        /\ room.open /\ room.seat = seats
    BY <2>1 DEF EmptyRoom
  <2> QED
    BY <2>2, <2>3
<1> QED
  BY <1>1, <1>2, <1>3, <1>4, <1>5

LEMMA NoNews ==
  /\ Joins(<<>>) = {}
  /\ \A i, m : ~LeftBy(<<>>, 0, m)
  /\ \A members, next : (\A m \in members : m < next) => News(members, <<>>, members, next)
  /\ \A P, members, next : News(P, <<>>, members, next) => P = members
<1>1. Len(<<>>) = 0 /\ 1 .. 0 = {}
  BY EmptySeq
<1> DEFINE c == <<>>
<1> HIDE DEF c
<1>2. Len(c) = 0
  BY <1>1 DEF c
<1>3. Joins(c) = {} /\ \A m : ~LeftBy(c, 0, m)
  <2>1. Joins(c) = {}
    BY <1>1, <1>2 DEF Joins
  <2> QED
    BY <1>1, <2>1 DEF LeftBy
<1>4. \A members, next : (\A m \in members : m < next) => News(members, c, members, next)
  BY <1>1, <1>2, <1>3 DEF News
<1>5. \A P, members, next : News(P, c, members, next) => P = members
  BY <1>2, <1>3 DEF News
<1> QED
  BY <1>3, <1>4, <1>5 DEF c

LEMMA RoomInitially == Init => RoomInv
<1> SUFFICES ASSUME Init PROVE RoomInv
  OBVIOUS
<1>1. ASSUME NEW p \in Peers
      PROVE  /\ Seated(p) => Informed(net[p], chan[p], room.seat[p], room.members, room.next)
             /\ HasRole(net[p])
  <2>0. /\ Len(InRoom) \in Nat /\ DOMAIN InRoom = 1 .. Len(InRoom)
        /\ SeatOf(p) \in 0 .. Len(InRoom)
        /\ IF SeatOf(p) = 0 THEN net[p] \in {NewNet, Connected} ELSE net[p] = Joined(p)
        /\ chan[p] = <<>> /\ room.members = 1 .. Len(InRoom) /\ room.next = Len(InRoom) + 1
        /\ room.seat[p] = SeatOf(p)
    BY FirstPeers
  <2>1. CASE SeatOf(p) = 0
    <3>1. net[p].state \in {"UNCONNECTED", "CONNECTED_TO_MASTER"}
      BY <2>0, <2>1, FirstClients
    <3> QED
      BY <2>0, <2>1, <3>1 DEF Seated, NotSeated, HasRole, InTheRoom
  <2>2. CASE SeatOf(p) # 0
    <3>1. /\ net[p].state = "IN_ROOM" /\ net[p].players = 1 .. Len(InRoom)
          /\ net[p].index = SeatOf(p) /\ net[p].isMaster = (SeatOf(p) = 1)
          /\ SeatOf(p) \in 1 .. Len(InRoom)
      BY <2>0, <2>2, FirstClients
    <3>2. HasRole(net[p])
      <4> DEFINE n == SeatOf(p)
                 len == Len(InRoom)
      <4>1. /\ len \in Nat /\ n \in 1 .. len /\ net[p].players = 1 .. len /\ net[p].index = n
            /\ net[p].isMaster = (n = 1)
        BY <2>0, <3>1
      <4> HIDE DEF n, len
      <4>2. n = 1 <=> \A m \in 1 .. len : n <= m
        BY <4>1
      <4> QED
        BY <4>1, <4>2 DEF HasRole
    <3>3. News(1 .. Len(InRoom), <<>>, 1 .. Len(InRoom), Len(InRoom) + 1)
      <4>1. \A m \in 1 .. Len(InRoom) : m < Len(InRoom) + 1
        BY <2>0
      <4> QED
        BY <4>1, NoNews
    <3>4. Informed(net[p], <<>>, SeatOf(p), 1 .. Len(InRoom), Len(InRoom) + 1)
      BY <3>1, <3>3, NoNews DEF Informed, InTheRoom
    <3> QED
      BY <2>0, <3>2, <3>4
  <2> QED
    BY <2>1, <2>2
<1> QED
  BY <1>1, SeatsInitially DEF RoomInv

LEMMA RoomKept == RoomInv /\ [Next]_vars => RoomInv'
<1> SUFFICES ASSUME RoomInv, [Next]_vars PROVE RoomInv'
  OBVIOUS
<1>1. SeatsInv' /\ LinkInv
  BY SeatsKeptByStep DEF RoomInv, SeatsInv
<1>2. CASE Calm
  <2>1. CASE Peers = {}
    BY <1>1, <2>1 DEF RoomInv
  <2>2. ASSUME NEW p \in Peers PROVE RoomInv'
    BY <1>1, <1>2, RoomQuietSteps
  <2> QED
    BY <2>1, <2>2
<1>3. ASSUME NEW p \in Peers,
             \/ ConfirmsMove(p) \/ PressJoin(p) \/ RunStart(p) \/ joinRoomEventAction(p)
             \/ FinishJoin(p) \/ leaveRoomEventAction(p) \/ customEventStart(p)
             \/ ServerJoins(p) \/ LoseConnection(p) \/ Quit(p) \/ Crash(p)
      PROVE  RoomInv'
  BY <1>1, <1>3, RoomQuietSteps, RoomPressJoin, RoomJoin, RoomFinishJoin, RoomLeave,
     RoomServerJoins, RoomDrop
<1> QED
  BY <1>1, <1>2, <1>3, Steps

LEMMA RoomAlways == Spec => []RoomInv
BY RoomInitially, RoomKept, PTL DEF Spec

LEMMA MasterAgreed == RoomInv => OneMaster
<1> SUFFICES ASSUME RoomInv, Quiet, NEW p \in Peers, Seated(p)
             PROVE  net[p].isMaster <=> room.seat[p] = Master(room.members)
  BY DEF OneMaster
<1>1. chan[p] = <<>> /\ ~net[p].halfJoined
  BY DEF Quiet
<1>2. /\ room.members \in SUBSET Nat /\ room.seat[p] \in room.members /\ net[p].state \in Here
      /\ Informed(net[p], chan[p], room.seat[p], room.members, room.next)
      /\ HasRole(net[p])
  BY MemberFacts
<1>3. InTheRoom(net[p]) /\ net[p].index = room.seat[p] /\ net[p].players = room.members
  <2>1. News(net[p].players, <<>>, room.members, room.next)
    BY <1>1, <1>2 DEF Informed
  <2>2. net[p].players = room.members
    BY <2>1, NoNews
  <2> QED
    BY <1>1, <1>2, <2>2 DEF Informed, InTheRoom, Here
<1>4. net[p].isMaster <=> \A m \in room.members : room.seat[p] <= m
  BY <1>1, <1>2, <1>3 DEF HasRole
<1> QED
  BY <1>2, <1>4, MasterFacts

\* Once every event is handled exactly one member of the room takes itself for the master
\* (isMaster_, client.cpp:127 and 135): the one with the least number, whoever joined,
\* left, crashed or lost its connection in between, in any room of any size.
THEOREM OneMasterAlways == Spec => []OneMaster
BY RoomAlways, MasterAgreed, PTL

-----------------------------------------------------------------------------
(* The history of the starts.                                               *)

LEMMA FlagsTakenBack ==
  ASSUME NEW s \in Seq(Start)
  PROVE  /\ \A g \in DOMAIN s : \A k \in DOMAIN s :
              /\ [s EXCEPT ![g].settled = FALSE][k].members = s[k].members
              /\ [s EXCEPT ![g].settled = FALSE][k].whole = s[k].whole
              /\ [s EXCEPT ![g].settled = FALSE][k].settled = (s[k].settled /\ k # g)
         /\ \A g \in DOMAIN s : Len([s EXCEPT ![g].settled = FALSE]) = Len(s)
         /\ \A k \in DOMAIN s :
              /\ [g \in DOMAIN s |-> [s[g] EXCEPT !.whole = FALSE]][k].members = s[k].members
              /\ [g \in DOMAIN s |-> [s[g] EXCEPT !.whole = FALSE]][k].whole = FALSE
              /\ [g \in DOMAIN s |-> [s[g] EXCEPT !.whole = FALSE]][k].settled = s[k].settled
         /\ Len([g \in DOMAIN s |-> [s[g] EXCEPT !.whole = FALSE]]) = Len(s)
<1>0. /\ DOMAIN s = 1 .. Len(s) /\ Len(s) \in Nat
      /\ \A k \in DOMAIN s : s[k] \in Start
      /\ \A g : /\ [s EXCEPT ![g].settled = FALSE] \in Seq(Start)
               /\ DOMAIN [s EXCEPT ![g].settled = FALSE] = DOMAIN s
      /\ [g \in DOMAIN s |-> [s[g] EXCEPT !.whole = FALSE]] \in Seq(Start)
  BY FlagsKept
<1>1. \A x \in Start : /\ [x EXCEPT !.settled = FALSE].members = x.members
                       /\ [x EXCEPT !.settled = FALSE].whole = x.whole
                       /\ [x EXCEPT !.settled = FALSE].settled = FALSE
                       /\ [x EXCEPT !.whole = FALSE].members = x.members
                       /\ [x EXCEPT !.whole = FALSE].settled = x.settled
                       /\ [x EXCEPT !.whole = FALSE].whole = FALSE
                       /\ x.settled \in BOOLEAN
  BY DEF Start
<1>2. ASSUME NEW g \in DOMAIN s, NEW k \in DOMAIN s
      PROVE  /\ [s EXCEPT ![g].settled = FALSE][k].members = s[k].members
             /\ [s EXCEPT ![g].settled = FALSE][k].whole = s[k].whole
             /\ [s EXCEPT ![g].settled = FALSE][k].settled = (s[k].settled /\ k # g)
  <2>1. [s EXCEPT ![g].settled = FALSE][k] = IF k = g THEN [s[g] EXCEPT !.settled = FALSE] ELSE s[k]
    OBVIOUS
  <2>2. CASE k = g
    BY <1>0, <1>1, <2>1, <2>2
  <2>3. CASE k # g
    BY <1>0, <1>1, <2>1, <2>3
  <2> QED
    BY <2>2, <2>3
<1>3. ASSUME NEW t \in Seq(Start), DOMAIN t = DOMAIN s PROVE Len(t) = Len(s)
  <2>1. DOMAIN t = 1 .. Len(t) /\ Len(t) \in Nat
    BY LenProperties
  <2>2. \A i, j \in Nat : 1 .. i = 1 .. j => i = j
    <3>1. ASSUME NEW i \in Nat, NEW j \in Nat, 1 .. i = 1 .. j, i < j PROVE FALSE
      <4>1. j \in 1 .. j /\ j \notin 1 .. i
        BY <3>1
      <4> QED
        BY <3>1, <4>1
    <3>2. \A i, j \in Nat : i < j \/ j < i \/ i = j
      OBVIOUS
    <3> QED
      BY <3>1, <3>2
  <2> QED
    BY <1>0, <1>3, <2>1, <2>2
<1>4. \A g \in DOMAIN s : Len([s EXCEPT ![g].settled = FALSE]) = Len(s)
  BY <1>0, <1>3
<1>5. Len([g \in DOMAIN s |-> [s[g] EXCEPT !.whole = FALSE]]) = Len(s)
  BY <1>0, <1>3
<1>6. \A k \in DOMAIN s :
        /\ [g \in DOMAIN s |-> [s[g] EXCEPT !.whole = FALSE]][k].members = s[k].members
        /\ [g \in DOMAIN s |-> [s[g] EXCEPT !.whole = FALSE]][k].whole = FALSE
        /\ [g \in DOMAIN s |-> [s[g] EXCEPT !.whole = FALSE]][k].settled = s[k].settled
  BY <1>0, <1>1
<1> QED
  BY <1>2, <1>4, <1>5, <1>6

\* The games after a start by p: a second press of the same game, or a new one.
LEMMA StartMoves ==
  ASSUME LinkInv, NEW p \in Peers, RunStart(p),
         net[p].state = "IN_GAME" => net[p].game \in DOMAIN games
  PROVE  IF net[p].state = "IN_GAME"
         THEN /\ Len(games') = Len(games) /\ ~games'[net[p].game].settled
              /\ \A g \in DOMAIN games : /\ games'[g].members = games[g].members
                                         /\ games'[g].settled => games[g].settled
                                         /\ games'[g].whole = games[g].whole
         ELSE /\ Len(games') = Len(games) + 1
              /\ \A g \in DOMAIN games : games'[g] = games[g]
              /\ games'[Len(games) + 1].members = room.members
              /\ games'[Len(games) + 1].settled = ~Unsettled
              /\ games'[Len(games) + 1].whole = Seated(p)
<1>0. /\ games \in Seq(Start) /\ DOMAIN games = 1 .. Len(games) /\ Len(games) \in Nat
      /\ Shape /\ room.members \in SUBSET Nat
  BY PeerShape DEF LinkInv, Shape
<1>1. games' = IF net[p].state = "IN_GAME" THEN [games EXCEPT ![net[p].game].settled = FALSE]
               ELSE Append(games, [members |-> room.members, settled |-> ~Unsettled,
                                   whole |-> Seated(p)])
  BY RunStartDoes
<1>2. CASE net[p].state = "IN_GAME"
  <2> DEFINE T(g) == [games EXCEPT ![g].settled = FALSE]
  <2>1. games' = T(net[p].game) /\ net[p].game \in DOMAIN games
    BY <1>1, <1>2
  <2>2. /\ \A g \in DOMAIN games : \A k \in DOMAIN games :
              /\ T(g)[k].members = games[k].members
              /\ T(g)[k].whole = games[k].whole
              /\ T(g)[k].settled = (games[k].settled /\ k # g)
        /\ \A g \in DOMAIN games : Len(T(g)) = Len(games)
    BY <1>0, FlagsTakenBack
  <2> HIDE DEF T
  <2> QED
    BY <1>2, <2>1, <2>2
<1>3. CASE net[p].state # "IN_GAME"
  <2> DEFINE new == [members |-> room.members, settled |-> ~Unsettled, whole |-> Seated(p)]
  <2>1. new \in Start
    BY <1>0 DEF Start, Unsettled, Seated
  <2>2. games' = Append(games, new) /\ new.members = room.members
        /\ new.settled = ~Unsettled /\ new.whole = Seated(p)
    BY <1>1, <1>3
  <2> HIDE DEF new
  <2>3. /\ Len(games') = Len(games) + 1
        /\ (\A g \in 1 .. Len(games) : games'[g] = games[g]) /\ games'[Len(games) + 1] = new
    BY <1>0, <2>1, <2>2, AppendProperties
  <2> QED
    BY <1>0, <1>3, <2>2, <2>3
<1> QED
  BY <1>2, <1>3

LEMMA DropGames ==
  ASSUME LinkInv, NEW p \in Peers, LoseConnection(p) \/ Quit(p) \/ Crash(p)
  PROVE  /\ Len(games') = Len(games)
         /\ \A g \in DOMAIN games : /\ games'[g].members = games[g].members
                                    /\ games'[g].settled = games[g].settled
                                    /\ ~games'[g].whole
<1>0. games \in Seq(Start) /\ games' = [g \in DOMAIN games |-> [games[g] EXCEPT !.whole = FALSE]]
  BY PeerShape, DropDoes DEF LinkInv
<1> DEFINE t == [g \in DOMAIN games |-> [games[g] EXCEPT !.whole = FALSE]]
<1>1. /\ \A k \in DOMAIN games : /\ t[k].members = games[k].members
                                 /\ t[k].whole = FALSE /\ t[k].settled = games[k].settled
      /\ Len(t) = Len(games)
  BY <1>0, FlagsTakenBack
<1>2. games' = t
  BY <1>0
<1> HIDE DEF t
<1> QED
  BY <1>1, <1>2

-----------------------------------------------------------------------------
(* A game that somebody is in, shows, sends or receives has been started.   *)

ClientGames(c, D) == /\ c.game \in D \cup {NoGame} /\ c.mailbox \subseteq D
                     /\ c.state = "IN_GAME" => c.game \in D
                     /\ \A i \in DOMAIN c.tasks : c.tasks[i].do = "confirm" => c.tasks[i].game \in D
ScreenGames(m, D) == /\ m.game \in D \cup {NoGame}
                     /\ m.screen = "GAME" => m.game \in D
EventGames(es, D) == \A i \in 1 .. Len(es) : es[i].what \in {"start", "confirm"} => es[i].game \in D

Games == 1 .. Len(games)
GamesInv == /\ RoomInv
            /\ \A p \in Peers : /\ ClientGames(net[p], Games) /\ ScreenGames(main[p], Games)
                                /\ EventGames(chan[p], Games)

LEMMA MoreGames ==
  ASSUME NEW D, NEW E, D \subseteq E
  PROVE  /\ \A c : ClientGames(c, D) => ClientGames(c, E)
         /\ \A m : ScreenGames(m, D) => ScreenGames(m, E)
         /\ \A es : EventGames(es, D) => EventGames(es, E)
<1>1. \A c : ClientGames(c, D) => ClientGames(c, E)
  BY DEF ClientGames
<1>2. \A m : ScreenGames(m, D) => ScreenGames(m, E)
  BY DEF ScreenGames
<1>3. \A es : EventGames(es, D) => EventGames(es, E)
  BY DEF EventGames
<1> QED
  BY <1>1, <1>2, <1>3

LEMMA EventsMove ==
  ASSUME NEW es \in Seq(Event), NEW D, EventGames(es, D)
  PROVE  /\ es # <<>> => EventGames(Tail(es), D)
         /\ \A e \in Event : (e.what \in {"start", "confirm"} => e.game \in D)
                               => EventGames(Append(es, e), D)
<1>1. ASSUME es # <<>> PROVE EventGames(Tail(es), D)
  <2>1. /\ Len(Tail(es)) = Len(es) - 1
        /\ \A i \in 1 .. Len(es) - 1 : Tail(es)[i] = es[i + 1] /\ i + 1 \in 1 .. Len(es)
    BY <1>1, QueueFacts
  <2> QED
    BY <2>1 DEF EventGames
<1>2. ASSUME NEW e \in Event, e.what \in {"start", "confirm"} => e.game \in D
      PROVE  EventGames(Append(es, e), D)
  <2>1. /\ Len(es) \in Nat /\ Len(Append(es, e)) = Len(es) + 1
        /\ \A i \in 1 .. Len(es) : Append(es, e)[i] = es[i]
        /\ Append(es, e)[Len(es) + 1] = e
    BY MoreNews
  <2>2. \A i \in 1 .. Len(es) + 1 : i \in 1 .. Len(es) \/ i = Len(es) + 1
    BY <2>1
  <2> QED
    BY <1>2, <2>1, <2>2 DEF EventGames
<1> QED
  BY <1>1, <1>2

LEMMA TasksMove ==
  ASSUME Shape, NEW p \in Peers, NEW D, ClientGames(net[p], D)
  PROVE  /\ net[p].tasks # <<>> =>
              /\ \A i \in DOMAIN Tail(net[p].tasks) :
                    Tail(net[p].tasks)[i].do = "confirm" => Tail(net[p].tasks)[i].game \in D
              /\ Head(net[p].tasks).do = "confirm" => Head(net[p].tasks).game \in D
         /\ \A task \in Task : (task.do = "confirm" => task.game \in D) =>
              \A i \in DOMAIN Append(net[p].tasks, task) :
                Append(net[p].tasks, task)[i].do = "confirm" => Append(net[p].tasks, task)[i].game \in D
<1> DEFINE s == net[p].tasks
<1>0. s \in Seq(Task) /\ Len(s) \in Nat /\ DOMAIN s = 1 .. Len(s)
      /\ \A i \in DOMAIN s : s[i].do = "confirm" => s[i].game \in D
  BY PeerShape DEF ClientGames
<1> HIDE DEF s
<1>1. ASSUME s # <<>>
      PROVE  /\ \A i \in DOMAIN Tail(s) : Tail(s)[i].do = "confirm" => Tail(s)[i].game \in D
             /\ Head(s).do = "confirm" => Head(s).game \in D
  <2>1. /\ Head(s) = s[1] /\ DOMAIN Tail(s) = 1 .. Len(s) - 1 /\ Len(s) \in Nat \ {0}
        /\ \A i \in 1 .. Len(s) - 1 : Tail(s)[i] = s[i + 1] /\ i + 1 \in 1 .. Len(s)
    BY <1>0, <1>1, QueueFacts
  <2>2. 1 \in 1 .. Len(s)
    BY <2>1
  <2> QED
    BY <1>0, <2>1, <2>2
<1>2. ASSUME NEW task \in Task, task.do = "confirm" => task.game \in D
      PROVE  \A i \in DOMAIN Append(s, task) :
                Append(s, task)[i].do = "confirm" => Append(s, task)[i].game \in D
  <2>1. /\ Append(s, task) \in Seq(Task) /\ Len(Append(s, task)) = Len(s) + 1
        /\ \A i \in 1 .. Len(s) : Append(s, task)[i] = s[i]
        /\ Append(s, task)[Len(s) + 1] = task
    BY <1>0, AppendProperties
  <2>2. DOMAIN Append(s, task) = 1 .. Len(s) + 1
    BY <2>1, LenProperties
  <2>3. \A i \in 1 .. Len(s) + 1 : i \in 1 .. Len(s) \/ i = Len(s) + 1
    BY <1>0
  <2> QED
    BY <1>0, <1>2, <2>1, <2>2, <2>3
<1> QED
  BY <1>1, <1>2 DEF s

LEMMA GamesOfMain ==
  ASSUME GamesInv, NEW p \in Peers, MainStep(p)
  PROVE  ClientGames(net'[p], Games) /\ ScreenGames(main'[p], Games)
<1>0. /\ net[p] \in Client /\ main[p] \in Screen /\ net \in [Peers -> Client]
      /\ main \in [Peers -> Screen] /\ ClientGames(net[p], Games) /\ ScreenGames(main[p], Games)
  BY PeerShape DEF GamesInv, RoomInv, SeatsInv, LinkInv, Shape
<1>1. CASE StoreConnecting(p)
  <2>1. /\ net'[p].game = net[p].game /\ net'[p].mailbox = net[p].mailbox
        /\ net'[p].tasks = net[p].tasks /\ net'[p].state = "CONNECTING"
        /\ main'[p].game = main[p].game /\ main'[p].screen = main[p].screen
    BY <1>0, <1>1 DEF StoreConnecting, SetNet, SetMain, Client, Screen
  <2> QED
    BY <1>0, <2>1 DEF ClientGames, ScreenGames
<1>2. CASE LogoOver(p) \/ LobbySeesGame(p) \/ CreateGame(p) \/ GameFirstRead(p) \/ GamePing(p)
  <2>1. net' = net
    BY <1>2 DEF LogoOver, LobbySeesGame, CreateGame, GameFirstRead, GamePing
  <2>2. CASE LogoOver(p)
    BY <1>0, <2>2 DEF LogoOver, SetMain, ScreenGames, ClientGames, Screen
  <2>3. CASE LobbySeesGame(p)
    BY <1>0, <2>3 DEF LobbySeesGame, SetMain, ScreenGames, ClientGames, Screen
  <2>4. CASE CreateGame(p) \/ GamePing(p)
    <3>1. main'[p].game = main[p].game /\ main'[p].screen = main[p].screen
      BY <1>0, <2>4 DEF CreateGame, GamePing, SetMain, Screen
    <3> QED
      BY <1>0, <2>1, <3>1 DEF ScreenGames
  <2>5. CASE GameFirstRead(p)
    <3>1. \/ main'[p].game = main[p].game /\ main'[p].screen = main[p].screen
          \/ main'[p].game = NoGame /\ main'[p].screen = "LOBBY"
      BY <1>0, <2>5 DEF GameFirstRead, SetMain, NewMain, Screen
    <3> QED
      BY <1>0, <2>1, <3>1 DEF ScreenGames
  <2> QED
    BY <1>0, <1>2, <2>1, <2>2, <2>3, <2>4, <2>5
<1> QED
  BY <1>1, <1>2 DEF MainStep

LEMMA GamesOfUser ==
  ASSUME GamesInv, NEW p \in Peers, UserStep(p) \/ ServerJoins(p)
  PROVE  ClientGames(net'[p], Games) /\ ScreenGames(main'[p], Games)
<1>0. /\ net[p] \in Client /\ main[p] \in Screen /\ net \in [Peers -> Client] /\ Shape
      /\ main \in [Peers -> Screen] /\ ClientGames(net[p], Games) /\ ScreenGames(main[p], Games)
  BY PeerShape DEF GamesInv, RoomInv, SeatsInv, LinkInv, Shape
<1>1. CASE PressConnect(p) \/ PressJoin(p)
  <2>1. /\ net'[p].game = net[p].game /\ net'[p].mailbox = net[p].mailbox
        /\ net'[p].tasks = net[p].tasks
        /\ net'[p].state = net[p].state \/ net'[p].state = "JOINING"
    BY <1>0, <1>1 DEF PressConnect, PressJoin, SetNet, Client
  <2>2. main'[p].game = main[p].game /\ main'[p].screen = main[p].screen
    BY <1>0, <1>1 DEF PressConnect, PressJoin, SetMain, Screen
  <2> QED
    BY <1>0, <2>1, <2>2 DEF ClientGames, ScreenGames
<1>2. ASSUME NEW task \in Task, task.do = "confirm" => task.game \in Games, Queue(p, task),
             main' = main
      PROVE  ClientGames(net'[p], Games) /\ ScreenGames(main'[p], Games)
  <2>1. /\ net'[p].game = net[p].game /\ net'[p].mailbox = net[p].mailbox
        /\ net'[p].tasks = Append(net[p].tasks, task) /\ net'[p].state = net[p].state
    BY <1>0, <1>2 DEF Queue, SetNet, Client
  <2>2. \A i \in DOMAIN Append(net[p].tasks, task) :
          Append(net[p].tasks, task)[i].do = "confirm" => Append(net[p].tasks, task)[i].game \in Games
    BY <1>0, <1>2, TasksMove
  <2> QED
    BY <1>0, <1>2, <2>1, <2>2 DEF ClientGames
<1>3. CASE PressRegion(p) \/ PressStart(p)
  <2>1. [do |-> "region"] \in Task /\ [do |-> "start"] \in Task
    BY DEF Task
  <2> QED
    BY <1>2, <1>3, <2>1 DEF PressRegion, PressStart
<1>4. CASE SendConfirm(p)
  <2>1. main[p].game \in Games /\ main[p].game \in Nat
    BY <1>0, <1>4, PeerShape DEF SendConfirm, ScreenGames
  <2>2. [do |-> "confirm", game |-> main[p].game] \in Task
    BY <2>1 DEF Task
  <2> QED
    BY <1>2, <1>4, <2>1, <2>2 DEF SendConfirm
<1>5. CASE Import(p)
  <2>1. /\ net'[p].game = net[p].game /\ net'[p].mailbox = {}
        /\ net'[p].tasks = net[p].tasks /\ net'[p].state = net[p].state
        /\ main'[p].game = main[p].game /\ main'[p].screen = main[p].screen
    BY <1>0, <1>5 DEF Import, SetNet, SetMain, Client, Screen
  <2> QED
    BY <1>0, <2>1 DEF ClientGames, ScreenGames
<1>6. CASE LoseConnection(p) \/ Quit(p) \/ Crash(p)
  <2>1. \/ net' = net /\ main' = main
        \/ net'[p] = NewNet /\ main'[p] = NewMain("GONE")
    BY <1>6, DropDoes DEF GamesInv, RoomInv, SeatsInv
  <2>2. DOMAIN NewNet.tasks = {}
    <3>1. NewNet.tasks = <<>>
      BY FirstClients
    <3> QED
      BY <3>1
  <2>3. ClientGames(NewNet, Games) /\ ScreenGames(NewMain("GONE"), Games)
    BY <2>2, FirstClients DEF ClientGames, ScreenGames, NewMain, NoGame
  <2> QED
    BY <1>0, <2>1, <2>3
<1>7. CASE ServerJoins(p)
  BY <1>0, <1>7 DEF ServerJoins
<1> QED
  BY <1>1, <1>3, <1>4, <1>5, <1>6, <1>7, UserStep(p) \/ ServerJoins(p) DEF UserStep

\* A started game keeps its members and never gets a flag back.
NoLess(g) == /\ games'[g].members = games[g].members
             /\ (games'[g].settled => games[g].settled)
             /\ (games'[g].whole => games[g].whole)

\* How far a step takes the history: a new game is the next one, and no flag of an earlier
\* one comes back.
LEMMA GamesGrow ==
  ASSUME GamesInv, [Next]_vars
  PROVE  /\ Games \subseteq Games' /\ Games = DOMAIN games /\ Len(games) \in Nat
         /\ Len(games') \in {Len(games), Len(games) + 1}
         /\ \A g \in Games : NoLess(g)
<1>0. /\ LinkInv /\ Len(games) \in Nat /\ DOMAIN games = 1 .. Len(games) /\ Shape
      /\ \A p \in Peers : net[p].state = "IN_GAME" => net[p].game \in DOMAIN games
  <2>1. Shape /\ LinkInv
    BY DEF GamesInv, RoomInv, SeatsInv, LinkInv
  <2>2. Len(games) \in Nat /\ DOMAIN games = 1 .. Len(games)
    BY <2>1, LenProperties DEF Shape
  <2> QED
    BY <2>1, <2>2 DEF GamesInv, ClientGames, Games
<1>1. ASSUME games' = games
      PROVE  /\ Len(games') = Len(games)
             /\ \A g \in DOMAIN games : NoLess(g)
  BY <1>1 DEF NoLess
<1>2. ASSUME NEW p \in Peers, RunStart(p)
      PROVE  /\ Len(games') \in {Len(games), Len(games) + 1}
             /\ \A g \in DOMAIN games : NoLess(g)
  BY <1>0, <1>2, StartMoves DEF NoLess
<1>3. ASSUME NEW p \in Peers, LoseConnection(p) \/ Quit(p) \/ Crash(p)
      PROVE  /\ Len(games') = Len(games)
             /\ \A g \in DOMAIN games : NoLess(g)
  BY <1>0, <1>3, DropGames DEF NoLess
<1>4. \/ games' = games
      \/ \E p \in Peers : RunStart(p) \/ LoseConnection(p) \/ Quit(p) \/ Crash(p)
  BY <1>0, Steps DEF Calm, ConfirmsMove, PressJoin, joinRoomEventAction, FinishJoin,
                     leaveRoomEventAction, customEventStart, ServerJoins
<1>5. /\ Len(games') \in {Len(games), Len(games) + 1}
      /\ \A g \in DOMAIN games : NoLess(g)
  BY <1>1, <1>2, <1>3, <1>4
<1>6. Games \subseteq Games'
  <2> DEFINE n == Len(games)
             k == Len(games')
  <2>1. n \in Nat /\ k \in {n, n + 1} /\ Games = 1 .. n /\ Games' = 1 .. k
    BY <1>0, <1>5 DEF Games
  <2> HIDE DEF n, k
  <2> QED
    BY <2>1
<1> QED
  BY <1>0, <1>5, <1>6 DEF Games

\* What GamesInv says, part by part.
LEMMA GamesParts ==
  ASSUME GamesInv
  PROVE  /\ Shape /\ LinkInv /\ SeatsInv /\ RoomInv
         /\ Games = DOMAIN games /\ Games = 1 .. Len(games) /\ Len(games) \in Nat
         /\ \A p \in Peers : /\ ClientGames(net[p], Games) /\ ScreenGames(main[p], Games)
                             /\ EventGames(chan[p], Games)
                             /\ net[p].state = "IN_GAME" => net[p].game \in DOMAIN games
<1>1. Shape /\ LinkInv /\ SeatsInv /\ RoomInv
  BY DEF GamesInv, RoomInv, SeatsInv, LinkInv
<1>2. Games = DOMAIN games /\ Games = 1 .. Len(games) /\ Len(games) \in Nat
  BY <1>1, LenProperties DEF Games, Shape
<1>3. \A p \in Peers : ClientGames(net[p], Games) /\ ScreenGames(main[p], Games)
                       /\ EventGames(chan[p], Games)
  BY DEF GamesInv
<1> QED
  BY <1>1, <1>2, <1>3 DEF ClientGames

LEMMA GamesOfNetwork ==
  ASSUME GamesInv, [Next]_vars, NEW p \in Peers, NetworkStep(p)
  PROVE  ClientGames(net'[p], Games') /\ ScreenGames(main'[p], Games')
<1> DEFINE E == Games'
<1>0. /\ net[p] \in Client /\ main[p] \in Screen /\ net \in [Peers -> Client]
      /\ ClientGames(net[p], Games) /\ ScreenGames(main[p], Games)
      /\ EventGames(chan[p], Games) /\ Games \subseteq E /\ Shape /\ LinkInv
      /\ Games = 1 .. Len(games) /\ Len(games) \in Nat /\ E = 1 .. Len(games')
      /\ Games = DOMAIN games
  <2>1. Shape /\ LinkInv /\ Games = DOMAIN games /\ Games = 1 .. Len(games) /\ Len(games) \in Nat
        /\ ClientGames(net[p], Games) /\ ScreenGames(main[p], Games)
        /\ EventGames(chan[p], Games)
    BY GamesParts
  <2>2. Games \subseteq E /\ E = 1 .. Len(games')
    BY GamesGrow DEF Games
  <2>3. net[p] \in Client /\ main[p] \in Screen /\ net \in [Peers -> Client]
    BY <2>1, PeerShape DEF Shape
  <2> QED
    BY <2>1, <2>2, <2>3
<1>1. ClientGames(net[p], E) /\ ScreenGames(main[p], E) /\ EventGames(chan[p], E)
  BY <1>0, MoreGames
<1>2. net[p].tasks # <<>> =>
        \A i \in DOMAIN Tail(net[p].tasks) :
           Tail(net[p].tasks)[i].do = "confirm" => Tail(net[p].tasks)[i].game \in E
  BY <1>0, <1>1, TasksMove
<1>3. main' = main
  BY DEF NetworkStep, onAvailableRegions, connectReturn, RunRegion, RunStart, RunConfirm,
         joinRoomEventAction, FinishJoin, leaveRoomEventAction, customEventStart,
         customEventConfirm
<1>4. chan[p] # <<>> => /\ Head(chan[p]) = chan[p][1] /\ 1 \in 1 .. Len(chan[p])
  BY <1>0, HandledFacts
<1> SUFFICES ClientGames(net'[p], E)
  BY <1>1, <1>3
<1>5. CASE onAvailableRegions(p) \/ connectReturn(p)
  <2>1. /\ net'[p].game = net[p].game /\ net'[p].mailbox = net[p].mailbox
        /\ net'[p].tasks = net[p].tasks /\ net'[p].state # "IN_GAME"
    <3>1. CASE onAvailableRegions(p)
      BY <1>0, <3>1 DEF onAvailableRegions, SetNet, Client
    <3>2. CASE connectReturn(p)
      BY <1>0, <3>2 DEF connectReturn, SetNet, Client
    <3> QED
      BY <1>5, <3>1, <3>2
  <2> QED
    BY <1>1, <2>1 DEF ClientGames
<1>6. CASE RunRegion(p) \/ RunConfirm(p)
  <2>1. /\ net'[p].game = net[p].game /\ net'[p].mailbox = net[p].mailbox
        /\ net'[p].tasks = Tail(net[p].tasks) /\ net'[p].state = net[p].state
        /\ net[p].tasks # <<>>
    <3>1. CASE RunRegion(p)
      BY <1>0, <3>1 DEF RunRegion, HasTask, SetNet, Client
    <3>2. CASE RunConfirm(p)
      BY <1>0, <3>2 DEF RunConfirm, HasTask, SetNet, Client
    <3> QED
      BY <1>6, <3>1, <3>2
  <2> QED
    BY <1>1, <1>2, <2>1 DEF ClientGames
<1>7. CASE RunStart(p)
  <2> DEFINE g == IF net[p].state = "IN_GAME" THEN net[p].game ELSE Len(games) + 1
             rest == Tail(net[p].tasks)
  <2>1. net' = [net EXCEPT ![p] = [net[p] EXCEPT !.tasks = rest, !.state = "IN_GAME", !.game = g]]
        /\ net[p].tasks # <<>>
    BY <1>7 DEF RunStart, SetNet, HasTask
  <2>2. g \in E
    <3>1. CASE net[p].state = "IN_GAME"
      BY <1>1, <3>1 DEF ClientGames
    <3>2. CASE net[p].state # "IN_GAME"
      <4>1. Len(games') = Len(games) + 1
        BY <1>0, <1>7, <3>2, StartMoves
      <4> QED
        BY <1>0, <3>2, <4>1
    <3> QED
      BY <3>1, <3>2
  <2>3. \A i \in DOMAIN rest : rest[i].do = "confirm" => rest[i].game \in E
    BY <1>2, <2>1
  <2> HIDE DEF g, rest
  <2>4. net'[p].game = g /\ net'[p].mailbox = net[p].mailbox /\ net'[p].tasks = rest
    BY <1>0, <2>1 DEF Client
  <2> QED
    BY <1>1, <2>2, <2>3, <2>4 DEF ClientGames
<1>8. CASE joinRoomEventAction(p) \/ FinishJoin(p) \/ leaveRoomEventAction(p)
  <2>1. /\ net'[p].game \in {net[p].game, NoGame} /\ net'[p].mailbox = net[p].mailbox
        /\ net'[p].tasks = net[p].tasks
        /\ net'[p].state = "IN_GAME" => net'[p].game = net[p].game /\ net[p].state = "IN_GAME"
    <3>1. CASE joinRoomEventAction(p)
      BY <1>0, <3>1 DEF joinRoomEventAction, SetNet, Client
    <3>2. CASE FinishJoin(p)
      BY <1>0, <3>2 DEF FinishJoin, SetNet, Client
    <3>3. CASE leaveRoomEventAction(p)
      BY <1>0, <3>3 DEF leaveRoomEventAction, SetNet, Client, NoGame
    <3> QED
      BY <1>8, <3>1, <3>2, <3>3
  <2> QED
    BY <1>1, <2>1 DEF ClientGames
<1>9. CASE customEventStart(p)
  <2>1. Head(chan[p]).game \in E
    BY <1>1, <1>4, <1>9 DEF customEventStart, HasEvent, EventGames
  <2>2. /\ net'[p].game \in {net[p].game, Head(chan[p]).game}
        /\ net'[p].mailbox = net[p].mailbox /\ net'[p].tasks = net[p].tasks
        /\ net'[p].game = Head(chan[p]).game \/ net'[p].state = net[p].state
    BY <1>0, <1>9 DEF customEventStart, SetNet, Client
  <2>3. net'[p].game # Head(chan[p]).game => net'[p].game = net[p].game
    BY <2>2
  <2> QED
    BY <1>1, <2>1, <2>2, <2>3 DEF ClientGames
<1>10. CASE customEventConfirm(p)
  <2>1. Head(chan[p]).game \in E
    BY <1>1, <1>4, <1>10 DEF customEventConfirm, HasEvent, EventGames
  <2>2. /\ net'[p].game = net[p].game /\ net'[p].state = net[p].state
        /\ net'[p].tasks = net[p].tasks
        /\ net'[p].mailbox \subseteq net[p].mailbox \cup {Head(chan[p]).game}
    BY <1>0, <1>10 DEF customEventConfirm, SetNet, Client
  <2> QED
    BY <1>1, <2>1, <2>2 DEF ClientGames
<1> QED
  BY <1>5, <1>6, <1>7, <1>8, <1>9, <1>10 DEF NetworkStep

\* What is on its way after a step names games that have been started.
LEMMA GamesOfEvents ==
  ASSUME GamesInv, [Next]_vars, NEW q \in Peers
  PROVE  EventGames(chan'[q], Games')
<1> DEFINE E == Games'
<1>0. /\ \A p \in Peers : EventGames(chan[p], E) /\ ClientGames(net[p], E)
      /\ Shape /\ LinkInv /\ chan[q] \in Seq(Event)
      /\ Games = 1 .. Len(games) /\ Len(games) \in Nat /\ E = 1 .. Len(games')
      /\ Games = DOMAIN games
      /\ \A p \in Peers : net[p].state = "IN_GAME" => net[p].game \in DOMAIN games
  <2>1. /\ Games \subseteq E /\ E = 1 .. Len(games')
    BY GamesGrow DEF Games
  <2>2. /\ Shape /\ LinkInv /\ Games = 1 .. Len(games) /\ Len(games) \in Nat
        /\ Games = DOMAIN games
        /\ \A p \in Peers : /\ EventGames(chan[p], Games) /\ ClientGames(net[p], Games)
                            /\ net[p].state = "IN_GAME" => net[p].game \in DOMAIN games
    BY GamesParts
  <2>4. chan[q] \in Seq(Event)
    BY <2>2, PeerShape
  <2>3. \A p \in Peers : EventGames(chan[p], E) /\ ClientGames(net[p], E)
    BY <2>1, <2>2, MoreGames
  <2> QED
    BY <2>1, <2>2, <2>3, <2>4
<1>1. \A e \in Event : (e.what \in {"start", "confirm"} => e.game \in E)
                          => EventGames(Append(chan[q], e), E)
  BY <1>0, EventsMove
<1>2. chan[q] # <<>> => EventGames(Tail(chan[q]), E)
  BY <1>0, EventsMove
<1>3. ASSUME NEW p \in Peers, chan[p] # <<>>, Handled(p)
      PROVE  EventGames(chan'[q], E)
  <2>1. chan'[q] = IF q = p THEN Tail(chan[p]) ELSE chan[q]
    BY <1>0, <1>3, HandledBy
  <2> QED
    BY <1>0, <1>2, <1>3, <2>1
<1>4. ASSUME NEW T, NEW e \in Event, chan' = Sent(T, e),
             e.what \in {"start", "confirm"} => e.game \in E
      PROVE  EventGames(chan'[q], E)
  <2>1. chan'[q] = IF q \in T THEN Append(chan[q], e) ELSE chan[q]
    BY <1>0, <1>4, SentTo
  <2> QED
    BY <1>0, <1>1, <1>4, <2>1
<1>5. ASSUME chan' = chan PROVE EventGames(chan'[q], E)
  BY <1>0, <1>5
<1>6. ASSUME NEW p \in Peers, RunStart(p) PROVE EventGames(chan'[q], E)
  <2> DEFINE g == IF net[p].state = "IN_GAME" THEN net[p].game ELSE Len(games) + 1
             e == [what |-> "start", game |-> g]
  <2>1. chan' = IF Seated(p) THEN Sent(Others(p), e) ELSE chan
    BY <1>0, <1>6, RunStartDoes
  <2>2. g \in E
    <3>1. CASE net[p].state = "IN_GAME"
      BY <1>0, <3>1 DEF ClientGames
    <3>2. CASE net[p].state # "IN_GAME"
      <4>1. Len(games') = Len(games) + 1
        BY <1>0, <1>6, <3>2, StartMoves
      <4> QED
        BY <1>0, <3>2, <4>1
    <3> QED
      BY <3>1, <3>2
  <2> HIDE DEF g
  <2>3. e \in Event /\ e.game = g
    BY <1>0, <2>2 DEF Event
  <2> HIDE DEF e
  <2> QED
    BY <1>4, <1>5, <2>1, <2>2, <2>3
<1>7. ASSUME NEW p \in Peers, RunConfirm(p) PROVE EventGames(chan'[q], E)
  <2> DEFINE g == Head(net[p].tasks).game
             e == [what |-> "confirm", game |-> g]
  <2>1. chan' = IF Seated(p) THEN Sent(Others(p), e) ELSE chan
    BY <1>7 DEF RunConfirm
  <2>2. g \in E
    <3>1. ClientGames(net[p], E)
      BY <1>0
    <3> QED
      BY <1>0, <1>7, <3>1, TasksMove DEF RunConfirm, HasTask
  <2> HIDE DEF g
  <2>3. e \in Event /\ e.game = g
    BY <1>0, <2>2 DEF Event
  <2> HIDE DEF e
  <2> QED
    BY <1>4, <1>5, <2>1, <2>2, <2>3
<1>8. ASSUME NEW p \in Peers, ServerJoins(p) PROVE EventGames(chan'[q], E)
  <2>1. chan'[q] = IF q = p \/ Seated(q) THEN Append(chan[q], JoinEvent) ELSE chan[q]
    BY <1>0, <1>8, JoinsDoes
  <2>2. JoinEvent \in Event /\ JoinEvent.what = "join"
    BY <1>0, <1>8, JoinsDoes DEF JoinEvent
  <2> QED
    BY <1>0, <1>1, <2>1, <2>2
<1>9. ASSUME NEW p \in Peers, LoseConnection(p) \/ Quit(p) \/ Crash(p)
      PROVE  EventGames(chan'[q], E)
  <2>1. /\ LeaveEvent(p) \in Event /\ LeaveEvent(p).what = "leave"
        /\ chan'[q] \in {<<>>, chan[q], Append(chan[q], LeaveEvent(p))}
    BY <1>0, <1>9, DropDoes DEF LeaveEvent
  <2>2. EventGames(<<>>, E)
    <3> DEFINE c == <<>>
    <3>1. Len(c) = 0 /\ 1 .. 0 = {}
      OBVIOUS
    <3> HIDE DEF c
    <3>2. EventGames(c, E)
      BY <3>1 DEF EventGames
    <3> QED
      BY <3>2 DEF c
  <2> QED
    BY <1>0, <1>1, <2>1, <2>2
<1>10. ASSUME NEW p \in Peers, NetworkStep(p) PROVE EventGames(chan'[q], E)
  <2>1. \/ chan' = chan \/ RunStart(p) \/ RunConfirm(p) \/ (chan[p] # <<>> /\ Handled(p))
    BY <1>10 DEF NetworkStep, onAvailableRegions, connectReturn, RunRegion, FinishJoin,
         joinRoomEventAction, leaveRoomEventAction, customEventStart, customEventConfirm,
         HasEvent
  <2> QED
    BY <1>3, <1>5, <1>6, <1>7, <2>1
<1>11. ASSUME NEW p \in Peers, MainStep(p) PROVE EventGames(chan'[q], E)
  BY <1>0, <1>5, <1>11, MainIsCalm DEF Calm
<1>12. ASSUME NEW p \in Peers, UserStep(p) PROVE EventGames(chan'[q], E)
  <2>1. chan' = chan \/ LoseConnection(p) \/ Quit(p) \/ Crash(p)
    BY <1>12 DEF UserStep, PressConnect, PressRegion, PressJoin, PressStart, SendConfirm, Import
  <2> QED
    BY <1>5, <1>9, <2>1
<1>13. ASSUME UNCHANGED vars PROVE EventGames(chan'[q], E)
  BY <1>5, <1>13 DEF vars
<1> QED
  BY <1>8, <1>10, <1>11, <1>12, <1>13 DEF Next

LEMMA GamesInitially == Init => GamesInv
<1> SUFFICES ASSUME Init PROVE GamesInv
  OBVIOUS
<1>1. ASSUME NEW p \in Peers
      PROVE  ClientGames(net[p], Games) /\ ScreenGames(main[p], Games) /\ EventGames(chan[p], Games)
  <2>1. /\ net[p].game = NoGame /\ net[p].mailbox = {} /\ net[p].tasks = <<>>
        /\ net[p].state # "IN_GAME"
    <3>1. net[p] \in {NewNet, Connected, Joined(p)}
      BY <1>1, FirstPeers
    <3> QED
      BY <3>1, FirstClients DEF NoGame
  <2>2. main[p].game = NoGame /\ main[p].screen # "GAME" /\ chan[p] = <<>>
    BY <1>1, FirstPeers
  <2> DEFINE c == chan[p]
             t == net[p].tasks
  <2>3. Len(c) = 0 /\ 1 .. 0 = {} /\ DOMAIN t = {}
    BY <2>1, <2>2
  <2> HIDE DEF c, t
  <2>4. EventGames(c, Games)
    BY <2>3 DEF EventGames
  <2>5. \A i \in DOMAIN t : t[i].do = "confirm" => t[i].game \in Games
    BY <2>3
  <2> QED
    BY <2>1, <2>2, <2>4, <2>5 DEF ClientGames, ScreenGames, c, t
<1> QED
  BY <1>1, RoomInitially DEF GamesInv

LEMMA GamesKept == GamesInv /\ [Next]_vars => GamesInv'
<1> SUFFICES ASSUME GamesInv, [Next]_vars PROVE GamesInv'
  OBVIOUS
<1>0. RoomInv' /\ LinkInv /\ Shape
  BY RoomKept DEF GamesInv, RoomInv, SeatsInv, LinkInv
<1>1. \A q \in Peers : ClientGames(net[q], Games') /\ ScreenGames(main[q], Games')
  BY GamesGrow, MoreGames DEF GamesInv
<1>2. \A q \in Peers : EventGames(chan'[q], Games')
  BY GamesOfEvents
<1>3. ASSUME NEW p \in Peers, MainStep(p) \/ NetworkStep(p) \/ UserStep(p) \/ ServerJoins(p),
             NEW q \in Peers
      PROVE  ClientGames(net'[q], Games') /\ ScreenGames(main'[q], Games')
  <2>1. CASE q # p
    BY <1>0, <1>1, <1>3, <2>1, OthersStay
  <2>2. CASE q = p /\ NetworkStep(p)
    BY <2>2, GamesOfNetwork
  <2>3. CASE q = p /\ ~NetworkStep(p)
    <3>1. ClientGames(net'[p], Games) /\ ScreenGames(main'[p], Games)
      BY <1>3, <2>3, GamesOfMain, GamesOfUser
    <3> QED
      BY <2>3, <3>1, GamesGrow, MoreGames
  <2> QED
    BY <2>1, <2>2, <2>3
<1>4. ASSUME UNCHANGED vars, NEW q \in Peers
      PROVE  ClientGames(net'[q], Games') /\ ScreenGames(main'[q], Games')
  BY <1>1, <1>4 DEF vars
<1>5. \A q \in Peers : ClientGames(net'[q], Games') /\ ScreenGames(main'[q], Games')
  BY <1>3, <1>4 DEF Next
<1> QED
  BY <1>0, <1>2, <1>5 DEF GamesInv

-----------------------------------------------------------------------------
(* The numbers of the players: one for each peer is enough.                 *)

\* What a step does to the events on their way to a peer.
LEMMA ChanMoves ==
  ASSUME LinkInv, [Next]_vars, NEW q \in Peers
  PROVE  \/ chan'[q] = chan[q] \/ chan'[q] = <<>>
         \/ chan[q] # <<>> /\ chan'[q] = Tail(chan[q])
         \/ \E e \in Event : /\ chan'[q] = Append(chan[q], e)
                             /\ e.what = "join" => e = JoinEvent /\ \E p \in Peers : ServerJoins(p)
<1> DEFINE Moves == \/ chan'[q] = chan[q] \/ chan'[q] = <<>>
                    \/ chan[q] # <<>> /\ chan'[q] = Tail(chan[q])
                    \/ \E e \in Event : /\ chan'[q] = Append(chan[q], e)
                                        /\ e.what = "join" => e = JoinEvent /\ \E p \in Peers : ServerJoins(p)
<1>0. Shape
  BY DEF LinkInv
<1>1. ASSUME chan' = chan PROVE Moves
  BY <1>1
<1>2. ASSUME NEW p \in Peers, chan[p] # <<>>, Handled(p) PROVE Moves
  <2>1. chan'[q] = IF q = p THEN Tail(chan[p]) ELSE chan[q]
    BY <1>0, <1>2, HandledBy
  <2> QED
    BY <1>2, <2>1
<1>3. ASSUME NEW T, NEW e \in Event, e.what # "join", chan' = Sent(T, e) PROVE Moves
  <2>1. chan'[q] = IF q \in T THEN Append(chan[q], e) ELSE chan[q]
    BY <1>0, <1>3, SentTo
  <2> QED
    BY <1>3, <2>1
<1>4. ASSUME NEW p \in Peers, ServerJoins(p) PROVE Moves
  <2>1. /\ JoinEvent \in Event
        /\ chan'[q] = IF q = p \/ Seated(q) THEN Append(chan[q], JoinEvent) ELSE chan[q]
    BY <1>4, JoinsDoes
  <2> QED
    BY <1>4, <2>1
<1>5. ASSUME NEW p \in Peers, LoseConnection(p) \/ Quit(p) \/ Crash(p) PROVE Moves
  <2>1. /\ LeaveEvent(p) \in Event /\ LeaveEvent(p).what # "join"
        /\ chan'[q] \in {<<>>, chan[q], Append(chan[q], LeaveEvent(p))}
    BY <1>5, DropDoes DEF LeaveEvent
  <2> QED
    BY <2>1
<1>6. ASSUME NEW p \in Peers, RunStart(p) PROVE Moves
  <2>1. \E g \in Nat : chan' \in {chan, Sent(Others(p), [what |-> "start", game |-> g])}
    BY <1>6, RunStartDoes
  <2>2. \A g \in Nat : /\ [what |-> "start", game |-> g] \in Event
                       /\ [what |-> "start", game |-> g].what # "join"
    BY DEF Event
  <2> QED
    BY <1>1, <1>3, <2>1, <2>2
<1>7. ASSUME NEW p \in Peers, ConfirmsMove(p) PROVE Moves
  <2>2. \A g \in Nat : /\ [what |-> "confirm", game |-> g] \in Event
                       /\ [what |-> "confirm", game |-> g].what # "join"
    BY DEF Event
  <2> QED
    BY <1>1, <1>2, <1>3, <1>7, <2>2 DEF ConfirmsMove
<1>8. ASSUME NEW p \in Peers, joinRoomEventAction(p) \/ leaveRoomEventAction(p) \/ customEventStart(p)
      PROVE  Moves
  <2>1. chan[p] # <<>> /\ Handled(p)
    BY <1>8, JoinDoes, LeaveDoes, StartDoes
  <2> QED
    BY <1>2, <2>1
<1>9. ASSUME NEW p \in Peers, PressJoin(p) \/ FinishJoin(p) PROVE Moves
  BY <1>1, <1>9, PressJoinDoes, FinishJoinDoes
<1>10. ASSUME Calm PROVE Moves
  BY <1>1, <1>10 DEF Calm
<1> HIDE DEF Moves
<1>11. Moves
  BY <1>4, <1>5, <1>6, <1>7, <1>8, <1>9, <1>10, Steps
<1> QED
  BY <1>11 DEF Moves

\* What a step does to the players a client knows and to its own number.
LEMMA PlayersMove ==
  ASSUME LinkInv, [Next]_vars, NEW q \in Peers
  PROVE  /\ \/ net'[q].players \subseteq net[q].players
            \/ /\ chan[q] # <<>> /\ Head(chan[q]).what = "join"
               /\ net'[q].players = Head(chan[q]).members
         /\ net'[q].index \in {net[q].index, NotSeated, room.seat[q]}
<1> DEFINE Moves == /\ \/ net'[q].players \subseteq net[q].players
                       \/ /\ chan[q] # <<>> /\ Head(chan[q]).what = "join"
                          /\ net'[q].players = Head(chan[q]).members
                    /\ net'[q].index \in {net[q].index, NotSeated, room.seat[q]}
<1>1. ASSUME net'[q] = net[q] PROVE Moves
  BY <1>1
<1>2. ASSUME AllKeepTheirPlaces PROVE Moves
  BY <1>2 DEF AllKeepTheirPlaces, KeepsPlace
<1>3. ASSUME NEW p \in Peers, PressJoin(p) PROVE Moves
  BY <1>1, <1>3, PressJoinDoes DEF Stays
<1>4. ASSUME NEW p \in Peers, RunStart(p) PROVE Moves
  BY <1>1, <1>4, RunStartDoes DEF Stays
<1>5. ASSUME NEW p \in Peers, joinRoomEventAction(p) PROVE Moves
  BY <1>1, <1>5, JoinDoes DEF Stays
<1>6. ASSUME NEW p \in Peers, FinishJoin(p) PROVE Moves
  BY <1>1, <1>6, FinishJoinDoes DEF Stays
<1>7. ASSUME NEW p \in Peers, leaveRoomEventAction(p) PROVE Moves
  BY <1>1, <1>7, LeaveDoes DEF Stays
<1>8. ASSUME NEW p \in Peers, customEventStart(p) PROVE Moves
  BY <1>1, <1>8, StartDoes DEF Stays
<1>9. ASSUME NEW p \in Peers, ServerJoins(p) PROVE Moves
  BY <1>1, <1>9, JoinsDoes
<1>10. ASSUME NEW p \in Peers, LoseConnection(p) \/ Quit(p) \/ Crash(p) PROVE Moves
  <2>1. net'[q] = net[q] \/ net'[q] = NewNet
    BY <1>10, DropDoes DEF Stays
  <2>2. NewNet.players = {} /\ NewNet.index = NotSeated
    BY DEF NewNet
  <2> QED
    BY <2>1, <2>2
<1> HIDE DEF Moves
<1>11. Moves
  BY <1>2, <1>3, <1>4, <1>5, <1>6, <1>7, <1>8, <1>9, <1>10, Steps DEF Calm, ConfirmsMove
<1> QED
  BY <1>11 DEF Moves

EventNumbers(es) == \A i \in Joins(es) : es[i].members \subseteq Numbers
NumbersInv == /\ GamesInv /\ room.members \subseteq Numbers
              /\ \A p \in Peers : /\ net[p].players \subseteq Numbers
                                  /\ net[p].index \in Numbers \cup {NotSeated}
                                  /\ room.seat[p] \in Numbers \cup {NotSeated}
                                  /\ EventNumbers(chan[p])

\* The next seat has a number as long as somebody waits for it.
LEMMA NextIsNumber ==
  ASSUME SeatsInv, NEW p \in Peers, ServerJoins(p)
  PROVE  room.next \in Numbers
<1> DEFINE n == Cardinality(Peers)
           k == Cardinality(Taken)
           S == Peers \ {p}
           next == room.next
<1>1. p \in room.asked /\ Alive(p) /\ next \in Nat \ {0} /\ next - 1 <= k
  BY JoinsDoes, PeerShape DEF SeatsInv, LinkInv, Seats
<1>2. Taken \subseteq S
  BY <1>1 DEF Taken
<1>3. IsFiniteSet(Peers) /\ n \in Nat /\ IsFiniteSet(S) /\ Cardinality(S) = n - 1
  BY SessionAssumption, FS_CardinalityType, FS_RemoveElement
<1>4. k \in Nat /\ k <= Cardinality(S)
  BY <1>2, <1>3, FS_Subset, FS_CardinalityType
<1> HIDE DEF k, S, next
<1>5. next \in 1 .. n
  <2> HIDE DEF n
  <2> QED
    BY <1>1, <1>3, <1>4
<1> QED
  BY <1>5 DEF Numbers, next

LEMMA NumbersInitially == Init => NumbersInv
<1> SUFFICES ASSUME Init PROVE NumbersInv
  OBVIOUS
<1> DEFINE n == Cardinality(Peers)
           k == Len(InRoom)
<1>1. IsFiniteSet(Peers) /\ n \in Nat /\ k \in Nat /\ DOMAIN InRoom = 1 .. k
  BY SessionAssumption, FS_CardinalityType, LenProperties
<1>2. k <= n
  <2>1. InRoom \in Injection(1 .. k, Peers)
    <3>1. InRoom \in [1 .. k -> Peers]
      BY <1>1, SessionAssumption, LenProperties
    <3> QED
      BY <1>1, <3>1, SessionAssumption DEF Injection, IsInjective
  <2>2. IsFiniteSet(1 .. k) /\ Cardinality(1 .. k) = k
    <3> HIDE DEF k
    <3>1. Cardinality(1 .. k) = IF 1 > k THEN 0 ELSE k - 1 + 1
      BY <1>1, FS_Interval
    <3>2. IsFiniteSet(1 .. k)
      BY <1>1, FS_Interval
    <3> QED
      BY <1>1, <3>1, <3>2
  <2>3. Cardinality(1 .. k) <= n
    BY <1>1, <2>1, FS_Injection
  <2> QED
    BY <2>2, <2>3
<1> HIDE DEF n
<1>3. 1 .. k \subseteq 1 .. n /\ 0 .. k \subseteq 1 .. n \cup {0}
  <2> HIDE DEF k
  <2> QED
    BY <1>1, <1>2
<1>4. Numbers = 1 .. n
  BY DEF Numbers, n
<1>5. ASSUME NEW p \in Peers
      PROVE  /\ net[p].players \subseteq Numbers
             /\ net[p].index \in Numbers \cup {NotSeated}
             /\ room.seat[p] \in Numbers \cup {NotSeated}
             /\ EventNumbers(chan[p]) /\ room.members \subseteq Numbers
  <2>1. SeatOf(p) \in Numbers \cup {NotSeated}
    BY <1>3, <1>4, SeatOfFacts DEF NotSeated
  <2>2. /\ net[p] \in {NewNet, Connected} \/ net[p] = Joined(p)
        /\ chan[p] = <<>> /\ room.seat[p] = SeatOf(p) /\ room.members = 1 .. k
    BY <1>5, FirstPeers
  <2>3. NewNet.players = {} /\ NewNet.index = NotSeated
        /\ Connected.players = {} /\ Connected.index = NotSeated
    BY FirstClients DEF Connected, NewNet
  <2>4. Joined(p).players = 1 .. k /\ Joined(p).index = SeatOf(p)
    BY <1>1, FirstClients
  <2>5. EventNumbers(chan[p])
    BY <2>2, NoNews DEF EventNumbers
  <2> QED
    BY <1>3, <1>4, <2>1, <2>2, <2>3, <2>4, <2>5
<1>6. room.members \subseteq Numbers
  BY <1>1, <1>3, <1>4 DEF Init
<1> QED
  BY <1>5, <1>6, GamesInitially DEF NumbersInv

LEMMA NumbersKept == NumbersInv /\ [Next]_vars => NumbersInv'
<1> SUFFICES ASSUME NumbersInv, [Next]_vars PROVE NumbersInv'
  OBVIOUS
<1>0. GamesInv' /\ GamesInv /\ SeatsInv /\ LinkInv /\ Shape
  BY GamesKept, GamesParts DEF NumbersInv
<1>1. Numbers' = Numbers
  BY DEF Numbers
<1>2. ASSUME NEW q \in Peers PROVE EventNumbers(chan'[q])
  <2>1. EventNumbers(chan[q]) /\ room.members \subseteq Numbers /\ chan[q] \in Seq(Event)
    BY <1>0, PeerShape DEF NumbersInv
  <2>2. ASSUME chan'[q] = <<>> PROVE EventNumbers(chan'[q])
    BY <2>2, NoNews DEF EventNumbers
  <2>3. ASSUME chan[q] # <<>>, chan'[q] = Tail(chan[q]) PROVE EventNumbers(chan'[q])
    BY <2>1, <2>3, TailsOfNews DEF EventNumbers
  <2>4. ASSUME NEW e \in Event, chan'[q] = Append(chan[q], e),
               e.what = "join" => e = JoinEvent /\ \E p \in Peers : ServerJoins(p)
        PROVE  EventNumbers(chan'[q])
    <3>1. e.what = "join" => e.members \subseteq Numbers
      <4>1. JoinEvent.members = room.members \cup {room.next}
        BY DEF JoinEvent
      <4> QED
        BY <1>0, <2>1, <2>4, <4>1, NextIsNumber
    <3>2. \A i \in Joins(chan'[q]) : \/ i \in Joins(chan[q]) /\ chan'[q][i] = chan[q][i]
                                     \/ chan'[q][i] = e /\ e.what = "join"
      BY <2>1, <2>4, MoreNews DEF Joins
    <3> QED
      BY <2>1, <3>1, <3>2 DEF EventNumbers
  <2> QED
    BY <1>0, <2>1, <2>2, <2>3, <2>4, ChanMoves
<1>3. ASSUME NEW q \in Peers
      PROVE  net'[q].players \subseteq Numbers /\ net'[q].index \in Numbers \cup {NotSeated}
  <2>1. /\ net[q].players \subseteq Numbers /\ net[q].index \in Numbers \cup {NotSeated}
        /\ room.seat[q] \in Numbers \cup {NotSeated} /\ EventNumbers(chan[q])
    BY DEF NumbersInv
  <2>2. chan[q] # <<>> /\ Head(chan[q]).what = "join" => Head(chan[q]).members \subseteq Numbers
    BY <1>0, <2>1, HandledFacts DEF EventNumbers, Joins
  <2> QED
    BY <1>0, <2>1, <2>2, PlayersMove
<1>4. room'.members \subseteq Numbers
  <2>1. ASSUME NEW p \in Peers, ServerJoins(p) PROVE room'.members \subseteq Numbers
    BY <1>0, <2>1, JoinsDoes, NextIsNumber DEF NumbersInv
  <2>2. (\E p \in Peers : ServerJoins(p)) \/ room'.members \subseteq room.members
    BY <1>0, Steps, PressJoinDoes, RunStartDoes, JoinDoes, FinishJoinDoes, LeaveDoes, StartDoes,
       DropDoes DEF Calm, ConfirmsMove
  <2> QED
    BY <2>1, <2>2 DEF NumbersInv
<1>5. ASSUME NEW q \in Peers PROVE room'.seat[q] \in Numbers \cup {NotSeated}
  <2>1. room'.seat[q] \in Nat /\ (room'.seat[q] # NotSeated => room'.seat[q] \in room'.members)
    <3>1. SeatsInv' /\ Shape'
      BY <1>0, GamesParts DEF GamesInv, RoomInv, SeatsInv, LinkInv
    <3> QED
      BY <3>1 DEF SeatsInv, Seats, Seated, Shape, Room
  <2> QED
    BY <1>4, <2>1
<1> QED
  BY <1>0, <1>1, <1>2, <1>3, <1>4, <1>5 DEF NumbersInv, EventNumbers, Joins, Numbers

-----------------------------------------------------------------------------
(* The bound on the games: a queued start is counted as long as it is queued. *)

CountInv == /\ LinkInv /\ IsFiniteSet(StartsQueued)
            /\ Len(games) + Cardinality(StartsQueued) <= MaxGames

\* The starts in the queues, as pairs: T is the queue of each peer.
LEMMA QueuedPairs ==
  ASSUME NEW T, \A q \in Peers : T[q] \in Seq(Task),
         NEW F, \A q \in Peers : F[q] = {i \in DOMAIN T[q] : T[q][i].do = "start"},
         NEW S, S = UNION {{q} \X F[q] : q \in Peers}
  PROVE  /\ \A q, i : <<q, i>> \in S <=> q \in Peers /\ i \in F[q]
         /\ \A x \in S : x = <<x[1], x[2]>> /\ x[1] \in Peers /\ x[2] \in Nat \ {0}
         /\ \A q \in Peers : \A i : i \in F[q] <=>
              i \in 1 .. Len(T[q]) /\ T[q][i].do = "start"
<1>1. \A q \in Peers : DOMAIN T[q] = 1 .. Len(T[q]) /\ Len(T[q]) \in Nat
  BY LenProperties
<1>2. \A q \in Peers : \A i : i \in F[q] <=> i \in 1 .. Len(T[q]) /\ T[q][i].do = "start"
  BY <1>1
<1>3. ASSUME NEW x \in S
      PROVE  x = <<x[1], x[2]>> /\ x[1] \in Peers /\ x[2] \in Nat \ {0}
  <2>1. PICK q \in Peers : x \in {q} \X F[q]
    OBVIOUS
  <2>2. x = <<x[1], x[2]>> /\ x[1] = q /\ x[2] \in F[q]
    BY <2>1
  <2> QED
    BY <1>1, <1>2, <2>2
<1>4. \A q, i : <<q, i>> \in S <=> q \in Peers /\ i \in F[q]
  OBVIOUS
<1> QED
  BY <1>2, <1>3, <1>4

LEMMA QueuedFacts ==
  ASSUME Shape
  PROVE  /\ \A q, i : <<q, i>> \in StartsQueued <=> q \in Peers /\ i \in StartsOf(q)
         /\ \A x \in StartsQueued : x = <<x[1], x[2]>> /\ x[1] \in Peers /\ x[2] \in Nat \ {0}
         /\ \A q \in Peers : \A i : i \in StartsOf(q) <=>
              i \in 1 .. Len(net[q].tasks) /\ net[q].tasks[i].do = "start"
<1> DEFINE T == [q \in Peers |-> net[q].tasks]
           F == [q \in Peers |-> StartsOf(q)]
<1>1. \A q \in Peers : T[q] = net[q].tasks /\ T[q] \in Seq(Task) /\ F[q] = StartsOf(q)
  BY PeerShape
<1>2. \A q \in Peers : F[q] = {i \in DOMAIN T[q] : T[q][i].do = "start"}
  BY DEF StartsOf
<1>3. StartsQueued = UNION {{q} \X F[q] : q \in Peers}
  BY DEF StartsQueued
<1> HIDE DEF T, F
<1>4. /\ \A q, i : <<q, i>> \in StartsQueued <=> q \in Peers /\ i \in F[q]
      /\ \A x \in StartsQueued : x = <<x[1], x[2]>> /\ x[1] \in Peers /\ x[2] \in Nat \ {0}
      /\ \A q \in Peers : \A i : i \in F[q] <=>
              i \in 1 .. Len(T[q]) /\ T[q][i].do = "start"
  BY <1>1, <1>2, <1>3, QueuedPairs
<1> QED
  BY <1>1, <1>4

LEMMA QueuedNext ==
  ASSUME Shape'
  PROVE  /\ \A q, i : <<q, i>> \in StartsQueued' <=> q \in Peers /\ i \in StartsOf(q)'
         /\ \A x \in StartsQueued' : x = <<x[1], x[2]>> /\ x[1] \in Peers /\ x[2] \in Nat \ {0}
         /\ \A q \in Peers : \A i : i \in StartsOf(q)' <=>
              i \in 1 .. Len(net'[q].tasks) /\ net'[q].tasks[i].do = "start"
<1> DEFINE T == [q \in Peers |-> net'[q].tasks]
           F == [q \in Peers |-> StartsOf(q)']
<1>1. \A q \in Peers : T[q] = net'[q].tasks /\ T[q] \in Seq(Task) /\ F[q] = StartsOf(q)'
  BY DEF Shape, Client
<1>2. \A q \in Peers : F[q] = {i \in DOMAIN T[q] : T[q][i].do = "start"}
  BY DEF StartsOf
<1>3. StartsQueued' = UNION {{q} \X F[q] : q \in Peers}
  BY DEF StartsQueued
<1> DEFINE S == StartsQueued'
<1> HIDE DEF T, F, S
<1>4. /\ \A q, i : <<q, i>> \in S <=> q \in Peers /\ i \in F[q]
      /\ \A x \in S : x = <<x[1], x[2]>> /\ x[1] \in Peers /\ x[2] \in Nat \ {0}
      /\ \A q \in Peers : \A i : i \in F[q] <=>
              i \in 1 .. Len(T[q]) /\ T[q][i].do = "start"
  BY <1>1, <1>2, <1>3, QueuedPairs DEF S
<1> QED
  BY <1>1, <1>4 DEF S

\* No start is queued by the step.
LEMMA CountFewer ==
  ASSUME CountInv, LinkInv', \A q \in Peers : StartsOf(q)' \subseteq StartsOf(q),
         Len(games') = Len(games)
  PROVE  CountInv'
<1> DEFINE S == StartsQueued
           T == StartsQueued'
<1>1. Shape /\ Shape' /\ Len(games) \in Nat /\ MaxGames \in Nat
  BY SessionAssumption, LenProperties DEF CountInv, LinkInv, Shape
<1>2. T \subseteq S
  <2>1. \A q \in Peers : {q} \X StartsOf(q)' \subseteq {q} \X StartsOf(q)
    OBVIOUS
  <2> QED
    BY <2>1 DEF StartsQueued
<1>3. IsFiniteSet(S) /\ Len(games) + Cardinality(S) <= MaxGames
  BY DEF CountInv
<1> DEFINE n == Len(games)
<1> HIDE DEF S, T, n
<1>4. IsFiniteSet(T) /\ Cardinality(T) <= Cardinality(S) /\ Cardinality(T) \in Nat
      /\ Cardinality(S) \in Nat
  BY <1>2, <1>3, FS_Subset, FS_CardinalityType
<1>5. n + Cardinality(T) <= MaxGames
  BY <1>1, <1>3, <1>4 DEF n
<1> QED
  BY <1>4, <1>5 DEF CountInv, T, n

\* A peer takes its first task.
LEMMA CountPopped ==
  ASSUME Shape, Shape', NEW p \in Peers, net[p].tasks # <<>>,
         net'[p].tasks = Tail(net[p].tasks), Stays(p), IsFiniteSet(StartsQueued)
  PROVE  /\ IsFiniteSet(StartsQueued')
         /\ Cardinality(StartsQueued') <= Cardinality(StartsQueued)
         /\ Head(net[p].tasks).do = "start" =>
              Cardinality(StartsQueued') <= Cardinality(StartsQueued) - 1
<1> DEFINE S == StartsQueued
           T == StartsQueued'
           f == [x \in T |-> IF x[1] = p THEN <<p, x[2] + 1>> ELSE x]
<1>1. /\ \A q, i : <<q, i>> \in S <=> q \in Peers /\ i \in StartsOf(q)
      /\ \A q \in Peers : \A i : i \in StartsOf(q) <=>
              i \in 1 .. Len(net[q].tasks) /\ net[q].tasks[i].do = "start"
  BY QueuedFacts
<1>2. /\ \A q, i : <<q, i>> \in T <=> q \in Peers /\ i \in StartsOf(q)'
      /\ \A x \in T : x = <<x[1], x[2]>> /\ x[1] \in Peers /\ x[2] \in Nat \ {0}
      /\ \A q \in Peers : \A i : i \in StartsOf(q)' <=>
              i \in 1 .. Len(net'[q].tasks) /\ net'[q].tasks[i].do = "start"
  BY QueuedNext
<1>3. /\ Len(net'[p].tasks) = Len(net[p].tasks) - 1 /\ Len(net[p].tasks) \in Nat \ {0}
      /\ \A i \in 1 .. Len(net[p].tasks) - 1 :
              /\ net'[p].tasks[i] = net[p].tasks[i + 1] /\ i + 1 \in 1 .. Len(net[p].tasks)
      /\ Head(net[p].tasks) = net[p].tasks[1]
  BY TaskFacts
<1>4. \A i \in StartsOf(p)' : i + 1 \in StartsOf(p) /\ i + 1 # 1
  <2> DEFINE n == Len(net[p].tasks)
  <2>1. n \in Nat \ {0} /\ \A i \in 1 .. n - 1 : i + 1 # 1
    BY <1>3
  <2>2. \A i \in StartsOf(p)' : i \in 1 .. n - 1 /\ net'[p].tasks[i].do = "start"
    BY <1>2, <1>3
  <2>3. \A i \in 1 .. n - 1 : net'[p].tasks[i] = net[p].tasks[i + 1] /\ i + 1 \in 1 .. n
    BY <1>3
  <2>4. \A i : i \in StartsOf(p) <=> i \in 1 .. n /\ net[p].tasks[i].do = "start"
    BY <1>1
  <2> HIDE DEF n
  <2> QED
    BY <2>1, <2>2, <2>3, <2>4
<1>5. \A q \in Peers \ {p} : StartsOf(q)' = StartsOf(q)
  BY DEF Stays, StartsOf
<1> HIDE DEF S, T
<1>6. ASSUME NEW x \in T
      PROVE  f[x] \in S \ {<<p, 1>>}
  <2>1. CASE x[1] = p
    <3>1. x[2] \in StartsOf(p)' /\ f[x] = <<p, x[2] + 1>>
      BY <1>2, <2>1
    <3>2. <<p, x[2] + 1>> \in S /\ x[2] + 1 # 1
      BY <1>1, <1>4, <3>1
    <3> QED
      BY <3>1, <3>2
  <2>2. CASE x[1] # p
    BY <1>1, <1>2, <1>5, <2>2
  <2> QED
    BY <2>1, <2>2
<1>7. ASSUME NEW x \in T, NEW y \in T, f[x] = f[y] PROVE x = y
  <2>0. /\ x = <<x[1], x[2]>> /\ x[2] \in Nat /\ y = <<y[1], y[2]>> /\ y[2] \in Nat
    BY <1>2
  <2> DEFINE a == x[1]
             i == x[2]
             b == y[1]
             j == y[2]
  <2>1. x = <<a, i>> /\ y = <<b, j>> /\ i \in Nat /\ j \in Nat
    BY <2>0
  <2>6. /\ f[x] = IF a = p THEN <<p, i + 1>> ELSE x
        /\ f[y] = IF b = p THEN <<p, j + 1>> ELSE y
    OBVIOUS
  <2> HIDE DEF f, a, b, i, j
  <2>2. (a = p /\ f[x] = <<a, i + 1>>) \/ (a # p /\ f[x] = <<a, i>>)
    BY <2>1, <2>6
  <2>3. (b = p /\ f[y] = <<b, j + 1>>) \/ (b # p /\ f[y] = <<b, j>>)
    BY <2>1, <2>6
  <2>4. a = b /\ (i + 1 = j + 1 \/ i = j)
    BY <1>7, <2>2, <2>3
  <2>5. i = j
    BY <2>1, <2>4
  <2> QED
    BY <2>1, <2>4, <2>5
<1>8. f \in Injection(T, S \ {<<p, 1>>})
  <2>1. f \in [T -> S \ {<<p, 1>>}]
    BY <1>6
  <2> HIDE DEF f
  <2> QED
    BY <1>7, <2>1 DEF Injection, IsInjective
<1>9. IsFiniteSet(S) /\ Cardinality(S) \in Nat /\ IsFiniteSet(S \ {<<p, 1>>})
      /\ Cardinality(S \ {<<p, 1>>}) = IF <<p, 1>> \in S THEN Cardinality(S) - 1 ELSE Cardinality(S)
  BY FS_CardinalityType, FS_RemoveElement DEF S
<1> HIDE DEF f
<1>10. IsFiniteSet(T) /\ Cardinality(T) <= Cardinality(S \ {<<p, 1>>}) /\ Cardinality(T) \in Nat
  BY <1>8, <1>9, FS_Injection, FS_CardinalityType
<1>11. Head(net[p].tasks).do = "start" => <<p, 1>> \in S
  BY <1>1, <1>3
<1> QED
  BY <1>9, <1>10, <1>11 DEF S, T

\* A start is queued, below the bound.
LEMMA CountPressed ==
  ASSUME CountInv, LinkInv', NEW p \in Peers, PressStart(p)
  PROVE  CountInv'
<1> DEFINE S == StartsQueued
           T == StartsQueued'
           k == Len(net[p].tasks) + 1
<1>0. Shape /\ Shape' /\ Len(games) \in Nat /\ MaxGames \in Nat /\ net \in [Peers -> Client]
      /\ net[p] \in Client /\ net[p].tasks \in Seq(Task) /\ [do |-> "start"] \in Task
  BY SessionAssumption, LenProperties, PeerShape DEF CountInv, LinkInv, Shape, Task
<1>1. /\ net'[p].tasks = Append(net[p].tasks, [do |-> "start"])
      /\ \A q \in Peers \ {p} : net'[q] = net[q]
      /\ games' = games /\ Len(games) + Cardinality(S) < MaxGames
  BY <1>0 DEF PressStart, Queue, SetNet, Client
<1>2. /\ Len(net[p].tasks) \in Nat /\ Len(net'[p].tasks) = k
      /\ \A i \in 1 .. Len(net[p].tasks) : net'[p].tasks[i] = net[p].tasks[i]
  BY <1>0, <1>1, AppendProperties, LenProperties
<1>3. StartsOf(p)' \subseteq StartsOf(p) \cup {k}
  <2>1. \A i \in 1 .. k : i \in 1 .. Len(net[p].tasks) \/ i = k
    BY <1>2
  <2> QED
    BY <1>0, <1>2, <2>1, QueuedFacts, QueuedNext
<1>4. \A q \in Peers \ {p} : StartsOf(q)' = StartsOf(q)
  BY <1>1 DEF StartsOf
<1>5. /\ \A q, i : <<q, i>> \in S <=> q \in Peers /\ i \in StartsOf(q)
      /\ \A q, i : <<q, i>> \in T <=> q \in Peers /\ i \in StartsOf(q)'
      /\ \A x \in T : x = <<x[1], x[2]>>
  BY <1>0, QueuedFacts, QueuedNext
<1>6. IsFiniteSet(S)
  BY DEF CountInv
<1> HIDE DEF S, T, k
<1>7. ASSUME NEW x \in T PROVE x \in S \cup {<<p, k>>}
  <2>1. x = <<x[1], x[2]>> /\ x[1] \in Peers /\ x[2] \in StartsOf(x[1])'
    BY <1>5
  <2>2. CASE x[1] = p
    BY <1>3, <1>5, <2>1, <2>2
  <2>3. CASE x[1] # p
    BY <1>4, <1>5, <2>1, <2>3
  <2> QED
    BY <2>2, <2>3
<1>8. IsFiniteSet(S \cup {<<p, k>>}) /\ Cardinality(S) \in Nat
      /\ Cardinality(S \cup {<<p, k>>}) <= Cardinality(S) + 1
  <2> DEFINE x == <<p, k>>
  <2> HIDE DEF x
  <2>1. /\ IsFiniteSet(S \cup {x}) /\ Cardinality(S) \in Nat
        /\ Cardinality(S \cup {x}) = Cardinality(S) \/ Cardinality(S \cup {x}) = Cardinality(S) + 1
    BY <1>6, FS_AddElement, FS_CardinalityType
  <2>2. /\ IsFiniteSet(S \cup {x}) /\ Cardinality(S) \in Nat
        /\ Cardinality(S \cup {x}) <= Cardinality(S) + 1
    BY <2>1
  <2> QED
    BY <2>2 DEF x
<1>9. IsFiniteSet(T) /\ Cardinality(T) \in Nat
      /\ Cardinality(T) <= Cardinality(S \cup {<<p, k>>})
      /\ Cardinality(S \cup {<<p, k>>}) \in Nat
  BY <1>7, <1>8, FS_Subset, FS_CardinalityType
<1> DEFINE n == Len(games)
<1>10. n \in Nat /\ n + Cardinality(S) < MaxGames
  BY <1>0, <1>1
<1> HIDE DEF n
<1>11. n + Cardinality(T) <= MaxGames
  BY <1>0, <1>8, <1>9, <1>10
<1> QED
  BY <1>1, <1>9, <1>11 DEF CountInv, T, n

LEMMA CountStarted ==
  ASSUME CountInv, LinkInv', NEW p \in Peers, RunStart(p),
         Len(games') \in {Len(games), Len(games) + 1}
  PROVE  CountInv'
<1> DEFINE S == StartsQueued
           T == StartsQueued'
           n == Len(games)
           m == Len(games')
<1>0. Shape /\ Shape' /\ n \in Nat /\ MaxGames \in Nat /\ net \in [Peers -> Client]
      /\ net[p] \in Client /\ LinkInv
  BY SessionAssumption, LenProperties, PeerShape DEF CountInv, LinkInv, Shape
<1>1. /\ net[p].tasks # <<>> /\ Head(net[p].tasks).do = "start"
      /\ net'[p].tasks = Tail(net[p].tasks) /\ Stays(p)
  <2>1. net[p].tasks # <<>> /\ Head(net[p].tasks).do = "start" /\ Stays(p)
    BY <1>0, RunStartDoes DEF RunStart, HasTask
  <2> DEFINE g == IF net[p].state = "IN_GAME" THEN net[p].game ELSE Len(games) + 1
             rest == Tail(net[p].tasks)
  <2>2. net' = [net EXCEPT ![p] = [net[p] EXCEPT !.tasks = rest, !.state = "IN_GAME", !.game = g]]
    BY DEF RunStart, SetNet
  <2> HIDE DEF g, rest
  <2>3. net'[p].tasks = rest
    BY <1>0, <2>2 DEF Client
  <2> QED
    BY <2>1, <2>3 DEF rest
<1>2. IsFiniteSet(S) /\ n + Cardinality(S) <= MaxGames
  BY DEF CountInv
<1>3. IsFiniteSet(T) /\ Cardinality(T) <= Cardinality(S) - 1
  BY <1>0, <1>1, <1>2, CountPopped
<1> HIDE DEF S, T
<1>4. Cardinality(S) \in Nat /\ Cardinality(T) \in Nat /\ m \in {n, n + 1}
  BY <1>2, <1>3, FS_CardinalityType
<1> HIDE DEF n, m
<1>5. m + Cardinality(T) <= MaxGames
  BY <1>0, <1>2, <1>3, <1>4
<1> QED
  BY <1>3, <1>5 DEF CountInv, T, m

LEMMA CountOthers ==
  ASSUME CountInv, LinkInv', NEW p \in Peers, RunRegion(p) \/ RunConfirm(p)
  PROVE  CountInv'
<1> DEFINE S == StartsQueued
           T == StartsQueued'
           n == Len(games)
<1>0. Shape /\ Shape' /\ n \in Nat /\ MaxGames \in Nat /\ net \in [Peers -> Client]
      /\ net[p] \in Client
  BY SessionAssumption, LenProperties, PeerShape DEF CountInv, LinkInv, Shape
<1>1. /\ net[p].tasks # <<>> /\ net'[p].tasks = Tail(net[p].tasks) /\ Stays(p) /\ games' = games
  <2>1. CASE RunRegion(p)
    BY <1>0, <2>1 DEF RunRegion, HasTask, SetNet, Client, Stays
  <2>2. CASE RunConfirm(p)
    BY <1>0, <2>2 DEF RunConfirm, HasTask, SetNet, Client, Stays
  <2> QED
    BY <2>1, <2>2
<1>2. IsFiniteSet(S) /\ n + Cardinality(S) <= MaxGames
  BY DEF CountInv
<1>3. IsFiniteSet(T) /\ Cardinality(T) <= Cardinality(S)
  BY <1>0, <1>1, <1>2, CountPopped
<1> HIDE DEF S, T
<1>4. Cardinality(S) \in Nat /\ Cardinality(T) \in Nat
  BY <1>2, <1>3, FS_CardinalityType
<1> HIDE DEF n
<1>5. n + Cardinality(T) <= MaxGames
  BY <1>0, <1>2, <1>3, <1>4
<1> QED
  BY <1>1, <1>3, <1>5 DEF CountInv, T, n

\* The steps that leave the tasks alone.
LEMMA TasksStay ==
  ASSUME Shape, NEW p \in Peers,
         \/ MainStep(p) \/ onAvailableRegions(p) \/ connectReturn(p) \/ joinRoomEventAction(p)
         \/ FinishJoin(p) \/ leaveRoomEventAction(p) \/ customEventStart(p)
         \/ customEventConfirm(p) \/ PressConnect(p) \/ PressJoin(p) \/ Import(p) \/ ServerJoins(p)
  PROVE  net'[p].tasks = net[p].tasks /\ games' = games
<1>0. net[p] \in Client /\ net \in [Peers -> Client]
  BY PeerShape DEF Shape
<1>1. ASSUME net' = net PROVE net'[p].tasks = net[p].tasks
  BY <1>1
<1>2. CASE MainStep(p)
  <2>1. CASE StoreConnecting(p)
    BY <1>0, <2>1 DEF StoreConnecting, SetNet, Client
  <2>2. CASE ~StoreConnecting(p)
    BY <1>2, <2>2 DEF MainStep, LogoOver, LobbySeesGame, CreateGame, GameFirstRead, GamePing
  <2> QED
    BY <2>1, <2>2
<1>3. CASE onAvailableRegions(p)
  BY <1>0, <1>3 DEF onAvailableRegions, SetNet, Client
<1>4. CASE connectReturn(p)
  BY <1>0, <1>4 DEF connectReturn, SetNet, Client
<1>5. CASE joinRoomEventAction(p)
  BY <1>0, <1>5 DEF joinRoomEventAction, SetNet, Client
<1>6. CASE FinishJoin(p)
  BY <1>0, <1>6 DEF FinishJoin, SetNet, Client
<1>7. CASE leaveRoomEventAction(p)
  BY <1>0, <1>7 DEF leaveRoomEventAction, SetNet, Client
<1>8. CASE customEventStart(p)
  BY <1>0, <1>8 DEF customEventStart, SetNet, Client
<1>9. CASE customEventConfirm(p)
  BY <1>0, <1>9 DEF customEventConfirm, SetNet, Client
<1>10. CASE PressConnect(p)
  BY <1>0, <1>10 DEF PressConnect, SetNet, Client
<1>11. CASE PressJoin(p)
  BY <1>0, <1>11 DEF PressJoin, SetNet, Client
<1>12. CASE Import(p)
  BY <1>0, <1>12 DEF Import, SetNet, Client
<1>13. CASE ServerJoins(p)
  BY <1>13 DEF ServerJoins
<1> QED
  BY <1>2, <1>3, <1>4, <1>5, <1>6, <1>7, <1>8, <1>9, <1>10, <1>11, <1>12, <1>13

\* The steps after which a peer has no start in its queue that it had not before.
LEMMA NoStartQueued ==
  ASSUME LinkInv, LinkInv', NEW p \in Peers, MainStep(p) \/ NetworkStep(p) \/ UserStep(p) \/ ServerJoins(p),
         ~PressStart(p), ~RunStart(p), ~RunRegion(p), ~RunConfirm(p)
  PROVE  StartsOf(p)' \subseteq StartsOf(p) /\ Len(games') = Len(games)
<1>0. Shape /\ Shape'
  BY DEF LinkInv
<1>1. ASSUME net'[p].tasks = net[p].tasks PROVE StartsOf(p)' \subseteq StartsOf(p)
  BY <1>1 DEF StartsOf
<1>2. ASSUME NEW task \in Task, task.do # "start", Queue(p, task), games' = games
      PROVE  StartsOf(p)' \subseteq StartsOf(p)
  <2> DEFINE s == net[p].tasks
             t == net'[p].tasks
             n == Len(s)
  <2>1. t = Append(s, task) /\ s \in Seq(Task)
    BY <1>0, <1>2, PeerShape DEF Queue, SetNet, Shape, Client
  <2>2. /\ n \in Nat /\ Len(t) = n + 1 /\ t[n + 1] = task
        /\ \A i \in 1 .. n : t[i] = s[i]
    BY <2>1, AppendProperties, LenProperties
  <2>3. /\ \A i : i \in StartsOf(p)' <=> i \in 1 .. Len(t) /\ t[i].do = "start"
        /\ \A i : i \in StartsOf(p) <=> i \in 1 .. n /\ s[i].do = "start"
    BY <1>0, QueuedFacts, QueuedNext
  <2> HIDE DEF s, t, n
  <2>4. \A i \in 1 .. n + 1 : i \in 1 .. n \/ i = n + 1
    BY <2>2
  <2> QED
    BY <1>2, <2>2, <2>3, <2>4
<1>3. CASE PressRegion(p) \/ SendConfirm(p)
  <2>1. [do |-> "region"] \in Task /\ games' = games
        /\ [do |-> "confirm", game |-> main[p].game] \in Task
    BY <1>0, <1>3, PeerShape DEF Task, PressRegion, SendConfirm
  <2>2. CASE PressRegion(p)
    BY <1>2, <2>1, <2>2 DEF PressRegion
  <2>3. CASE SendConfirm(p)
    BY <1>2, <2>1, <2>3 DEF SendConfirm
  <2> QED
    BY <1>3, <2>1, <2>2, <2>3
<1>4. CASE LoseConnection(p) \/ Quit(p) \/ Crash(p)
  <2>1. Len(games') = Len(games)
    BY <1>4, DropGames
  <2>2. net' = net \/ net'[p] = NewNet
    BY <1>4, DropDoes
  <2>3. ASSUME net'[p] = NewNet PROVE StartsOf(p)' = {}
    <3>1. net'[p].tasks = <<>>
      BY <2>3, FirstClients
    <3> QED
      BY <3>1 DEF StartsOf
  <2> QED
    BY <1>1, <2>1, <2>2, <2>3
<1>5. CASE ~(PressRegion(p) \/ SendConfirm(p) \/ LoseConnection(p) \/ Quit(p) \/ Crash(p))
  <2>1. \/ MainStep(p) \/ onAvailableRegions(p) \/ connectReturn(p) \/ joinRoomEventAction(p)
        \/ FinishJoin(p) \/ leaveRoomEventAction(p) \/ customEventStart(p)
        \/ customEventConfirm(p) \/ PressConnect(p) \/ PressJoin(p) \/ Import(p) \/ ServerJoins(p)
    BY <1>5 DEF NetworkStep, UserStep
  <2>2. net'[p].tasks = net[p].tasks /\ games' = games
    BY <1>0, <2>1, TasksStay
  <2> QED
    BY <1>1, <2>2
<1> QED
  BY <1>3, <1>4, <1>5

LEMMA CountInitially == Init => CountInv
<1> SUFFICES ASSUME Init PROVE CountInv
  OBVIOUS
<1>1. ASSUME NEW q \in Peers PROVE StartsOf(q) = {}
  <2>1. net[q] \in {NewNet, Connected, Joined(q)}
    BY <1>1, FirstPeers
  <2>2. net[q].tasks = <<>>
    BY <2>1, FirstClients
  <2> QED
    BY <2>2 DEF StartsOf
<1>2. StartsQueued = {}
  BY <1>1 DEF StartsQueued
<1>3. games = <<>> /\ Len(<<>>) = 0 /\ MaxGames \in Nat
  BY SessionAssumption DEF Init
<1>4. IsFiniteSet({}) /\ Cardinality({}) = 0
  BY FS_EmptySet
<1> DEFINE n == Len(games)
           k == Cardinality(StartsQueued)
<1>5. n = 0 /\ k = 0
  BY <1>2, <1>3, <1>4
<1> HIDE DEF n, k
<1>6. n + k <= MaxGames
  BY <1>3, <1>5
<1> QED
  BY <1>2, <1>4, <1>6, LinkInitially DEF CountInv, n, k

LEMMA CountKept == GamesInv /\ CountInv /\ [Next]_vars => CountInv'
<1> SUFFICES ASSUME GamesInv, CountInv, [Next]_vars PROVE CountInv'
  OBVIOUS
<1>0. LinkInv /\ LinkInv' /\ Shape
  BY LinkKept DEF CountInv, LinkInv
<1>1. ASSUME NEW p \in Peers, MainStep(p) \/ NetworkStep(p) \/ UserStep(p) \/ ServerJoins(p)
      PROVE  CountInv'
  <2>1. CASE PressStart(p)
    BY <1>0, <2>1, CountPressed
  <2>2. CASE RunStart(p)
    BY <1>0, <2>2, CountStarted, GamesGrow
  <2>3. CASE RunRegion(p) \/ RunConfirm(p)
    BY <1>0, <2>3, CountOthers
  <2>4. CASE ~(PressStart(p) \/ RunStart(p) \/ RunRegion(p) \/ RunConfirm(p))
    <3>1. StartsOf(p)' \subseteq StartsOf(p) /\ Len(games') = Len(games)
      BY <1>0, <1>1, <2>4, NoStartQueued
    <3>2. \A q \in Peers \ {p} : StartsOf(q)' = StartsOf(q)
      BY <1>0, <1>1, OthersStay DEF StartsOf
    <3>3. \A q \in Peers : StartsOf(q)' \subseteq StartsOf(q)
      BY <3>1, <3>2
    <3> QED
      BY <1>0, <3>1, <3>3, CountFewer
  <2> QED
    BY <2>1, <2>2, <2>3, <2>4
<1>2. ASSUME UNCHANGED vars PROVE CountInv'
  <2>1. (\A q \in Peers : StartsOf(q)' \subseteq StartsOf(q)) /\ Len(games') = Len(games)
    BY <1>2 DEF vars, StartsOf
  <2> QED
    BY <1>0, <2>1, CountFewer
<1> QED
  BY <1>1, <1>2 DEF Next

\* Every queued start will find its place in the history.
LEMMA CountAlways == Spec => []CountInv
<1>1. GamesInv /\ CountInv /\ [Next]_vars => (GamesInv /\ CountInv)'
  BY GamesKept, CountKept
<1> QED
  BY <1>1, GamesInitially, CountInitially, PTL DEF Spec

LEMMA NumbersAlways == Spec => []NumbersInv
BY NumbersInitially, NumbersKept, PTL DEF Spec

LEMMA TypesFollow == NumbersInv /\ CountInv => TypeOK
<1> SUFFICES ASSUME NumbersInv, CountInv PROVE TypeOK
  OBVIOUS
<1>0. Shape /\ SeatsInv /\ Games = DOMAIN games /\ Games = 1 .. Len(games)
  BY GamesParts DEF NumbersInv
<1>1. ASSUME NEW p \in Peers
      PROVE  /\ net[p].state \in States /\ net[p].link \in {"down", "regions", "selected", "up"}
             /\ net[p].players \subseteq Numbers /\ net[p].index \in Numbers \cup {NotSeated}
             /\ net[p].mailbox \subseteq DOMAIN games /\ net[p].game \in DOMAIN games \cup {NoGame}
             /\ main[p].screen \in {"LOGO", "LOBBY", "GAME", "GONE"}
             /\ main[p].at \in {"idle", "connect", "create", "ping"}
             /\ main[p].slots \subseteq 1..MaxPlayers
             /\ main[p].game \in DOMAIN games \cup {NoGame}
  <2>1. net[p] \in Client /\ main[p] \in Screen
    BY <1>0, PeerShape
  <2>2. ClientGames(net[p], Games) /\ ScreenGames(main[p], Games)
    BY GamesParts DEF NumbersInv
  <2>3. net[p].players \subseteq Numbers /\ net[p].index \in Numbers \cup {NotSeated}
    BY DEF NumbersInv
  <2> QED
    BY <1>0, <2>1, <2>2, <2>3 DEF Client, Screen, ClientGames, ScreenGames
<1>2. room.members = {room.seat[p] : p \in {q \in Peers : Seated(q)}}
  <2>1. room.members \subseteq Nat
    BY <1>0 DEF Shape, Room
  <2>2. \A p \in Peers : room.seat[p] \in Nat
    BY <1>0, PeerShape
  <2>3. \A m \in Nat : m \in room.members <=> \E p \in Peers : Seated(p) /\ room.seat[p] = m
    BY <1>0 DEF SeatsInv, Seats
  <2> QED
    BY <2>1, <2>2, <2>3
<1>3. Cardinality(room.members) <= MaxPlayers /\ quits <= MaxQuits
  <2>1. quits \in 0 .. MaxQuits
    BY <1>0 DEF Shape
  <2> QED
    BY <1>0, <2>1 DEF SeatsInv, Seats
<1>4. Len(games) <= MaxGames
  <2> DEFINE n == Len(games)
             k == Cardinality(StartsQueued)
  <2>1. n \in Nat /\ k \in Nat /\ n + k <= MaxGames /\ MaxGames \in Nat
    BY <1>0, SessionAssumption, LenProperties, FS_CardinalityType DEF CountInv, Shape
  <2> HIDE DEF n, k
  <2>2. n <= MaxGames
    BY <2>1
  <2> QED
    BY <2>2 DEF n
<1> QED
  BY <1>1, <1>2, <1>3, <1>4 DEF TypeOK

-----------------------------------------------------------------------------
(* All members of a room play, or all rest.                                 *)

Has(es, what) == \E i \in 1 .. Len(es) : es[i].what = what

\* Each start is followed by a leave.
Ended(es) == \A i \in 1 .. Len(es) : es[i].what = "start" =>
               \E k \in i + 1 .. Len(es) : es[k].what = "leave"

LEMMA HasTail ==
  ASSUME NEW es \in Seq(Event), es # <<>>
  PROVE  /\ Head(es) = es[1]
         /\ \A w : Has(es, w) <=> es[1].what = w \/ Has(Tail(es), w)
         /\ Ended(es) => Ended(Tail(es)) /\ (es[1].what = "start" => Has(Tail(es), "leave"))
<1> DEFINE n == Len(es)
           t == Tail(es)
<1>1. /\ Head(es) = es[1] /\ n \in Nat \ {0} /\ Len(t) = n - 1
      /\ \A i \in 1 .. n - 1 : t[i] = es[i + 1] /\ i + 1 \in 1 .. n
  BY QueueFacts
<1> HIDE DEF n, t
<1>2. ASSUME NEW w PROVE Has(es, w) <=> es[1].what = w \/ Has(t, w)
  <2>1. ASSUME Has(es, w), es[1].what # w PROVE Has(t, w)
    <3>1. PICK i \in 1 .. n : es[i].what = w
      BY <2>1 DEF Has, n
    <3>2. i - 1 \in 1 .. n - 1 /\ t[i - 1] = es[i - 1 + 1] /\ i - 1 + 1 = i
      BY <1>1, <2>1, <3>1
    <3> QED
      BY <1>1, <3>1, <3>2 DEF Has
  <2>2. ASSUME Has(t, w) PROVE Has(es, w)
    BY <1>1, <2>2 DEF Has, n
  <2>3. es[1].what = w => Has(es, w)
    BY <1>1 DEF Has, n
  <2> QED
    BY <2>1, <2>2, <2>3
<1>3. ASSUME Ended(es), NEW i \in 1 .. n, es[i].what = "start"
      PROVE  \E k \in i .. n - 1 : t[k].what = "leave"
  <2>1. PICK k \in i + 1 .. n : es[k].what = "leave"
    BY <1>3 DEF Ended, n
  <2>2. k - 1 \in 1 .. n - 1 /\ k - 1 \in i .. n - 1 /\ k - 1 + 1 = k
    BY <1>1, <2>1
  <2> QED
    BY <1>1, <2>1, <2>2
<1>4. Ended(es) => Ended(t)
  <2>1. ASSUME Ended(es), NEW i \in 1 .. n - 1, t[i].what = "start"
        PROVE  \E k \in i + 1 .. n - 1 : t[k].what = "leave"
    <3>1. i + 1 \in 1 .. n /\ es[i + 1].what = "start"
      BY <1>1, <2>1
    <3> QED
      BY <1>3, <2>1, <3>1
  <2> QED
    BY <1>1, <2>1 DEF Ended
<1>5. Ended(es) /\ es[1].what = "start" => Has(t, "leave")
  <2>1. 1 \in 1 .. n
    BY <1>1
  <2> QED
    BY <1>1, <1>3, <2>1 DEF Has
<1> QED
  BY <1>1, <1>2, <1>4, <1>5 DEF t

LEMMA HasMore ==
  ASSUME NEW es \in Seq(Event), NEW e \in Event
  PROVE  /\ \A w : Has(Append(es, e), w) <=> Has(es, w) \/ e.what = w
         /\ Ended(es) /\ e.what # "start" => Ended(Append(es, e))
         /\ e.what = "leave" => Ended(Append(es, e))
<1> DEFINE n == Len(es)
           t == Append(es, e)
<1>1. /\ n \in Nat /\ Len(t) = n + 1 /\ t[n + 1] = e
      /\ \A i \in 1 .. n : t[i] = es[i]
  BY MoreNews
<1> HIDE DEF n, t
<1>2. /\ \A i \in 1 .. n + 1 : i \in 1 .. n \/ i = n + 1
      /\ \A i \in 1 .. n : i \in 1 .. n + 1 /\ n + 1 \in i + 1 .. n + 1
      /\ n + 1 \in 1 .. n + 1
      /\ \A i \in 1 .. n : \A k \in i + 1 .. n : k \in 1 .. n /\ k \in i + 1 .. n + 1
  BY <1>1
<1>3. \A w : Has(t, w) <=> Has(es, w) \/ e.what = w
  BY <1>1, <1>2 DEF Has, n
<1>4. ASSUME Ended(es), e.what # "start" PROVE Ended(t)
  <2>1. ASSUME NEW i \in 1 .. n + 1, t[i].what = "start"
        PROVE  \E k \in i + 1 .. n + 1 : t[k].what = "leave"
    <3>1. i \in 1 .. n /\ es[i].what = "start"
      BY <1>1, <1>2, <1>4, <2>1
    <3>2. PICK k \in i + 1 .. n : es[k].what = "leave"
      BY <1>4, <3>1 DEF Ended, n
    <3> QED
      BY <1>1, <1>2, <3>1, <3>2
  <2> QED
    BY <1>1, <2>1 DEF Ended
<1>5. ASSUME e.what = "leave" PROVE Ended(t)
  <2>1. ASSUME NEW i \in 1 .. n + 1, t[i].what = "start"
        PROVE  \E k \in i + 1 .. n + 1 : t[k].what = "leave"
    BY <1>1, <1>2, <1>5, <2>1
  <2> QED
    BY <1>1, <2>1 DEF Ended
<1> QED
  BY <1>3, <1>4, <1>5 DEF t

LEMMA HasNone == Ended(<<>>) /\ \A w : ~Has(<<>>, w)
<1> DEFINE c == <<>>
<1>1. Len(c) = 0 /\ 1 .. 0 = {}
  OBVIOUS
<1> HIDE DEF c
<1>2. Ended(c) /\ \A w : ~Has(c, w)
  BY <1>1 DEF Has, Ended
<1> QED
  BY <1>2 DEF c

\* A member with client c and events es plays, or will once it has handled them; it rests.
Plays(c, es) == ~Has(es, "leave") /\ (c.state = "IN_GAME" \/ Has(es, "start"))
Rests(c, es) == Ended(es) /\ (c.state = "IN_GAME" => Has(es, "leave"))

Playing == ~room.open /\ \A p \in Peers : Seated(p) => Plays(net[p], chan[p])
Resting == \A p \in Peers : Seated(p) => Rests(net[p], chan[p])
GameInv == GamesInv /\ (AllSettled => Playing \/ Resting)

\* What a member is after its own step, or after an event that is sent to it.
LEMMA PlaysOn ==
  ASSUME NEW c, NEW es \in Seq(Event), Plays(c, es), NEW d, NEW fs,
         \/ fs = es /\ d.state = c.state
         \/ /\ d.state = c.state
            /\ \E e \in Event : e.what \in {"start", "confirm"} /\ fs = Append(es, e)
         \/ /\ es # <<>> /\ fs = Tail(es)
            /\ \/ Head(es).what = "confirm" /\ d.state = c.state
               \/ Head(es).what = "start" /\ d.state = "IN_GAME"
               \/ /\ Head(es).what = "join"
                  /\ d.state = c.state \/ (c.state = "JOINING" /\ d.state = "IN_ROOM")
  PROVE  Plays(d, fs)
<1>1. CASE fs = es /\ d.state = c.state
  BY <1>1 DEF Plays
<1>2. ASSUME d.state = c.state, NEW e \in Event, e.what \in {"start", "confirm"}, fs = Append(es, e)
      PROVE  Plays(d, fs)
  BY <1>2, HasMore DEF Plays
<1>3. CASE /\ es # <<>> /\ fs = Tail(es)
           /\ \/ Head(es).what = "confirm" /\ d.state = c.state
              \/ Head(es).what = "start" /\ d.state = "IN_GAME"
              \/ /\ Head(es).what = "join"
                 /\ d.state = c.state \/ (c.state = "JOINING" /\ d.state = "IN_ROOM")
  BY <1>3, HasTail DEF Plays
<1> QED
  BY <1>1, <1>2, <1>3

LEMMA RestsOn ==
  ASSUME NEW c, NEW es \in Seq(Event), Rests(c, es), NEW d, NEW fs,
         \/ fs = es /\ d.state = c.state
         \/ /\ d.state = c.state
            /\ \E e \in Event : e.what # "start" /\ fs = Append(es, e)
         \/ /\ es # <<>> /\ fs = Tail(es)
            /\ \/ Head(es).what = "confirm" /\ d.state = c.state
               \/ Head(es).what = "start"
               \/ /\ Head(es).what = "join"
                  /\ d.state = c.state \/ d.state = "IN_ROOM"
               \/ Head(es).what = "leave" /\ d.state # "IN_GAME"
  PROVE  Rests(d, fs)
<1>1. CASE fs = es /\ d.state = c.state
  BY <1>1 DEF Rests
<1>2. ASSUME d.state = c.state, NEW e \in Event, e.what # "start", fs = Append(es, e)
      PROVE  Rests(d, fs)
  BY <1>2, HasMore DEF Rests
<1>3. CASE /\ es # <<>> /\ fs = Tail(es)
           /\ \/ Head(es).what = "confirm" /\ d.state = c.state
              \/ Head(es).what = "start"
              \/ /\ Head(es).what = "join"
                 /\ d.state = c.state \/ d.state = "IN_ROOM"
              \/ Head(es).what = "leave" /\ d.state # "IN_GAME"
  BY <1>3, HasTail DEF Rests
<1> QED
  BY <1>1, <1>2, <1>3

\* A member that plays goes on, and a member that rests does.
KeepsMode(q) == /\ Plays(net[q], chan[q]) => Plays(net'[q], chan'[q])
                /\ Rests(net[q], chan[q]) => Rests(net'[q], chan'[q])

LEMMA ModesKept ==
  ASSUME GamesInv, [Next]_vars, Playing \/ Resting,
         room'.seat = room.seat, room'.open = room.open,
         \A q \in Peers : Seated(q) => KeepsMode(q)
  PROVE  Playing' \/ Resting'
<1>1. \A q \in Peers : Seated(q)' <=> Seated(q)
  BY DEF Seated
<1>2. Playing => Playing'
  BY <1>1 DEF Playing, KeepsMode
<1>3. Resting => Resting'
  BY <1>1 DEF Resting, KeepsMode
<1> QED
  BY <1>2, <1>3

LEMMA ModeOfMember ==
  ASSUME RoomInv, NEW q \in Peers, Seated(q),
         \/ chan'[q] = chan[q] /\ net'[q].state = net[q].state
         \/ /\ net'[q].state = net[q].state
            /\ \E e \in Event : e.what = "confirm" /\ chan'[q] = Append(chan[q], e)
         \/ /\ chan[q] # <<>> /\ chan'[q] = Tail(chan[q])
            /\ \/ Head(chan[q]).what = "confirm" /\ net'[q].state = net[q].state
               \/ Head(chan[q]).what = "start" /\ net'[q].state = "IN_GAME"
               \/ /\ Head(chan[q]).what = "join"
                  /\ net'[q].state = IF net[q].state = "JOINING" THEN "IN_ROOM" ELSE net[q].state
  PROVE  KeepsMode(q)
<1>1. chan[q] \in Seq(Event)
  BY MemberFacts
<1>2. ASSUME Plays(net[q], chan[q]) PROVE Plays(net'[q], chan'[q])
  <2>1. CASE chan'[q] = chan[q] /\ net'[q].state = net[q].state
    BY <1>1, <1>2, <2>1, PlaysOn
  <2>2. CASE /\ net'[q].state = net[q].state
             /\ \E e \in Event : e.what = "confirm" /\ chan'[q] = Append(chan[q], e)
    <3>1. \E e \in Event : e.what \in {"start", "confirm"} /\ chan'[q] = Append(chan[q], e)
      BY <2>2
    <3> QED
      BY <1>1, <1>2, <2>2, <3>1, PlaysOn
  <2>3. CASE /\ chan[q] # <<>> /\ chan'[q] = Tail(chan[q])
             /\ \/ Head(chan[q]).what = "confirm" /\ net'[q].state = net[q].state
                \/ Head(chan[q]).what = "start" /\ net'[q].state = "IN_GAME"
                \/ /\ Head(chan[q]).what = "join"
                   /\ net'[q].state = IF net[q].state = "JOINING" THEN "IN_ROOM" ELSE net[q].state
    <3>1. \/ Head(chan[q]).what = "confirm" /\ net'[q].state = net[q].state
          \/ Head(chan[q]).what = "start" /\ net'[q].state = "IN_GAME"
          \/ /\ Head(chan[q]).what = "join"
             /\ net'[q].state = net[q].state \/ (net[q].state = "JOINING" /\ net'[q].state = "IN_ROOM")
      BY <2>3
    <3> QED
      BY <1>1, <1>2, <2>3, <3>1, PlaysOn
  <2> QED
    BY <2>1, <2>2, <2>3
<1>3. ASSUME Rests(net[q], chan[q]) PROVE Rests(net'[q], chan'[q])
  <2>1. CASE chan'[q] = chan[q] /\ net'[q].state = net[q].state
    BY <1>1, <1>3, <2>1, RestsOn
  <2>2. CASE /\ net'[q].state = net[q].state
             /\ \E e \in Event : e.what = "confirm" /\ chan'[q] = Append(chan[q], e)
    <3>1. PICK e \in Event : e.what = "confirm" /\ chan'[q] = Append(chan[q], e)
      BY <2>2
    <3> QED
      BY <1>1, <1>3, <2>2, <3>1, HasMore DEF Rests
  <2>3. CASE /\ chan[q] # <<>> /\ chan'[q] = Tail(chan[q])
             /\ \/ Head(chan[q]).what = "confirm" /\ net'[q].state = net[q].state
                \/ Head(chan[q]).what = "start" /\ net'[q].state = "IN_GAME"
                \/ /\ Head(chan[q]).what = "join"
                   /\ net'[q].state = IF net[q].state = "JOINING" THEN "IN_ROOM" ELSE net[q].state
    <3>1. \/ Head(chan[q]).what = "confirm" /\ net'[q].state = net[q].state
          \/ Head(chan[q]).what = "start"
          \/ /\ Head(chan[q]).what = "join"
             /\ net'[q].state = net[q].state \/ net'[q].state = "IN_ROOM"
      BY <2>3
    <3> QED
      BY <1>1, <1>3, <2>3, <3>1, RestsOn
  <2> QED
    BY <2>1, <2>2, <2>3
<1> QED
  BY <1>2, <1>3 DEF KeepsMode

\* The steps that do not end or begin a game for anybody.
LEMMA GameGoesOn ==
  ASSUME GamesInv, [Next]_vars, Playing \/ Resting, NEW p \in Peers,
         \/ Calm \/ ConfirmsMove(p) \/ PressJoin(p) \/ FinishJoin(p)
         \/ joinRoomEventAction(p) \/ customEventStart(p)
  PROVE  Playing' \/ Resting'
<1>0. Shape /\ LinkInv /\ SeatsInv /\ RoomInv
  BY GamesParts
<1>1. ASSUME NEW q \in Peers, Seated(q), chan'[q] = chan[q],
             net'[q].state = net[q].state \/ (net[q].state \notin Here /\ net'[q].state \notin Here)
      PROVE  KeepsMode(q)
  <2>1. net'[q].state = net[q].state
    BY <1>0, <1>1, MemberFacts
  <2>2. chan'[q] = chan[q] /\ net'[q].state = net[q].state
    BY <1>1, <2>1
  <2> QED
    BY <1>0, <1>1, <2>2, ModeOfMember
<1>2. ASSUME AllKeepTheirPlaces, NEW q \in Peers, Seated(q)
      PROVE  net'[q].state = net[q].state
  <2>1. net'[q].state = net[q].state \/ (net[q].state \notin Here /\ net'[q].state \notin Here)
    BY <1>2 DEF AllKeepTheirPlaces, KeepsPlace
  <2> QED
    BY <1>0, <1>2, <2>1, MemberFacts
<1>3. CASE Calm
  <2>1. \A q \in Peers : Seated(q) => KeepsMode(q)
    BY <1>1, <1>2, <1>3 DEF Calm
  <2> QED
    BY <1>3, <2>1, ModesKept DEF Calm
<1>4. CASE ConfirmsMove(p)
  <2>1. ASSUME NEW q \in Peers, Seated(q) PROVE KeepsMode(q)
    <3>1. net'[q].state = net[q].state
      BY <1>2, <1>4, <2>1 DEF ConfirmsMove
    <3>2. CASE chan' = chan
      BY <1>1, <2>1, <3>1, <3>2
    <3>3. ASSUME NEW g \in Nat, chan' = Sent(Others(p), [what |-> "confirm", game |-> g])
          PROVE  KeepsMode(q)
      <4> DEFINE e == [what |-> "confirm", game |-> g]
      <4>1. e \in Event /\ e.what = "confirm"
        BY DEF Event
      <4>2. chan' = Sent(Others(p), e)
        BY <3>3
      <4> HIDE DEF e
      <4>3. chan'[q] = chan[q] \/ chan'[q] = Append(chan[q], e)
        BY <1>0, <4>1, <4>2, SentTo
      <4>4. CASE chan'[q] = chan[q]
        BY <1>1, <2>1, <3>1, <4>4
      <4>5. CASE chan'[q] = Append(chan[q], e)
        <5>1. \E x \in Event : x.what = "confirm" /\ chan'[q] = Append(chan[q], x)
          BY <4>1, <4>5
        <5> QED
          BY <1>0, <2>1, <3>1, <5>1, ModeOfMember
      <4> QED
        BY <4>3, <4>4, <4>5
    <3>4. CASE chan[p] # <<>> /\ Head(chan[p]).what = "confirm" /\ Handled(p)
      <4>1. chan'[q] = IF q = p THEN Tail(chan[p]) ELSE chan[q]
        BY <1>0, <3>4, HandledBy
      <4>2. CASE q # p
        BY <1>1, <2>1, <3>1, <4>1, <4>2
      <4>3. CASE q = p
        BY <1>0, <2>1, <3>1, <3>4, <4>1, <4>3, ModeOfMember
      <4> QED
        BY <4>2, <4>3
    <3> QED
      BY <1>4, <3>2, <3>3, <3>4 DEF ConfirmsMove
  <2> QED
    BY <1>4, <2>1, ModesKept DEF ConfirmsMove
<1>5. CASE PressJoin(p)
  <2>1. ASSUME NEW q \in Peers, Seated(q) PROVE KeepsMode(q)
    <3>1. q # p
      BY <1>0, <1>5, <2>1, PressJoinDoes, MemberFacts DEF Here
    <3> QED
      BY <1>0, <1>1, <1>5, <2>1, <3>1, PressJoinDoes DEF Stays
  <2> QED
    BY <1>0, <1>5, <2>1, PressJoinDoes, ModesKept
<1>6. CASE FinishJoin(p)
  <2>1. ASSUME NEW q \in Peers, Seated(q) PROVE KeepsMode(q)
    BY <1>0, <1>1, <1>6, <2>1, FinishJoinDoes DEF Stays
  <2> QED
    BY <1>0, <1>6, <2>1, FinishJoinDoes, ModesKept
<1>7. CASE joinRoomEventAction(p)
  <2>0. /\ Stays(p) /\ room' = room /\ chan[p] # <<>> /\ Head(chan[p]).what = "join" /\ Handled(p)
        /\ net'[p].state = IF net[p].state = "JOINING" THEN "IN_ROOM" ELSE net[p].state
    BY <1>0, <1>7, JoinDoes
  <2>1. ASSUME NEW q \in Peers, Seated(q) PROVE KeepsMode(q)
    <3>1. chan'[q] = IF q = p THEN Tail(chan[p]) ELSE chan[q]
      BY <1>0, <2>0, HandledBy
    <3>2. CASE q # p
      BY <1>1, <2>0, <2>1, <3>1, <3>2 DEF Stays
    <3>3. CASE q = p
      BY <1>0, <2>0, <2>1, <3>1, <3>3, ModeOfMember
    <3> QED
      BY <3>2, <3>3
  <2> QED
    BY <2>0, <2>1, ModesKept
<1>8. CASE customEventStart(p)
  <2>0. /\ Stays(p) /\ room' = room /\ chan[p] # <<>> /\ Head(chan[p]).what = "start" /\ Handled(p)
        /\ net'[p].state = IF net[p].state = "IN_ROOM" THEN "IN_GAME" ELSE net[p].state
    BY <1>0, <1>8, StartDoes
  <2>1. ASSUME NEW q \in Peers, Seated(q) PROVE KeepsMode(q)
    <3>1. chan'[q] = IF q = p THEN Tail(chan[p]) ELSE chan[q]
      BY <1>0, <2>0, HandledBy
    <3>2. CASE q # p
      BY <1>1, <2>0, <2>1, <3>1, <3>2 DEF Stays
    <3>3. CASE q = p
      <4>1. InTheRoom(net[p])
        BY <1>0, <2>0, <2>1, <3>3, MemberFacts
      <4>2. net'[p].state = "IN_GAME"
        BY <2>0, <4>1 DEF InTheRoom
      <4> QED
        BY <1>0, <2>0, <2>1, <3>1, <3>3, <4>2, ModeOfMember
    <3> QED
      BY <3>2, <3>3
  <2> QED
    BY <2>0, <2>1, ModesKept
<1> QED
  BY <1>3, <1>4, <1>5, <1>6, <1>7, <1>8

\* Anybody who leaves ends the game of the others.
LEMMA GameEnds ==
  ASSUME GamesInv, [Next]_vars, Playing \/ Resting, NEW p \in Peers,
         LoseConnection(p) \/ Quit(p) \/ Crash(p)
  PROVE  Resting'
<1>0. Shape /\ LinkInv /\ SeatsInv /\ RoomInv
  BY GamesParts
<1>1. /\ Stays(p) /\ room'.seat[p] = 0 /\ \A q \in Peers \ {p} : room'.seat[q] = room.seat[q]
      /\ LeaveEvent(p) \in Event
      /\ \A q \in Peers \ {p} :
           chan'[q] = IF Seated(q) THEN Append(chan[q], LeaveEvent(p)) ELSE chan[q]
  BY <1>0, DropDoes
<1>2. ASSUME NEW q \in Peers, Seated(q)' PROVE Rests(net'[q], chan'[q])
  <2>1. q # p /\ Seated(q)
    BY <1>1, <1>2 DEF Seated, NotSeated
  <2>2. chan'[q] = Append(chan[q], LeaveEvent(p)) /\ net'[q] = net[q] /\ chan[q] \in Seq(Event)
    BY <1>0, <1>1, <2>1, MemberFacts DEF Stays
  <2>3. LeaveEvent(p).what = "leave"
    BY DEF LeaveEvent
  <2> QED
    BY <1>1, <2>2, <2>3, HasMore DEF Rests
<1> QED
  BY <1>2 DEF Resting

\* A member that hears of it is back in the room.
LEMMA GameLeft ==
  ASSUME GamesInv, [Next]_vars, Playing \/ Resting, NEW p \in Peers, leaveRoomEventAction(p)
  PROVE  Resting'
<1>0. Shape /\ LinkInv /\ SeatsInv /\ RoomInv
  BY GamesParts
<1>1. /\ Stays(p) /\ chan[p] # <<>> /\ Head(chan[p]).what = "leave" /\ Handled(p)
      /\ net'[p].state # "IN_GAME" /\ room'.seat = room.seat
  BY <1>0, LeaveDoes
<1>2. Seated(p) /\ chan[p] \in Seq(Event)
  BY <1>0, <1>1, PeerShape DEF SeatsInv, Seats, OffSeat
<1>3. ~Playing
  BY <1>1, <1>2, HasTail DEF Playing, Plays
<1>4. ASSUME NEW q \in Peers, Seated(q)' PROVE Rests(net'[q], chan'[q])
  <2>1. Seated(q) /\ Rests(net[q], chan[q])
    BY <1>1, <1>3, <1>4 DEF Resting, Seated
  <2>2. chan'[q] = IF q = p THEN Tail(chan[p]) ELSE chan[q]
    BY <1>0, <1>1, HandledBy
  <2>3. CASE q = p
    <3>1. /\ chan[q] \in Seq(Event) /\ chan[q] # <<>> /\ chan'[q] = Tail(chan[q])
          /\ Head(chan[q]).what = "leave" /\ net'[q].state # "IN_GAME"
      BY <1>1, <1>2, <2>2, <2>3
    <3> QED
      BY <2>1, <3>1, HasTail DEF Rests
  <2>4. CASE q # p
    BY <1>1, <2>1, <2>2, <2>4 DEF Stays
  <2> QED
    BY <2>3, <2>4
<1> QED
  BY <1>4 DEF Resting

\* A room that is open is at rest, and who joins it is too.
LEMMA GameJoined ==
  ASSUME GamesInv, [Next]_vars, Playing \/ Resting, NEW p \in Peers, ServerJoins(p)
  PROVE  Resting'
<1>0. Shape /\ LinkInv /\ SeatsInv /\ RoomInv
  BY GamesParts
<1>1. /\ UNCHANGED net /\ p \in room.asked /\ room.open
      /\ \A q \in Peers \ {p} : room'.seat[q] = room.seat[q]
      /\ JoinEvent \in Event
      /\ \A q \in Peers : chan'[q] = IF q = p \/ Seated(q) THEN Append(chan[q], JoinEvent)
                                                          ELSE chan[q]
  BY <1>0, JoinsDoes
<1>2. Resting /\ JoinEvent.what = "join"
  BY <1>1 DEF Playing, JoinEvent
<1>3. ASSUME NEW q \in Peers, Seated(q)' PROVE Rests(net'[q], chan'[q])
  <2>1. chan[q] \in Seq(Event)
    BY <1>0, PeerShape
  <2>2. CASE q = p
    <3>1. net[p].state = "JOINING" /\ chan[p] = <<>>
      BY <1>0, <1>1 DEF SeatsInv, Seats, Waits, OffSeat
    <3>2. Rests(net[p], chan[p])
      BY <3>1, HasNone DEF Rests
    <3> QED
      BY <1>1, <1>2, <2>1, <2>2, <3>2, HasMore DEF Rests
  <2>3. CASE q # p
    <3>1. Seated(q) /\ Rests(net[q], chan[q])
      BY <1>1, <1>2, <1>3, <2>3 DEF Resting, Seated
    <3> QED
      BY <1>1, <1>2, <2>1, <2>3, <3>1, HasMore DEF Rests
  <2> QED
    BY <2>2, <2>3
<1> QED
  BY <1>3 DEF Resting

\* What AllSettled says after a step: no flag came back, and a new start was a quiet one.
LEMMA SettledFacts ==
  ASSUME GamesInv, [Next]_vars, AllSettled'
  PROVE  /\ AllSettled
         /\ \A p \in Peers : RunStart(p) => net[p].state # "IN_GAME" /\ ~Unsettled
<1>0. Shape /\ LinkInv /\ Games = DOMAIN games /\ Games = 1 .. Len(games) /\ Len(games) \in Nat
      /\ \A p \in Peers : net[p].state = "IN_GAME" => net[p].game \in DOMAIN games
  BY GamesParts
<1>1. Games \subseteq Games' /\ \A g \in Games : NoLess(g)
  BY GamesGrow
<1>2. DOMAIN games' = Games'
  BY <1>0, GamesKept, LenProperties DEF GamesInv, RoomInv, SeatsInv, LinkInv, Shape, Games
<1>3. \A g \in Games' : games'[g].settled
  BY <1>2 DEF AllSettled
<1>4. AllSettled
  BY <1>0, <1>1, <1>3 DEF AllSettled, NoLess
<1>5. ASSUME NEW p \in Peers, RunStart(p) PROVE net[p].state # "IN_GAME" /\ ~Unsettled
  <2>1. CASE net[p].state = "IN_GAME"
    <3>1. ~games'[net[p].game].settled
      BY <1>0, <1>5, <2>1, StartMoves
    <3> QED
      BY <1>0, <1>1, <1>3, <2>1, <3>1
  <2>2. CASE net[p].state # "IN_GAME"
    <3>1. Len(games') = Len(games) + 1 /\ games'[Len(games) + 1].settled = ~Unsettled
      BY <1>0, <1>5, <2>2, StartMoves
    <3>2. Len(games) + 1 \in Games'
      BY <1>0, <3>1 DEF Games
    <3> QED
      BY <1>3, <2>2, <3>1, <3>2
  <2> QED
    BY <2>1, <2>2
<1> QED
  BY <1>4, <1>5

\* A peer that starts a game takes the members of the room with it.
LEMMA GameBegins ==
  ASSUME GamesInv, [Next]_vars, Playing \/ Resting, NEW p \in Peers, RunStart(p), ~Unsettled
  PROVE  Playing' \/ Resting'
<1> DEFINE g == IF net[p].state = "IN_GAME" THEN net[p].game ELSE Len(games) + 1
           e == [what |-> "start", game |-> g]
<1>0. Shape /\ LinkInv /\ SeatsInv /\ RoomInv
  BY GamesParts
<1>1. /\ Stays(p) /\ net'[p].state = "IN_GAME" /\ g \in Nat
      /\ chan' = IF Seated(p) THEN Sent(Others(p), e) ELSE chan
      /\ room'.open = (room.open /\ ~Seated(p)) /\ room'.seat = room.seat
  BY <1>0, RunStartDoes
<1> HIDE DEF g
<1>2. e \in Event /\ e.what = "start"
  BY <1>1 DEF Event
<1> HIDE DEF e
<1>3. CASE ~Seated(p)
  <2>1. room'.open = room.open
    BY <1>0, <1>1, <1>3, PeerShape
  <2>2. ASSUME NEW q \in Peers, Seated(q) PROVE KeepsMode(q)
    <3>1. chan'[q] = chan[q] /\ net'[q].state = net[q].state
      BY <1>1, <1>3, <2>2 DEF Stays
    <3> QED
      BY <1>0, <2>2, <3>1, ModeOfMember
  <2> QED
    BY <1>1, <2>1, <2>2, ModesKept
<1>4. CASE Seated(p)
  <2>1. ASSUME NEW q \in Peers, Seated(q)' PROVE Plays(net'[q], chan'[q])
    <3>1. Seated(q) /\ chan[q] \in Seq(Event) /\ DOMAIN chan[q] = 1 .. Len(chan[q])
      BY <1>0, <1>1, <2>1, PeerShape DEF Seated
    <3>2. ~Has(chan[q], "leave")
      BY <3>1 DEF Has, Unsettled
    <3>3. chan'[q] = IF q \in Others(p) THEN Append(chan[q], e) ELSE chan[q]
      BY <1>0, <1>1, <1>2, <1>4, SentTo
    <3>4. CASE q = p
      BY <1>1, <3>2, <3>3, <3>4 DEF Plays, Others
    <3>5. CASE q # p
      <4>1. chan'[q] = Append(chan[q], e)
        BY <3>1, <3>3, <3>5 DEF Others
      <4> QED
        BY <1>2, <3>1, <3>2, <4>1, HasMore DEF Plays
    <3> QED
      BY <3>4, <3>5
  <2>2. ~room'.open
    BY <1>1, <1>4
  <2> QED
    BY <2>1, <2>2 DEF Playing
<1> QED
  BY <1>3, <1>4

LEMMA GameInitially == Init => GameInv
<1> SUFFICES ASSUME Init PROVE GameInv
  OBVIOUS
<1>1. ASSUME NEW p \in Peers PROVE Rests(net[p], chan[p])
  <2>1. chan[p] = <<>> /\ net[p] \in {NewNet, Connected, Joined(p)}
    BY <1>1, FirstPeers
  <2>2. net[p].state # "IN_GAME"
    BY <2>1, FirstClients
  <2> QED
    BY <2>1, <2>2, HasNone DEF Rests
<1> QED
  BY <1>1, GamesInitially DEF GameInv, Resting

LEMMA GameKept == GameInv /\ [Next]_vars => GameInv'
<1> SUFFICES ASSUME GameInv, [Next]_vars PROVE GameInv'
  OBVIOUS
<1>0. GamesInv /\ GamesInv' /\ LinkInv
  BY GamesKept, GamesParts DEF GameInv
<1>1. ASSUME AllSettled' PROVE Playing' \/ Resting'
  <2>1. /\ Playing \/ Resting
        /\ \A p \in Peers : RunStart(p) => ~Unsettled
    BY <1>0, <1>1, SettledFacts DEF GameInv
  <2>2. ASSUME Calm PROVE Playing' \/ Resting'
    <3>1. CASE Peers = {}
      BY <3>1 DEF Resting
    <3>2. CASE Peers # {}
      BY <1>0, <2>1, <2>2, <3>2, GameGoesOn
    <3> QED
      BY <3>1, <3>2
  <2>3. ASSUME NEW p \in Peers,
               \/ ConfirmsMove(p) \/ PressJoin(p) \/ FinishJoin(p)
               \/ joinRoomEventAction(p) \/ customEventStart(p)
        PROVE  Playing' \/ Resting'
    BY <1>0, <2>1, <2>3, GameGoesOn
  <2>4. ASSUME NEW p \in Peers, LoseConnection(p) \/ Quit(p) \/ Crash(p)
        PROVE  Playing' \/ Resting'
    BY <1>0, <2>1, <2>4, GameEnds
  <2>5. ASSUME NEW p \in Peers, leaveRoomEventAction(p) PROVE Playing' \/ Resting'
    BY <1>0, <2>1, <2>5, GameLeft
  <2>6. ASSUME NEW p \in Peers, ServerJoins(p) PROVE Playing' \/ Resting'
    BY <1>0, <2>1, <2>6, GameJoined
  <2>7. ASSUME NEW p \in Peers, RunStart(p) PROVE Playing' \/ Resting'
    BY <1>0, <2>1, <2>7, GameBegins
  <2> QED
    BY <1>0, <2>2, <2>3, <2>4, <2>5, <2>6, <2>7, Steps
<1> QED
  BY <1>0, <1>1 DEF GameInv

LEMMA GameAlways == Spec => []GameInv
BY GameInitially, GameKept, PTL DEF Spec

LEMMA StatesAgree == GameInv => SameState
<1> SUFFICES ASSUME GameInv, Quiet, AllSettled, NEW p \in Peers, NEW q \in Peers,
                    Seated(p), Seated(q)
             PROVE  net[p].state = net[q].state
  BY DEF SameState
<1>0. RoomInv /\ (Playing \/ Resting)
  BY GamesParts DEF GameInv
<1>1. ASSUME NEW r \in Peers, Seated(r)
      PROVE  net[r].state = IF Playing THEN "IN_GAME" ELSE "IN_ROOM"
  <2>1. chan[r] = <<>>
    BY <1>1 DEF Quiet
  <2>2. \A w : ~Has(chan[r], w)
    BY <2>1, HasNone
  <2>3. net[r].state \in {"IN_ROOM", "IN_GAME"}
    <3>1. net[r].state \in Here /\ net[r].state # "JOINING"
      BY <1>0, <1>1, <2>1, MemberFacts DEF Informed
    <3> QED
      BY <3>1 DEF Here
  <2>4. CASE Playing
    BY <1>1, <2>2, <2>4 DEF Playing, Plays
  <2>5. CASE ~Playing
    BY <1>0, <1>1, <2>2, <2>3, <2>5 DEF Resting, Rests
  <2> QED
    BY <2>4, <2>5
<1> QED
  BY <1>1

\* If no join or leave was on its way at any start and no start was pressed twice, then,
\* once every event is handled, all members are in the game or all are back in the room
\* (customEventAction and leaveRoomEventAction, client.cpp), for any number of peers.
THEOREM SameStateAlways == Spec => []SameState
BY GameAlways, StatesAgree, PTL

-----------------------------------------------------------------------------
(* The players of a game.  As long as nobody leaves, the room is that of its *)
(* start: closed, with the same members, and nothing about them on its way.  *)

Whole(g) == games[g].settled /\ games[g].whole

Undisturbed(g) ==
  /\ ~room.open /\ games[g].members = room.members
  /\ \A p \in Peers : Seated(p) => /\ ~Has(chan[p], "leave") /\ ~Has(chan[p], "join")
                                   /\ ~net[p].halfJoined
  /\ \A p \in Peers : net[p].game = g \/ main[p].game = g => Seated(p)

SlotsOf(g) == \A p \in Peers : main[p].game = g /\ main[p].at # "create" =>
                                 main[p].slots = games[g].members \cap 1 .. MaxPlayers

WholeInv == GamesInv /\ \A g \in Games : Whole(g) => Undisturbed(g) /\ SlotsOf(g)

\* A screen keeps its game and its slots, or creates a game, or is about to, or leaves it.
LEMMA ScreenMoves ==
  ASSUME LinkInv, [Next]_vars, NEW q \in Peers
  PROVE  \/ /\ main'[q].game = main[q].game /\ main'[q].slots = main[q].slots
            /\ main'[q].at # "create" => main[q].at # "create"
         \/ CreateGame(q)
         \/ main'[q].at = "create" /\ main'[q].game = net[q].game
         \/ main'[q].game = NoGame
<1> DEFINE Moves == \/ /\ main'[q].game = main[q].game /\ main'[q].slots = main[q].slots
                       /\ main'[q].at # "create" => main[q].at # "create"
                    \/ CreateGame(q)
                    \/ main'[q].at = "create" /\ main'[q].game = net[q].game
                    \/ main'[q].game = NoGame
<1>0. Shape /\ main[q] \in Screen /\ main \in [Peers -> Screen]
  BY PeerShape DEF LinkInv, Shape
<1>1. ASSUME main'[q] = main[q] PROVE Moves
  BY <1>1
<1>2. ASSUME StoreConnecting(q) PROVE Moves
  BY <1>0, <1>2 DEF StoreConnecting, SetMain, Screen
<1>3. ASSUME LogoOver(q) PROVE Moves
  BY <1>0, <1>3 DEF LogoOver, SetMain, Screen
<1>4. ASSUME LobbySeesGame(q) PROVE Moves
  BY <1>0, <1>4 DEF LobbySeesGame, SetMain, Screen
<1>5. ASSUME GameFirstRead(q) PROVE Moves
  <2>1. \/ main'[q] = [NewMain("LOBBY") EXCEPT !.at = "ping"]
        \/ main'[q] = [main[q] EXCEPT !.at = "ping"] /\ main[q].at = "idle"
    BY <1>0, <1>5 DEF GameFirstRead, SetMain, Idle
  <2>2. [NewMain("LOBBY") EXCEPT !.at = "ping"].game = NoGame
    BY DEF NewMain
  <2>3. ASSUME main'[q] = [main[q] EXCEPT !.at = "ping"], main[q].at = "idle" PROVE Moves
    BY <1>0, <2>3 DEF Screen
  <2> QED
    BY <2>1, <2>2, <2>3
<1>6. ASSUME GamePing(q) PROVE Moves
  BY <1>0, <1>6 DEF GamePing, SetMain, Screen
<1>7. ASSUME PressConnect(q) PROVE Moves
  BY <1>0, <1>7 DEF PressConnect, SetMain, Screen, ShowsButtons, Idle
<1>8. ASSUME Import(q) PROVE Moves
  BY <1>0, <1>8 DEF Import, SetMain, Screen
<1>9. ASSUME LoseConnection(q) \/ Quit(q) \/ Crash(q) PROVE Moves
  <2>1. main' = main \/ main'[q] = NewMain("GONE")
    BY <1>9, DropDoes
  <2>2. NewMain("GONE").game = NoGame
    BY DEF NewMain
  <2> QED
    BY <1>1, <2>1, <2>2
<1>10. ASSUME NEW p \in Peers, MainStep(p) \/ NetworkStep(p) \/ UserStep(p) \/ ServerJoins(p)
       PROVE  Moves
  <2>1. CASE p # q
    BY <1>0, <1>1, <1>10, <2>1, OthersStay
  <2>2. CASE p = q
    <3>1. \/ main' = main \/ StoreConnecting(q) \/ LogoOver(q) \/ LobbySeesGame(q)
          \/ CreateGame(q) \/ GameFirstRead(q) \/ GamePing(q) \/ PressConnect(q) \/ Import(q)
          \/ LoseConnection(q) \/ Quit(q) \/ Crash(q)
      BY <1>10, <2>2 DEF MainStep, NetworkStep, UserStep, ServerJoins, onAvailableRegions,
         connectReturn, RunRegion, RunStart, RunConfirm, joinRoomEventAction, FinishJoin,
         leaveRoomEventAction, customEventStart, customEventConfirm, PressRegion, PressJoin,
         PressStart, SendConfirm
    <3> QED
      BY <1>1, <1>2, <1>3, <1>4, <1>5, <1>6, <1>7, <1>8, <1>9, <3>1
  <2> QED
    BY <2>1, <2>2
<1>11. ASSUME UNCHANGED vars PROVE Moves
  BY <1>1, <1>11 DEF vars
<1>12. Moves
  <2> HIDE DEF Moves
  <2> QED
    BY <1>10, <1>11 DEF Next
<1> QED
  BY <1>12

\* The steps that a game without a leave allows.
LEMMA WholeSteps ==
  ASSUME GamesInv, [Next]_vars, NEW g \in Games, Undisturbed(g), Whole(g)'
  PROVE  \/ Calm
         \/ \E p \in Peers : ConfirmsMove(p) \/ PressJoin(p) \/ RunStart(p) \/ customEventStart(p)
<1>0. Shape /\ LinkInv /\ SeatsInv /\ Games = DOMAIN games
  BY GamesParts
<1>1. \A p \in Peers : ~(LoseConnection(p) \/ Quit(p) \/ Crash(p))
  <2>1. ASSUME NEW p \in Peers, LoseConnection(p) \/ Quit(p) \/ Crash(p) PROVE FALSE
    <3>1. ~games'[g].whole
      BY <1>0, <2>1, DropGames
    <3> QED
      BY <3>1 DEF Whole
  <2> QED BY <2>1
<1>2. \A p \in Peers : ~ServerJoins(p)
  BY <1>0, JoinsDoes DEF Undisturbed
<1>3. \A p \in Peers : chan[p] # <<>> \/ net[p].halfJoined => Seated(p)
  BY <1>0 DEF SeatsInv, Seats, OffSeat
<1>4. \A p \in Peers : ~FinishJoin(p)
  BY <1>0, <1>3, FinishJoinDoes DEF Undisturbed
<1>5. ASSUME NEW p \in Peers, chan[p] # <<>>
      PROVE  Head(chan[p]).what \notin {"join", "leave"}
  <2>1. Seated(p) /\ chan[p] \in Seq(Event)
    BY <1>0, <1>3, <1>5, PeerShape
  <2> QED
    BY <1>5, <2>1, HasTail DEF Undisturbed
<1>6. \A p \in Peers : ~joinRoomEventAction(p) /\ ~leaveRoomEventAction(p)
  BY <1>0, <1>5, JoinDoes, LeaveDoes
<1> QED
  BY <1>0, <1>1, <1>2, <1>4, <1>6, Steps

\* What they do to the members of the room.
LEMMA WholeMembers ==
  ASSUME GamesInv, NEW g \in Games, Undisturbed(g), [Next]_vars, NEW p \in Peers, NEW q \in Peers,
         Calm \/ ConfirmsMove(p) \/ PressJoin(p) \/ RunStart(p) \/ customEventStart(p)
  PROVE  /\ ~room'.open /\ room'.members = room.members /\ room'.seat = room.seat
         /\ Seated(q) => /\ ~Has(chan'[q], "leave") /\ ~Has(chan'[q], "join")
                         /\ ~net'[q].halfJoined
         /\ net'[q].game = g => net[q].game = g \/ Seated(q)
<1>0. /\ Shape /\ LinkInv /\ SeatsInv /\ chan[q] \in Seq(Event) /\ ~room.open
      /\ Games = 1 .. Len(games) /\ Len(games) \in Nat
      /\ Seated(q) => /\ ~Has(chan[q], "leave") /\ ~Has(chan[q], "join") /\ ~net[q].halfJoined
  BY GamesParts, PeerShape DEF Undisturbed
<1> DEFINE Hears(es) == ~Has(es, "leave") /\ ~Has(es, "join")
<1>1. ASSUME Hears(chan[q]), chan[q] # <<>> PROVE Hears(Tail(chan[q]))
  BY <1>0, <1>1, HasTail
<1>2. ASSUME Hears(chan[q]), NEW e \in Event, e.what \in {"start", "confirm"}
      PROVE  Hears(Append(chan[q], e))
  BY <1>0, <1>2, HasMore
<1>3. CASE Calm
  BY <1>0, <1>3 DEF Calm, AllKeepTheirPlaces, KeepsPlace
<1>4. CASE ConfirmsMove(p)
  <2>1. room' = room /\ net'[q].halfJoined = net[q].halfJoined /\ net'[q].game = net[q].game
    BY <1>4 DEF ConfirmsMove, AllKeepTheirPlaces, KeepsPlace
  <2>2. CASE chan' = chan
    BY <1>0, <2>1, <2>2
  <2>3. ASSUME NEW k \in Nat, chan' = Sent(Others(p), [what |-> "confirm", game |-> k])
        PROVE  Seated(q) => Hears(chan'[q])
    <3> DEFINE e == [what |-> "confirm", game |-> k]
    <3>1. e \in Event /\ e.what = "confirm"
      BY DEF Event
    <3>2. chan' = Sent(Others(p), e)
      BY <2>3
    <3> HIDE DEF e
    <3>3. chan'[q] = chan[q] \/ chan'[q] = Append(chan[q], e)
      BY <1>0, <3>1, <3>2, SentTo
    <3>4. Seated(q) => Hears(chan[q]) /\ Hears(Append(chan[q], e))
      BY <1>0, <1>2, <3>1
    <3> QED
      BY <3>3, <3>4
  <2>4. CASE chan[p] # <<>> /\ Handled(p)
    <3>1. chan'[q] = IF q = p THEN Tail(chan[p]) ELSE chan[q]
      BY <1>0, <2>4, HandledBy
    <3>2. Seated(q) => Hears(chan'[q])
      BY <1>0, <1>1, <2>4, <3>1
    <3> QED
      BY <1>0, <2>1, <3>2
  <2>5. Seated(q) => Hears(chan'[q])
    BY <1>0, <1>4, <2>2, <2>3, <2>4 DEF ConfirmsMove
  <2> QED
    BY <1>0, <2>1, <2>5
<1>5. CASE PressJoin(p)
  <2>1. net'[q].halfJoined = net[q].halfJoined /\ net'[q].game = net[q].game
    BY <1>0, <1>5, PressJoinDoes DEF Stays
  <2> QED
    BY <1>0, <1>5, <2>1, PressJoinDoes
<1>6. CASE RunStart(p)
  <2> DEFINE k == IF net[p].state = "IN_GAME" THEN net[p].game ELSE Len(games) + 1
             e == [what |-> "start", game |-> k]
  <2>1. /\ Stays(p) /\ net'[p].game = k /\ k \in Nat /\ net'[p].halfJoined = net[p].halfJoined
        /\ chan' = IF Seated(p) THEN Sent(Others(p), e) ELSE chan
        /\ room'.open = (room.open /\ ~Seated(p)) /\ room'.members = room.members
        /\ room'.seat = room.seat
    BY <1>0, <1>6, RunStartDoes
  <2>2. k = g => net[p].game = g
    BY <1>0
  <2> HIDE DEF k
  <2>3. e \in Event /\ e.what = "start"
    BY <2>1 DEF Event
  <2> HIDE DEF e
  <2>4. chan'[q] = chan[q] \/ chan'[q] = Append(chan[q], e)
    BY <1>0, <2>1, <2>3, SentTo
  <2>5. Seated(q) => Hears(chan[q]) /\ Hears(Append(chan[q], e))
    BY <1>0, <1>2, <2>3
  <2>6. Seated(q) => Hears(chan'[q])
    BY <2>4, <2>5
  <2>7. net'[q].halfJoined = net[q].halfJoined /\ (net'[q].game = g => net[q].game = g)
    BY <2>1, <2>2 DEF Stays
  <2> QED
    BY <1>0, <2>1, <2>6, <2>7
<1>7. CASE customEventStart(p)
  <2>1. /\ Stays(p) /\ room' = room /\ chan[p] # <<>> /\ Handled(p)
        /\ net'[p].halfJoined = net[p].halfJoined
    BY <1>0, <1>7, StartDoes
  <2>2. chan'[q] = IF q = p THEN Tail(chan[p]) ELSE chan[q]
    BY <1>0, <2>1, HandledBy
  <2>3. Seated(q) => Hears(chan'[q])
    BY <1>0, <1>1, <2>1, <2>2
  <2>4. Seated(p)
    BY <1>0, <2>1 DEF SeatsInv, Seats, OffSeat
  <2>5. net'[q].halfJoined = net[q].halfJoined /\ (net'[q].game = g => net[q].game = g \/ Seated(q))
    BY <2>1, <2>4 DEF Stays
  <2> QED
    BY <1>0, <2>1, <2>3, <2>5
<1> QED
  BY <1>3, <1>4, <1>5, <1>6, <1>7

LEMMA UndisturbedKept ==
  ASSUME GamesInv, [Next]_vars, NEW g \in Games, Undisturbed(g), Whole(g)'
  PROVE  Undisturbed(g)'
<1>0. LinkInv /\ games'[g].members = games[g].members /\ 0 \notin Games
      /\ games[g].members = room.members
      /\ \A q \in Peers : net[q].game = g \/ main[q].game = g => Seated(q)
  BY GamesParts, GamesGrow DEF NoLess, Games, Undisturbed
<1>1. CASE Peers = {}
  <2>1. CASE Calm
    BY <1>0, <1>1, <2>1 DEF Calm, Undisturbed
  <2>2. Calm
    BY <1>1, WholeSteps
  <2> QED
    BY <2>1, <2>2
<1>2. CASE Peers # {}
  <2>1. PICK p \in Peers : Calm \/ ConfirmsMove(p) \/ PressJoin(p) \/ RunStart(p) \/ customEventStart(p)
    BY <1>2, WholeSteps
  <2>2. ~room'.open /\ room'.members = room.members /\ room'.seat = room.seat
    BY <2>1, WholeMembers
  <2>3. ASSUME NEW q \in Peers
        PROVE  /\ Seated(q) => /\ ~Has(chan'[q], "leave") /\ ~Has(chan'[q], "join")
                               /\ ~net'[q].halfJoined
               /\ net'[q].game = g => net[q].game = g \/ Seated(q)
    BY <2>1, WholeMembers
  <2>4. ASSUME NEW q \in Peers, net'[q].game = g \/ main'[q].game = g PROVE Seated(q)
    <3>1. CASE net'[q].game = g
      BY <1>0, <2>3, <3>1
    <3>2. CASE main'[q].game = g
      <4>1. \/ main'[q].game = main[q].game \/ CreateGame(q) \/ main'[q].game = net[q].game
            \/ main'[q].game = NoGame
        BY <1>0, ScreenMoves
      <4>2. CreateGame(q) => main'[q].game = main[q].game
        BY <1>0, PeerShape DEF CreateGame, SetMain, LinkInv, Shape, Screen
      <4> QED
        BY <1>0, <3>2, <4>1, <4>2 DEF NoGame
    <3> QED
      BY <2>4, <3>1, <3>2
  <2>5. \A q \in Peers : Seated(q)' <=> Seated(q)
    BY <2>2 DEF Seated
  <2> QED
    BY <1>0, <2>2, <2>3, <2>4, <2>5 DEF Undisturbed
<1> QED
  BY <1>1, <1>2

\* A member to whom no join and no leave is on its way knows the room.
LEMMA MemberKnows ==
  ASSUME RoomInv, NEW q \in Peers, Seated(q), ~Has(chan[q], "join"), ~Has(chan[q], "leave")
  PROVE  net[q].players = room.members
<1>1. News(net[q].players, chan[q], room.members, room.next)
  BY MemberFacts DEF Informed
<1>2. Joins(chan[q]) = {} /\ \A m : ~LeftBy(chan[q], Len(chan[q]), m)
  BY DEF Has, Joins, LeftBy
<1> QED
  BY <1>1, <1>2 DEF News

LEMMA SlotsKept ==
  ASSUME GamesInv, [Next]_vars, NEW g \in Games, Undisturbed(g), SlotsOf(g)
  PROVE  SlotsOf(g)'
<1>0. LinkInv /\ RoomInv /\ games'[g].members = games[g].members /\ 0 \notin Games
      /\ games[g].members = room.members
      /\ \A q \in Peers : net[q].game = g \/ main[q].game = g => Seated(q)
  BY GamesParts, GamesGrow DEF NoLess, Games, Undisturbed
<1>1. ASSUME NEW q \in Peers, main'[q].game = g, main'[q].at # "create"
      PROVE  main'[q].slots = games[g].members \cap 1 .. MaxPlayers
  <2>1. CASE /\ main'[q].game = main[q].game /\ main'[q].slots = main[q].slots
             /\ main'[q].at # "create" => main[q].at # "create"
    BY <1>1, <2>1 DEF SlotsOf
  <2>2. CASE CreateGame(q)
    <3>1. /\ main'[q].game = main[q].game /\ main[q].at = "create"
          /\ main'[q].slots = net[q].players \cap 1 .. MaxPlayers
      BY <1>0, <2>2, PeerShape DEF CreateGame, SetMain, LinkInv, Shape, Screen
    <3>2. Seated(q) /\ ~Has(chan[q], "join") /\ ~Has(chan[q], "leave")
      BY <1>0, <1>1, <3>1 DEF Undisturbed
    <3>3. net[q].players = room.members
      BY <1>0, <3>2, MemberKnows
    <3> QED
      BY <1>0, <3>1, <3>3
  <2>3. main'[q].game # NoGame
    BY <1>0, <1>1 DEF NoGame
  <2> QED
    BY <1>0, <1>1, <2>1, <2>2, <2>3, ScreenMoves
<1> QED
  BY <1>0, <1>1 DEF SlotsOf

\* The game that a start begins: nothing is on its way, and the room is closed with it.
LEMMA WholeBegins ==
  ASSUME GamesInv, [Next]_vars, NEW g \in Games' \ Games, Whole(g)'
  PROVE  Undisturbed(g)' /\ SlotsOf(g)'
<1>0. /\ Shape /\ LinkInv /\ SeatsInv /\ RoomInv /\ Games = 1 .. Len(games) /\ Games = DOMAIN games
      /\ Len(games) \in Nat /\ Len(games') \in {Len(games), Len(games) + 1}
      /\ Games' = 1 .. Len(games')
      /\ \A q \in Peers : /\ ClientGames(net[q], Games) /\ ScreenGames(main[q], Games)
                          /\ net[q].state = "IN_GAME" => net[q].game \in DOMAIN games
  BY GamesParts, GamesGrow DEF Games
<1>1. Len(games') = Len(games) + 1 /\ g = Len(games) + 1 /\ g \notin Games \cup {NoGame}
  <2> DEFINE n == Len(games)
             k == Len(games')
  <2>1. n \in Nat /\ k \in {n, n + 1} /\ g \in 1 .. k /\ g \notin 1 .. n /\ Games = 1 .. n
    BY <1>0
  <2> HIDE DEF n, k
  <2>2. k = n + 1 /\ g = n + 1 /\ g \notin 1 .. n \cup {0}
    BY <2>1
  <2> QED
    BY <2>1, <2>2 DEF n, k, NoGame
<1>2. PICK p \in Peers : RunStart(p)
  <2>1. ASSUME NEW r \in Peers, LoseConnection(r) \/ Quit(r) \/ Crash(r) PROVE FALSE
    BY <1>0, <1>1, <2>1, DropGames
  <2>2. games' # games
    BY <1>0, <1>1
  <2> QED
    BY <1>0, <2>1, <2>2, Steps, PressJoinDoes, JoinDoes, FinishJoinDoes, LeaveDoes, StartDoes,
       JoinsDoes DEF Calm, ConfirmsMove
<1> DEFINE e == [what |-> "start", game |-> g]
<1>3. /\ net[p].state # "IN_GAME" /\ Stays(p) /\ main' = main
      /\ net'[p].halfJoined = net[p].halfJoined
      /\ chan' = IF Seated(p) THEN Sent(Others(p), e) ELSE chan
      /\ room'.open = (room.open /\ ~Seated(p)) /\ room'.members = room.members
      /\ room'.seat = room.seat
      /\ games'[g].members = room.members /\ games'[g].settled = ~Unsettled
      /\ games'[g].whole = Seated(p)
  <2>1. net[p].state # "IN_GAME"
    <3>1. Len(games') # Len(games)
      BY <1>0, <1>1
    <3> QED
      BY <1>0, <1>2, <3>1, StartMoves
  <2> DEFINE n == Len(games) + 1
  <2>2. /\ games'[n].members = room.members /\ games'[n].settled = ~Unsettled
        /\ games'[n].whole = Seated(p)
    BY <1>0, <1>2, <2>1, StartMoves
  <2>3. /\ Stays(p) /\ main' = main /\ net'[p].halfJoined = net[p].halfJoined
        /\ chan' = IF Seated(p) THEN Sent(Others(p), [what |-> "start", game |-> n]) ELSE chan
        /\ room'.open = (room.open /\ ~Seated(p)) /\ room'.members = room.members
        /\ room'.seat = room.seat
    BY <1>0, <1>2, <2>1, RunStartDoes
  <2>4. n = g
    BY <1>1
  <2> HIDE DEF n
  <2> QED
    BY <2>1, <2>2, <2>3, <2>4
<1>4. ~Unsettled /\ Seated(p)
  BY <1>3 DEF Whole
<1>5. e \in Event /\ e.what = "start"
  BY <1>0, <1>1 DEF Event
<1> HIDE DEF e
<1>6. ASSUME NEW q \in Peers, Seated(q)
      PROVE  ~Has(chan'[q], "leave") /\ ~Has(chan'[q], "join") /\ ~net'[q].halfJoined
  <2>1. chan[q] \in Seq(Event) /\ DOMAIN chan[q] = 1 .. Len(chan[q])
    BY <1>0, PeerShape
  <2>2. ~Has(chan[q], "leave") /\ ~Has(chan[q], "join") /\ ~net[q].halfJoined
    BY <1>4, <2>1 DEF Has, Unsettled
  <2>3. chan'[q] = chan[q] \/ chan'[q] = Append(chan[q], e)
    <3>1. chan' = Sent(Others(p), e)
      BY <1>3, <1>4
    <3>2. Shape /\ e \in Event
      BY <1>0, <1>5
    <3>3. chan'[q] = IF q \in Others(p) THEN Append(chan[q], e) ELSE chan[q]
      BY <3>1, <3>2, SentTo
    <3> QED
      BY <3>3
  <2>4. net'[q].halfJoined = net[q].halfJoined
    BY <1>3 DEF Stays
  <2>5. ~Has(Append(chan[q], e), "leave") /\ ~Has(Append(chan[q], e), "join")
    BY <1>5, <2>1, <2>2, HasMore
  <2> QED
    BY <2>2, <2>3, <2>4, <2>5
<1>7. ASSUME NEW q \in Peers PROVE main'[q].game # g /\ (net'[q].game = g => Seated(q))
  <2>1. main[q].game \in Games \cup {NoGame} /\ net[q].game \in Games \cup {NoGame}
    BY <1>0 DEF ClientGames, ScreenGames
  <2>2. q # p => net'[q] = net[q]
    BY <1>3 DEF Stays
  <2> QED
    BY <1>1, <1>3, <1>4, <2>1, <2>2
<1>8. \A q \in Peers : Seated(q)' <=> Seated(q)
  BY <1>3 DEF Seated
<1>9. ~room'.open /\ games'[g].members = room'.members
  BY <1>3, <1>4
<1> QED
  BY <1>6, <1>7, <1>8, <1>9 DEF Undisturbed, SlotsOf

LEMMA WholeInitially == Init => WholeInv
<1> SUFFICES ASSUME Init PROVE WholeInv
  OBVIOUS
<1>1. games = <<>>
  BY DEF Init
<1> DEFINE n == Len(games)
<1>2. n = 0 /\ 1 .. 0 = {}
  BY <1>1
<1> HIDE DEF n
<1>3. Games = {}
  BY <1>2 DEF Games, n
<1> QED
  BY <1>3, GamesInitially DEF WholeInv

LEMMA WholeKept == WholeInv /\ [Next]_vars => WholeInv'
<1> SUFFICES ASSUME WholeInv, [Next]_vars PROVE WholeInv'
  OBVIOUS
<1>0. GamesInv /\ GamesInv' /\ \A g \in Games : NoLess(g)
  BY GamesKept, GamesGrow DEF WholeInv
<1>1. ASSUME NEW g \in Games', Whole(g)' PROVE Undisturbed(g)' /\ SlotsOf(g)'
  <2>1. CASE g \in Games
    <3>1. Whole(g)
      BY <1>0, <1>1, <2>1 DEF Whole, NoLess
    <3>2. Undisturbed(g) /\ SlotsOf(g)
      BY <2>1, <3>1 DEF WholeInv
    <3> QED
      BY <1>0, <1>1, <2>1, <3>2, UndisturbedKept, SlotsKept
  <2>2. CASE g \notin Games
    BY <1>0, <1>1, <2>2, WholeBegins
  <2> QED
    BY <2>1, <2>2
<1> QED
  BY <1>0, <1>1 DEF WholeInv

LEMMA WholeAlways == Spec => []WholeInv
BY WholeInitially, WholeKept, PTL DEF Spec

LEMMA PlayersAgree == WholeInv => SlotsAgree
<1> SUFFICES ASSUME WholeInv, NEW p \in Peers, NEW g, g = main[p].game, g # NoGame,
                    main[p].at # "create", games[g].settled, games[g].whole,
                    games[g].members \subseteq 1 .. MaxPlayers
             PROVE  main[p].slots = games[g].members
  BY DEF SlotsAgree
<1>1. ScreenGames(main[p], Games)
  BY GamesParts DEF WholeInv
<1>2. g \in Games
  BY <1>1 DEF ScreenGames
<1>3. SlotsOf(g)
  BY <1>2 DEF WholeInv, Whole
<1> QED
  BY <1>3 DEF SlotsOf

\* Two peers of one game have created it with the same players, those of its start: the
\* room is closed before the start is sent, though every peer reads its own list later
\* (GetConnectedPlayers, client.cpp:472).  For any number of peers and places.
THEOREM SlotsAgreeAlways == Spec => []SlotsAgree
BY WholeAlways, PlayersAgree, PTL

-----------------------------------------------------------------------------
(* The last player of a room is its master.                                 *)

LEMMA LastPlayerIsMaster == NumbersInv => LastPlayerSurvives
<1> SUFFICES ASSUME NumbersInv, NEW p \in Peers, ReadsNull(p)
             PROVE  Cardinality(net[p].players) >= 2
  BY DEF LastPlayerSurvives
<1> DEFINE P == net[p].players
           i == net[p].index
<1>1. P \subseteq Numbers /\ P \in SUBSET Nat /\ LinkInv /\ HasRole(net[p])
  BY GamesParts, PeerShape DEF NumbersInv, LinkInv, RoomInv
<1>2. InTheRoom(net[p]) /\ ~net[p].halfJoined
  BY <1>1 DEF ReadsNull, LinkInv, Linked, ScreenFits
<1>3. i \in P /\ i \in Nat /\ ~\A m \in P : i <= m
  BY <1>1, <1>2 DEF HasRole, ReadsNull
<1>4. PICK m \in P : m # i
  BY <1>1, <1>3
<1>5. IsFiniteSet(P)
  <2>1. Cardinality(Peers) \in Nat
    BY SessionAssumption, FS_CardinalityType
  <2> DEFINE n == Cardinality(Peers)
  <2> HIDE DEF n
  <2>2. IsFiniteSet(1 .. n)
    BY <2>1, FS_Interval DEF n
  <2> QED
    BY <1>1, <2>2, FS_Subset DEF Numbers, n
<1> HIDE DEF P, i
<1>6. Cardinality({i, m}) = 2
  <2>1. IsFiniteSet({i}) /\ Cardinality({i}) = 1
    BY FS_Singleton
  <2>2. Cardinality({i} \cup {m}) = Cardinality({i}) + 1
    BY <1>4, <2>1, FS_AddElement
  <2>3. {i} \cup {m} = {i, m}
    OBVIOUS
  <2> QED
    BY <2>1, <2>2, <2>3
<1>7. {i, m} \subseteq P
  BY <1>3, <1>4
<1>8. Cardinality({i, m}) <= Cardinality(P) /\ Cardinality(P) \in Nat
  BY <1>5, <1>7, FS_Subset, FS_CardinalityType
<1> QED
  BY <1>6, <1>8 DEF P

\* Whoever joined, started, left, crashed or lost its connection: every variable keeps its
\* type, the roles, the states and the players of a game agree, and the last player of a
\* room never asks a game that is gone for its intro time (splash.cpp:97-108).  For any
\* number of peers, places in a room, games and packets.
THEOREM SessionSoundAlways == Spec => []SessionSound
<1>1. RoomInv /\ NumbersInv /\ CountInv /\ GameInv /\ WholeInv => SessionSound
  BY TypesFollow, MasterAgreed, StatesAgree, PlayersAgree, LastPlayerIsMaster DEF SessionSound
<1> QED
  BY <1>1, RoomAlways, NumbersAlways, CountAlways, GameAlways, WholeAlways, PTL
=============================================================================
