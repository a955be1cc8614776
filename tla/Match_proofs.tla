----------------------------- MODULE Match_proofs -----------------------------
(***************************************************************************)
(* Safety of the machines of a match: the pool of bullets, the falls, the   *)
(* stomp, the jetpack, the water gun and what is shown.  Proved for any     *)
(* number of players and bullets and for any times that fit together.       *)
(***************************************************************************)
EXTENDS MCMatch, FiniteSetTheorems, TLAPS

-----------------------------------------------------------------------------
(* The pool of bullets. *)

\* p has had its turn in this tick, before the bullets have had theirs.
Had(p) == IF poolStage = "bullets" \/ (poolStage \in {"players", "terminated"} /\ p < turn) THEN 1 ELSE 0

\* A bullet in flight is as old as the last shot of who shot it, at least.
ShotInTime == \A b \in Bullets : bullet[b].active =>
    /\ bullet[b].shooter \in Players
    /\ bullet[b].timeToLive + Reload - Had(bullet[b].shooter) - gun[bullet[b].shooter] <= LifeTime

\* Bullets of one player that are in flight are Reload ticks apart.
Spaced == \A b, c \in Bullets :
    bullet[b].active /\ bullet[c].active /\ b # c /\ bullet[b].shooter = bullet[c].shooter =>
        \/ bullet[b].timeToLive + Reload <= bullet[c].timeToLive
        \/ bullet[c].timeToLive + Reload <= bullet[b].timeToLive

\* What every step of the pool keeps.
PoolInv == PoolTypeOK /\ PoolSound /\ ShotInTime /\ Spaced

\* A set of numbers that is not empty has a first one.
LEMMA FirstIsThere ==
  ASSUME NEW S \in SUBSET Nat, S # {}
  PROVE  First(S) \in S
<1>1. PICK i \in S : \A j \in S : <<j, i>> \notin OpToRel(<, Nat)
  BY NatLessThanWellFounded, WFMin
<1>2. \A j \in S : ~(j < i)
  BY <1>1 DEF OpToRel
<1>3. i \in S
  BY <1>1
<1>4. \A j \in S : i <= j
  BY <1>2, <1>3
<1> QED
  BY <1>3, <1>4 DEF First

\* A bullet that rests can be reused, or another one that rests.
LEMMA RestingIsReusable ==
  ASSUME bullet \in [Bullets -> Bullet], Resting # {}
  PROVE  Reusable # {}
<1> DEFINE D == {bullet[b].destroyed : b \in Resting}
<1>1. D \in SUBSET Nat /\ D # {}
  <2>1. \A b \in Resting : bullet[b].destroyed \in Nat
    BY PoolAssumption DEF Resting, Bullet
  <2> QED
    BY <2>1
<1>2. PICK d \in D : \A e \in D : <<e, d>> \notin OpToRel(<, Nat)
  BY <1>1, NatLessThanWellFounded, WFMin
<1> HIDE DEF D
<1>3. \A e \in D : d <= e
  <2>1. \A e \in D : ~(e < d)
    BY <1>1, <1>2 DEF OpToRel
  <2>2. d \in D
    BY <1>2
  <2> QED
    BY <1>1, <2>1, <2>2
<1>4. PICK b \in Resting : bullet[b].destroyed = d
  BY DEF D
<1>5. \A c \in Resting : bullet[c].destroyed \in D
  BY DEF D
<1> QED
  BY <1>3, <1>4, <1>5 DEF Reusable

\* There are n numbers from 1 to n.
LEMMA FirstNumbers ==
  ASSUME NEW n \in Nat
  PROVE  IsFiniteSet(1 .. n) /\ Cardinality(1 .. n) = n
<1>1. 1 \in Int /\ n \in Int
  OBVIOUS
<1>2. IsFiniteSet(1 .. n) /\ Cardinality(1 .. n) = IF 1 > n THEN 0 ELSE n - 1 + 1
  BY <1>1, FS_Interval
<1> QED
  BY <1>2

\* Division, as it is needed here.
LEMMA Quotient ==
  ASSUME NEW n \in Nat, NEW d \in Nat \ {0}
  PROVE  /\ n \div d \in Nat
         /\ (n \div d) * d <= n
         /\ n < (n \div d) * d + d
OBVIOUS

\* Numbers d apart have quotients that differ, one by one.
LEMMA QuotientApart ==
  ASSUME NEW m \in Nat, NEW n \in Nat, NEW d \in Nat \ {0}, m + d <= n
  PROVE  (m \div d) + 1 <= n \div d
<1> DEFINE p == m \div d
           q == n \div d
<1>1. p \in Nat /\ p * d <= m
  BY Quotient
<1>2. q \in Nat /\ n < q * d + d
  BY Quotient
<1> HIDE DEF p, q
<1>3. p * d + d < q * d + d
  <2>1. p * d \in Nat /\ q * d \in Nat
    BY <1>1, <1>2
  <2> QED
    BY <1>1, <1>2, <2>1
<1>4. ~(q < p + 1)
  <2> SUFFICES ASSUME q < p + 1 PROVE FALSE
    OBVIOUS
  <2>1. q <= p
    BY <1>1, <1>2
  <2>2. q * d <= p * d
    BY <1>1, <1>2, <2>1
  <2>3. p * d \in Nat /\ q * d \in Nat
    BY <1>1, <1>2
  <2> QED
    BY <1>3, <2>2, <2>3
<1> QED
  BY <1>1, <1>2, <1>4 DEF p, q

\* The last of the salvo's quotients is that of a bullet just shot.
LEMMA SalvoIsOneMore ==
  /\ Salvo \in Nat \ {0}
  /\ Salvo = ((LifeTime - 1) \div Reload) + 1
<1>1. LifeTime - 1 \in Nat /\ Reload \in Nat \ {0} /\ LifeTime + Reload - 1 \in Nat
  BY PoolAssumption
<1> DEFINE p == (LifeTime - 1) \div Reload
           m == LifeTime - 1
           n == LifeTime + Reload - 1
<1>2. p + 1 <= Salvo
  <2>1. m \in Nat /\ n \in Nat /\ Reload \in Nat \ {0} /\ m + Reload <= n
    BY PoolAssumption
  <2>2. p = m \div Reload /\ Salvo = n \div Reload
    BY DEF Salvo
  <2> HIDE DEF m, n, p
  <2>3. (m \div Reload) + 1 <= n \div Reload
    BY <2>1, QuotientApart
  <2> QED
    BY <2>2, <2>3
<1>3. p \in Nat /\ LifeTime - 1 < p * Reload + Reload
  BY <1>1, Quotient
<1>4. Salvo \in Nat /\ Salvo * Reload <= LifeTime + Reload - 1
  BY <1>1, Quotient DEF Salvo
<1> HIDE DEF p
<1>5. ~(p + 2 <= Salvo)
  <2> SUFFICES ASSUME p + 2 <= Salvo PROVE FALSE
    OBVIOUS
  <2>1. (p + 2) * Reload <= Salvo * Reload
    BY <1>1, <1>3, <1>4
  <2>2. (p + 2) * Reload = p * Reload + Reload + Reload
    BY <1>1, <1>3
  <2>3. p * Reload \in Nat /\ Salvo * Reload \in Nat
    BY <1>1, <1>3, <1>4
  <2> QED
    BY PoolAssumption, <1>3, <1>4, <2>1, <2>2, <2>3
<1> QED
  BY <1>2, <1>3, <1>4, <1>5 DEF p
LEMMA PoolInitially == PoolInit => PoolInv
<1> SUFFICES ASSUME PoolInit PROVE PoolInv
  OBVIOUS
<1>1. PoolTypeOK
  <2>1. /\ LifeTime \in 0 .. LifeTime /\ 0 \in 0 .. SplashTime /\ 0 \in 0 .. (Reload - 1)
        /\ 1 \in Players
    BY PoolAssumption, PlayersAssumption DEF Players
  <2>2. bullet \in [Bullets -> Bullet]
    BY <2>1 DEF PoolInit, Bullet
  <2> QED
    BY <2>1, <2>2 DEF PoolInit, PoolTypeOK, Stages
<1> QED
  BY <1>1 DEF PoolInit, PoolInv, PoolSound, FlightEnds, NoLeak, PoolSuffices, DrawnInColour,
              ShotInTime, Spaced

LEMMA BeginTickKeeps ==
  ASSUME PoolInv, BeginTick
  PROVE  PoolInv'
<1>1. PoolTypeOK'
  BY DEF PoolInv, PoolTypeOK, BeginTick, Stages
<1>2. (FlightEnds /\ NoLeak /\ Spaced)'
  BY DEF PoolInv, PoolSound, FlightEnds, NoLeak, Spaced, BeginTick
<1>3. PoolSuffices' /\ DrawnInColour'
  BY DEF PoolSuffices, DrawnInColour, BeginTick
<1>4. \A p \in Players : Had(p) = 0 /\ Had(p)' = 0
  BY DEF Had, BeginTick
<1>5. ShotInTime'
  BY <1>4 DEF PoolInv, ShotInTime, BeginTick
<1> QED
  BY <1>1, <1>2, <1>3, <1>5 DEF PoolInv, PoolSound

\* A bullet that strikes something stops, and is free or splashes.
LEMMA EnterKeeps ==
  ASSUME PoolInv, NEW b \in Bullets, NEW type \in {"PLAYER", "PLATFORM", "GAME_LIMIT"},
         NEW number \in Players \cup {Nobody}, Enter(b, type, number)
  PROVE  PoolInv'
<1> DEFINE struck == IF Spared(b, number) THEN bullet[b] ELSE Struck(bullet[b], type)
<1>1. bullet \in [Bullets -> Bullet] /\ bullet[b] \in Bullet
  BY DEF PoolInv, PoolTypeOK
<1>2. /\ struck \in Bullet
      /\ struck.active => struck = bullet[b]
      /\ struck.active \/ struck.owner = Nobody \/ struck.destroyed > 0
  <2>1. SplashTime \in 0 .. SplashTime /\ SplashTime > 0
    BY PoolAssumption
  <2>2. CASE Spared(b, number)
    BY <1>1, <2>2 DEF PoolInv, PoolSound, NoLeak
  <2>3. CASE ~Spared(b, number) /\ type = "GAME_LIMIT"
    BY <1>1, <2>1, <2>3 DEF Struck, Bullet
  <2>4. CASE ~Spared(b, number) /\ type # "GAME_LIMIT"
    BY <1>1, <2>1, <2>4 DEF Struck, Bullet
  <2> QED
    BY <2>2, <2>3, <2>4
<1>3. bullet' = [bullet EXCEPT ![b] = struck]
  BY DEF Enter
<1> HIDE DEF struck
<1>4. /\ bullet' \in [Bullets -> Bullet]
      /\ \A c \in Bullets : bullet'[c] = IF c = b THEN struck ELSE bullet[c]
  BY <1>1, <1>2, <1>3
<1>5. PoolTypeOK'
  BY <1>4 DEF PoolInv, PoolTypeOK, Enter
<1>6. \A c \in Bullets : bullet'[c].active => bullet[c].active /\ bullet'[c] = bullet[c]
  BY <1>2, <1>4
<1>7. (FlightEnds /\ Spaced)'
  BY <1>6 DEF PoolInv, PoolSound, FlightEnds, Spaced
<1>8. NoLeak'
  BY <1>2, <1>4 DEF PoolInv, PoolSound, NoLeak
<1>9. PoolSuffices' /\ DrawnInColour'
  BY DEF PoolSuffices, DrawnInColour, Enter
<1>10. \A p \in Players : Had(p) = 0 /\ Had(p)' = 0
  BY DEF Had, Enter
<1>11. ShotInTime'
  <2>1. gun' = gun
    BY DEF Enter
  <2> QED
    BY <1>6, <1>10, <2>1 DEF PoolInv, ShotInTime
<1> QED
  BY <1>5, <1>7, <1>8, <1>9, <1>11 DEF PoolInv, PoolSound

LEMMA PoolEndPhysicsKeeps ==
  ASSUME PoolInv, PoolEndPhysics
  PROVE  PoolInv'
<1>1. PoolTypeOK'
  BY PlayersAssumption DEF PoolInv, PoolTypeOK, PoolEndPhysics, Stages, Players
<1>2. (FlightEnds /\ NoLeak /\ Spaced)'
  BY DEF PoolInv, PoolSound, FlightEnds, NoLeak, Spaced, PoolEndPhysics
<1>3. PoolSuffices' /\ DrawnInColour'
  BY DEF PoolSuffices, DrawnInColour, PoolEndPhysics
<1>4. \A p \in Players : Had(p) = 0 /\ Had(p)' = 0
  BY DEF Had, PoolEndPhysics, Players
<1>5. ShotInTime'
  BY <1>4 DEF PoolInv, ShotInTime, PoolEndPhysics
<1> QED
  BY <1>1, <1>2, <1>3, <1>5 DEF PoolInv, PoolSound

\* What a turn does to who has had it.
LEMMA TurnTaken ==
  ASSUME PoolTypeOK, poolStage = "players", EndTurn, NEW p \in Players, turn = p
  PROVE  /\ poolStage' \in {"players", "bullets"} /\ turn' \in Players
         /\ Had(p) = 0 /\ Had(p)' = 1
         /\ \A q \in Players \ {p} : Had(q)' = Had(q)
<1>1. p \in Int /\ PlayerNmb \in Int /\ 1 <= p /\ p <= PlayerNmb
  BY PlayersAssumption DEF Players
<1>2. Had(p) = 0
  BY <1>1 DEF Had
<1>3. CASE turn = PlayerNmb
  <2>1. poolStage' = "bullets" /\ turn' = turn
    BY <1>3 DEF EndTurn
  <2>2. \A q \in Players : Had(q)' = 1
    BY <2>1 DEF Had
  <2>3. \A q \in Players \ {p} : Had(q) = 1
    BY <1>1, <1>3 DEF Had, Players
  <2> QED
    BY <1>2, <2>1, <2>2, <2>3
<1>4. CASE turn # PlayerNmb
  <2>1. poolStage' = "players" /\ turn' = p + 1
    BY <1>4 DEF EndTurn
  <2>2. turn' \in Players
    BY <1>1, <1>4, <2>1 DEF Players
  <2>3. \A q \in Players : Had(q)' = IF q < p + 1 THEN 1 ELSE 0
    BY <2>1 DEF Had
  <2>4. \A q \in Players : Had(q) = IF q < p THEN 1 ELSE 0
    BY DEF Had
  <2>5. \A q \in Players \ {p} : q < p + 1 <=> q < p
    BY <1>1 DEF Players
  <2>6. p < p + 1
    BY <1>1
  <2> QED
    BY <1>2, <2>1, <2>2, <2>3, <2>4, <2>5, <2>6
<1> QED
  BY <1>3, <1>4

LEMMA HoldFireKeeps ==
  ASSUME PoolInv, NEW p \in Players, HoldFire(p)
  PROVE  PoolInv'
<1>1. /\ poolStage = "players" /\ turn = p /\ EndTurn /\ PoolTypeOK
      /\ bullet' = bullet /\ view' = view /\ flying' = flying
      /\ gun' = [gun EXCEPT ![p] = IF gun[p] = 0 THEN 0 ELSE gun[p] - 1]
  BY DEF PoolInv, HoldFire
<1>2. /\ poolStage' \in {"players", "bullets"} /\ turn' \in Players
      /\ Had(p) = 0 /\ Had(p)' = 1
      /\ \A q \in Players \ {p} : Had(q)' = Had(q)
  BY <1>1, TurnTaken
<1>3. /\ gun' \in [Players -> 0 .. (Reload - 1)]
      /\ gun[p] - 1 <= gun'[p]
      /\ \A q \in Players \ {p} : gun'[q] = gun[q]
      /\ \A q \in Players : gun[q] \in Int /\ gun'[q] \in Int
  BY <1>1, PoolAssumption DEF PoolTypeOK
<1>4. PoolTypeOK'
  BY <1>1, <1>2, <1>3 DEF PoolTypeOK, Stages
<1>5. (FlightEnds /\ NoLeak /\ Spaced)'
  BY <1>1 DEF PoolInv, PoolSound, FlightEnds, NoLeak, Spaced
<1>6. PoolSuffices' /\ DrawnInColour'
  BY <1>2 DEF PoolSuffices, DrawnInColour
<1>7. ShotInTime'
  <2> SUFFICES ASSUME NEW b \in Bullets, bullet[b].active, NEW q, q = bullet[b].shooter
               PROVE  q \in Players /\ bullet[b].timeToLive + Reload - Had(q)' - gun'[q] <= LifeTime
    BY <1>1 DEF ShotInTime
  <2>1. q \in Players /\ bullet[b].timeToLive + Reload - Had(q) - gun[q] <= LifeTime
    BY DEF PoolInv, ShotInTime
  <2>2. bullet[b].timeToLive \in Int /\ Reload \in Int /\ LifeTime \in Int
    BY <1>1, PoolAssumption DEF PoolTypeOK, Bullet
  <2>3. Had(q) \in Int /\ Had(q)' \in Int
    BY DEF Had
  <2>4. CASE q = p
    BY <1>2, <1>3, <2>1, <2>2, <2>4
  <2>5. CASE q # p
    BY <1>2, <1>3, <2>1, <2>2, <2>3, <2>5
  <2> QED
    BY <2>4, <2>5
<1> QED
  BY <1>4, <1>5, <1>6, <1>7 DEF PoolInv, PoolSound
\* Who may shoot finds a bullet: with all of them in flight, each would have a place of
\* its own among the salvos, whose last place for the shooter is free.
LEMMA NeverExhausted ==
  ASSUME PoolInv, NEW p \in Players, poolStage = "players", turn = p, gun[p] = 0,
         PlayerNmb * Salvo <= MaxBulletNmb
  PROVE  Free \cup Reusable # {}
<1> SUFFICES ASSUME Free \cup Reusable = {} PROVE FALSE
  OBVIOUS
<1> DEFINE place(b) == (bullet[b].timeToLive - 1) \div Reload
           T == Players \X (0 .. Salvo - 1)
           U == T \ {<<p, Salvo - 1>>}
           f == [b \in Bullets |-> <<bullet[b].shooter, place(b)>>]
<1>1. PoolTypeOK /\ FlightEnds /\ ShotInTime /\ Spaced
  BY DEF PoolInv, PoolSound
<1>2. \A b \in Bullets : bullet[b].active
  <2>1. Resting = {}
    BY <1>1, RestingIsReusable DEF PoolTypeOK
  <2> QED
    BY <2>1 DEF Resting
<1>3. \A b \in Bullets : /\ bullet[b].timeToLive \in Nat \ {0}
                         /\ bullet[b].timeToLive - 1 \in Nat
                         /\ bullet[b].timeToLive <= LifeTime
  BY <1>1, <1>2, PoolAssumption DEF PoolTypeOK, FlightEnds, Bullet
<1>4. /\ Salvo \in Nat \ {0} /\ Salvo - 1 = (LifeTime - 1) \div Reload
      /\ Reload \in Nat \ {0} /\ LifeTime \in Nat \ {0} /\ MaxBulletNmb \in Nat
      /\ PlayerNmb \in Nat \ {0}
  <2>1. Salvo = ((LifeTime - 1) \div Reload) + 1 /\ Salvo \in Nat \ {0}
    BY SalvoIsOneMore
  <2>2. (LifeTime - 1) \div Reload \in Nat
    BY Quotient, PoolAssumption
  <2> QED
    BY <2>1, <2>2, PoolAssumption, PlayersAssumption
<1>5. \A b \in Bullets : place(b) \in Nat /\ place(b) <= Salvo - 1
  <2> TAKE b \in Bullets
  <2> DEFINE n == bullet[b].timeToLive - 1
             m == LifeTime - 1
  <2>1. n \in Nat /\ m \in Nat /\ n <= m
    BY <1>3, <1>4
  <2>2. place(b) = n \div Reload /\ Salvo - 1 = m \div Reload
    BY <1>4
  <2> HIDE DEF n, m, place
  <2>3. n \div Reload \in Nat /\ m \div Reload \in Nat
        /\ (n \div Reload) * Reload <= n /\ m < (m \div Reload) * Reload + Reload
    BY <1>4, <2>1, Quotient
  <2>4. n \div Reload <= m \div Reload
    BY <1>4, <2>1, <2>3
  <2> QED
    BY <2>2, <2>3, <2>4
<1>6. \A b \in Bullets : bullet[b].shooter = p => place(b) < Salvo - 1
  <2> SUFFICES ASSUME NEW b \in Bullets, bullet[b].shooter = p
               PROVE  place(b) < Salvo - 1
    OBVIOUS
  <2> DEFINE n == bullet[b].timeToLive - 1
             m == LifeTime - 1
  <2>1. Had(p) = 0
    BY DEF Had, Players
  <2>2. n \in Nat /\ m \in Nat /\ n + Reload <= m
    BY <1>1, <1>2, <1>3, <1>4, <2>1 DEF ShotInTime
  <2>3. place(b) = n \div Reload /\ Salvo - 1 = m \div Reload
    BY <1>4
  <2> HIDE DEF n, m, place
  <2>4. (n \div Reload) + 1 <= m \div Reload
    BY <1>4, <2>2, QuotientApart
  <2>5. n \div Reload \in Nat /\ m \div Reload \in Nat
    BY <1>4, <2>2, Quotient
  <2> QED
    BY <2>3, <2>4, <2>5
<1>7. \A b, c \in Bullets : b # c /\ bullet[b].shooter = bullet[c].shooter => place(b) # place(c)
  <2>1. \A b, c \in Bullets : bullet[b].timeToLive + Reload <= bullet[c].timeToLive => place(b) # place(c)
    <3> SUFFICES ASSUME NEW b \in Bullets, NEW c \in Bullets,
                        bullet[b].timeToLive + Reload <= bullet[c].timeToLive
                 PROVE  place(b) # place(c)
      OBVIOUS
    <3> DEFINE m == bullet[b].timeToLive - 1
               n == bullet[c].timeToLive - 1
    <3>1. n \in Nat /\ m \in Nat /\ m + Reload <= n
      BY <1>3, <1>4
    <3>2. place(b) = m \div Reload /\ place(c) = n \div Reload
      OBVIOUS
    <3> HIDE DEF n, m, place
    <3>3. (m \div Reload) + 1 <= n \div Reload
      BY <1>4, <3>1, QuotientApart
    <3>4. m \div Reload \in Nat /\ n \div Reload \in Nat
      BY <1>4, <3>1, Quotient
    <3> QED
      BY <3>2, <3>3, <3>4
  <2> HIDE DEF place
  <2> QED
    BY <1>1, <1>2, <2>1 DEF Spaced
<1> HIDE DEF place
<1>8. f \in [Bullets -> U]
  <2>1. \A b \in Bullets : bullet[b].shooter \in Players
    BY <1>1, <1>2 DEF ShotInTime
  <2>2. \A b \in Bullets : place(b) \in 0 .. Salvo - 1
    BY <1>4, <1>5
  <2>3. \A b \in Bullets : <<bullet[b].shooter, place(b)>> # <<p, Salvo - 1>>
    BY <1>4, <1>5, <1>6
  <2> QED
    BY <2>1, <2>2, <2>3
<1>9. \A b, c \in Bullets : b # c => f[b] # f[c]
  BY <1>7
<1>10. IsFiniteSet(Players) /\ Cardinality(Players) = PlayerNmb
  BY <1>4, FirstNumbers DEF Players
<1>11. IsFiniteSet(0 .. Salvo - 1) /\ Cardinality(0 .. Salvo - 1) = Salvo
  <2> DEFINE s == Salvo - 1
  <2>1. s \in Int /\ 0 \in Int /\ ~(0 > s) /\ s - 0 + 1 = Salvo
    BY <1>4
  <2> HIDE DEF s
  <2>2. IsFiniteSet(0 .. s) /\ Cardinality(0 .. s) = IF 0 > s THEN 0 ELSE s - 0 + 1
    BY <2>1, FS_Interval
  <2>3. IsFiniteSet(0 .. s) /\ Cardinality(0 .. s) = Salvo
    BY <2>1, <2>2
  <2> QED
    BY <2>3 DEF s
<1>12. IsFiniteSet(Bullets) /\ Cardinality(Bullets) = MaxBulletNmb
  BY <1>4, FirstNumbers DEF Bullets
<1>13. IsFiniteSet(T) /\ Cardinality(T) = PlayerNmb * Salvo
  <2> DEFINE S == 0 .. Salvo - 1
  <2> HIDE DEF S
  <2>1. /\ IsFiniteSet(Players \X S)
        /\ Cardinality(Players \X S) = Cardinality(Players) * Cardinality(S)
    BY <1>10, <1>11, FS_Product DEF S
  <2>2. IsFiniteSet(Players \X S) /\ Cardinality(Players \X S) = PlayerNmb * Salvo
    BY <1>10, <1>11, <2>1 DEF S
  <2> QED
    BY <2>2 DEF S
<1>14. <<p, Salvo - 1>> \in T
  <2>1. Salvo - 1 \in 0 .. Salvo - 1
    BY <1>4
  <2> QED
    BY <2>1
<1> HIDE DEF T, f
<1>15. IsFiniteSet(U) /\ Cardinality(U) = Cardinality(T) - 1
  BY <1>13, <1>14, FS_RemoveElement
<1>16. Cardinality(U) < Cardinality(Bullets)
  <2>1. PlayerNmb * Salvo \in Nat
    BY <1>4
  <2>2. Cardinality(U) = PlayerNmb * Salvo - 1
    BY <1>13, <1>15
  <2> HIDE DEF U
  <2> QED
    BY <1>4, <1>12, <2>1, <2>2
<1> HIDE DEF U
<1> QED
  BY <1>8, <1>9, <1>12, <1>15, <1>16, FS_PigeonHole
\* Who shoots takes a bullet nobody owns, or one that rests.
LEMMA TakesAnother ==
  ASSUME PoolTypeOK, Free \cup Reusable # {}
  PROVE  /\ First(IF Free # {} THEN Free ELSE Reusable) \in Bullets
         /\ \/ bullet[First(IF Free # {} THEN Free ELSE Reusable)].owner = Nobody
            \/ ~bullet[First(IF Free # {} THEN Free ELSE Reusable)].active
<1>1. Free \in SUBSET Nat /\ Reusable \in SUBSET Nat
  BY DEF Free, Reusable, Resting, Bullets
<1>2. CASE Free # {}
  <2>1. First(Free) \in Free
    BY <1>1, <1>2, FirstIsThere
  <2> QED
    BY <1>2, <2>1 DEF Free
<1>3. CASE Free = {}
  <2>1. First(Reusable) \in Reusable
    BY <1>1, <1>3, FirstIsThere
  <2> QED
    BY <1>3, <2>1 DEF Reusable, Resting
<1> QED
  BY <1>2, <1>3

LEMMA SpawnWataKeeps ==
  ASSUME PoolInv, NEW p \in Players, SpawnWata(p)
  PROVE  PoolInv'
<1>1. /\ poolStage = "players" /\ turn = p /\ PoolTypeOK
      /\ gun[p] = 0 /\ view' = view /\ flying' = flying
  BY DEF PoolInv, SpawnWata
<1>2. CASE Free \cup Reusable = {}
  <2>1. poolStage' = "terminated" /\ bullet' = bullet /\ gun' = gun /\ turn' = turn
    BY <1>2 DEF SpawnWata
  <2>2. ~(PlayerNmb * Salvo <= MaxBulletNmb)
    BY <1>1, <1>2, NeverExhausted
  <2>3. PoolSuffices'
    BY <2>2 DEF PoolSuffices, Salvo
  <2>4. PoolTypeOK'
    BY <1>1, <2>1 DEF PoolTypeOK, Stages
  <2>5. (FlightEnds /\ NoLeak /\ Spaced)'
    BY <2>1 DEF PoolInv, PoolSound, FlightEnds, NoLeak, Spaced
  <2>6. DrawnInColour'
    BY <2>1 DEF DrawnInColour
  <2>7. \A q \in Players : Had(q)' = Had(q)
    BY <1>1, <2>1 DEF Had
  <2>8. ShotInTime'
    BY <2>1, <2>7 DEF PoolInv, ShotInTime
  <2> QED
    BY <2>3, <2>4, <2>5, <2>6, <2>8 DEF PoolInv, PoolSound
<1>3. CASE Free \cup Reusable # {}
  <2> DEFINE b == First(IF Free # {} THEN Free ELSE Reusable)
             new == Shot(bullet[b], p)
  <2>1. /\ bullet' = [bullet EXCEPT ![b] = new]
        /\ gun' = [gun EXCEPT ![p] = Reload - 1]
        /\ EndTurn
    BY <1>3 DEF SpawnWata
  <2>2. b \in Bullets
    BY <1>1, <1>3, TakesAnother
  <2>3. bullet \in [Bullets -> Bullet] /\ bullet[b] \in Bullet
    BY <1>1, <2>2 DEF PoolTypeOK
  <2>4. new \in Bullet /\ new.active /\ new.shooter = p /\ new.timeToLive = LifeTime
    <3>1. LifeTime \in 0 .. LifeTime
      BY PoolAssumption
    <3> QED
      BY <2>3, <3>1 DEF Shot, Bullet
  <2> HIDE DEF b, new
  <2>5. /\ bullet' \in [Bullets -> Bullet]
        /\ \A c \in Bullets : bullet'[c] = IF c = b THEN new ELSE bullet[c]
    BY <2>1, <2>2, <2>3, <2>4
  <2>6. /\ gun' \in [Players -> 0 .. (Reload - 1)] /\ gun'[p] = Reload - 1
        /\ \A q \in Players \ {p} : gun'[q] = gun[q]
    <3>1. Reload - 1 \in 0 .. (Reload - 1)
      BY PoolAssumption
    <3> QED
      BY <1>1, <2>1, <3>1 DEF PoolTypeOK
  <2>7. /\ poolStage' \in {"players", "bullets"} /\ turn' \in Players
        /\ Had(p) = 0 /\ Had(p)' = 1
        /\ \A q \in Players \ {p} : Had(q)' = Had(q)
    BY <1>1, <2>1, TurnTaken
  <2>8. PoolTypeOK'
    BY <1>1, <2>5, <2>6, <2>7 DEF PoolTypeOK, Stages
  <2>9. FlightEnds' /\ NoLeak'
    <3>1. LifeTime > 0
      BY PoolAssumption
    <3> QED
      BY <2>4, <2>5, <3>1 DEF PoolInv, PoolSound, FlightEnds, NoLeak
  <2>10. PoolSuffices' /\ DrawnInColour'
    BY <2>7 DEF PoolSuffices, DrawnInColour
  <2>11. \A c \in Bullets : /\ bullet[c].timeToLive \in Int /\ Reload \in Int /\ LifeTime \in Int
                            /\ \A q \in Players : gun[q] \in Int /\ Had(q) \in Int
    BY <1>1, PoolAssumption DEF PoolTypeOK, Bullet, Had
  <2>12. ShotInTime'
    <3> SUFFICES ASSUME NEW c \in Bullets, bullet'[c].active, NEW q, q = bullet'[c].shooter
                 PROVE  q \in Players /\ bullet'[c].timeToLive + Reload - Had(q)' - gun'[q] <= LifeTime
      BY DEF ShotInTime
    <3>1. CASE c = b
      BY <2>4, <2>5, <2>6, <2>7, <2>11, <3>1
    <3>2. CASE c # b
      <4>1. bullet'[c] = bullet[c] /\ bullet[c].active /\ q = bullet[c].shooter
        BY <2>5, <3>2
      <4>2. q \in Players /\ bullet[c].timeToLive + Reload - Had(q) - gun[q] <= LifeTime
        BY <4>1 DEF PoolInv, ShotInTime
      <4>3. CASE q = p
        BY <1>1, <2>6, <2>7, <2>11, <4>1, <4>2, <4>3
      <4>4. CASE q # p
        BY <2>6, <2>7, <4>1, <4>2, <4>4
      <4> QED
        BY <4>3, <4>4
    <3> QED
      BY <3>1, <3>2
  <2>13. Spaced'
    <3>1. \A c \in Bullets : bullet[c].active /\ bullet[c].shooter = p =>
              bullet[c].timeToLive + Reload <= LifeTime
      BY <1>1, <2>7, <2>11 DEF PoolInv, ShotInTime
    <3>2. \A c, d \in Bullets :
              bullet[c].active /\ bullet[d].active /\ c # d /\ bullet[c].shooter = bullet[d].shooter =>
                  \/ bullet[c].timeToLive + Reload <= bullet[d].timeToLive
                  \/ bullet[d].timeToLive + Reload <= bullet[c].timeToLive
      BY DEF PoolInv, Spaced
    <3> QED
      BY <2>4, <2>5, <3>1, <3>2 DEF Spaced
  <2> QED
    BY <2>8, <2>9, <2>10, <2>12, <2>13 DEF PoolInv, PoolSound
<1> QED
  BY <1>2, <1>3

\* What the timers of a bullet do in a tick.
LEMMA OneTick ==
  ASSUME NEW bl \in Bullet, bl.active => bl.timeToLive > 0
  PROVE  /\ Splashed(Aged(bl)) \in Bullet
         /\ Splashed(Aged(bl)).shooter = bl.shooter
         /\ Splashed(Aged(bl)).timeToLive <= bl.timeToLive
         /\ Splashed(Aged(bl)).active =>
                /\ bl.active /\ Splashed(Aged(bl)).timeToLive = bl.timeToLive - 1
                /\ Splashed(Aged(bl)).timeToLive > 0
         /\ bl.active \/ bl.owner = Nobody \/ bl.destroyed > 0 =>
                \/ Splashed(Aged(bl)).active
                \/ Splashed(Aged(bl)).owner = Nobody
                \/ Splashed(Aged(bl)).destroyed > 0
<1> DEFINE old == Aged(bl)
           new == Splashed(old)
<1>1. /\ bl.timeToLive \in 0 .. LifeTime /\ bl.destroyed \in 0 .. SplashTime
      /\ LifeTime \in Nat /\ SplashTime \in Nat \ {0, 1}
      /\ bl.timeToLive \in Nat /\ bl.destroyed \in Nat
  BY PoolAssumption DEF Bullet
<1>2. /\ old \in Bullet /\ old.shooter = bl.shooter
      /\ old.timeToLive <= bl.timeToLive
      /\ old.active => bl.active /\ old.timeToLive = bl.timeToLive - 1 /\ old.timeToLive > 0
      /\ old.destroyed \in {bl.destroyed, SplashTime} /\ old.owner = bl.owner
      /\ ~old.active /\ bl.active => old.destroyed = SplashTime
      /\ ~bl.active => ~old.active
  <2>1. CASE bl.timeToLive = 0
    BY <1>1, <2>1 DEF Aged
  <2>2. CASE bl.timeToLive = 1
    <3>1. old = [bl EXCEPT !.timeToLive = 0, !.active = FALSE, !.destroyed = SplashTime]
      BY <2>2 DEF Aged
    <3>2. 0 \in 0 .. LifeTime /\ SplashTime \in 0 .. SplashTime
      BY <1>1
    <3> HIDE DEF old
    <3>3. /\ old \in Bullet /\ old.shooter = bl.shooter /\ old.timeToLive = 0
          /\ ~old.active /\ old.destroyed = SplashTime /\ old.owner = bl.owner
      BY <3>1, <3>2 DEF Bullet
    <3> QED
      BY <1>1, <2>2, <3>3
  <2>3. CASE bl.timeToLive \notin {0, 1}
    <3> DEFINE t == bl.timeToLive - 1
    <3>1. old = [bl EXCEPT !.timeToLive = t]
      BY <2>3 DEF Aged
    <3>2. t \in 0 .. LifeTime /\ t <= bl.timeToLive /\ t > 0
      BY <1>1, <2>3
    <3> HIDE DEF t, old
    <3>3. /\ old \in Bullet /\ old.shooter = bl.shooter /\ old.timeToLive = t
          /\ old.active = bl.active /\ old.destroyed = bl.destroyed /\ old.owner = bl.owner
      BY <3>1, <3>2 DEF Bullet
    <3> QED
      BY <3>2, <3>3 DEF t
  <2> QED
    BY <2>1, <2>2, <2>3
<1> HIDE DEF old
<1>3. /\ new \in Bullet /\ new.shooter = old.shooter /\ new.timeToLive = old.timeToLive
      /\ new.active = old.active
      /\ old.active \/ old.owner = Nobody \/ old.destroyed > 0 =>
             new.active \/ new.owner = Nobody \/ new.destroyed > 0
  <2>0. old.destroyed \in 0 .. SplashTime /\ old.destroyed \in Nat
    BY <1>1, <1>2
  <2>1. CASE old.destroyed = 0
    BY <1>2, <2>1 DEF Splashed
  <2>2. CASE old.destroyed = 1
    <3>1. new = [old EXCEPT !.destroyed = 0, !.owner = Nobody]
      BY <2>2 DEF Splashed
    <3>2. 0 \in 0 .. SplashTime
      BY <1>1
    <3> QED
      BY <1>2, <3>1, <3>2 DEF Bullet
  <2>3. CASE old.destroyed \notin {0, 1}
    <3> DEFINE t == old.destroyed - 1
    <3>1. new = [old EXCEPT !.destroyed = t]
      BY <2>3 DEF Splashed
    <3>2. t \in 0 .. SplashTime /\ t > 0
      BY <1>1, <2>0, <2>3
    <3> HIDE DEF t, new
    <3>3. /\ new \in Bullet /\ new.shooter = old.shooter /\ new.timeToLive = old.timeToLive
          /\ new.active = old.active /\ new.destroyed = t
      BY <1>2, <3>1, <3>2 DEF Bullet
    <3> QED
      BY <3>2, <3>3
  <2> QED
    BY <2>1, <2>2, <2>3
<1> HIDE DEF new
<1>4. bl.active \/ bl.owner = Nobody \/ bl.destroyed > 0 =>
          old.active \/ old.owner = Nobody \/ old.destroyed > 0
  BY <1>1, <1>2
<1>5. new = Splashed(Aged(bl))
  BY DEF new, old
<1> QED
  BY <1>2, <1>3, <1>4, <1>5
LEMMA PoolTickKeeps ==
  ASSUME PoolInv, PoolTick
  PROVE  PoolInv'
<1> DEFINE new(b) == Splashed(Aged(bullet[b]))
<1>1. /\ PoolTypeOK /\ FlightEnds /\ NoLeak /\ ShotInTime /\ Spaced
      /\ poolStage = "bullets" /\ poolStage' = "frame"
      /\ gun' = gun /\ turn' = turn /\ view' = view /\ flying' = flying
      /\ bullet' = [b \in Bullets |-> new(b)]
  BY DEF PoolInv, PoolSound, PoolTick
<1>2. \A b \in Bullets :
          /\ new(b) \in Bullet /\ new(b).shooter = bullet[b].shooter
          /\ new(b).active => /\ bullet[b].active /\ new(b).timeToLive = bullet[b].timeToLive - 1
                              /\ new(b).timeToLive > 0
          /\ new(b).active \/ new(b).owner = Nobody \/ new(b).destroyed > 0
  <2> TAKE b \in Bullets
  <2>1. bullet[b] \in Bullet /\ (bullet[b].active => bullet[b].timeToLive > 0)
    BY <1>1 DEF PoolTypeOK, FlightEnds
  <2>2. bullet[b].active \/ bullet[b].owner = Nobody \/ bullet[b].destroyed > 0
    BY <1>1 DEF NoLeak
  <2> QED
    BY <2>1, <2>2, OneTick
<1> HIDE DEF new
<1>3. bullet' \in [Bullets -> Bullet] /\ \A b \in Bullets : bullet'[b] = new(b)
  BY <1>1, <1>2
<1>4. PoolTypeOK'
  BY <1>1, <1>3 DEF PoolTypeOK, Stages
<1>5. FlightEnds' /\ NoLeak'
  BY <1>2, <1>3 DEF FlightEnds, NoLeak
<1>6. PoolSuffices' /\ DrawnInColour'
  BY <1>1 DEF PoolSuffices, DrawnInColour
<1>7. \A b \in Bullets : bullet[b].timeToLive \in Int /\ Reload \in Int /\ LifeTime \in Int
  BY <1>1, PoolAssumption DEF PoolTypeOK, Bullet
<1>8. \A q \in Players : Had(q) = 1 /\ Had(q)' = 0 /\ gun[q] \in Int
  BY <1>1 DEF Had, PoolTypeOK
<1>9. ShotInTime'
  <2> SUFFICES ASSUME NEW c \in Bullets, bullet'[c].active, NEW q, q = bullet'[c].shooter
               PROVE  q \in Players /\ bullet'[c].timeToLive + Reload - Had(q)' - gun'[q] <= LifeTime
    BY DEF ShotInTime
  <2>1. /\ bullet[c].active /\ q = bullet[c].shooter
        /\ bullet'[c].timeToLive = bullet[c].timeToLive - 1
    BY <1>2, <1>3
  <2>2. q \in Players /\ bullet[c].timeToLive + Reload - Had(q) - gun[q] <= LifeTime
    BY <1>1, <2>1 DEF ShotInTime
  <2> QED
    BY <1>1, <1>7, <1>8, <2>1, <2>2
<1>10. Spaced'
  BY <1>1, <1>2, <1>3, <1>7 DEF Spaced
<1> QED
  BY <1>4, <1>5, <1>6, <1>9, <1>10 DEF PoolInv, PoolSound

LEMMA RenderKeeps ==
  ASSUME PoolInv, Render
  PROVE  PoolInv'
<1>1. /\ PoolTypeOK /\ poolStage = "frame" /\ poolStage' = "drawn"
      /\ bullet' = bullet /\ gun' = gun /\ turn' = turn /\ flying' = flying
      /\ view' = [b \in Bullets |-> Shown(bullet[b], view[b])]
  BY DEF PoolInv, Render
<1>2. \A b \in Bullets : /\ Shown(bullet[b], view[b]) \in {"NONE", "WATA", "DESTROYED"}
                         /\ Shown(bullet[b], view[b]) = "WATA" => bullet[b].owner # Nobody
  <2> TAKE b \in Bullets
  <2>1. view[b] \in {"NONE", "WATA", "DESTROYED"}
    BY <1>1 DEF PoolTypeOK
  <2>2. CASE view[b] = "NONE"
    BY <2>2 DEF Shown
  <2>3. CASE view[b] = "WATA"
    BY <2>3 DEF Shown
  <2>4. CASE view[b] = "DESTROYED"
    BY <2>4 DEF Shown
  <2> QED
    BY <2>1, <2>2, <2>3, <2>4
<1>3. /\ view' \in [Bullets -> {"NONE", "WATA", "DESTROYED"}]
      /\ \A b \in Bullets : view'[b] = "WATA" => bullet[b].owner # Nobody
  BY <1>1, <1>2
<1>4. PoolTypeOK'
  BY <1>1, <1>3 DEF PoolTypeOK, Stages
<1>5. DrawnInColour'
  <2>1. \A b \in Bullets : bullet[b].owner \in Players \cup {Nobody}
    BY <1>1 DEF PoolTypeOK, Bullet
  <2> QED
    BY <1>1, <1>3, <2>1 DEF DrawnInColour
<1>6. (FlightEnds /\ NoLeak /\ Spaced)'
  BY <1>1 DEF PoolInv, PoolSound, FlightEnds, NoLeak, Spaced
<1>7. PoolSuffices'
  BY <1>1 DEF PoolSuffices
<1>8. \A p \in Players : Had(p) = 0 /\ Had(p)' = 0
  BY <1>1 DEF Had
<1>9. ShotInTime'
  BY <1>1, <1>8 DEF PoolInv, ShotInTime
<1> QED
  BY <1>4, <1>5, <1>6, <1>7, <1>9 DEF PoolInv, PoolSound

LEMMA PoolStep ==
  ASSUME PoolInv, [PoolNext]_poolVars
  PROVE  PoolInv'
<1>1. CASE UNCHANGED poolVars
  BY <1>1 DEF poolVars, PoolInv, PoolTypeOK, PoolSound, FlightEnds, NoLeak, PoolSuffices,
              DrawnInColour, ShotInTime, Spaced, Had
<1>2. CASE BeginTick
  BY <1>2, BeginTickKeeps
<1>3. CASE PoolEndPhysics
  BY <1>3, PoolEndPhysicsKeeps
<1>4. CASE PoolTick
  BY <1>4, PoolTickKeeps
<1>5. CASE Render
  BY <1>5, RenderKeeps
<1>6. CASE \E b \in Bullets : OnTriggerEnter(b)
  <2>1. PICK b \in Bullets : OnTriggerEnter(b)
    BY <1>6
  <2>2. CASE \E p \in Players : Enter(b, "PLAYER", p)
    BY <2>2, EnterKeeps
  <2>3. CASE \E type \in {"PLATFORM", "GAME_LIMIT"} : Enter(b, type, Nobody)
    BY <2>3, EnterKeeps
  <2> QED
    BY <2>1, <2>2, <2>3 DEF OnTriggerEnter
<1>7. CASE \E p \in Players : Turn(p)
  <2>1. PICK p \in Players : Turn(p)
    BY <1>7
  <2>2. CASE SpawnWata(p)
    BY <2>2, SpawnWataKeeps
  <2>3. CASE HoldFire(p)
    BY <2>3, HoldFireKeeps
  <2> QED
    BY <2>1, <2>2, <2>3 DEF Turn
<1> QED
  BY <1>1, <1>2, <1>3, <1>4, <1>5, <1>6, <1>7 DEF PoolNext

\* The pool keeps its types, gives every bullet back, is never exhausted when it holds
\* everybody's salvo, and draws only owned bullets in flight, for any number of players and
\* bullets and any times (bullet.cpp:45, 65, 139; bullet_view.cpp:148).
THEOREM PoolSoundAlways == PoolSpec => [](PoolTypeOK /\ PoolSound)
<1>1. PoolInv => PoolTypeOK /\ PoolSound
  BY DEF PoolInv
<1> QED
  BY <1>1, PoolInitially, PoolStep, PTL DEF PoolSpec

\* An owned bullet in flight only ever gets older: no shot takes it (bullet.cpp:122-139).
THEOREM NoStealAlways == PoolSpec => NoSteal
<1>1. ASSUME PoolInv, [PoolNext]_poolVars
      PROVE  [\A b \in Bullets : bullet[b].active /\ bullet[b].owner # Nobody =>
                  bullet'[b].timeToLive <= bullet[b].timeToLive]_poolVars
  <2> SUFFICES ASSUME NEW b \in Bullets, bullet[b].active, bullet[b].owner # Nobody, PoolNext
               PROVE  bullet'[b].timeToLive <= bullet[b].timeToLive
    BY <1>1
  <2>1. PoolTypeOK /\ bullet[b] \in Bullet /\ bullet[b].timeToLive \in Int /\ bullet[b].timeToLive > 0
    BY <1>1, PoolAssumption DEF PoolInv, PoolTypeOK, PoolSound, FlightEnds, Bullet
  <2>2. CASE BeginTick \/ PoolEndPhysics \/ Render
    BY <2>1, <2>2 DEF BeginTick, PoolEndPhysics, Render
  <2>3. CASE PoolTick
    <3>1. bullet'[b] = Splashed(Aged(bullet[b]))
      BY <2>3 DEF PoolTick
    <3>2. Splashed(Aged(bullet[b])).timeToLive <= bullet[b].timeToLive
      BY <2>1, OneTick
    <3> QED
      BY <3>1, <3>2
  <2>4. ASSUME NEW c \in Bullets, NEW type \in {"PLAYER", "PLATFORM", "GAME_LIMIT"},
               NEW number \in Players \cup {Nobody}, Enter(c, type, number)
        PROVE  bullet'[b].timeToLive <= bullet[b].timeToLive
    <3> DEFINE struck == IF Spared(c, number) THEN bullet[c] ELSE Struck(bullet[c], type)
    <3>1. bullet' = [bullet EXCEPT ![c] = struck]
      BY <2>4 DEF Enter
    <3>2. bullet[c] \in Bullet
      BY <2>1 DEF PoolTypeOK
    <3>3. struck.timeToLive = bullet[c].timeToLive
      BY <3>2 DEF Struck, Bullet
    <3> HIDE DEF struck
    <3>4. bullet'[b] = IF c = b THEN struck ELSE bullet[b]
      BY <2>1, <3>1 DEF PoolTypeOK
    <3> QED
      BY <2>1, <3>3, <3>4
  <2>5. CASE \E c \in Bullets : OnTriggerEnter(c)
    BY <2>4, <2>5 DEF OnTriggerEnter
  <2>6. ASSUME NEW p \in Players, SpawnWata(p)
        PROVE  bullet'[b].timeToLive <= bullet[b].timeToLive
    <3>1. CASE Free \cup Reusable = {}
      BY <2>1, <2>6, <3>1 DEF SpawnWata
    <3>2. CASE Free \cup Reusable # {}
      <4> DEFINE c == First(IF Free # {} THEN Free ELSE Reusable)
                 new == Shot(bullet[c], p)
      <4>1. bullet' = [bullet EXCEPT ![c] = new]
        BY <2>6, <3>2 DEF SpawnWata
      <4>2. c \in Bullets /\ (bullet[c].owner = Nobody \/ ~bullet[c].active)
        BY <2>1, <3>2, TakesAnother
      <4> HIDE DEF c, new
      <4>3. bullet'[b] = bullet[b]
        BY <2>1, <4>1, <4>2 DEF PoolTypeOK
      <4> QED
        BY <2>1, <4>3
    <3> QED
      BY <3>1, <3>2
  <2>7. CASE \E p \in Players : Turn(p)
    <3>1. PICK p \in Players : Turn(p)
      BY <2>7
    <3>2. CASE HoldFire(p)
      BY <2>1, <3>2 DEF HoldFire
    <3> QED
      BY <2>6, <3>1, <3>2 DEF Turn
  <2> QED
    BY <2>2, <2>3, <2>5, <2>7 DEF PoolNext
<1> QED
  BY <1>1, PoolInitially, PoolStep, PTL DEF PoolSpec, NoSteal
-----------------------------------------------------------------------------
(* The falls of the characters. *)

\* While a cause to credit somebody runs, it names another player.
NamesAnother(p, c) ==
    /\ c.hit > 0 => c.hitPlayer \in Players \ {p}
    /\ c.collided > 0 \/ c.dashed > 0 => c.collidedPlayer \in Players \ {p}

\* The phases of a life: it plays, pauses, is on its way back, is on its place.
Playing(c) == c.pause = 0 /\ c.move = 0 /\ c.static = 0
Pausing(c) == c.pause > 0 /\ c.move = 0 /\ c.static = 0
Returning(c) == c.pause = 0 /\ c.move > 0 /\ c.static = 0
OnItsPlace(c) == c.pause = 0 /\ c.move = 0 /\ c.static > 0

\* A character in the physics is in no phase of its way back, any other one in one.
InOnePhase(c, plays) == IF plays THEN Playing(c) ELSE Pausing(c) \/ Returning(c) \/ OnItsPlace(c)

\* A collision and a stomp are over when the character is on its place.
Fades(c) ==
    /\ c.pause > 0 => c.collided <= c.pause + MoveTime /\ c.dashed <= c.pause + MoveTime
    /\ c.move > 0 => c.collided <= c.move /\ c.dashed <= c.move
    /\ c.static > 0 => c.collided = 0 /\ c.dashed = 0

Healthy(p, c) == c \in Character /\ NamesAnother(p, c) /\ Fades(c)

\* Who can be struck in this physics step plays, or has just fallen.
MovingPlays == \A p \in moving :
    /\ fallsStage = "physics"
    /\ char[p].move = 0 /\ char[p].static = 0 /\ char[p].pause \in {0, PauseTime}

\* What every step of the falls keeps.
FallsInv == /\ FallsTypeOK /\ MovingPlays
            /\ \A p \in Players : Healthy(p, char[p]) /\ InOnePhase(char[p], active[p])

\* The times of a character are numbers.
LEMMA FallsTimesAre ==
  /\ PauseTime \in Nat \ {0} /\ MoveTime \in Nat \ {0} /\ StaticTime \in Nat \ {0}
  /\ InvincibleTime \in Nat \ {0} /\ HitTime \in Nat \ {0}
  /\ CollidedTime \in Nat \ {0} /\ DashedTime \in Nat \ {0} /\ MaxFalls \in Nat
  /\ CollidedTime <= PauseTime + MoveTime /\ DashedTime <= PauseTime + MoveTime
BY FallsAssumption DEF FallsTimes

\* How many phases a character is in.
LEMMA CountPhases ==
  ASSUME NEW c \in Character, NEW plays \in BOOLEAN, InOnePhase(c, plays)
  PROVE  Cardinality({phase \in {"pause", "move", "static"} : c[phase] > 0}) = (IF plays THEN 0 ELSE 1)
<1> DEFINE S == {phase \in {"pause", "move", "static"} : c[phase] > 0}
<1>1. /\ \A phase \in S : phase \in {"pause", "move", "static"}
      /\ "pause" \in S <=> c.pause > 0
      /\ "move" \in S <=> c.move > 0
      /\ "static" \in S <=> c.static > 0
  OBVIOUS
<1>2. c.pause \in Nat /\ c.move \in Nat /\ c.static \in Nat
  BY FallsTimesAre DEF Character
<1> HIDE DEF S
<1>3. CASE plays
  <2>1. S = {}
    BY <1>1, <1>2, <1>3 DEF InOnePhase, Playing, Pausing, Returning, OnItsPlace
  <2> QED
    BY <1>3, <2>1, FS_EmptySet DEF S
<1>4. CASE ~plays
  <2>1. \E phase : S = {phase}
    <3>1. CASE c.pause > 0
      <4>1. S = {"pause"}
        BY <1>1, <1>2, <1>4, <3>1 DEF InOnePhase, Playing, Pausing, Returning, OnItsPlace
      <4> QED
        BY <4>1
    <3>2. CASE c.move > 0
      <4>1. S = {"move"}
        BY <1>1, <1>2, <1>4, <3>2 DEF InOnePhase, Playing, Pausing, Returning, OnItsPlace
      <4> QED
        BY <4>1
    <3>3. CASE c.static > 0
      <4>1. S = {"static"}
        BY <1>1, <1>2, <1>4, <3>3 DEF InOnePhase, Playing, Pausing, Returning, OnItsPlace
      <4> QED
        BY <4>1
    <3> QED
      BY <1>2, <1>4, <3>1, <3>2, <3>3 DEF InOnePhase, Playing, Pausing, Returning, OnItsPlace
  <2>2. Cardinality(S) = 1
    BY <2>1, FS_Singleton
  <2> QED
    BY <1>4, <2>2 DEF S
<1> QED
  BY <1>3, <1>4

\* The invariant is all of FallsSound.
LEMMA FallsInvGives == FallsInv => FallsTypeOK /\ FallsSound
<1> SUFFICES ASSUME FallsInv PROVE FallsTypeOK /\ FallsSound
  OBVIOUS
<1>1. /\ FallsTypeOK
      /\ \A p \in Players : Healthy(p, char[p]) /\ InOnePhase(char[p], active[p])
                             /\ active[p] \in BOOLEAN
  BY DEF FallsInv, FallsTypeOK
<1>2. OnePhase
  BY <1>1, CountPhases DEF OnePhase, Healthy
<1>3. CreditsSomebody
  BY <1>1 DEF CreditsSomebody, Healthy, NamesAnother
<1>4. LifeForgotten
  BY <1>1 DEF LifeForgotten, Healthy, Fades
<1> QED
  BY <1>1, <1>2, <1>3, <1>4 DEF FallsSound

LEMMA FallsInitially == FallsInit => FallsInv
<1> SUFFICES ASSUME FallsInit PROVE FallsInv
  OBVIOUS
<1>1. /\ 0 \in 0 .. PauseTime /\ 0 \in 0 .. MoveTime /\ StaticTime \in 0 .. StaticTime
      /\ 0 \in 0 .. InvincibleTime /\ 0 \in 0 .. HitTime /\ 0 \in 0 .. CollidedTime
      /\ 0 \in 0 .. DashedTime /\ 0 \in 0 .. MaxFalls /\ 1 \in 1 .. MaxResistancePhase
      /\ StaticTime > 0
  BY FallsTimesAre DEF MaxResistancePhase
<1>2. NewCharacter \in Character
  BY <1>1 DEF NewCharacter, Character
<1>3. \A p \in Players : Healthy(p, NewCharacter)
  BY <1>1, <1>2 DEF Healthy, NamesAnother, Fades, NewCharacter
<1>4. InOnePhase(NewCharacter, FALSE)
  BY <1>1 DEF InOnePhase, OnItsPlace, NewCharacter
<1> QED
  BY <1>2, <1>3, <1>4 DEF FallsInit, FallsInv, FallsTypeOK, MovingPlays

\* The next number below, or none.
LEMMA LessOf ==
  ASSUME NEW n \in Nat
  PROVE  /\ Less(n) \in Nat /\ Less(n) <= n
         /\ n > 0 => Less(n) = n - 1
         /\ n = 0 => Less(n) = 0
BY DEF Less

\* The phases exclude each other.
LEMMA PhasesDiffer ==
  ASSUME NEW c \in Character
  PROVE  /\ Playing(c) => ~Pausing(c) /\ ~Returning(c) /\ ~OnItsPlace(c)
         /\ Pausing(c) => ~Returning(c) /\ ~OnItsPlace(c)
         /\ Returning(c) => ~OnItsPlace(c)
<1>1. c.pause \in Nat /\ c.move \in Nat /\ c.static \in Nat
  BY FallsTimesAre DEF Character
<1> QED
  BY <1>1 DEF Playing, Pausing, Returning, OnItsPlace

\* In the game, a tick takes from the shield and the hit of a character.
LEMMA PlaysIs ==
  ASSUME NEW p \in Players, NEW e \in Character, NamesAnother(p, e), Playing(e),
         NEW grounded \in BOOLEAN
  PROVE  /\ Healthy(p, Plays(e, grounded)) /\ Playing(Plays(e, grounded))
         /\ Plays(e, grounded).invincible = Less(e.invincible)
<1> DEFINE t == Plays(e, grounded)
           i == Less(e.invincible)
           d == IF grounded THEN 0 ELSE e.dashed
           f == [e EXCEPT !.invincible = i, !.dashed = d]
           h == Less(f.hit)
           r == IF f.hit = 0 THEN 1 ELSE f.resistance
           w == IF f.hit = 0 THEN Nobody ELSE f.hitPlayer
<1>1. /\ e.invincible \in Nat /\ e.invincible <= InvincibleTime
      /\ e.dashed \in Nat /\ e.dashed <= DashedTime /\ e.collided \in Nat
      /\ e.hit \in Nat /\ e.hit <= HitTime
      /\ e.pause = 0 /\ e.move = 0 /\ e.static = 0
  BY FallsTimesAre DEF Character, Playing
<1>2. i \in 0 .. InvincibleTime /\ d \in 0 .. DashedTime /\ (d > 0 => e.dashed > 0)
  BY <1>1, FallsTimesAre, LessOf
<1>3. t = [f EXCEPT !.hit = h, !.resistance = r, !.hitPlayer = w]
  BY DEF Plays, DriesOff
<1>4. f = [e EXCEPT !.invincible = i, !.dashed = d]
  OBVIOUS
<1> HIDE DEF i, d, f, t
<1>5. /\ f \in Character /\ f.invincible = i /\ f.dashed = d
      /\ f.pause = 0 /\ f.move = 0 /\ f.static = 0 /\ f.hit = e.hit /\ f.hitPlayer = e.hitPlayer
      /\ f.collided = e.collided /\ f.collidedPlayer = e.collidedPlayer
  BY <1>1, <1>2, <1>4 DEF Character
<1>6. /\ h \in 0 .. HitTime /\ (h > 0 => e.hit > 0 /\ w = e.hitPlayer)
      /\ r \in 1 .. MaxResistancePhase /\ w \in Players \cup {Nobody}
  <2>1. h \in 0 .. HitTime /\ (h > 0 => e.hit > 0 /\ w = e.hitPlayer)
    BY <1>1, <1>5, FallsTimesAre, LessOf
  <2>2. 1 \in 1 .. MaxResistancePhase
    BY DEF MaxResistancePhase
  <2>3. f.resistance \in 1 .. MaxResistancePhase /\ f.hitPlayer \in Players \cup {Nobody}
    BY <1>5 DEF Character
  <2> QED
    BY <2>1, <2>2, <2>3
<1> HIDE DEF h, r, w
<1>7. /\ t \in Character /\ t.hit = h /\ t.hitPlayer = w /\ t.invincible = i
      /\ t.pause = 0 /\ t.move = 0 /\ t.static = 0
      /\ t.dashed = d /\ t.collided = e.collided /\ t.collidedPlayer = e.collidedPlayer
  BY <1>3, <1>5, <1>6 DEF Character
<1>8. NamesAnother(p, t)
  BY <1>1, <1>2, <1>6, <1>7 DEF NamesAnother
<1>9. Fades(t) /\ Playing(t)
  BY <1>7 DEF Fades, Playing
<1> QED
  BY <1>7, <1>8, <1>9 DEF Healthy, i, t

\* The timers of collisions and stomps run in any case.
LEMMA RunsAlwaysIs ==
  ASSUME NEW p \in Players, NEW c, Healthy(p, c)
  PROVE  LET a == RunsAlways(c)
         IN /\ a \in Character /\ NamesAnother(p, a)
            /\ a.pause = c.pause /\ a.move = c.move /\ a.static = c.static
            /\ a.collided = Less(c.collided) /\ a.dashed = Less(c.dashed)
<1> DEFINE a == RunsAlways(c)
           x == Less(c.collided)
           y == Less(c.dashed)
<1>1. /\ c \in Character /\ NamesAnother(p, c)
      /\ c.collided \in Nat /\ c.dashed \in Nat
      /\ c.collided <= CollidedTime /\ c.dashed <= DashedTime
  BY FallsTimesAre DEF Healthy, Character
<1>2. /\ x \in 0 .. CollidedTime /\ y \in 0 .. DashedTime
      /\ x > 0 => c.collided > 0
      /\ y > 0 => c.dashed > 0
  BY <1>1, FallsTimesAre, LessOf
<1>3. a = [c EXCEPT !.collided = x, !.dashed = y]
  BY DEF RunsAlways
<1> HIDE DEF x, y, a
<1>4. /\ a \in Character
      /\ a.collided = x /\ a.dashed = y
      /\ a.pause = c.pause /\ a.move = c.move /\ a.static = c.static /\ a.hit = c.hit
      /\ a.hitPlayer = c.hitPlayer /\ a.collidedPlayer = c.collidedPlayer
  BY <1>1, <1>2, <1>3 DEF Character
<1>5. NamesAnother(p, a)
  BY <1>1, <1>2, <1>4 DEF NamesAnother
<1> QED
  BY <1>4, <1>5 DEF a, x, y

\* A tick moves a character along the phases, in their order.
LEMMA TickedIs ==
  ASSUME NEW p \in Players, NEW c, Healthy(p, c),
         NEW wakes \in BOOLEAN, NEW grounded \in BOOLEAN
  PROVE  LET t == Ticked(c, wakes, grounded)
         IN /\ Playing(c) => Healthy(p, t) /\ Playing(t)
            /\ Pausing(c) => Healthy(p, t) /\ (Pausing(t) \/ Returning(t))
            /\ Returning(c) => Healthy(p, t) /\ (Returning(t) \/ OnItsPlace(t))
            /\ OnItsPlace(c) => /\ Healthy(p, t)
                                /\ OnItsPlace(t) \/ (Playing(t) /\ t.invincible = InvincibleTime - 1)
<1> DEFINE a == RunsAlways(c)
           b == IF a.static > 0 THEN Waits(a, wakes) ELSE a
           t == Ticked(c, wakes, grounded)
<1>1. /\ a \in Character /\ NamesAnother(p, a)
      /\ a.pause = c.pause /\ a.move = c.move /\ a.static = c.static
      /\ a.collided = Less(c.collided) /\ a.dashed = Less(c.dashed)
  BY RunsAlwaysIs
<1>2. /\ a.pause \in Nat /\ a.move \in Nat /\ a.static \in Nat
      /\ a.pause <= PauseTime /\ a.move <= MoveTime /\ a.static <= StaticTime
      /\ c.collided \in Nat /\ c.dashed \in Nat /\ Fades(c)
  BY <1>1, FallsTimesAre DEF Healthy, Character
<1>3. /\ a.collided \in Nat /\ a.dashed \in Nat
      /\ c.collided > 0 => a.collided = c.collided - 1
      /\ c.dashed > 0 => a.dashed = c.dashed - 1
      /\ c.collided = 0 => a.collided = 0
      /\ c.dashed = 0 => a.dashed = 0
  BY <1>1, <1>2, LessOf
<1>4. t = IF b.static > 0 THEN b ELSE IF b.pause > 0 \/ b.move > 0 THEN Returns(b) ELSE Plays(b, grounded)
  BY DEF Ticked
<1> HIDE DEF a, t
<1>5. ASSUME OnItsPlace(c)
      PROVE  Healthy(p, t) /\ (OnItsPlace(t) \/ (Playing(t) /\ t.invincible = InvincibleTime - 1))
  <2>1. a.pause = 0 /\ a.move = 0 /\ a.static > 0 /\ a.collided = 0 /\ a.dashed = 0
    BY <1>1, <1>2, <1>3, <1>5 DEF OnItsPlace, Fades
  <2>2. b = Waits(a, wakes)
    BY <2>1
  <2>3. CASE a.static = 1 \/ wakes
    <3>1. b = [a EXCEPT !.static = 0, !.invincible = InvincibleTime]
      BY <2>2, <2>3 DEF Waits
    <3>2. 0 \in 0 .. StaticTime /\ InvincibleTime \in 0 .. InvincibleTime
      BY FallsTimesAre
    <3> HIDE DEF b
    <3>3. /\ b \in Character /\ b.static = 0 /\ b.invincible = InvincibleTime
          /\ b.pause = 0 /\ b.move = 0 /\ b.hit = a.hit /\ b.hitPlayer = a.hitPlayer
          /\ b.collided = a.collided /\ b.dashed = a.dashed /\ b.collidedPlayer = a.collidedPlayer
      BY <1>1, <2>1, <3>1, <3>2 DEF Character
    <3>4. NamesAnother(p, b) /\ Playing(b)
      BY <1>1, <3>3 DEF NamesAnother, Playing
    <3>5. t = Plays(b, grounded)
      BY <1>4, <3>3
    <3>6. Healthy(p, t) /\ Playing(t) /\ t.invincible = Less(b.invincible)
      BY <3>3, <3>4, <3>5, PlaysIs
    <3>7. t.invincible = InvincibleTime - 1
      BY <3>3, <3>6, FallsTimesAre, LessOf
    <3> QED
      BY <3>6, <3>7
  <2>4. CASE ~(a.static = 1 \/ wakes)
    <3> DEFINE n == a.static - 1
    <3>1. b = [a EXCEPT !.static = n]
      BY <2>2, <2>4 DEF Waits
    <3>2. n \in 0 .. StaticTime /\ n > 0
      BY <1>2, <2>1, <2>4, FallsTimesAre
    <3> HIDE DEF b, n
    <3>3. /\ b \in Character /\ b.static = n
          /\ b.pause = 0 /\ b.move = 0 /\ b.hit = a.hit /\ b.hitPlayer = a.hitPlayer
          /\ b.collided = a.collided /\ b.dashed = a.dashed /\ b.collidedPlayer = a.collidedPlayer
      BY <1>1, <2>1, <3>1, <3>2 DEF Character
    <3>4. t = b
      BY <1>4, <3>2, <3>3
    <3>5. NamesAnother(p, b) /\ OnItsPlace(b) /\ Fades(b)
      BY <1>1, <2>1, <3>2, <3>3 DEF NamesAnother, OnItsPlace, Fades
    <3> QED
      BY <3>3, <3>4, <3>5 DEF Healthy
  <2> QED
    BY <2>3, <2>4
<1>6. ASSUME Returning(c)
      PROVE  Healthy(p, t) /\ (Returning(t) \/ OnItsPlace(t))
  <2>1. /\ a.pause = 0 /\ a.move > 0 /\ a.static = 0
        /\ c.collided <= a.move /\ c.dashed <= a.move
    BY <1>1, <1>2, <1>6 DEF Returning, Fades
  <2>2. t = Returns(a)
    BY <1>4, <2>1
  <2> HIDE DEF b
  <2> DEFINE n == a.move - 1
             s == IF a.move = 1 THEN StaticTime ELSE a.static
  <2>3. t = [a EXCEPT !.move = n, !.static = s]
    BY <2>1, <2>2 DEF Returns
  <2>4. /\ n \in 0 .. MoveTime /\ s \in 0 .. StaticTime
        /\ a.collided <= n /\ a.dashed <= n
        /\ \/ n > 0 /\ s = 0
           \/ n = 0 /\ s > 0 /\ a.collided = 0 /\ a.dashed = 0
    BY <1>2, <1>3, <2>1, FallsTimesAre
  <2> HIDE DEF n, s
  <2>5. /\ t \in Character /\ t.move = n /\ t.static = s /\ t.pause = 0
        /\ t.hit = a.hit /\ t.hitPlayer = a.hitPlayer
        /\ t.collided = a.collided /\ t.dashed = a.dashed /\ t.collidedPlayer = a.collidedPlayer
    BY <1>1, <2>1, <2>3, <2>4 DEF Character
  <2>6. NamesAnother(p, t)
    BY <1>1, <2>5 DEF NamesAnother
  <2>7. Returning(t) \/ OnItsPlace(t)
    BY <2>4, <2>5 DEF Returning, OnItsPlace
  <2>8. Fades(t)
    BY <2>4, <2>5 DEF Fades
  <2> QED
    BY <2>5, <2>6, <2>7, <2>8 DEF Healthy
<1>7. ASSUME Pausing(c)
      PROVE  Healthy(p, t) /\ (Pausing(t) \/ Returning(t))
  <2>1. /\ a.pause > 0 /\ a.move = 0 /\ a.static = 0
        /\ c.collided <= a.pause + MoveTime /\ c.dashed <= a.pause + MoveTime
    BY <1>1, <1>2, <1>7 DEF Pausing, Fades
  <2>2. t = Returns(a)
    BY <1>4, <2>1
  <2> HIDE DEF b
  <2> DEFINE n == a.pause - 1
             m == IF a.pause = 1 THEN MoveTime ELSE a.move
  <2>3. t = [a EXCEPT !.pause = n, !.move = m]
    BY <2>1, <2>2 DEF Returns
  <2>4. /\ n \in 0 .. PauseTime /\ m \in 0 .. MoveTime
        /\ a.collided <= n + MoveTime /\ a.dashed <= n + MoveTime
        /\ \/ n > 0 /\ m = 0
           \/ n = 0 /\ m = MoveTime /\ m > 0 /\ a.collided <= m /\ a.dashed <= m
    BY <1>2, <1>3, <2>1, FallsTimesAre
  <2> HIDE DEF n, m
  <2>5. /\ t \in Character /\ t.pause = n /\ t.move = m /\ t.static = 0
        /\ t.hit = a.hit /\ t.hitPlayer = a.hitPlayer
        /\ t.collided = a.collided /\ t.dashed = a.dashed /\ t.collidedPlayer = a.collidedPlayer
    BY <1>1, <2>1, <2>3, <2>4 DEF Character
  <2>6. NamesAnother(p, t)
    BY <1>1, <2>5 DEF NamesAnother
  <2>7. Pausing(t) \/ Returning(t)
    BY <2>4, <2>5 DEF Pausing, Returning
  <2>8. Fades(t)
    BY <2>4, <2>5 DEF Fades
  <2> QED
    BY <2>5, <2>6, <2>7, <2>8 DEF Healthy
<1>8. ASSUME Playing(c)
      PROVE  Healthy(p, t) /\ Playing(t)
  <2>1. Playing(a) /\ t = Plays(a, grounded)
    BY <1>1, <1>4, <1>8 DEF Playing
  <2> QED
    BY <1>1, <2>1, PlaysIs
<1> QED
  BY <1>5, <1>6, <1>7, <1>8 DEF t
\* From c to d a life goes on in its phase, or from it to the next one.
GoesOn(c, d) ==
    /\ Playing(c) => Playing(d) \/ Pausing(d)
    /\ Pausing(c) => Pausing(d) \/ Returning(d)
    /\ Returning(c) => Returning(d) \/ OnItsPlace(d)
    /\ OnItsPlace(c) => OnItsPlace(d) \/ (Playing(d) /\ d.invincible = InvincibleTime - 1)

LifeGoesOn == \A p \in Players : GoesOn(char[p], char'[p])

\* What a contact may do to the characters: it leaves their phases alone.
LEMMA ContactKeeps ==
  ASSUME FallsInv, UNCHANGED <<active, fallsStage, moving>>,
         char' \in [Players -> Character],
         \A r \in Players :
            /\ Healthy(r, char'[r])
            /\ char'[r].pause = char[r].pause /\ char'[r].move = char[r].move
            /\ char'[r].static = char[r].static
  PROVE  FallsInv' /\ LifeGoesOn
<1>1. FallsTypeOK'
  BY DEF FallsInv, FallsTypeOK
<1>2. MovingPlays'
  BY DEF FallsInv, FallsTypeOK, MovingPlays
<1>3. \A r \in Players : InOnePhase(char'[r], active'[r])
  BY DEF FallsInv, InOnePhase, Playing, Pausing, Returning, OnItsPlace
<1>4. \A r \in Players : /\ Playing(char[r]) => Playing(char'[r])
                         /\ Pausing(char[r]) => Pausing(char'[r])
                         /\ Returning(char[r]) => Returning(char'[r])
                         /\ OnItsPlace(char[r]) => OnItsPlace(char'[r])
  BY DEF Playing, Pausing, Returning, OnItsPlace
<1>5. LifeGoesOn
  BY <1>4 DEF LifeGoesOn, GoesOn
<1> QED
  BY <1>1, <1>2, <1>3, <1>5 DEF FallsInv

\* Those who can be struck: what is known of them.
LEMMA Touchable ==
  ASSUME FallsInv, NEW p \in Players, Contact(p)
  PROVE  /\ char \in [Players -> Character] /\ char[p] \in Character
         /\ Healthy(p, char[p])
         /\ char[p].pause \in {0, PauseTime} /\ char[p].move = 0 /\ char[p].static = 0
BY DEF FallsInv, FallsTypeOK, MovingPlays, Contact

\* A character struck in a collision or a stomp is so until it is on its place, at most.
LEMMA StruckIs ==
  ASSUME NEW p \in Players, NEW q \in Players \ {p}, NEW c, Healthy(p, c),
         c.pause \in {0, PauseTime}, c.move = 0, c.static = 0
  PROVE  /\ Healthy(p, [c EXCEPT !.collided = CollidedTime, !.collidedPlayer = q])
         /\ Healthy(p, [c EXCEPT !.dashed = DashedTime, !.collidedPlayer = q])
<1>1. /\ c \in Character /\ NamesAnother(p, c)
      /\ c.collided \in Nat /\ c.collided <= CollidedTime
      /\ c.dashed \in Nat /\ c.dashed <= DashedTime
  BY FallsTimesAre DEF Healthy, Character
<1>2. /\ CollidedTime \in 0 .. CollidedTime /\ DashedTime \in 0 .. DashedTime
      /\ c.collided <= PauseTime + MoveTime /\ c.dashed <= PauseTime + MoveTime
  BY <1>1, FallsTimesAre
<1> DEFINE d == [c EXCEPT !.collided = CollidedTime, !.collidedPlayer = q]
           e == [c EXCEPT !.dashed = DashedTime, !.collidedPlayer = q]
<1>3. /\ d \in Character /\ d.collided = CollidedTime /\ d.dashed = c.dashed /\ d.collidedPlayer = q
      /\ d.pause = c.pause /\ d.move = 0 /\ d.static = 0 /\ d.hit = c.hit /\ d.hitPlayer = c.hitPlayer
  BY <1>1, <1>2 DEF Character
<1>4. /\ e \in Character /\ e.collided = c.collided /\ e.dashed = DashedTime /\ e.collidedPlayer = q
      /\ e.pause = c.pause /\ e.move = 0 /\ e.static = 0 /\ e.hit = c.hit /\ e.hitPlayer = c.hitPlayer
  BY <1>1, <1>2 DEF Character
<1> HIDE DEF d, e
<1>5. NamesAnother(p, d) /\ NamesAnother(p, e)
  BY <1>1, <1>3, <1>4 DEF NamesAnother
<1>6. Fades(d) /\ Fades(e)
  BY <1>2, <1>3, <1>4, FallsTimesAre DEF Fades
<1>7. Healthy(p, d) /\ Healthy(p, e)
  BY <1>3, <1>4, <1>5, <1>6 DEF Healthy
<1> QED
  BY <1>7 DEF d, e

LEMMA CollideKeeps ==
  ASSUME FallsInv, NEW p \in Players, NEW q \in Players, Collide(p, q)
  PROVE  FallsInv' /\ LifeGoesOn
<1> DEFINE d == [char[p] EXCEPT !.collided = CollidedTime, !.collidedPlayer = q]
           e == [char[q] EXCEPT !.collided = CollidedTime, !.collidedPlayer = p]
<1>1. Contact(p) /\ Contact(q) /\ p # q
  BY DEF Collide
<1>2. Healthy(p, d) /\ Healthy(q, e)
  BY <1>1, Touchable, StruckIs
<1>3. char \in [Players -> Character]
  BY DEF FallsInv, FallsTypeOK
<1>4. /\ d.pause = char[p].pause /\ d.move = char[p].move /\ d.static = char[p].static
      /\ e.pause = char[q].pause /\ e.move = char[q].move /\ e.static = char[q].static
  BY <1>3 DEF Character
<1>5. char' = [char EXCEPT ![p] = d, ![q] = e]
  BY <1>1, <1>3 DEF Collide
<1> HIDE DEF d, e
<1>6. \A r \in Players : char'[r] = IF r = p THEN d ELSE IF r = q THEN e ELSE char[r]
  BY <1>1, <1>3, <1>5
<1>7. \A r \in Players :
            /\ Healthy(r, char'[r])
            /\ char'[r].pause = char[r].pause /\ char'[r].move = char[r].move
            /\ char'[r].static = char[r].static
  BY <1>2, <1>4, <1>6 DEF FallsInv
<1>8. char' \in [Players -> Character]
  BY <1>2, <1>3, <1>5 DEF Healthy
<1>9. UNCHANGED <<active, fallsStage, moving>>
  BY DEF Collide
<1> QED
  BY <1>7, <1>8, <1>9, ContactKeeps

\* One character is struck.
LEMMA OneContactKeeps ==
  ASSUME FallsInv, NEW p \in Players, NEW d, char' = [char EXCEPT ![p] = d],
         UNCHANGED <<active, fallsStage, moving>>, Healthy(p, d),
         d.pause = char[p].pause, d.move = char[p].move, d.static = char[p].static
  PROVE  FallsInv' /\ LifeGoesOn
<1>1. char \in [Players -> Character]
  BY DEF FallsInv, FallsTypeOK
<1>2. char' \in [Players -> Character]
  BY <1>1 DEF Healthy
<1>3. \A r \in Players : char'[r] = IF r = p THEN d ELSE char[r]
  BY <1>1
<1>4. \A r \in Players :
            /\ Healthy(r, char'[r])
            /\ char'[r].pause = char[r].pause /\ char'[r].move = char[r].move
            /\ char'[r].static = char[r].static
  BY <1>3 DEF FallsInv
<1> QED
  BY <1>2, <1>4, ContactKeeps

LEMMA StompedKeeps ==
  ASSUME FallsInv, NEW p \in Players, NEW q \in Players, Stomped(p, q)
  PROVE  FallsInv' /\ LifeGoesOn
<1> DEFINE d == [char[p] EXCEPT !.dashed = DashedTime, !.collidedPlayer = q]
<1>1. Contact(p) /\ p # q /\ UNCHANGED <<active, fallsStage, moving>>
  BY DEF Stomped
<1>2. Healthy(p, d)
  BY <1>1, Touchable, StruckIs
<1>3. char \in [Players -> Character]
  BY DEF FallsInv, FallsTypeOK
<1>4. d.pause = char[p].pause /\ d.move = char[p].move /\ d.static = char[p].static
  BY <1>3 DEF Character
<1>5. char' = [char EXCEPT ![p] = d]
  BY <1>3 DEF Stomped
<1> HIDE DEF d
<1> QED
  BY <1>1, <1>2, <1>4, <1>5, OneContactKeeps

LEMMA HitByBulletKeeps ==
  ASSUME FallsInv, NEW p \in Players, NEW q \in Players, HitByBullet(p, q)
  PROVE  FallsInv' /\ LifeGoesOn
<1> DEFINE c == char[p]
           n == IF c.hit > 0 THEN Least(c.resistance + 1, MaxResistancePhase) ELSE c.resistance
           d == [c EXCEPT !.hit = HitTime, !.hitPlayer = q, !.resistance = n]
<1>1. p # q /\ UNCHANGED <<active, fallsStage, moving>>
  BY DEF HitByBullet
<1>2. char \in [Players -> Character] /\ Healthy(p, c)
  BY DEF FallsInv, FallsTypeOK
<1>3. n \in 1 .. MaxResistancePhase
  BY <1>2 DEF Character, Least, MaxResistancePhase
<1>4. char' = [char EXCEPT ![p] = d]
  BY <1>2 DEF HitByBullet
<1>5. c \in Character /\ HitTime \in 0 .. HitTime
  BY <1>2, FallsTimesAre
<1> HIDE DEF n
<1>6. /\ d \in Character /\ d.hit = HitTime /\ d.hitPlayer = q
      /\ d.pause = c.pause /\ d.move = c.move /\ d.static = c.static
      /\ d.collided = c.collided /\ d.dashed = c.dashed /\ d.collidedPlayer = c.collidedPlayer
  BY <1>3, <1>5 DEF Character
<1> HIDE DEF d
<1>7. NamesAnother(p, d) /\ Fades(d)
  BY <1>1, <1>2, <1>6 DEF Healthy, NamesAnother, Fades
<1> QED
  BY <1>1, <1>4, <1>6, <1>7, OneContactKeeps DEF Healthy

\* Up to three causes are credited.
LEMMA CreditsAre ==
  ASSUME NEW p \in Players, NEW q \in Players
  PROVE  Credits(p, q) \in Nat
<1> DEFINE C == {"collided", "hit", "dashed"}
           S == {cause \in C : /\ char[p][cause] > 0
                               /\ q = IF cause = "hit" THEN char[p].hitPlayer ELSE char[p].collidedPlayer}
<1>1. IsFiniteSet({"collided"})
  BY FS_Singleton
<1>2. IsFiniteSet({"collided"} \cup {"hit"})
  BY <1>1, FS_AddElement
<1>3. IsFiniteSet(({"collided"} \cup {"hit"}) \cup {"dashed"})
  BY <1>2, FS_AddElement
<1>4. C = ({"collided"} \cup {"hit"}) \cup {"dashed"}
  OBVIOUS
<1>5. IsFiniteSet(C)
  BY <1>3, <1>4
<1>6. S \in SUBSET C
  OBVIOUS
<1>7. Credits(p, q) = Cardinality(S)
  BY DEF Credits
<1> HIDE DEF S, C
<1>8. IsFiniteSet(S)
  BY <1>5, <1>6, FS_Subset
<1> QED
  BY <1>7, <1>8, FS_CardinalityType

\* Who falls out of the game leaves the physics; who has just fallen stays as it is.
LEMMA FallKeeps ==
  ASSUME FallsInv, NEW p \in Players, Fall(p)
  PROVE  FallsInv' /\ LifeGoesOn
<1> DEFINE kills(q) == char[q].kills + Credits(p, q)
           falls(q) == IF q = p THEN char[q].falls + 1 ELSE char[q].falls
           new(q) == [char[q] EXCEPT !.kills = kills(q), !.falls = falls(q)]
           c == [q \in Players |-> new(q)]
<1>1. char \in [Players -> Character] /\ active \in [Players -> BOOLEAN] /\ FallsTypeOK
  BY DEF FallsInv, FallsTypeOK
<1>2. /\ Contact(p) /\ char[p].falls < MaxFalls /\ UNCHANGED <<fallsStage, moving>>
      /\ Respawn(p, c)
  BY DEF Fall
<1>3. \A q \in Players : kills(q) \in Nat /\ falls(q) \in 0 .. MaxFalls
  <2> TAKE q \in Players
  <2>1. Credits(p, q) \in Nat
    BY CreditsAre
  <2>2. char[q].kills \in Nat /\ char[q].falls \in 0 .. MaxFalls
    BY <1>1 DEF Character
  <2>3. kills(q) \in Nat
    BY <2>1, <2>2
  <2>4. falls(q) \in 0 .. MaxFalls
    <3>1. char[p].falls < MaxFalls /\ MaxFalls \in Nat
      BY <1>2, FallsTimesAre
    <3>2. char[q].falls \in Nat /\ char[q].falls <= MaxFalls
      BY <2>2, <3>1
    <3>3. CASE q = p
      <4>1. falls(q) = char[q].falls + 1 /\ char[q].falls < MaxFalls
        BY <3>1, <3>3
      <4> QED
        BY <3>1, <3>2, <4>1
    <3>4. CASE q # p
      <4>1. falls(q) = char[q].falls
        BY <3>4
      <4> QED
        BY <2>2, <4>1
    <3> QED
      BY <3>3, <3>4
  <2> QED
    BY <2>3, <2>4
<1> HIDE DEF kills, falls
<1>4. \A q \in Players :
        /\ new(q) \in Character
        /\ new(q).pause = char[q].pause /\ new(q).move = char[q].move
        /\ new(q).static = char[q].static
        /\ new(q).hit = char[q].hit /\ new(q).hitPlayer = char[q].hitPlayer
        /\ new(q).collided = char[q].collided /\ new(q).dashed = char[q].dashed
        /\ new(q).collidedPlayer = char[q].collidedPlayer
  <2> TAKE q \in Players
  <2>1. char[q] \in Character /\ kills(q) \in Nat /\ falls(q) \in 0 .. MaxFalls
    BY <1>1, <1>3
  <2> QED
    BY <2>1 DEF Character
<1> HIDE DEF new
<1>5. \A q \in Players : Healthy(q, new(q))
  BY <1>4 DEF FallsInv, Healthy, NamesAnother, Fades
<1>6. /\ c \in [Players -> Character]
      /\ \A q \in Players : c[q] = new(q)
  BY <1>4
<1> HIDE DEF c
<1>7. CASE c[p].pause > 0 \/ c[p].move > 0
  <2>1. char' = c /\ active' = active
    BY <1>2, <1>7 DEF Respawn
  <2> QED
    BY <1>2, <1>4, <1>5, <1>6, <2>1, ContactKeeps
<1>8. CASE ~(c[p].pause > 0 \/ c[p].move > 0)
  <2> DEFINE d == [c[p] EXCEPT !.pause = PauseTime]
  <2>1. char' = [c EXCEPT ![p] = d] /\ active' = [active EXCEPT ![p] = FALSE]
    BY <1>2, <1>8 DEF Respawn
  <2>2. PauseTime \in 0 .. PauseTime /\ PauseTime > 0
    BY FallsTimesAre
  <2>3. /\ c[p] \in Character /\ Healthy(p, c[p])
        /\ c[p].move = 0 /\ c[p].static = 0 /\ c[p].pause = 0
    BY <1>2, <1>4, <1>5, <1>6, <1>8, Touchable, FallsTimesAre DEF Character
  <2>4. /\ d \in Character /\ d.pause = PauseTime /\ d.move = 0 /\ d.static = 0
        /\ d.hit = c[p].hit /\ d.hitPlayer = c[p].hitPlayer
        /\ d.collided = c[p].collided /\ d.dashed = c[p].dashed
        /\ d.collidedPlayer = c[p].collidedPlayer
    BY <2>2, <2>3 DEF Character
  <2> HIDE DEF d
  <2>5. d.collided <= PauseTime + MoveTime /\ d.dashed <= PauseTime + MoveTime
    <3>1. d.collided \in Nat /\ d.collided <= CollidedTime /\ d.dashed \in Nat /\ d.dashed <= DashedTime
      BY <2>4, FallsTimesAre DEF Character
    <3> QED
      BY <3>1, FallsTimesAre
  <2>6. Healthy(p, d)
    <3>1. NamesAnother(p, d)
      BY <2>3, <2>4 DEF Healthy, NamesAnother
    <3>2. Fades(d)
      BY <2>4, <2>5 DEF Fades
    <3> QED
      BY <2>4, <3>1, <3>2 DEF Healthy
  <2>7. Pausing(d) /\ Playing(c[p])
    BY <2>2, <2>3, <2>4 DEF Pausing, Playing
  <2>8. /\ char' \in [Players -> Character] /\ active' \in [Players -> BOOLEAN]
        /\ \A r \in Players : char'[r] = IF r = p THEN d ELSE c[r]
        /\ \A r \in Players : active'[r] = IF r = p THEN FALSE ELSE active[r]
    BY <1>1, <1>6, <2>1, <2>4
  <2>9. FallsTypeOK'
    BY <1>1, <1>2, <2>8 DEF FallsTypeOK
  <2>10. MovingPlays'
    BY <1>1, <1>2, <1>4, <1>6, <2>4, <2>8 DEF FallsInv, FallsTypeOK, MovingPlays
  <2>11. \A r \in Players : Healthy(r, char'[r])
    BY <1>5, <1>6, <2>6, <2>8
  <2>12. \A r \in Players : /\ Playing(char[r]) <=> Playing(c[r])
                            /\ Pausing(char[r]) <=> Pausing(c[r])
                            /\ Returning(char[r]) <=> Returning(c[r])
                            /\ OnItsPlace(char[r]) <=> OnItsPlace(c[r])
    BY <1>4, <1>6 DEF Playing, Pausing, Returning, OnItsPlace
  <2>13. \A r \in Players : InOnePhase(char'[r], active'[r])
    BY <2>7, <2>8, <2>12 DEF FallsInv, InOnePhase
  <2>14. LifeGoesOn
    <3>1. ~Pausing(c[p]) /\ ~Returning(c[p]) /\ ~OnItsPlace(c[p])
      BY <2>3, <2>7, PhasesDiffer
    <3>2. \A r \in Players : GoesOn(char[r], char'[r])
      BY <2>7, <2>8, <2>12, <3>1 DEF GoesOn
    <3> QED
      BY <3>2 DEF LifeGoesOn
  <2> QED
    BY <2>9, <2>10, <2>11, <2>13, <2>14 DEF FallsInv
<1> QED
  BY <1>7, <1>8

LEMMA FallsEndPhysicsKeeps ==
  ASSUME FallsInv, FallsEndPhysics
  PROVE  FallsInv' /\ LifeGoesOn
<1>1. FallsInv'
  BY DEF FallsEndPhysics, FallsInv, FallsTypeOK, MovingPlays
<1>2. LifeGoesOn
  BY DEF FallsEndPhysics, LifeGoesOn, GoesOn
<1> QED
  BY <1>1, <1>2

LEMMA FallsTickKeeps ==
  ASSUME FallsInv, FallsTick
  PROVE  FallsInv' /\ LifeGoesOn
<1>1. PICK wakes \in SUBSET Players, grounded \in SUBSET Players :
          char' = [p \in Players |-> Ticked(char[p], p \in wakes, p \in grounded)]
  BY DEF FallsTick
<1>2. /\ active' = [p \in Players |-> active[p] \/ (char[p].static > 0 /\ char'[p].static = 0)]
      /\ fallsStage' = "physics"
      /\ moving' = {p \in Players : active'[p]}
  BY DEF FallsTick
<1>3. /\ FallsTypeOK
      /\ \A p \in Players : /\ Healthy(p, char[p]) /\ InOnePhase(char[p], active[p])
                            /\ char[p] \in Character /\ active[p] \in BOOLEAN
  BY DEF FallsInv, FallsTypeOK
<1>4. \A p \in Players :
          LET t == Ticked(char[p], p \in wakes, p \in grounded)
          IN /\ Playing(char[p]) => Healthy(p, t) /\ Playing(t)
             /\ Pausing(char[p]) => Healthy(p, t) /\ (Pausing(t) \/ Returning(t))
             /\ Returning(char[p]) => Healthy(p, t) /\ (Returning(t) \/ OnItsPlace(t))
             /\ OnItsPlace(char[p]) =>
                    /\ Healthy(p, t)
                    /\ OnItsPlace(t) \/ (Playing(t) /\ t.invincible = InvincibleTime - 1)
  <2> TAKE p \in Players
  <2> DEFINE w == p \in wakes
             g == p \in grounded
  <2>1. w \in BOOLEAN /\ g \in BOOLEAN /\ Healthy(p, char[p])
    BY <1>3
  <2>2. w = (p \in wakes) /\ g = (p \in grounded)
    OBVIOUS
  <2> HIDE DEF w, g
  <2>3. LET t == Ticked(char[p], w, g)
        IN /\ Playing(char[p]) => Healthy(p, t) /\ Playing(t)
           /\ Pausing(char[p]) => Healthy(p, t) /\ (Pausing(t) \/ Returning(t))
           /\ Returning(char[p]) => Healthy(p, t) /\ (Returning(t) \/ OnItsPlace(t))
           /\ OnItsPlace(char[p]) =>
                  /\ Healthy(p, t)
                  /\ OnItsPlace(t) \/ (Playing(t) /\ t.invincible = InvincibleTime - 1)
    BY <2>1, TickedIs
  <2> QED
    BY <2>2, <2>3
<1>5. \A p \in Players :
          /\ Playing(char[p]) => Healthy(p, char'[p]) /\ Playing(char'[p])
          /\ Pausing(char[p]) => Healthy(p, char'[p]) /\ (Pausing(char'[p]) \/ Returning(char'[p]))
          /\ Returning(char[p]) => Healthy(p, char'[p]) /\ (Returning(char'[p]) \/ OnItsPlace(char'[p]))
          /\ OnItsPlace(char[p]) =>
                 /\ Healthy(p, char'[p])
                 /\ OnItsPlace(char'[p]) \/ (Playing(char'[p]) /\ char'[p].invincible = InvincibleTime - 1)
  BY <1>1, <1>4
<1>6. \A p \in Players : Playing(char[p]) \/ Pausing(char[p]) \/ Returning(char[p]) \/ OnItsPlace(char[p])
  BY <1>3 DEF InOnePhase
<1>7. \A p \in Players : Healthy(p, char'[p])
  BY <1>5, <1>6
<1>8. LifeGoesOn
  BY <1>5 DEF LifeGoesOn, GoesOn
<1>9. FallsTypeOK'
  <2>1. char' \in [Players -> Character]
    BY <1>1, <1>7 DEF Healthy
  <2>2. active' \in [Players -> BOOLEAN]
    <3>1. \A p \in Players : (active[p] \/ (char[p].static > 0 /\ char'[p].static = 0)) \in BOOLEAN
      OBVIOUS
    <3> QED
      BY <1>2, <3>1
  <2> QED
    BY <1>2, <2>1, <2>2 DEF FallsTypeOK
<1>10. \A p \in Players : InOnePhase(char'[p], active'[p])
  <2> TAKE p \in Players
  <2>1. active'[p] <=> active[p] \/ (char[p].static > 0 /\ char'[p].static = 0)
    BY <1>2
  <2>2. char[p] \in Character /\ char'[p] \in Character
    BY <1>3, <1>7 DEF Healthy
  <2>3. CASE active[p]
    <3>1. Playing(char'[p]) /\ active'[p]
      BY <1>3, <1>5, <2>1, <2>3 DEF InOnePhase
    <3> QED
      BY <3>1 DEF InOnePhase
  <2>4. CASE ~active[p]
    <3>1. Pausing(char[p]) \/ Returning(char[p]) \/ OnItsPlace(char[p])
      BY <1>3, <2>4 DEF InOnePhase
    <3>2. CASE Pausing(char[p]) \/ Returning(char[p])
      <4>1. ~(char[p].static > 0)
        BY <3>2 DEF Pausing, Returning
      <4>2. ~active'[p]
        BY <2>1, <2>4, <4>1
      <4> QED
        BY <1>5, <3>2, <4>2 DEF InOnePhase
    <3>3. CASE OnItsPlace(char[p])
      <4>1. char[p].static > 0
        BY <3>3 DEF OnItsPlace
      <4>2. CASE OnItsPlace(char'[p])
        <5>1. char'[p].static # 0
          BY <4>2 DEF OnItsPlace
        <5>2. ~active'[p]
          BY <2>1, <2>4, <5>1
        <5> QED
          BY <4>2, <5>2 DEF InOnePhase
      <4>3. CASE Playing(char'[p])
        <5>1. char'[p].static = 0
          BY <4>3 DEF Playing
        <5>2. active'[p]
          BY <2>1, <4>1, <5>1
        <5> QED
          BY <4>3, <5>2 DEF InOnePhase
      <4> QED
        BY <1>5, <3>3, <4>2, <4>3
    <3> QED
      BY <3>1, <3>2, <3>3
  <2> QED
    BY <2>3, <2>4
<1>11. MovingPlays'
  <2>1. \A p \in moving' : p \in Players /\ active'[p] /\ Playing(char'[p])
    BY <1>2, <1>10 DEF InOnePhase
  <2> QED
    BY <1>2, <2>1 DEF MovingPlays, Playing
<1> QED
  BY <1>7, <1>8, <1>9, <1>10, <1>11 DEF FallsInv

LEMMA FallsStep ==
  ASSUME FallsInv, [FallsNext]_fallsVars
  PROVE  FallsInv' /\ LifeGoesOn
<1>1. CASE UNCHANGED fallsVars
  <2>1. FallsInv'
    BY <1>1 DEF fallsVars, FallsInv, FallsTypeOK, MovingPlays
  <2>2. LifeGoesOn
    BY <1>1 DEF fallsVars, LifeGoesOn, GoesOn
  <2> QED
    BY <2>1, <2>2
<1>2. CASE FallsTick
  BY <1>2, FallsTickKeeps
<1>3. CASE FallsEndPhysics
  BY <1>3, FallsEndPhysicsKeeps
<1>4. CASE \E p \in Players : Fall(p)
  BY <1>4, FallKeeps
<1>5. CASE \E p, q \in Players : HitByBullet(p, q) \/ Stomped(p, q) \/ Collide(p, q)
  <2>1. PICK p \in Players, q \in Players : HitByBullet(p, q) \/ Stomped(p, q) \/ Collide(p, q)
    BY <1>5
  <2> QED
    BY <2>1, HitByBulletKeeps, StompedKeeps, CollideKeeps
<1> QED
  BY <1>1, <1>2, <1>3, <1>4, <1>5 DEF FallsNext

\* A character is in the physics or in just one phase of its way back, a cause that is
\* credited names another player, and a life starts without the collisions and stomps of the
\* one before, for any players and any times that fit (player_character.cpp:133-168, 587, 715).
THEOREM FallsSoundAlways == FallsSpec => [](FallsTypeOK /\ FallsSound)
BY FallsInitially, FallsStep, FallsInvGives, PTL DEF FallsSpec

\* The name of a phase.
LEMMA LifeIs ==
  ASSUME NEW p \in Players, char[p] \in Character
  PROVE  /\ Playing(char[p]) => Life(p) = "playing"
         /\ Pausing(char[p]) => Life(p) = "out"
         /\ Returning(char[p]) => Life(p) = "returning"
         /\ OnItsPlace(char[p]) => Life(p) = "waiting"
<1>1. 0 \in Nat /\ ~(0 > 0)
  OBVIOUS
<1> QED
  BY <1>1 DEF Life, Playing, Pausing, Returning, OnItsPlace

\* The phases of a life follow each other, whatever strikes a character meanwhile, and who
\* plays again is invincible (player_character.cpp:144).
THEOREM LifeCycleAlways == FallsSpec => LifeCycle
<1>1. FallsInv => \A p \in Players :
          /\ Playing(char[p]) \/ Pausing(char[p]) \/ Returning(char[p]) \/ OnItsPlace(char[p])
          /\ Playing(char[p]) => Life(p) = "playing"
          /\ Pausing(char[p]) => Life(p) = "out"
          /\ Returning(char[p]) => Life(p) = "returning"
          /\ OnItsPlace(char[p]) => Life(p) = "waiting"
  BY LifeIs DEF FallsInv, FallsTypeOK, InOnePhase
<1>2. ASSUME FallsInv, [FallsNext]_fallsVars
      PROVE  [\A p \in Players :
                /\ Life(p)' \in {Life(p), After(Life(p))}
                /\ Life(p) = "waiting" /\ Life(p)' = "playing" =>
                       char'[p].invincible = InvincibleTime - 1]_fallsVars
  <2>1. FallsInv' /\ LifeGoesOn
    BY <1>2, FallsStep
  <2> SUFFICES ASSUME NEW p \in Players
               PROVE  /\ Life(p)' \in {Life(p), After(Life(p))}
                      /\ Life(p) = "waiting" /\ Life(p)' = "playing" =>
                             char'[p].invincible = InvincibleTime - 1
    OBVIOUS
  <2>2. /\ Playing(char[p]) \/ Pausing(char[p]) \/ Returning(char[p]) \/ OnItsPlace(char[p])
        /\ Playing(char[p]) => Life(p) = "playing"
        /\ Pausing(char[p]) => Life(p) = "out"
        /\ Returning(char[p]) => Life(p) = "returning"
        /\ OnItsPlace(char[p]) => Life(p) = "waiting"
    BY <1>1, <1>2
  <2>3. /\ Playing(char'[p]) => Life(p)' = "playing"
        /\ Pausing(char'[p]) => Life(p)' = "out"
        /\ Returning(char'[p]) => Life(p)' = "returning"
        /\ OnItsPlace(char'[p]) => Life(p)' = "waiting"
    <3>1. 0 \in Nat /\ ~(0 > 0)
      OBVIOUS
    <3> QED
      BY <3>1 DEF Life, Playing, Pausing, Returning, OnItsPlace
  <2>4. GoesOn(char[p], char'[p])
    BY <2>1 DEF LifeGoesOn
  <2> QED
    BY <2>2, <2>3, <2>4 DEF GoesOn, After
<1> QED
  BY <1>2, FallsInitially, FallsStep, PTL DEF FallsSpec, LifeCycle
-----------------------------------------------------------------------------
(* The stomp. *)

Stompers == [prep : 0..PrepTime, down : 0..DownTime, stop : 0..StopTime, slow : 0..SlowTime,
             bounce : 0..BounceTime, recover : 0..RecoverTime, dashed : 0..StunTime,
             collided : 0..BumpTime, foot : 0..MaxFoot, trail : 0..TrailLength]

\* One move at a time, and the trail grows no faster than the dash gets shorter.
StompFits(k) ==
    /\ k \in Stompers
    /\ k.down > 0 => k.prep = 0 /\ k.stop = 0 /\ k.trail + k.down <= DownTime
    /\ k.trail < DownTime

\* What every step of the stomp keeps.
StompInv == StompTypeOK /\ StompFits(stomper)

LEMMA StompTimesAre ==
  /\ PrepTime \in Nat \ {0} /\ DownTime \in Nat \ {0} /\ StopTime \in Nat \ {0}
  /\ SlowTime \in Nat \ {0} /\ SlowTime > 1 /\ BounceTime \in Nat \ {0}
  /\ RecoverTime \in Nat \ {0} /\ StunTime \in Nat \ {0} /\ BumpTime \in Nat \ {0}
  /\ MaxFoot \in Nat \ {0} /\ TrailLength \in Nat
BY StompAssumption DEF StompTimes, TrailLength

\* The fields of a stomper are numbers.
LEMMA StomperIs ==
  ASSUME NEW k \in Stompers
  PROVE  /\ k.prep \in Nat /\ k.prep <= PrepTime /\ k.down \in Nat /\ k.down <= DownTime
         /\ k.stop \in Nat /\ k.stop <= StopTime /\ k.slow \in Nat /\ k.slow <= SlowTime
         /\ k.bounce \in Nat /\ k.bounce <= BounceTime
         /\ k.recover \in Nat /\ k.recover <= RecoverTime
         /\ k.dashed \in Nat /\ k.dashed <= StunTime
         /\ k.collided \in Nat /\ k.collided <= BumpTime
         /\ k.foot \in Nat /\ k.foot <= MaxFoot /\ k.trail \in Nat /\ k.trail <= TrailLength
BY StompTimesAre DEF Stompers

LEMMA StompInitially == StompInit => StompInv
<1> SUFFICES ASSUME StompInit PROVE StompInv
  OBVIOUS
<1>1. /\ 0 \in 0 .. PrepTime /\ 0 \in 0 .. DownTime /\ 0 \in 0 .. StopTime /\ 0 \in 0 .. SlowTime
      /\ 0 \in 0 .. BounceTime /\ 0 \in 0 .. RecoverTime /\ 0 \in 0 .. StunTime
      /\ 0 \in 0 .. BumpTime /\ 0 \in 0 .. MaxFoot /\ 0 \in 0 .. TrailLength
      /\ 0 < DownTime
  BY StompTimesAre
<1>2. /\ stomper \in Stompers /\ stomper.down = 0 /\ stomper.trail = 0
  BY <1>1 DEF StompInit, Stompers
<1>3. StompFits(stomper)
  BY <1>1, <1>2 DEF StompFits
<1>4. StompTypeOK
  BY <1>2 DEF StompInit, StompTypeOK, Stompers
<1> QED
  BY <1>3, <1>4 DEF StompInv

LEMMA LandedIs ==
  ASSUME NEW k \in Stompers
  PROVE  /\ Landed(k) \in Stompers
         /\ Landed(k).prep = k.prep /\ Landed(k).down = k.down /\ Landed(k).stop = k.stop
         /\ Landed(k).trail = k.trail
<1>1. BounceTime \in 0 .. BounceTime /\ 0 \in 0 .. SlowTime
  BY StompTimesAre
<1> QED
  BY <1>1 DEF Landed, Stompers

LEMMA StopDashIs ==
  ASSUME NEW k \in Stompers, NEW finish
  PROVE  LET s == StopDash(k, finish)
         IN /\ s \in Stompers /\ s.down = 0 /\ s.foot = k.foot /\ s.trail = k.trail
            /\ finish = "BOUNCE" => s.bounce > 0
            /\ finish # "BOUNCE" => s.slow = SlowTime
<1>1. /\ BounceTime \in 0 .. BounceTime /\ SlowTime \in 0 .. SlowTime /\ StopTime \in 0 .. StopTime
      /\ 0 \in 0 .. SlowTime /\ 0 \in 0 .. DownTime /\ BounceTime > 0
  BY StompTimesAre
<1>2. CASE finish = "BOUNCE"
  BY <1>1, <1>2 DEF StopDash, Stompers
<1>3. CASE finish # "BOUNCE"
  BY <1>1, <1>3 DEF StopDash, Stompers
<1> QED
  BY <1>2, <1>3

LEMMA StompRunsAlwaysIs ==
  ASSUME NEW k, StompFits(k)
  PROVE  LET a == StompRunsAlways(k)
         IN StompFits(a) /\ a.down = k.down /\ a.foot = k.foot
<1> DEFINE a == StompRunsAlways(k)
           c == Less(k.collided)
           s == Less(k.stop)
           r == Less(k.recover)
           d == Less(k.dashed)
<1>1. k \in Stompers /\ k.stop \in Nat /\ k.down \in Nat
  BY StomperIs DEF StompFits
<1>2. /\ c \in 0 .. BumpTime /\ s \in 0 .. StopTime /\ r \in 0 .. RecoverTime /\ d \in 0 .. StunTime
      /\ k.stop = 0 => s = 0
  BY <1>1, StomperIs, StompTimesAre, LessOf
<1>3. a = [k EXCEPT !.collided = c, !.stop = s, !.recover = r, !.dashed = d]
  BY DEF StompRunsAlways
<1> HIDE DEF a, c, s, r, d
<1>4. a \in Stompers /\ a.down = k.down /\ a.foot = k.foot /\ a.prep = k.prep /\ a.trail = k.trail
      /\ a.stop = s
  BY <1>1, <1>2, <1>3 DEF Stompers
<1>5. StompFits(a)
  BY <1>2, <1>4 DEF StompFits
<1> QED
  BY <1>4, <1>5 DEF a

LEMMA WalksIs ==
  ASSUME NEW k, StompFits(k), NEW reactor \in {-1, 0, 1}
  PROVE  LET w == Walks(k, reactor)
         IN StompFits(w) /\ w.down = k.down /\ w.foot = k.foot
<1> DEFINE w == Walks(k, reactor)
           s == IF reactor > 0 THEN 0 ELSE k.stop
<1>1. k \in Stompers
  BY DEF StompFits
<1>2. CASE k.foot = 0
  BY <1>2 DEF Walks
<1>3. CASE k.foot # 0
  <2>1. w = [k EXCEPT !.dashed = 0, !.stop = s]
    BY <1>3 DEF Walks
  <2>2. s \in 0 .. StopTime /\ 0 \in 0 .. StunTime /\ (k.stop = 0 => s = 0)
    BY <1>1, StomperIs, StompTimesAre
  <2> HIDE DEF w, s
  <2>3. w \in Stompers /\ w.down = k.down /\ w.foot = k.foot /\ w.prep = k.prep /\ w.trail = k.trail
        /\ w.stop = s
    BY <1>1, <2>1, <2>2 DEF Stompers
  <2>4. StompFits(w)
    BY <2>2, <2>3 DEF StompFits
  <2> QED
    BY <2>3, <2>4 DEF w
<1> QED
  BY <1>2, <1>3

LEMMA PreparesIs ==
  ASSUME NEW k, StompFits(k)
  PROVE  LET x == Prepares(k)
         IN StompFits(x) /\ x.down = k.down /\ x.foot = k.foot
<1> DEFINE x == Prepares(k)
           p == Less(k.prep)
           r == IF k.prep = 1 THEN RecoverTime ELSE k.recover
<1>1. k \in Stompers
  BY DEF StompFits
<1>2. p \in 0 .. PrepTime /\ r \in 0 .. RecoverTime /\ (k.prep = 0 => p = 0)
  BY <1>1, StomperIs, StompTimesAre, LessOf
<1>3. x = [k EXCEPT !.prep = p, !.recover = r]
  BY DEF Prepares
<1> HIDE DEF x, p, r
<1>4. x \in Stompers /\ x.down = k.down /\ x.foot = k.foot /\ x.prep = p /\ x.trail = k.trail
      /\ x.stop = k.stop
  BY <1>1, <1>2, <1>3 DEF Stompers
<1>5. StompFits(x)
  BY <1>2, <1>4 DEF StompFits
<1> QED
  BY <1>4, <1>5 DEF x

\* A dash gets shorter, and ends in slowing down.
LEMMA DashesIs ==
  ASSUME NEW k, StompFits(k)
  PROVE  LET d == Dashes(k)
         IN /\ StompFits(d) /\ d.foot = k.foot
            /\ d.down > 0 => d.trail + d.down < DownTime
            /\ k.down > 0 /\ d.down = 0 => d.slow = SlowTime
<1> DEFINE d == Dashes(k)
<1>1. k \in Stompers /\ k.down \in Nat /\ k.trail \in Nat /\ k.down <= DownTime /\ DownTime \in Nat
      /\ k.trail < DownTime
  BY StomperIs, StompTimesAre DEF StompFits
<1>2. CASE k.down = 1
  <2>1. d = StopDash(k, "SLOW")
    BY <1>2 DEF Dashes
  <2> HIDE DEF d
  <2>2. /\ d \in Stompers /\ d.down = 0 /\ d.foot = k.foot /\ d.trail = k.trail
        /\ d.slow = SlowTime
    BY <1>1, <2>1, StopDashIs
  <2>3. StompFits(d)
    BY <1>1, <2>2 DEF StompFits
  <2> QED
    BY <2>2, <2>3 DEF d
<1>3. CASE k.down # 1
  <2> DEFINE n == Less(k.down)
  <2>1. d = [k EXCEPT !.down = n]
    BY <1>3 DEF Dashes
  <2>2. /\ n \in 0 .. DownTime /\ n \in Nat
        /\ k.down > 0 => n = k.down - 1 /\ n > 0
        /\ k.down = 0 => n = 0
    BY <1>1, <1>3, LessOf
  <2> HIDE DEF d, n
  <2>3. /\ d \in Stompers /\ d.down = n /\ d.foot = k.foot /\ d.trail = k.trail
        /\ d.prep = k.prep /\ d.stop = k.stop
    BY <1>1, <2>1, <2>2 DEF Stompers
  <2>4. n > 0 => k.down > 0 /\ k.trail + n < DownTime
    <3>1. k.down > 0 => k.trail + k.down <= DownTime
      BY DEF StompFits
    <3> QED
      BY <1>1, <2>2, <3>1
  <2>5. StompFits(d)
    BY <1>1, <2>2, <2>3, <2>4 DEF StompFits
  <2>6. d.down > 0 => d.trail + d.down < DownTime
    BY <2>3, <2>4
  <2>7. k.down > 0 => d.down # 0
    BY <2>2, <2>3
  <2> QED
    BY <2>3, <2>5, <2>6, <2>7 DEF d
<1> QED
  BY <1>2, <1>3

LEMMA SlowsDownIs ==
  ASSUME NEW k, StompFits(k)
  PROVE  LET s == SlowsDown(k)
         IN /\ StompFits(s) /\ s.foot = k.foot /\ s.down = k.down /\ s.trail = k.trail
            /\ k.foot = 0 => s.slow = Less(k.slow)
<1> DEFINE s == SlowsDown(k)
           m == IF k.foot > 0 THEN 0 ELSE Less(k.slow)
           b == IF k.foot > 0 THEN 0 ELSE Less(k.bounce)
<1>1. k \in Stompers
  BY DEF StompFits
<1>2. m \in 0 .. SlowTime /\ b \in 0 .. BounceTime /\ (k.foot = 0 => m = Less(k.slow))
  BY <1>1, StomperIs, StompTimesAre, LessOf
<1>3. s = [k EXCEPT !.slow = m, !.bounce = b]
  BY DEF SlowsDown
<1> HIDE DEF s, m, b
<1>4. /\ s \in Stompers /\ s.down = k.down /\ s.foot = k.foot /\ s.prep = k.prep /\ s.trail = k.trail
      /\ s.stop = k.stop /\ s.slow = m
  BY <1>1, <1>2, <1>3 DEF Stompers
<1>5. StompFits(s)
  BY <1>4 DEF StompFits
<1> QED
  BY <1>2, <1>4, <1>5 DEF s
\* In the air a dash goes on, leaving its trail, or the next one is prepared or started.
LEMMA InAirIs ==
  ASSUME NEW k, StompFits(k), k.down > 0 => k.trail + k.down < DownTime,
         NEW press \in BOOLEAN, NEW slowEnough \in BOOLEAN, NEW reactor \in {-1, 0, 1}
  PROVE  LET i == InAir(k, press, reactor, slowEnough)
         IN /\ StompFits(i) /\ i.slow = k.slow
            /\ k.down > 0 => i.down > 0
<1> DEFINE i == InAir(k, press, reactor, slowEnough)
<1>1. k \in Stompers /\ k.down \in Nat /\ k.trail \in Nat /\ k.trail <= TrailLength /\ k.trail < DownTime
  BY StomperIs DEF StompFits
<1>2. CASE press /\ CanPrepare(k, slowEnough)
  <2>1. i = [k EXCEPT !.prep = PrepTime] /\ k.down = 0
    BY <1>2 DEF InAir, CanPrepare
  <2>2. PrepTime \in 0 .. PrepTime
    BY StompTimesAre
  <2> HIDE DEF i
  <2>3. i \in Stompers /\ i.down = 0 /\ i.slow = k.slow /\ i.trail = k.trail
    BY <1>1, <2>1, <2>2 DEF Stompers
  <2>4. StompFits(i)
    BY <1>1, <2>3 DEF StompFits
  <2> QED
    BY <2>1, <2>3, <2>4 DEF i
<1>3. CASE ~(press /\ CanPrepare(k, slowEnough)) /\ k.down > 0 /\ k.stop = 0
  <2> DEFINE n == IF k.trail = TrailLength THEN k.trail ELSE k.trail + 1
  <2>1. i = [k EXCEPT !.trail = n]
    BY <1>3 DEF InAir, LeavesTrail
  <2>2. n \in 0 .. TrailLength /\ n <= k.trail + 1 /\ n \in Nat
    BY <1>1, StompTimesAre
  <2> HIDE DEF i, n
  <2>3. /\ i \in Stompers /\ i.down = k.down /\ i.slow = k.slow /\ i.trail = n
        /\ i.prep = k.prep /\ i.stop = k.stop
    BY <1>1, <2>1, <2>2 DEF Stompers
  <2>4. n + k.down <= DownTime /\ n < DownTime
    BY <1>1, <1>3, <2>2, StompTimesAre
  <2>5. StompFits(i)
    BY <1>3, <2>3, <2>4 DEF StompFits
  <2> QED
    BY <2>3, <2>5 DEF i
<1>4. CASE ~(press /\ CanPrepare(k, slowEnough)) /\ ~(k.down > 0 /\ k.stop = 0) /\ CanDash(k)
  <2>1. k.down = 0 /\ k.stop = 0
    BY <1>4 DEF CanDash
  <2>2. CASE reactor < 0
    <3>1. i = [k EXCEPT !.down = DownTime, !.prep = 0, !.trail = 0]
      BY <1>4, <2>2 DEF InAir, StartDash
    <3>2. DownTime \in 0 .. DownTime /\ 0 \in 0 .. PrepTime /\ 0 \in 0 .. TrailLength
          /\ 0 + DownTime <= DownTime /\ 0 < DownTime
      BY StompTimesAre
    <3> HIDE DEF i
    <3>3. /\ i \in Stompers /\ i.down = DownTime /\ i.slow = k.slow /\ i.trail = 0
          /\ i.prep = 0 /\ i.stop = 0
      BY <1>1, <2>1, <3>1, <3>2 DEF Stompers
    <3>4. StompFits(i)
      BY <3>2, <3>3 DEF StompFits
    <3> QED
      BY <2>1, <3>3, <3>4 DEF i
  <2>3. CASE ~(reactor < 0)
    <3>1. i = k
      BY <1>4, <2>3 DEF InAir
    <3> QED
      BY <2>1, <3>1
  <2> QED
    BY <2>2, <2>3
<1>5. CASE ~(press /\ CanPrepare(k, slowEnough)) /\ ~(k.down > 0 /\ k.stop = 0) /\ ~CanDash(k)
  <2>1. k.down = 0
    BY <1>1, <1>5 DEF StompFits
  <2>2. CASE reactor >= 0
    <3>1. i = [k EXCEPT !.down = 0]
      BY <1>5, <2>2 DEF InAir
    <3>2. 0 \in 0 .. DownTime
      BY StompTimesAre
    <3> HIDE DEF i
    <3>3. i \in Stompers /\ i.down = 0 /\ i.slow = k.slow /\ i.trail = k.trail
      BY <1>1, <3>1, <3>2 DEF Stompers
    <3>4. StompFits(i)
      BY <1>1, <3>3 DEF StompFits
    <3> QED
      BY <2>1, <3>3, <3>4 DEF i
  <2>3. CASE ~(reactor >= 0)
    <3>1. i = k
      BY <1>5, <2>3 DEF InAir
    <3> QED
      BY <2>1, <3>1
  <2> QED
    BY <2>2, <2>3
<1> QED
  BY <1>2, <1>3, <1>4, <1>5

\* A tick of a character in the game.
LEMMA PlayedIs ==
  ASSUME NEW k, StompFits(k),
         NEW press \in BOOLEAN, NEW slowEnough \in BOOLEAN, NEW reactor \in {-1, 0, 1}
  PROVE  LET t == Played(k, press, reactor, slowEnough)
         IN /\ StompFits(t)
            /\ k.down > 0 /\ t.down = 0 => k.foot > 0 \/ t.slow > 0
<1> DEFINE w == Walks(k, reactor)
           x == Prepares(w)
           d == Dashes(x)
           m == SlowsDown(d)
           t == Played(k, press, reactor, slowEnough)
<1>1. StompFits(w) /\ w.down = k.down /\ w.foot = k.foot
  BY WalksIs
<1> HIDE DEF w
<1>2. StompFits(x) /\ x.down = k.down /\ x.foot = k.foot
  BY <1>1, PreparesIs
<1> HIDE DEF x
<1>3. /\ StompFits(d) /\ d.foot = k.foot
      /\ d.down > 0 => d.trail + d.down < DownTime
      /\ k.down > 0 /\ d.down = 0 => d.slow = SlowTime
  BY <1>2, DashesIs
<1> HIDE DEF d
<1>4. /\ StompFits(m) /\ m.foot = k.foot /\ m.down = d.down /\ m.trail = d.trail
      /\ k.foot = 0 => m.slow = Less(d.slow)
  BY <1>3, SlowsDownIs
<1>5. t = IF m.foot > 0 THEN [m EXCEPT !.down = 0] ELSE InAir(m, press, reactor, slowEnough)
  BY DEF Played, m, d, x, w
<1> HIDE DEF m, t
<1>6. k \in Stompers /\ m \in Stompers /\ d \in Stompers
  BY <1>3, <1>4 DEF StompFits
<1>7. CASE k.foot > 0
  <2>1. t = [m EXCEPT !.down = 0] /\ 0 \in 0 .. DownTime
    BY <1>4, <1>5, <1>7, StompTimesAre
  <2>2. t \in Stompers /\ t.down = 0 /\ t.trail = m.trail
    BY <1>6, <2>1 DEF Stompers
  <2>3. StompFits(t)
    BY <1>4, <2>2 DEF StompFits
  <2> QED
    BY <1>7, <2>3 DEF t
<1>8. CASE ~(k.foot > 0)
  <2>1. k.foot = 0
    BY <1>6, <1>8, StomperIs
  <2>2. t = InAir(m, press, reactor, slowEnough)
    BY <1>4, <1>5, <1>8
  <2>3. m.down > 0 => m.trail + m.down < DownTime
    BY <1>3, <1>4
  <2>4. StompFits(t) /\ t.slow = m.slow /\ (m.down > 0 => t.down > 0)
    BY <1>4, <2>2, <2>3, InAirIs
  <2>5. k.down > 0 /\ d.down = 0 => m.slow > 0
    BY <1>3, <1>4, <2>1, StompTimesAre, LessOf
  <2>6. t.down = 0 => d.down = 0
    <3>1. d.down \in Nat /\ t.down \in Nat
      BY <1>6, <2>4, StomperIs DEF StompFits
    <3> QED
      BY <1>4, <2>4, <3>1
  <2> QED
    BY <2>4, <2>5, <2>6 DEF t
<1> QED
  BY <1>7, <1>8

\* What a step does to who stomps: it fits, and a dash does not end just so.
StompEnds == stomper.down > 0 /\ stomper'.down = 0 => Grounded \/ stomper'.slow > 0 \/ stomper'.bounce > 0

LEMMA FootStep ==
  ASSUME StompInv, FootEnter \/ FootExit
  PROVE  StompFits(stomper') /\ stomper'.down = stomper.down
<1>1. StompFits(stomper) /\ stomper \in Stompers
  BY DEF StompInv, StompFits
<1>2. CASE FootEnter
  <2> DEFINE n == stomper.foot + 1
             k == [stomper EXCEPT !.foot = n]
  <2>1. stomper' = Landed(k)
    BY <1>2 DEF FootEnter
  <2>2. n \in 0 .. MaxFoot
    BY <1>1, <1>2, StomperIs, StompTimesAre DEF FootEnter
  <2> HIDE DEF n
  <2>3. /\ k \in Stompers /\ k.down = stomper.down /\ k.prep = stomper.prep
        /\ k.stop = stomper.stop /\ k.trail = stomper.trail
    BY <1>1, <2>2 DEF Stompers
  <2> HIDE DEF k
  <2>4. /\ Landed(k) \in Stompers /\ Landed(k).down = stomper.down /\ Landed(k).prep = stomper.prep
        /\ Landed(k).stop = stomper.stop /\ Landed(k).trail = stomper.trail
    BY <2>3, LandedIs
  <2>5. StompFits(Landed(k))
    BY <1>1, <2>4 DEF StompFits
  <2> QED
    BY <2>1, <2>4, <2>5
<1>3. CASE FootExit
  <2> DEFINE n == stomper.foot - 1
  <2>1. stomper' = [stomper EXCEPT !.foot = n]
    BY <1>3 DEF FootExit
  <2>2. n \in 0 .. MaxFoot
    BY <1>1, <1>3, StomperIs, StompTimesAre DEF FootExit
  <2> HIDE DEF n
  <2>3. /\ stomper' \in Stompers /\ stomper'.down = stomper.down /\ stomper'.prep = stomper.prep
        /\ stomper'.stop = stomper.stop /\ stomper'.trail = stomper.trail
    BY <1>1, <2>1, <2>2 DEF Stompers
  <2>4. StompFits(stomper')
    BY <1>1, <2>3 DEF StompFits
  <2> QED
    BY <2>3, <2>4
<1> QED
  BY <1>2, <1>3

LEMMA EnterHeadStep ==
  ASSUME StompInv, NEW onGround \in BOOLEAN, EnterHead(onGround)
  PROVE  StompFits(stomper') /\ (stomper'.down = stomper.down \/ stomper'.bounce > 0)
<1> DEFINE k == Landed(stomper)
<1>1. StompFits(stomper) /\ stomper \in Stompers
  BY DEF StompInv, StompFits
<1>2. /\ k \in Stompers /\ k.down = stomper.down /\ k.prep = stomper.prep
      /\ k.stop = stomper.stop /\ k.trail = stomper.trail
  BY <1>1, LandedIs
<1>3. stomper' = IF onGround THEN StopDash(k, "BOUNCE") ELSE k
  BY DEF EnterHead
<1> HIDE DEF k
<1>4. CASE onGround
  <2>1. /\ stomper' \in Stompers /\ stomper'.down = 0 /\ stomper'.trail = k.trail
        /\ stomper'.bounce > 0
    BY <1>2, <1>3, <1>4, StopDashIs
  <2> QED
    BY <1>1, <1>2, <2>1 DEF StompFits
<1>5. CASE ~onGround
  BY <1>1, <1>2, <1>3, <1>5 DEF StompFits
<1> QED
  BY <1>4, <1>5

LEMMA StruckStep ==
  ASSUME StompInv, GetsStomped \/ GetsCollided
  PROVE  StompFits(stomper') /\ stomper'.down = stomper.down
<1>1. StompFits(stomper) /\ stomper \in Stompers
  BY DEF StompInv, StompFits
<1>2. StunTime \in 0 .. StunTime /\ BumpTime \in 0 .. BumpTime
  BY StompTimesAre
<1>3. /\ stomper' \in Stompers /\ stomper'.down = stomper.down /\ stomper'.prep = stomper.prep
      /\ stomper'.stop = stomper.stop /\ stomper'.trail = stomper.trail
  <2>1. CASE GetsStomped
    <3>1. stomper' = [stomper EXCEPT !.dashed = StunTime]
      BY <2>1 DEF GetsStomped
    <3> QED
      BY <1>1, <1>2, <3>1 DEF Stompers
  <2>2. CASE GetsCollided
    <3>1. stomper' = [stomper EXCEPT !.collided = BumpTime]
      BY <2>2 DEF GetsCollided
    <3> QED
      BY <1>1, <1>2, <3>1 DEF Stompers
  <2> QED
    BY <2>1, <2>2
<1> QED
  BY <1>1, <1>3 DEF StompFits

LEMMA StompTickStep ==
  ASSUME StompInv, StompTick
  PROVE  /\ StompFits(stomper') /\ StompEnds
         /\ out' \in BOOLEAN /\ pressed' \in BOOLEAN
<1>1. StompFits(stomper) /\ out \in BOOLEAN
  BY DEF StompInv, StompTypeOK
<1>2. PICK button \in BOOLEAN, back \in BOOLEAN, slowEnough \in BOOLEAN, reactor \in {-1, 0, 1} :
          /\ out' = (out /\ ~back)
          /\ stomper' = IF out' THEN StompRunsAlways(stomper)
                        ELSE Played(StompRunsAlways(stomper), button /\ ~pressed, reactor, slowEnough)
          /\ pressed' = button
  BY DEF StompTick
<1> DEFINE a == StompRunsAlways(stomper)
           b == button /\ ~pressed
<1>3. StompFits(a) /\ a.down = stomper.down /\ a.foot = stomper.foot
  BY <1>1, StompRunsAlwaysIs
<1>4. b \in BOOLEAN
  OBVIOUS
<1>5. \/ stomper' = a
      \/ stomper' = Played(a, b, reactor, slowEnough)
  BY <1>2
<1>6. out' \in BOOLEAN /\ pressed' \in BOOLEAN
  BY <1>2
<1> HIDE DEF a, b
<1>7. CASE stomper' = a
  BY <1>3, <1>6, <1>7 DEF StompEnds
<1>8. CASE stomper' = Played(a, b, reactor, slowEnough)
  <2>1. /\ StompFits(stomper')
        /\ a.down > 0 /\ stomper'.down = 0 => a.foot > 0 \/ stomper'.slow > 0
    BY <1>3, <1>4, <1>8, PlayedIs
  <2> QED
    BY <1>3, <1>6, <2>1 DEF StompEnds, Grounded
<1> QED
  BY <1>5, <1>7, <1>8

LEMMA StompStep ==
  ASSUME StompInv, [StompNext]_stompVars
  PROVE  StompInv' /\ StompEnds
<1>1. /\ StompFits(stomper) /\ out \in BOOLEAN /\ pressed \in BOOLEAN
      /\ stompStage \in {"physics", "tick"} /\ stomper.down \in Nat
  BY StomperIs DEF StompInv, StompTypeOK, StompFits
<1>2. /\ StompFits(stomper') /\ StompEnds /\ out' \in BOOLEAN /\ pressed' \in BOOLEAN
      /\ stompStage' \in {"physics", "tick"}
  <2>1. CASE UNCHANGED stompVars
    BY <1>1, <2>1 DEF stompVars, StompEnds
  <2>2. CASE FootEnter \/ FootExit
    <3>1. StompFits(stomper') /\ stomper'.down = stomper.down
      BY <2>2, FootStep
    <3>2. UNCHANGED <<out, pressed, stompStage>>
      BY <2>2 DEF FootEnter, FootExit
    <3> QED
      BY <1>1, <3>1, <3>2 DEF StompEnds
  <2>3. CASE GetsStomped \/ GetsCollided
    <3>1. StompFits(stomper') /\ stomper'.down = stomper.down
      BY <2>3, StruckStep
    <3>2. UNCHANGED <<out, pressed, stompStage>>
      BY <2>3 DEF GetsStomped, GetsCollided
    <3> QED
      BY <1>1, <3>1, <3>2 DEF StompEnds
  <2>4. CASE \E onGround \in BOOLEAN : EnterHead(onGround)
    <3>1. PICK onGround \in BOOLEAN : EnterHead(onGround)
      BY <2>4
    <3>2. StompFits(stomper') /\ (stomper'.down = stomper.down \/ stomper'.bounce > 0)
      BY <3>1, EnterHeadStep
    <3>3. UNCHANGED <<out, pressed, stompStage>>
      BY <3>1 DEF EnterHead
    <3> QED
      BY <1>1, <3>2, <3>3 DEF StompEnds
  <2>5. CASE Falls \/ StompEndPhysics
    <3>1. stomper' = stomper /\ pressed' = pressed /\ out' \in BOOLEAN
          /\ stompStage' \in {"physics", "tick"}
      BY <1>1, <2>5 DEF Falls, StompEndPhysics
    <3> QED
      BY <1>1, <3>1 DEF StompEnds
  <2>6. CASE StompTick
    <3>1. stompStage' = "physics"
      BY <2>6 DEF StompTick
    <3> QED
      BY <2>6, <3>1, StompTickStep
  <2> QED
    BY <2>1, <2>2, <2>3, <2>4, <2>5, <2>6 DEF StompNext
<1>3. StompInv'
  BY <1>2 DEF StompInv, StompTypeOK, StompFits, Stompers
<1> QED
  BY <1>2, <1>3

\* A character does not dash while it prepares or has been stopped, and a dash leaves fewer
\* positions than it has ticks, for any times (player_character.cpp:303-403, 811;
\* player_view.cpp:454).
THEOREM StompSoundAlways == StompSpec => [](StompTypeOK /\ StompSound)
<1>1. StompInv => StompTypeOK /\ StompSound
  BY DEF StompInv, StompFits, StompSound, OneMove, TrailShort
<1> QED
  BY <1>1, StompInitially, StompStep, PTL DEF StompSpec

\* A dash ends on the ground, or in slowing down or bouncing (player_character.cpp:303-403).
THEOREM DashIsFinishedAlways == StompSpec => DashIsFinished
<1>1. ASSUME StompInv, [StompNext]_stompVars
      PROVE  [stomper.down > 0 /\ stomper'.down = 0 =>
                  Grounded \/ stomper'.slow > 0 \/ stomper'.bounce > 0]_stompVars
  BY <1>1, StompStep DEF StompEnds
<1> QED
  BY <1>1, StompInitially, StompStep, PTL DEF StompSpec, DashIsFinished
-----------------------------------------------------------------------------
(* The jetpack. *)

\* A burst that is being prepared has been so since its preparation began, and there was no
\* burst in the air since.
PreparedSince == preJet > 0 => sinceBurst + preJet > PreTime

LEMMA JetTimesAre ==
  /\ JumpTime \in Nat \ {0} /\ PreTime \in Nat \ {0} /\ CoolTime \in Nat \ {0}
  /\ FirstCool \in Nat \ {0} /\ CancelTime \in Nat
BY JetAssumption

LEMMA JetInitially == JetInit => JetTypeOK /\ PreparedSince
BY JetTimesAre DEF JetInit, JetTypeOK, PreparedSince

\* A tick of the jetpack keeps its timers, and a burst follows its preparation.
LEMMA JetKeeps ==
  ASSUME JetTypeOK, PreparedSince,
         NEW grounded \in BOOLEAN, NEW collided \in BOOLEAN, NEW may \in BOOLEAN,
         NEW slows \in BOOLEAN, NEW level \in 0..3, NEW velY \in {-1, 0, 1},
         Jet(grounded, level, velY, collided, may, slows)
  PROVE  /\ JetTypeOK' /\ PreparedSince'
         /\ sinceBurst' = 0 => sinceBurst >= PreTime
<1> DEFINE jumpLeft == Less(jump)
           bursting == preJet > 0
           cooled == Cooled(bursting, level, velY)
           preLeft == Less(preJet)
           on == JetOn(grounded, level, jumpLeft > 0, cooled = 0)
           arms == on /\ Arms(bursting, level, cooled = 0, collided)
           pre == IF arms THEN PreTime ELSE preLeft
           jumps == on /\ Jumps(grounded, bursting \/ arms, pre = 0, jumpLeft > 0, may /\ ~collided)
           jumpNow == IF jumps THEN JumpTime ELSE jumpLeft
           off == ~on /\ (grounded \/ Low(level))
           Most == IF CoolTime < FirstCool THEN FirstCool ELSE CoolTime
<1>1. /\ jump' = IF Cancels(level, velY, jumpNow) THEN 0 ELSE jumpNow
      /\ preJet' = IF off THEN 0 ELSE pre
      /\ cool' = IF off \/ slows THEN 0 ELSE IF arms \/ (on /\ velY > 0) THEN CoolTime ELSE cooled
      /\ sinceBurst' = IF jumps /\ ~grounded THEN 0 ELSE Least(sinceBurst + 1, PreTime)
  BY DEF Jet
<1>2. /\ jump \in 0 .. JumpTime /\ preJet \in 0 .. PreTime /\ cool \in 0 .. Most
      /\ sinceBurst \in 0 .. PreTime /\ Most \in Nat
      /\ CoolTime \in 0 .. Most /\ 0 \in 0 .. Most /\ 0 \in 0 .. PreTime /\ 0 \in 0 .. JumpTime
      /\ JumpTime \in 0 .. JumpTime /\ PreTime \in 0 .. PreTime
      /\ jump \in Nat /\ preJet \in Nat /\ cool \in Nat /\ sinceBurst \in Nat
      /\ PreTime \in Nat \ {0}
  BY JetTimesAre DEF JetTypeOK
<1>3. JetTypeOK' <=> /\ jump' \in 0 .. JumpTime /\ preJet' \in 0 .. PreTime
                     /\ cool' \in 0 .. Most /\ sinceBurst' \in 0 .. PreTime
  BY DEF JetTypeOK
<1> HIDE DEF Most
<1>4. jumpLeft \in 0 .. JumpTime
  BY <1>2, JetTimesAre, LessOf
<1>5. /\ preLeft \in 0 .. PreTime /\ preLeft \in Nat
      /\ preJet > 0 => preLeft = preJet - 1
      /\ preJet = 0 => preLeft = 0
  BY <1>2, LessOf
<1>6. cooled \in 0 .. Most
  <2>1. \A n \in 0 .. Most : Less(n) \in 0 .. Most
    BY <1>2 DEF Less
  <2>2. CASE ~bursting
    <3> DEFINE once == IF Low(level) \/ velY > 0 THEN Less(cool) ELSE cool
    <3>1. cooled = IF Low(level) \/ velY < 0 THEN Less(once) ELSE once
      BY <2>2 DEF Cooled
    <3>2. once \in 0 .. Most
      BY <1>2, <2>1
    <3> HIDE DEF once, cooled
    <3> QED
      BY <2>1, <3>1, <3>2
  <2>3. CASE bursting
    <3>1. cooled = cool
      BY <2>3 DEF Cooled
    <3> QED
      BY <1>2, <3>1
  <2> QED
    BY <2>2, <2>3
<1>7. jumps => /\ arms => pre # 0
               /\ grounded \/ ((bursting \/ arms) /\ pre = 0)
  BY <1>2 DEF Jumps
<1>8. pre \in 0 .. PreTime /\ pre = IF arms THEN PreTime ELSE preLeft
  BY <1>2, <1>5
<1> HIDE DEF jumpLeft, cooled, on, arms, pre, jumps, off, preLeft
<1>9. jumpNow \in 0 .. JumpTime
  BY <1>2, <1>4
<1> HIDE DEF jumpNow
<1>10. jump' \in 0 .. JumpTime /\ preJet' \in 0 .. PreTime /\ cool' \in 0 .. Most
  BY <1>1, <1>2, <1>6, <1>8, <1>9
<1>11. /\ Least(sinceBurst + 1, PreTime) \in 0 .. PreTime
       /\ Least(sinceBurst + 1, PreTime) > 0
       /\ Least(sinceBurst + 1, PreTime) >= sinceBurst
       /\ \/ Least(sinceBurst + 1, PreTime) = PreTime
          \/ Least(sinceBurst + 1, PreTime) = sinceBurst + 1
  BY <1>2 DEF Least
<1>12. sinceBurst' \in 0 .. PreTime
  BY <1>1, <1>2, <1>11
<1>13. jumps /\ ~grounded => preJet = 1 /\ pre = 0
  BY <1>2, <1>5, <1>7, <1>8
<1>14. sinceBurst' = 0 => sinceBurst >= PreTime
  <2>1. sinceBurst' = 0 => jumps /\ ~grounded
    BY <1>1, <1>11
  <2> QED
    BY <1>2, <1>13, <2>1 DEF PreparedSince
<1>15. PreparedSince'
  <2> SUFFICES ASSUME preJet' > 0 PROVE sinceBurst' + preJet' > PreTime
    BY DEF PreparedSince
  <2>1. preJet' = pre /\ pre > 0
    <3>1. preJet' = 0 \/ preJet' = pre
      BY <1>1
    <3>2. ~(0 > 0)
      OBVIOUS
    <3> QED
      BY <3>1, <3>2
  <2>2. sinceBurst' = Least(sinceBurst + 1, PreTime)
    BY <1>1, <1>13, <2>1
  <2>3. CASE arms
    BY <1>2, <1>8, <1>11, <2>1, <2>2, <2>3
  <2>4. CASE ~arms
    <3>1. preJet > 0 /\ pre = preJet - 1
      BY <1>2, <1>5, <1>8, <2>1, <2>4
    <3> QED
      BY <1>2, <1>11, <2>1, <2>2, <3>1 DEF PreparedSince
  <2> QED
    BY <2>3, <2>4
<1> QED
  BY <1>3, <1>10, <1>12, <1>14, <1>15

LEMMA JetStep ==
  ASSUME JetTypeOK, PreparedSince, [JetNext]_jetVars
  PROVE  /\ JetTypeOK' /\ PreparedSince'
         /\ [sinceBurst' = 0 => sinceBurst >= PreTime]_jetVars
<1>1. CASE UNCHANGED jetVars
  BY <1>1 DEF jetVars, JetTypeOK, PreparedSince
<1>2. CASE JetTick
  BY <1>2, JetKeeps DEF JetTick
<1>3. CASE JetTickOut
  <2>1. /\ jump' = Less(jump) /\ preJet' = preJet /\ cool' = cool
        /\ sinceBurst' = Least(sinceBurst + 1, PreTime)
    BY <1>3 DEF JetTickOut
  <2>2. /\ jump \in 0 .. JumpTime /\ jump \in Nat /\ sinceBurst \in 0 .. PreTime /\ sinceBurst \in Nat
        /\ preJet \in 0 .. PreTime /\ preJet \in Nat /\ PreTime \in Nat \ {0}
    BY JetTimesAre DEF JetTypeOK
  <2>3. Less(jump) \in 0 .. JumpTime
    BY <2>2, JetTimesAre, LessOf
  <2>4. /\ sinceBurst' \in 0 .. PreTime /\ sinceBurst' > 0
        /\ sinceBurst' = PreTime \/ sinceBurst' = sinceBurst + 1
    BY <2>1, <2>2 DEF Least
  <2>5. JetTypeOK'
    BY <2>1, <2>3, <2>4 DEF JetTypeOK
  <2>6. PreparedSince'
    BY <2>1, <2>2, <2>4 DEF PreparedSince
  <2> QED
    BY <2>4, <2>5, <2>6
<1> QED
  BY <1>1, <1>2, <1>3 DEF JetNext

\* The timers of the jetpack stay within their periods.
THEOREM JetTypeCorrect == JetSpec => []JetTypeOK
BY JetInitially, JetStep, PTL DEF JetSpec

\* Bursts in the air are a preparation apart, for any times (player_character.cpp:247-272).
THEOREM BurstsApartAlways == JetSpec => BurstsApart
BY JetInitially, JetStep, PTL DEF JetSpec, BurstsApart
-----------------------------------------------------------------------------
(* The water gun. *)

\* The pause and the timer of the next shot take what is left of the patience.
WaitsInTime ==
    /\ Waiting(firstShots) =>
           eager + water <= FirstWater /\ (firstShots = 0 => eager + water <= WaterTime)
    /\ ~Waiting(firstShots) => eager + Paused < FirstWater + ReloadTime

\* The last shot was as long ago as waterTimer has run.
WaterRuns == sinceShot + water >= WaterTime

\* What every step of the gun keeps.
GunInv == GunTypeOK /\ WaitsInTime /\ WaterRuns

LEMMA GunTimesAre ==
  /\ Tank \in Nat \ {0} /\ Refill \in Nat \ {0} /\ SpentFirst \in Nat \ {0}
  /\ Spent \in Nat \ {0} /\ Spent <= SpentFirst
  /\ FirstShots \in Nat \ {0} /\ WaterTime \in Nat \ {0} /\ QuickTime \in Nat \ {0}
  /\ FirstWater \in Nat \ {0} /\ ReloadTime \in Nat \ {0}
  /\ QuickTime < WaterTime /\ WaterTime < FirstWater
  /\ Patience = ReloadTime + FirstWater
BY GunAssumption DEF Patience

LEMMA GunInitially == GunInit => GunInv
<1> SUFFICES ASSUME GunInit PROVE GunInv
  OBVIOUS
<1>1. /\ Tank \in (1 - SpentFirst) .. Tank /\ 0 \in 0 .. ReloadTime /\ FirstWater \in 0 .. FirstWater
      /\ FirstShots \in 0 .. FirstShots /\ WaterTime \in 0 .. WaterTime /\ 0 \in 0 .. Patience
  BY GunTimesAre
<1>2. GunTypeOK
  BY <1>1 DEF GunInit, GunTypeOK, Shots
<1>3. Waiting(firstShots)
  BY GunTimesAre DEF GunInit, Waiting
<1>4. WaitsInTime
  BY <1>3, GunTimesAre DEF GunInit, WaitsInTime
<1>5. WaterRuns
  BY GunTimesAre DEF GunInit, WaterRuns
<1> QED
  BY <1>2, <1>4, <1>5 DEF GunInv

\* What a tick does to the tank and the pause.
LEMMA TankIs ==
  ASSUME GunTypeOK, NEW aim
  PROVE  /\ Paused \in 0 .. ReloadTime
         /\ Level(aim) \in Int /\ 1 - SpentFirst <= Level(aim)
         /\ Paused > 0 => ~Shooting(aim) /\ Level(aim) > 0
         /\ Shooting(aim) <=> aim # "no" /\ Paused = 0
<1>1. /\ reserve \in Int /\ 1 - SpentFirst <= reserve /\ reserve <= Tank
      /\ reload \in 0 .. ReloadTime /\ firstShots \in Nat
  BY GunTimesAre DEF GunTypeOK
<1>2. Paused \in 0 .. ReloadTime
  BY <1>1, GunTimesAre DEF Paused
<1>3. Shooting(aim) <=> aim # "no" /\ Paused = 0
  BY DEF Shooting
<1> DEFINE now == IF reserve <= 0 THEN 0 ELSE reserve
<1>4. now \in Nat /\ (Paused = 0 => now > 0) /\ Takes \in Nat \ {0} /\ Takes <= SpentFirst
  <2>1. now \in Nat
    BY <1>1
  <2>2. Paused = 0 => now > 0
    BY <1>1, GunTimesAre DEF Paused
  <2>3. Takes \in Nat \ {0} /\ Takes <= SpentFirst
    BY <1>1, GunTimesAre DEF Takes
  <2> QED
    BY <2>1, <2>2, <2>3
<1>5. Level(aim) = IF Shooting(aim) THEN now - Takes ELSE now + Refill
  BY DEF Level
<1> HIDE DEF now
<1>6. CASE Shooting(aim)
  <2>1. Level(aim) = now - Takes /\ Paused = 0
    BY <1>3, <1>5, <1>6
  <2> QED
    BY <1>2, <1>3, <1>4, <1>6, <2>1, GunTimesAre
<1>7. CASE ~Shooting(aim)
  <2>1. Level(aim) = now + Refill
    BY <1>5, <1>7
  <2> QED
    BY <1>2, <1>3, <1>4, <1>7, <2>1, GunTimesAre
<1> QED
  BY <1>6, <1>7

LEMMA GunKeeps ==
  ASSUME GunInv, NEW aim \in {"no", "aims", "stomps"}, GunTick(aim)
  PROVE  /\ GunInv'
         /\ sinceShot' = 0 => sinceShot >= IF shot' = "straight" THEN QuickTime ELSE WaterTime
<1> DEFINE level == Level(aim)
           full == level > Tank
           quick == IF full THEN FirstShots ELSE firstShots
           fires == ~Waiting(quick) /\ Shooting(aim) /\ aim = "aims"
<1>1. /\ aims' = aim
      /\ reserve' = IF full THEN Tank ELSE level
      /\ reload' = IF full THEN 0 ELSE Less(Paused)
      /\ water' = IF Waiting(quick) THEN water - 1 ELSE IF fires THEN WaterTime ELSE water
      /\ firstShots' = IF fires /\ quick > 0 THEN quick - 1 ELSE quick
      /\ shot' = CASE ~fires -> "none"
                   [] fires /\ quick > 0 -> "straight"
                   [] fires /\ quick = 0 /\ reserve' > 0 -> "curved"
                   [] OTHER -> "dry"
      /\ sinceShot' = IF fires THEN 0 ELSE Least(sinceShot + 1, WaterTime)
      /\ eager' = IF fires \/ aim # "aims" THEN 0 ELSE Least(eager + 1, Patience)
  BY DEF GunTick
<1>2. /\ GunTypeOK /\ WaitsInTime /\ WaterRuns
      /\ water \in Nat /\ water <= FirstWater /\ firstShots \in Nat /\ firstShots <= FirstShots
      /\ sinceShot \in Nat /\ sinceShot <= WaterTime /\ eager \in Nat /\ eager <= Patience
  BY GunTimesAre DEF GunInv, GunTypeOK
<1>3. /\ Paused \in 0 .. ReloadTime /\ Paused \in Nat
      /\ level \in Int /\ 1 - SpentFirst <= level
      /\ Paused > 0 => ~Shooting(aim) /\ level > 0
      /\ Shooting(aim) <=> aim # "no" /\ Paused = 0
  BY <1>2, TankIs
<1> HIDE DEF level
<1>4. quick \in Nat /\ quick <= FirstShots /\ (full => quick > 0) /\ (~full => quick = firstShots)
  BY <1>2, GunTimesAre
<1> HIDE DEF quick
<1>5. /\ Waiting(quick) <=> (quick = 0 /\ water > 0) \/ (quick > 0 /\ water > WaterTime - QuickTime)
      /\ Waiting(firstShots) <=>
             (firstShots = 0 /\ water > 0) \/ (firstShots > 0 /\ water > WaterTime - QuickTime)
  BY DEF Waiting
<1>6. /\ Waiting(quick) => water > 0 /\ Waiting(firstShots)
      /\ ~Waiting(quick) => water <= WaterTime - QuickTime
      /\ ~Waiting(quick) /\ quick = 0 => water = 0
      /\ ~Waiting(firstShots) => water <= WaterTime - QuickTime
  <2>1. WaterTime - QuickTime \in Nat
    BY GunTimesAre
  <2>2. quick = 0 => firstShots = 0
    BY <1>2, <1>4
  <2> QED
    BY <1>2, <1>4, <1>5, <2>1, <2>2
<1>7. fires => /\ ~Waiting(quick) /\ Paused = 0 /\ aim = "aims"
  BY <1>3
<1>8. aim = "aims" /\ ~fires => Waiting(quick) \/ Paused > 0
  BY <1>3
<1> HIDE DEF fires
<1>9. reserve' \in (1 - SpentFirst) .. Tank
  <2>1. Tank \in (1 - SpentFirst) .. Tank
    BY GunTimesAre
  <2>2. ~full => level \in (1 - SpentFirst) .. Tank
    BY <1>3, GunTimesAre
  <2> QED
    BY <1>1, <2>1, <2>2
<1>10. reload' \in 0 .. ReloadTime /\ (Paused > 0 => reserve' > 0 /\ reload' <= Paused - 1)
  <2>1. CASE full
    BY <1>1, <1>3, <2>1, GunTimesAre
  <2>2. CASE ~full
    <3>1. reload' = Less(Paused) /\ reserve' = level
      BY <1>1, <2>2
    <3> QED
      BY <1>3, <3>1, GunTimesAre, LessOf
  <2> QED
    BY <2>1, <2>2
<1>11. water' \in 0 .. FirstWater
  <2>1. CASE Waiting(quick)
    BY <1>1, <1>2, <1>6, <2>1, GunTimesAre
  <2>2. CASE ~Waiting(quick)
    BY <1>1, <1>2, <2>2, GunTimesAre
  <2> QED
    BY <2>1, <2>2
<1>12. firstShots' \in 0 .. FirstShots
  BY <1>1, <1>4, GunTimesAre
<1>13. /\ shot' \in Shots
       /\ fires /\ quick > 0 => shot' = "straight"
  <2>1. CASE ~fires
    <3>1. shot' = "none"
      BY <1>1, <2>1
    <3> QED
      BY <2>1, <3>1 DEF Shots
  <2>2. CASE fires /\ quick > 0
    <3>1. shot' = "straight"
      BY <1>1, <2>2
    <3> QED
      BY <3>1 DEF Shots
  <2>3. CASE fires /\ ~(quick > 0)
    <3>1. shot' \in {"curved", "dry"}
      BY <1>1, <2>3
    <3> QED
      BY <2>3, <3>1 DEF Shots
  <2> QED
    BY <2>1, <2>2, <2>3
<1>14. sinceShot' \in 0 .. WaterTime /\ (~fires => sinceShot' = WaterTime \/ sinceShot' = sinceShot + 1)
  BY <1>1, <1>2, GunTimesAre DEF Least
<1>15. /\ eager' \in 0 .. Patience
       /\ fires \/ aim # "aims" => eager' = 0
       /\ eager' <= eager + 1
  BY <1>1, <1>2, GunTimesAre DEF Least
<1>16. GunTypeOK'
  BY <1>1, <1>9, <1>10, <1>11, <1>12, <1>13, <1>14, <1>15 DEF GunTypeOK
<1>17. WaterRuns'
  <2>1. CASE fires
    <3>1. water' = WaterTime /\ sinceShot' = 0
      BY <1>1, <1>7, <2>1
    <3> QED
      BY <3>1, GunTimesAre DEF WaterRuns
  <2>2. CASE ~fires
    <3>1. water' = water \/ water' = water - 1
      BY <1>1, <2>2
    <3>2. water' \in Nat /\ sinceShot' \in Nat
      BY <1>11, <1>14, GunTimesAre
    <3>3. sinceShot + water >= WaterTime
      BY <1>2 DEF WaterRuns
    <3>4. sinceShot' = WaterTime \/ sinceShot' = sinceShot + 1
      BY <1>14, <2>2
    <3> DEFINE since == sinceShot'
               left == water'
    <3>5. /\ left \in Nat /\ since \in Nat /\ (left = water \/ left = water - 1)
          /\ since = WaterTime \/ since = sinceShot + 1
      BY <3>1, <3>2, <3>4
    <3> HIDE DEF since, left
    <3>6. since + left >= WaterTime
      BY <1>2, <3>3, <3>5, GunTimesAre
    <3> QED
      BY <3>6 DEF WaterRuns, since, left
  <2> QED
    BY <2>1, <2>2
<1>18. sinceShot' = 0 => sinceShot >= IF shot' = "straight" THEN QuickTime ELSE WaterTime
  <2>1. sinceShot' = 0 => fires
    BY <1>2, <1>14, GunTimesAre
  <2>2. CASE fires /\ quick > 0
    <3>1. shot' = "straight" /\ water <= WaterTime - QuickTime
      BY <1>6, <1>7, <1>13, <2>2
    <3>2. sinceShot + water >= WaterTime
      BY <1>2 DEF WaterRuns
    <3>3. sinceShot >= QuickTime
      BY <1>2, <3>1, <3>2, GunTimesAre
    <3> QED
      BY <3>1, <3>3
  <2>3. CASE fires /\ ~(quick > 0)
    <3>1. water = 0
      BY <1>4, <1>6, <1>7, <2>3
    <3>2. sinceShot >= WaterTime
      BY <1>2, <3>1, GunTimesAre DEF WaterRuns
    <3> QED
      BY <1>2, <3>2, GunTimesAre
  <2> QED
    BY <2>1, <2>2, <2>3
<1>19. Paused' \in Nat /\ Paused' <= ReloadTime
       /\ (Paused > 0 => Paused' <= Paused - 1)
  <2>1. Paused' = IF reserve' <= 0 THEN ReloadTime ELSE reload'
    BY DEF Paused
  <2>2. reserve' \in Int /\ reload' \in Nat /\ reload' <= ReloadTime
    BY <1>9, <1>10, GunTimesAre
  <2>3. Paused > 0 => ~(reserve' <= 0)
    BY <1>10, <2>2
  <2> QED
    BY <1>10, <2>1, <2>2, <2>3, GunTimesAre
<1>20. Waiting(firstShots)' <=>
           \/ firstShots' = 0 /\ water' > 0
           \/ firstShots' > 0 /\ water' > WaterTime - QuickTime
  BY DEF Waiting
<1>21. /\ Waiting(firstShots)' => eager' + water' <= FirstWater
       /\ Waiting(firstShots)' /\ firstShots' = 0 => eager' + water' <= WaterTime
       /\ ~Waiting(firstShots)' => eager' + Paused' < FirstWater + ReloadTime
  <2> DEFINE e == eager'
             w == water'
             p == Paused'
  <2>1. /\ e \in Nat /\ w \in Nat /\ firstShots' \in Nat /\ p \in Nat
        /\ p <= ReloadTime /\ e <= eager + 1
        /\ eager \in Nat /\ water \in Nat /\ Paused \in Nat
    BY <1>2, <1>3, <1>11, <1>12, <1>15, <1>19, GunTimesAre
  <2>2. /\ fires => w = WaterTime /\ e = 0
        /\ Waiting(quick) => w = water - 1
        /\ ~Waiting(quick) /\ ~fires => w = water
        /\ ~fires => firstShots' = quick
        /\ aim # "aims" => e = 0
        /\ Paused > 0 => p <= Paused - 1
        /\ Waiting(firstShots)' <=>
               (firstShots' = 0 /\ w > 0) \/ (firstShots' > 0 /\ w > WaterTime - QuickTime)
    BY <1>1, <1>7, <1>15, <1>19, <1>20
  <2> HIDE DEF e, w, p
  <2>3. CASE fires
    <3>1. w = WaterTime /\ e = 0
      BY <2>2, <2>3
    <3>2. e + w <= WaterTime /\ e + w <= FirstWater
      BY <3>1, GunTimesAre
    <3>3. e + p < FirstWater + ReloadTime
      BY <2>1, <3>1, GunTimesAre
    <3> QED
      BY <3>2, <3>3 DEF e, w, p
  <2>4. CASE Waiting(quick)
    <3>1. ~fires
      BY <1>7, <2>4
    <3>2. w = water - 1 /\ firstShots' = quick /\ Waiting(firstShots)
      BY <1>6, <2>2, <2>4, <3>1
    <3>3. eager + water <= FirstWater
      BY <1>2, <3>2 DEF WaitsInTime
    <3>4. e + w <= FirstWater
      BY <2>1, <3>2, <3>3, GunTimesAre
    <3>5. ASSUME firstShots' = 0 PROVE e + w <= WaterTime
      <4>1. firstShots = 0
        BY <1>2, <1>4, <3>2, <3>5
      <4>2. eager + water <= WaterTime
        BY <1>2, <3>2, <4>1 DEF WaitsInTime
      <4> QED
        BY <2>1, <3>2, <4>2, GunTimesAre
    <3>6. e < FirstWater
      <4>1. CASE firstShots' = 0
        <5>1. e + w <= WaterTime
          BY <3>5, <4>1
        <5> QED
          BY <2>1, <5>1, GunTimesAre
      <4>2. CASE firstShots' # 0
        <5>1. quick > 0 /\ ~(quick = 0)
          BY <1>4, <3>2, <4>2
        <5>2. water > WaterTime - QuickTime
          BY <1>5, <2>4, <5>1
        <5>3. w > 0
          BY <2>1, <3>2, <5>2, GunTimesAre
        <5> QED
          BY <2>1, <3>4, <5>3, GunTimesAre
      <4> QED
        BY <4>1, <4>2
    <3>7. e + p < FirstWater + ReloadTime
      BY <2>1, <3>6, GunTimesAre
    <3> QED
      BY <3>4, <3>5, <3>7 DEF e, w, p
  <2>5. CASE ~Waiting(quick) /\ ~fires
    <3>1. w = water /\ firstShots' = quick
      BY <2>2, <2>5
    <3>2. ~Waiting(firstShots)'
      BY <1>5, <2>2, <2>5, <3>1
    <3>3. CASE aim # "aims"
      <4>1. e = 0
        BY <2>2, <3>3
      <4>2. e + p < FirstWater + ReloadTime
        BY <2>1, <4>1, GunTimesAre
      <4> QED
        BY <3>2, <4>2 DEF e, w, p
    <3>4. CASE aim = "aims"
      <4>1. Paused > 0 /\ p <= Paused - 1
        BY <1>8, <2>2, <2>5, <3>4
      <4>2. eager + Paused < FirstWater + ReloadTime
        <5>1. CASE ~Waiting(firstShots)
          BY <1>2, <5>1 DEF WaitsInTime
        <5>2. CASE Waiting(firstShots)
          <6>1. full
            BY <1>4, <2>5, <5>2
          <6>2. quick > 0 /\ ~(quick = 0)
            BY <1>4, <6>1
          <6>3. ~(water > WaterTime - QuickTime)
            BY <1>5, <2>5, <6>2
          <6>4. firstShots = 0 /\ water > 0
            BY <1>5, <5>2, <6>3
          <6>5. eager + water <= WaterTime
            BY <1>2, <5>2, <6>4 DEF WaitsInTime
          <6>6. Paused <= ReloadTime
            BY <1>3, GunTimesAre
          <6> QED
            BY <2>1, <6>5, <6>6, GunTimesAre
        <5> QED
          BY <5>1, <5>2
      <4>3. e + p < FirstWater + ReloadTime
        BY <2>1, <4>1, <4>2, GunTimesAre
      <4> QED
        BY <3>2, <4>3 DEF e, w, p
    <3> QED
      BY <3>3, <3>4
  <2> QED
    BY <2>3, <2>4, <2>5
<1>22. WaitsInTime'
  BY <1>21 DEF WaitsInTime
<1> QED
  BY <1>16, <1>17, <1>18, <1>22 DEF GunInv

LEMMA GunStep ==
  ASSUME GunInv, [GunNext]_gunVars
  PROVE  /\ GunInv'
         /\ [sinceShot' = 0 => sinceShot >= IF shot' = "straight" THEN QuickTime ELSE WaterTime]_gunVars
<1>1. CASE UNCHANGED gunVars
  BY <1>1 DEF gunVars, GunInv, GunTypeOK, WaitsInTime, WaterRuns, Waiting, Paused
<1>2. CASE \E aim \in {"no", "aims", "stomps"} : GunTick(aim)
  BY <1>2, GunKeeps
<1> QED
  BY <1>1, <1>2 DEF GunNext

\* Who aims shoots after the pause and one turn of waterTimer at the latest.
LEMMA InvShootsSoon == GunInv => ShootsSoon
<1> SUFFICES ASSUME GunInv PROVE ShootsSoon
  OBVIOUS
<1>1. /\ eager \in Nat /\ water \in Nat /\ Paused \in Nat /\ WaitsInTime
  <2>1. GunTypeOK /\ WaitsInTime
    BY DEF GunInv
  <2>2. Paused \in 0 .. ReloadTime
    BY <2>1, TankIs
  <2>3. eager \in 0 .. Patience /\ water \in 0 .. FirstWater
    BY <2>1 DEF GunTypeOK
  <2> QED
    BY <2>1, <2>2, <2>3, GunTimesAre
<1>2. CASE Waiting(firstShots)
  <2>1. eager + water <= FirstWater
    BY <1>1, <1>2 DEF WaitsInTime
  <2> QED
    BY <1>1, <2>1, GunTimesAre DEF ShootsSoon
<1>3. CASE ~Waiting(firstShots)
  <2>1. eager + Paused < FirstWater + ReloadTime
    BY <1>1, <1>3 DEF WaitsInTime
  <2> QED
    BY <1>1, <2>1, GunTimesAre DEF ShootsSoon
<1> QED
  BY <1>2, <1>3

\* The gun keeps its types, and who aims without stomping shoots within the pause and one
\* turn of waterTimer, for any tank and any times of this order (player_character.cpp:411-472).
THEOREM ShootsSoonAlways == GunSpec => [](GunTypeOK /\ ShootsSoon)
<1>1. GunInv => GunTypeOK
  BY DEF GunInv
<1> QED
  BY <1>1, GunInitially, GunStep, InvShootsSoon, PTL DEF GunSpec

\* Shots are as far apart as the timers say, however the tank is refilled
\* (player_character.cpp:446).
THEOREM ShotsApartAlways == GunSpec => ShotsApart
BY GunInitially, GunStep, PTL DEF GunSpec, ShotsApart
-----------------------------------------------------------------------------
(* The view of a character. *)

PlayerRenderData == [state : PlayerRenderState, isRespawning : BOOLEAN, jetSound : BOOLEAN]

\* What an update shows of a character that is in the game.
DrawnNext(s, state) == Follows(s)[Interrupted(s, state)]

\* The next updates change nothing, and what is drawn suits what is seen.
Fits(s, d) == /\ d.isRespawning = s.away
              /\ Updated(s, d) = d
              /\ ~s.away => Suits(d.state, s)

\* ... after so many updates.
Fits1(s, d) == Fits(s, Updated(s, d))
Fits2(s, d) == Fits1(s, Updated(s, d))
Fits3(s, d) == Fits2(s, Updated(s, d))
Fits4(s, d) == Fits3(s, Updated(s, d))

\* Who is out of the game is shown as IDLE when it comes back.
OutIsIdle(d) == d.isRespawning => d.state = "IDLE"

\* The updates without a change of the game are those the view still lacks.
ViewInv == /\ ViewTypeOK /\ JetHeard /\ OutIsIdle(drawn)
           /\ Fits4(sight, drawn)
           /\ still >= 1 => Fits3(sight, drawn)
           /\ still >= 2 => Fits2(sight, drawn)
           /\ still >= 3 => Fits1(sight, drawn)
           /\ still >= 4 => Fits(sight, drawn)

\* What the view reads of a sight.
Reads(s) == /\ s.away \in BOOLEAN /\ s.grounded \in BOOLEAN /\ s.jumping \in BOOLEAN
            /\ s.shooting \in BOOLEAN
            /\ s.dash \in {"none", "prep", "dash"} /\ s.walk \in {"below", "at", "above"}
            /\ s.aim \in {"behind", "across", "ahead"} /\ s.up \in {"below", "between", "above"}

LEMMA ReadingsAre ==
  /\ DOMAIN Readings = {"away", "grounded", "dash", "jumping", "walk", "aim", "up", "shooting"}
  /\ Readings.away = BOOLEAN /\ Readings.grounded = BOOLEAN /\ Readings.jumping = BOOLEAN
  /\ Readings.shooting = BOOLEAN
  /\ Readings.dash = {"none", "prep", "dash"} /\ Readings.walk = {"below", "at", "above"}
  /\ Readings.aim = {"behind", "across", "ahead"} /\ Readings.up = {"below", "between", "above"}
BY DEF Readings

LEMMA SightReads ==
  ASSUME NEW s, \A field \in DOMAIN Readings : s[field] \in Readings[field]
  PROVE  Reads(s)
BY ReadingsAre DEF Reads

\* The states after each state, one by one.
LEMMA ShownIs ==
  ASSUME NEW s, Reads(s)
  PROVE  /\ \A state : s.dash = "prep" => DrawnNext(s, state) = "DASHPREP"
         /\ \A state : s.dash = "dash" => DrawnNext(s, state) = "DASH"
         /\ s.dash = "none" =>
              /\ DrawnNext(s, "IDLE") = Grounds(s, IF s.walk = "above" THEN "WALK"
                                               ELSE IF s.shooting THEN "SHOOT" ELSE "IDLE")
              /\ DrawnNext(s, "WALK") = IF s.walk = "below" THEN "IDLE"
                                    ELSE IF s.aim = "behind" THEN "WALK_BACK" ELSE Grounds(s, "WALK")
              /\ DrawnNext(s, "WALK_BACK") = IF s.walk = "below" THEN "IDLE"
                                         ELSE IF s.aim = "ahead" THEN "WALK" ELSE Grounds(s, "WALK_BACK")
              /\ DrawnNext(s, "FALL") = IF s.grounded THEN "IDLE" ELSE IF s.up # "above" THEN "FALL"
                                    ELSE IF s.jumping THEN "JETBURST" ELSE "JET"
              /\ DrawnNext(s, "SHOOT") = IF s.walk = "above" THEN "WALK" ELSE IF s.shooting THEN "SHOOT" ELSE "IDLE"
              /\ DrawnNext(s, "JET") = IF s.jumping THEN "JETBURST" ELSE IF s.up = "below" THEN "FALL"
                                   ELSE IF s.grounded THEN "IDLE" ELSE "JET"
              /\ DrawnNext(s, "JETBURST") = IF s.jumping THEN "JETBURST" ELSE IF s.up = "above" THEN "JET" ELSE "FALL"
              /\ DrawnNext(s, "DASHPREP") = "FALL" /\ DrawnNext(s, "DASH") = "FALL"
<1>1. /\ Follows(s)["DASHPREP"] = IF s.dash = "prep" THEN "DASHPREP" ELSE "FALL"
      /\ Follows(s)["DASH"] = IF s.dash = "dash" THEN "DASH" ELSE "FALL"
  BY DEF Follows
<1>2. /\ \A state : s.dash = "prep" => Interrupted(s, state) = "DASHPREP"
      /\ \A state : s.dash = "dash" => Interrupted(s, state) = "DASH"
      /\ \A state : s.dash = "none" => Interrupted(s, state) = state
  BY DEF Interrupted
<1>3. /\ Follows(s)["IDLE"] = Grounds(s, IF s.walk = "above" THEN "WALK"
                                         ELSE IF s.shooting THEN "SHOOT" ELSE "IDLE")
      /\ Follows(s)["WALK"] = IF s.walk = "below" THEN "IDLE"
                              ELSE IF s.aim = "behind" THEN "WALK_BACK" ELSE Grounds(s, "WALK")
      /\ Follows(s)["WALK_BACK"] = IF s.walk = "below" THEN "IDLE"
                                   ELSE IF s.aim = "ahead" THEN "WALK" ELSE Grounds(s, "WALK_BACK")
  BY DEF Follows
<1>4. /\ Follows(s)["FALL"] = IF s.grounded THEN "IDLE" ELSE IF s.up # "above" THEN "FALL"
                              ELSE IF s.jumping THEN "JETBURST" ELSE "JET"
      /\ Follows(s)["SHOOT"] = IF s.walk = "above" THEN "WALK" ELSE IF s.shooting THEN "SHOOT" ELSE "IDLE"
      /\ Follows(s)["JET"] = IF s.jumping THEN "JETBURST" ELSE IF s.up = "below" THEN "FALL"
                             ELSE IF s.grounded THEN "IDLE" ELSE "JET"
      /\ Follows(s)["JETBURST"] = IF s.jumping THEN "JETBURST" ELSE IF s.up = "above" THEN "JET" ELSE "FALL"
  BY DEF Follows
<1>5. CASE s.dash = "prep"
  BY <1>1, <1>2, <1>5 DEF DrawnNext
<1>6. CASE s.dash = "dash"
  BY <1>1, <1>2, <1>6 DEF DrawnNext
<1>7. CASE s.dash = "none"
  BY <1>1, <1>2, <1>3, <1>4, <1>7 DEF DrawnNext
<1> QED
  BY <1>5, <1>6, <1>7 DEF Reads

LEMMA ShownIsAState ==
  ASSUME NEW s, Reads(s), NEW state \in PlayerRenderState
  PROVE  DrawnNext(s, state) \in PlayerRenderState
<1>1. CASE s.dash = "none"
  BY <1>1, ShownIs DEF PlayerRenderState, OnTheGround, InTheAir, Grounds
<1> QED
  BY <1>1, ShownIs DEF PlayerRenderState, Reads

\* JET is switched to where the sound is faded in, or stays.
LEMMA UpdatesToJet ==
  ASSUME NEW s, Reads(s), NEW state \in PlayerRenderState, DrawnNext(s, state) = "JET"
  PROVE  \/ Interrupted(s, state) \in {"FALL", "JETBURST"}
         \/ Interrupted(s, state) = "JET" /\ state = "JET"
<1>1. s.dash = "none"
  BY ShownIs DEF Reads
<1>2. Interrupted(s, state) = state
  BY <1>1 DEF Interrupted
<1>3. state \in {"FALL", "JETBURST", "JET"}
  BY <1>1, ShownIs DEF PlayerRenderState, OnTheGround, InTheAir, Grounds
<1> QED
  BY <1>2, <1>3

LEMMA UpdatedIs ==
  ASSUME NEW s, Reads(s), NEW d \in PlayerRenderData
  PROVE  /\ Updated(s, d) \in PlayerRenderData
         /\ Updated(s, d).isRespawning = s.away
         /\ Updated(s, d).state = IF d.isRespawning THEN d.state
                                  ELSE IF s.away THEN "IDLE" ELSE DrawnNext(s, d.state)
         /\ Updated(s, d).jetSound = IF d.isRespawning \/ s.away THEN d.jetSound
              ELSE Heard(Interrupted(s, d.state), DrawnNext(s, d.state), d.jetSound)
<1>1. /\ d.state \in PlayerRenderState /\ d.isRespawning \in BOOLEAN /\ d.jetSound \in BOOLEAN
      /\ s.away \in BOOLEAN /\ "IDLE" \in PlayerRenderState
  BY DEF PlayerRenderData, Reads, PlayerRenderState, OnTheGround
<1>2. CASE d.isRespawning
  <2> DEFINE a == s.away
  <2>1. Updated(s, d) = [d EXCEPT !.isRespawning = a]
    BY <1>2 DEF Updated
  <2>2. a \in BOOLEAN
    BY <1>1
  <2>3. a = s.away
    OBVIOUS
  <2> HIDE DEF a
  <2>4. [d EXCEPT !.isRespawning = a] \in PlayerRenderData
    BY <2>2 DEF PlayerRenderData
  <2>5. /\ [d EXCEPT !.isRespawning = a].isRespawning = a
        /\ [d EXCEPT !.isRespawning = a].state = d.state
        /\ [d EXCEPT !.isRespawning = a].jetSound = d.jetSound
    BY DEF PlayerRenderData
  <2> QED
    BY <1>2, <2>1, <2>3, <2>4, <2>5
<1>3. CASE ~d.isRespawning /\ s.away
  <2>1. Updated(s, d) = [d EXCEPT !.isRespawning = TRUE, !.state = "IDLE"]
    BY <1>3 DEF Updated
  <2>2. [d EXCEPT !.isRespawning = TRUE, !.state = "IDLE"] \in PlayerRenderData
    BY <1>1 DEF PlayerRenderData
  <2>3. /\ [d EXCEPT !.isRespawning = TRUE, !.state = "IDLE"].isRespawning = TRUE
        /\ [d EXCEPT !.isRespawning = TRUE, !.state = "IDLE"].state = "IDLE"
        /\ [d EXCEPT !.isRespawning = TRUE, !.state = "IDLE"].jetSound = d.jetSound
    BY DEF PlayerRenderData
  <2> QED
    BY <1>1, <1>3, <2>1, <2>2, <2>3
<1>4. CASE ~d.isRespawning /\ ~s.away
  <2> DEFINE after == DrawnNext(s, d.state)
             sound == Heard(Interrupted(s, d.state), after, d.jetSound)
  <2>1. Updated(s, d) = [d EXCEPT !.state = after, !.jetSound = sound]
    BY <1>4 DEF Updated, Shows, DrawnNext
  <2>2. after \in PlayerRenderState
    BY <1>1, ShownIsAState
  <2>3. sound \in BOOLEAN
    BY <1>1 DEF Heard
  <2>4. after = DrawnNext(s, d.state) /\ sound = Heard(Interrupted(s, d.state), DrawnNext(s, d.state), d.jetSound)
    OBVIOUS
  <2> HIDE DEF after, sound
  <2>5. [d EXCEPT !.state = after, !.jetSound = sound] \in PlayerRenderData
    BY <2>2, <2>3 DEF PlayerRenderData
  <2>6. /\ [d EXCEPT !.state = after, !.jetSound = sound].isRespawning = d.isRespawning
        /\ [d EXCEPT !.state = after, !.jetSound = sound].state = after
        /\ [d EXCEPT !.state = after, !.jetSound = sound].jetSound = sound
    BY DEF PlayerRenderData
  <2>7. d.isRespawning = s.away
    BY <1>1, <1>4
  <2> QED
    BY <1>4, <2>1, <2>4, <2>5, <2>6, <2>7
<1> QED
  BY <1>1, <1>2, <1>3, <1>4

LEMMA SameData ==
  ASSUME NEW d \in PlayerRenderData, NEW e \in PlayerRenderData,
         d.state = e.state, d.isRespawning = e.isRespawning, d.jetSound = e.jetSound
  PROVE  d = e
BY DEF PlayerRenderData

\* Four switches find the state that stays and suits, three of them after IDLE.
LEMMA FourSteps ==
  ASSUME NEW s, Reads(s), NEW state \in PlayerRenderState,
         NEW a, NEW b, NEW c, NEW e,
         a = DrawnNext(s, state), b = DrawnNext(s, a), c = DrawnNext(s, b), e = DrawnNext(s, c)
  PROVE  /\ DrawnNext(s, e) = e /\ Suits(e, s)
         /\ state = "IDLE" => DrawnNext(s, c) = c /\ Suits(c, s)
<1>1. CASE s.dash = "prep"
  BY <1>1, ShownIs DEF Suits
<1>2. CASE s.dash = "dash"
  BY <1>2, ShownIs DEF Suits
<1>3. CASE s.dash = "none" /\ s.grounded
  <2> DEFINE n(x) == DrawnNext(s, x)
  <2>1. /\ n("IDLE") = IF s.walk = "above" THEN "WALK" ELSE IF s.shooting THEN "SHOOT" ELSE "IDLE"
        /\ n("WALK") = IF s.walk = "below" THEN "IDLE" ELSE IF s.aim = "behind" THEN "WALK_BACK" ELSE "WALK"
        /\ n("WALK_BACK") = IF s.walk = "below" THEN "IDLE" ELSE IF s.aim = "ahead" THEN "WALK" ELSE "WALK_BACK"
        /\ n("FALL") = "IDLE"
        /\ n("SHOOT") = IF s.walk = "above" THEN "WALK" ELSE IF s.shooting THEN "SHOOT" ELSE "IDLE"
        /\ n("JET") = IF s.jumping THEN "JETBURST" ELSE IF s.up = "below" THEN "FALL" ELSE "IDLE"
        /\ n("JETBURST") = IF s.jumping THEN "JETBURST" ELSE IF s.up = "above" THEN "JET" ELSE "FALL"
        /\ n("DASHPREP") = "FALL" /\ n("DASH") = "FALL"
    BY <1>3, ShownIs DEF Grounds
  <2>2. /\ state \in {"IDLE", "WALK", "WALK_BACK", "SHOOT", "JET", "JETBURST", "FALL", "DASHPREP", "DASH"}
        /\ a = n(state) /\ b = n(a) /\ c = n(b) /\ e = n(c)
    BY DEF PlayerRenderState, OnTheGround, InTheAir
  <2>3. Suits(e, s) <=> e \in OnTheGround \/ (e = "JETBURST" /\ s.jumping)
    BY <1>3 DEF Suits
  <2>4. Suits(c, s) <=> c \in OnTheGround \/ (c = "JETBURST" /\ s.jumping)
    BY <1>3 DEF Suits
  <2> HIDE DEF n
  <2>5. n(e) = e /\ (e \in OnTheGround \/ (e = "JETBURST" /\ s.jumping))
    BY <2>1, <2>2 DEF OnTheGround, Reads
  <2>6. state = "IDLE" => n(c) = c /\ (c \in OnTheGround \/ (c = "JETBURST" /\ s.jumping))
    BY <2>1, <2>2 DEF OnTheGround, Reads
  <2> QED
    BY <2>3, <2>4, <2>5, <2>6 DEF n
<1>4. CASE s.dash = "none" /\ ~s.grounded
  <2> DEFINE n(x) == DrawnNext(s, x)
  <2>1. /\ n("IDLE") = "FALL"
        /\ n("WALK") = IF s.walk = "below" THEN "IDLE" ELSE IF s.aim = "behind" THEN "WALK_BACK" ELSE "FALL"
        /\ n("WALK_BACK") = IF s.walk = "below" THEN "IDLE" ELSE IF s.aim = "ahead" THEN "WALK" ELSE "FALL"
        /\ n("FALL") = IF s.up # "above" THEN "FALL" ELSE IF s.jumping THEN "JETBURST" ELSE "JET"
        /\ n("SHOOT") = IF s.walk = "above" THEN "WALK" ELSE IF s.shooting THEN "SHOOT" ELSE "IDLE"
        /\ n("JET") = IF s.jumping THEN "JETBURST" ELSE IF s.up = "below" THEN "FALL" ELSE "JET"
        /\ n("JETBURST") = IF s.jumping THEN "JETBURST" ELSE IF s.up = "above" THEN "JET" ELSE "FALL"
        /\ n("DASHPREP") = "FALL" /\ n("DASH") = "FALL"
    BY <1>4, ShownIs DEF Grounds
  <2>2. /\ state \in {"IDLE", "WALK", "WALK_BACK", "SHOOT", "JET", "JETBURST", "FALL", "DASHPREP", "DASH"}
        /\ a = n(state) /\ b = n(a) /\ c = n(b) /\ e = n(c)
    BY DEF PlayerRenderState, OnTheGround, InTheAir
  <2>3. Suits(e, s) <=> e \in InTheAir \/ (e = "SHOOT" /\ s.shooting /\ s.walk # "above")
    BY <1>4 DEF Suits
  <2>4. Suits(c, s) <=> c \in InTheAir \/ (c = "SHOOT" /\ s.shooting /\ s.walk # "above")
    BY <1>4 DEF Suits
  <2> HIDE DEF n
  <2>5. n(e) = e /\ (e \in InTheAir \/ (e = "SHOOT" /\ s.shooting /\ s.walk # "above"))
    BY <2>1, <2>2 DEF InTheAir, Reads
  <2>6. state = "IDLE" => n(c) = c /\ (c \in InTheAir \/ (c = "SHOOT" /\ s.shooting /\ s.walk # "above"))
    BY <2>1, <2>2 DEF InTheAir, Reads
  <2> QED
    BY <2>3, <2>4, <2>5, <2>6 DEF n
<1> QED
  BY <1>1, <1>2, <1>3, <1>4 DEF Reads

\* What the next update keeps or finds.
LEMMA FitsIf ==
  ASSUME NEW s, Reads(s), NEW d \in PlayerRenderData, d.isRespawning = s.away,
         d.state = "JET" => d.jetSound,
         ~s.away => DrawnNext(s, d.state) = d.state /\ Suits(d.state, s)
  PROVE  Fits(s, d)
<1>1. /\ Updated(s, d) \in PlayerRenderData /\ Updated(s, d).isRespawning = s.away
      /\ d.isRespawning \in BOOLEAN /\ d.jetSound \in BOOLEAN /\ s.away \in BOOLEAN
  BY UpdatedIs DEF PlayerRenderData, Reads
<1>2. CASE s.away
  <2>1. Updated(s, d).state = d.state /\ Updated(s, d).jetSound = d.jetSound
    BY <1>1, <1>2, UpdatedIs
  <2>2. Updated(s, d) = d
    BY <1>1, <2>1, SameData
  <2> QED
    BY <1>2, <2>2 DEF Fits
<1>3. CASE ~s.away
  <2>1. /\ Updated(s, d).state = d.state
        /\ Updated(s, d).jetSound = Heard(Interrupted(s, d.state), d.state, d.jetSound)
    BY <1>1, <1>3, UpdatedIs
  <2>2. Interrupted(s, d.state) = "JET" => d.state = "JET"
    BY DEF Interrupted
  <2>3. Heard(Interrupted(s, d.state), d.state, d.jetSound) = d.jetSound
    <3>1. d.state = "JET" => d.jetSound = TRUE
      BY <1>1
    <3> QED
      BY <1>1, <2>2, <3>1 DEF Heard
  <2>4. Updated(s, d) = d
    BY <1>1, <2>1, <2>3, SameData
  <2> QED
    BY <1>3, <2>4 DEF Fits
<1> QED
  BY <1>1, <1>2, <1>3

LEMMA UpdatedHeard ==
  ASSUME NEW s, Reads(s), NEW d \in PlayerRenderData, d.state = "JET" => d.jetSound, OutIsIdle(d)
  PROVE  /\ Updated(s, d).state = "JET" => Updated(s, d).jetSound
         /\ OutIsIdle(Updated(s, d))
<1>1. /\ d.isRespawning \in BOOLEAN /\ d.jetSound \in BOOLEAN /\ s.away \in BOOLEAN
  BY DEF PlayerRenderData, Reads
<1> DEFINE u == Updated(s, d)
<1>2. /\ u.isRespawning = s.away
      /\ u.state = IF d.isRespawning THEN d.state ELSE IF s.away THEN "IDLE" ELSE DrawnNext(s, d.state)
      /\ u.jetSound = IF d.isRespawning \/ s.away THEN d.jetSound
           ELSE Heard(Interrupted(s, d.state), DrawnNext(s, d.state), d.jetSound)
  BY UpdatedIs
<1> HIDE DEF u
<1>3. u.state = "JET" => u.jetSound
  <2>1. CASE d.isRespawning \/ s.away
    BY <1>1, <1>2, <2>1 DEF OutIsIdle
  <2>2. CASE ~d.isRespawning /\ ~s.away
    <3>1. DrawnNext(s, d.state) = "JET" =>
              \/ Interrupted(s, d.state) \in {"FALL", "JETBURST"}
              \/ Interrupted(s, d.state) = "JET" /\ d.state = "JET"
      BY UpdatesToJet DEF PlayerRenderData
    <3>2. u.state = DrawnNext(s, d.state)
          /\ u.jetSound = Heard(Interrupted(s, d.state), DrawnNext(s, d.state), d.jetSound)
      BY <1>1, <1>2, <2>2
    <3> QED
      BY <3>1, <3>2 DEF Heard
  <2> QED
    BY <1>1, <2>1, <2>2
<1>4. u.isRespawning => u.state = "IDLE"
  BY <1>1, <1>2 DEF OutIsIdle
<1> QED
  BY <1>3, <1>4 DEF u, OutIsIdle

\* From whatever is drawn four updates are enough.
LEMMA FourUpdates ==
  ASSUME NEW s, Reads(s), NEW d \in PlayerRenderData, d.state = "JET" => d.jetSound, OutIsIdle(d)
  PROVE  Fits4(s, d)
<1> DEFINE a == Updated(s, d)
           b == Updated(s, a)
           c == Updated(s, b)
           e == Updated(s, c)
<1>1. Fits(s, e) => Fits4(s, d)
  BY DEF Fits4, Fits3, Fits2, Fits1
<1>2. a \in PlayerRenderData /\ a.isRespawning = s.away /\ (a.state = "JET" => a.jetSound) /\ OutIsIdle(a)
  BY UpdatedIs, UpdatedHeard
<1>3. b \in PlayerRenderData /\ b.isRespawning = s.away /\ (b.state = "JET" => b.jetSound) /\ OutIsIdle(b)
  <2> HIDE DEF a
  <2> QED
    BY <1>2, UpdatedIs, UpdatedHeard
<1>4. c \in PlayerRenderData /\ c.isRespawning = s.away /\ (c.state = "JET" => c.jetSound) /\ OutIsIdle(c)
  <2> HIDE DEF b
  <2> QED
    BY <1>3, UpdatedIs, UpdatedHeard
<1>5. e \in PlayerRenderData /\ e.isRespawning = s.away /\ (e.state = "JET" => e.jetSound) /\ OutIsIdle(e)
  <2> HIDE DEF c
  <2> QED
    BY <1>4, UpdatedIs, UpdatedHeard
<1>6. /\ a.state = IF d.isRespawning THEN d.state ELSE IF s.away THEN "IDLE" ELSE DrawnNext(s, d.state)
      /\ d.isRespawning \in BOOLEAN /\ s.away \in BOOLEAN /\ d.state \in PlayerRenderState
  BY UpdatedIs DEF PlayerRenderData, Reads
<1>7. ~s.away => b.state = DrawnNext(s, a.state)
  <2> HIDE DEF a
  <2> QED
    BY <1>2, UpdatedIs
<1>8. ~s.away => c.state = DrawnNext(s, b.state)
  <2> HIDE DEF b
  <2> QED
    BY <1>3, UpdatedIs
<1>9. ~s.away => e.state = DrawnNext(s, c.state)
  <2> HIDE DEF c
  <2> QED
    BY <1>4, UpdatedIs
<1> HIDE DEF a, b, c, e
<1>10. ~s.away => DrawnNext(s, e.state) = e.state /\ Suits(e.state, s)
  <2> SUFFICES ASSUME ~s.away PROVE DrawnNext(s, e.state) = e.state /\ Suits(e.state, s)
    OBVIOUS
  <2>1. CASE d.isRespawning
    <3>1. a.state = "IDLE" /\ a.state \in PlayerRenderState
      BY <1>2, <1>6, <2>1 DEF OutIsIdle
    <3> QED
      BY <1>7, <1>8, <1>9, <3>1, FourSteps
  <2>2. CASE ~d.isRespawning
    BY <1>6, <1>7, <1>8, <1>9, <2>2, FourSteps
  <2> QED
    BY <1>6, <2>1, <2>2
<1> QED
  BY <1>1, <1>5, <1>10, FitsIf

LEMMA ViewInitially == ViewInit => ViewInv
<1> SUFFICES ASSUME ViewInit PROVE ViewInv
  OBVIOUS
<1>1. /\ drawn \in PlayerRenderData /\ drawn.state = "IDLE" /\ OutIsIdle(drawn)
      /\ still = 0 /\ viewLoaded \in BOOLEAN
  BY DEF ViewInit, PlayerRenderData, PlayerRenderState, OnTheGround, OutIsIdle
<1>2. /\ DOMAIN sight = DOMAIN Readings
      /\ \A field \in DOMAIN Readings : sight[field] \in Readings[field]
  <2>1. /\ DOMAIN sight = {"away", "grounded", "dash", "jumping", "walk", "aim", "up", "shooting"}
        /\ sight.away = TRUE /\ sight.grounded = FALSE /\ sight.jumping = FALSE
        /\ sight.shooting = FALSE /\ sight.dash = "none" /\ sight.walk = "below"
        /\ sight.aim = "across" /\ sight.up = "below"
    BY DEF ViewInit
  <2>2. /\ sight.away \in Readings.away /\ sight.grounded \in Readings.grounded
        /\ sight.jumping \in Readings.jumping /\ sight.shooting \in Readings.shooting
        /\ sight.dash \in Readings.dash /\ sight.walk \in Readings.walk
        /\ sight.aim \in Readings.aim /\ sight.up \in Readings.up
    BY <2>1, ReadingsAre
  <2> QED
    BY <2>1, <2>2, ReadingsAre
<1>3. Fits4(sight, drawn)
  BY <1>1, <1>2, SightReads, FourUpdates
<1>4. ViewTypeOK
  BY <1>1, <1>2, ViewAssumption DEF ViewTypeOK, PlayerRenderData
<1> QED
  BY <1>1, <1>3, <1>4 DEF ViewInv, JetHeard

LEMMA ViewStep ==
  ASSUME ViewInv, [ViewNext]_viewVars
  PROVE  ViewInv'
<1>1. /\ ViewTypeOK /\ drawn \in PlayerRenderData /\ OutIsIdle(drawn)
      /\ drawn.state = "JET" => drawn.jetSound
      /\ Reads(sight) /\ still \in 0 .. Settle /\ still \in Nat
      /\ Settle \in Nat /\ Settle >= 4
  BY SightReads, ViewAssumption DEF ViewInv, ViewTypeOK, JetHeard, PlayerRenderData
<1>2. CASE GameMoves
  <2>1. PICK field \in DOMAIN Readings : \E reading \in Readings[field] :
            sight' = [sight EXCEPT ![field] = reading]
    BY <1>2 DEF GameMoves
  <2>2. PICK reading \in Readings[field] : sight' = [sight EXCEPT ![field] = reading]
    BY <2>1
  <2>3. DOMAIN sight' = DOMAIN Readings /\ (\A x \in DOMAIN Readings : sight'[x] \in Readings[x])
    BY <1>1, <2>2 DEF ViewTypeOK
  <2>4. drawn' = drawn /\ viewLoaded' = viewLoaded /\ still' = 0
    BY <1>2 DEF GameMoves
  <2>5. Reads(sight')
    BY <2>3, SightReads
  <2>6. Fits4(sight', drawn)
    BY <1>1, <2>5, FourUpdates
  <2>7. ViewTypeOK'
    BY <1>1, <2>3, <2>4 DEF ViewTypeOK
  <2>8. JetHeard' /\ OutIsIdle(drawn')
    BY <1>1, <2>4 DEF JetHeard
  <2>9. Fits4(sight', drawn')
    BY <2>4, <2>6
  <2> QED
    BY <2>4, <2>7, <2>8, <2>9 DEF ViewInv
<1>3. CASE ViewLoads
  BY <1>3 DEF ViewLoads, ViewInv, ViewTypeOK, JetHeard
<1>4. CASE ViewUpdates
  <2>1. /\ drawn' = Updated(sight, drawn) /\ sight' = sight /\ viewLoaded' = viewLoaded
        /\ still' = IF still = Settle THEN still ELSE still + 1
    BY <1>4 DEF ViewUpdates
  <2>2. drawn' \in PlayerRenderData /\ (drawn'.state = "JET" => drawn'.jetSound) /\ OutIsIdle(drawn')
    BY <1>1, <2>1, UpdatedIs, UpdatedHeard
  <2>3. still' \in 0 .. Settle
    BY <1>1, <2>1
  <2>4. ViewTypeOK'
    BY <1>1, <2>1, <2>2, <2>3 DEF ViewTypeOK, PlayerRenderData
  <2>5. JetHeard'
    BY <2>2 DEF JetHeard
  <2>6. Fits4(sight', drawn')
    BY <1>1, <2>1, <2>2, FourUpdates
  <2>7. /\ Fits4(sight, drawn) => Fits3(sight, drawn')
        /\ Fits3(sight, drawn) => Fits2(sight, drawn')
        /\ Fits2(sight, drawn) => Fits1(sight, drawn')
        /\ Fits1(sight, drawn) => Fits(sight, drawn')
        /\ Fits(sight, drawn) => Fits(sight, drawn')
    <3>1. Fits(sight, drawn) => drawn' = drawn
      BY <2>1 DEF Fits
    <3> QED
      BY <2>1, <3>1 DEF Fits4, Fits3, Fits2, Fits1
  <2>8. /\ still' >= 2 => still >= 1
        /\ still' >= 3 => still >= 2
        /\ still' >= 4 => still >= 3 /\ (still >= 4 \/ still # Settle)
    BY <1>1, <2>1
  <2>9. /\ still' >= 1 => Fits3(sight, drawn')
        /\ still' >= 2 => Fits2(sight, drawn')
        /\ still' >= 3 => Fits1(sight, drawn')
        /\ still' >= 4 => Fits(sight, drawn')
    BY <2>7, <2>8 DEF ViewInv
  <2> QED
    BY <2>1, <2>2, <2>4, <2>5, <2>6, <2>9 DEF ViewInv
<1>5. CASE UNCHANGED viewVars
  BY <1>5 DEF viewVars, ViewInv, ViewTypeOK, JetHeard
<1> QED
  BY <1>2, <1>3, <1>4, <1>5 DEF ViewNext

LEMMA InvViewSound == ViewInv => ViewTypeOK /\ ViewSound
<1> SUFFICES ASSUME ViewInv PROVE ViewTypeOK /\ ViewSound
  OBVIOUS
<1>1. ASSUME still = Settle PROVE Fits(sight, drawn)
  BY <1>1, ViewAssumption DEF ViewInv
<1>2. ViewSettles
  BY <1>1 DEF ViewSettles, Fits
<1> QED
  BY <1>2 DEF ViewInv, ViewSound

\* Whatever the game does to a character, the view shows it after four frames in which it does
\* nothing else, stays there, and lets nobody fly unheard (player_view.cpp:167-367).
THEOREM ViewSoundAlways == ViewSpec => [](ViewTypeOK /\ ViewSound)
BY ViewInitially, ViewStep, InvViewSound, PTL DEF ViewSpec
-----------------------------------------------------------------------------
(* Side by side: a behaviour of the composition is one of each machine. *)

LEMMA PartsStep ==
  ASSUME [Next]_vars
  PROVE  /\ [FallsNext]_fallsVars /\ [StompNext]_stompVars /\ [JetNext]_jetVars
         /\ [GunNext]_gunVars /\ [PoolNext]_poolVars /\ [ViewNext]_viewVars
BY DEF Next, vars, OfFalls, OfStomp, OfJet, OfGun, OfPool, OfView

LEMMA Parts == Spec => FallsSpec /\ StompSpec /\ JetSpec /\ GunSpec /\ PoolSpec /\ ViewSpec
<1>1. Init => FallsInit /\ StompInit /\ JetInit /\ GunInit /\ PoolInit /\ ViewInit
  BY DEF Init
<1> QED
  BY <1>1, PartsStep, PTL DEF Spec, FallsSpec, StompSpec, JetSpec, GunSpec, PoolSpec, ViewSpec

\* No timer of a match runs below zero or beyond its period, in the composition that is
\* model-checked and for every value of its constants.
THEOREM MatchTypesKept == Spec => []MatchTypeOK
BY Parts, FallsSoundAlways, StompSoundAlways, JetTypeCorrect, ShootsSoonAlways, PoolSoundAlways,
   ViewSoundAlways, PTL DEF MatchTypeOK

\* The jetpack and the gun do not act faster than their timers say, in the composition that
\* is model-checked and for every value of its constants.
THEOREM RatesKeptAlways == Spec => RatesKept
BY Parts, BurstsApartAlways, ShotsApartAlways, PTL DEF RatesKept
=============================================================================
