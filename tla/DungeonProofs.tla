--------------------------- MODULE DungeonProofs ---------------------------
(***************************************************************************)
(* What holds of the running game for every size of map, every set of      *)
(* generated dungeons, every set of bytes and every choice of the combat   *)
(* numbers; and, at the end, of the game on its display and of the picture *)
(* the player has in front of every prompt.                                *)
(***************************************************************************)
EXTENDS Screen, DisplayProofs

USE DEF vars, body

\* The three facts about a generated dungeon that the game relies on.
LEMMA DungeonShape ==
  ASSUME NEW d \in Dungeons
  PROVE  /\ d.tiles \in [Cells -> Tile]
         /\ d.start \in Cells
         /\ d.tiles[d.start] \in Walkable
         /\ d.spawns \in Seq(Cells)
  BY DungeonAssumption DEF IsDungeon, is_walkable

\* A blow always takes at least one hit point.
LEMMA DamageType == Damage \in Nat \ {0}
  BY DungeonAssumption DEF Damage

\* The player sees cells of the map only.
LEMMA VisibilityType ==
  ASSUME NEW t, NEW p \in Cells
  PROVE  compute_visibility(t, p) \subseteq Cells
  BY DEF compute_visibility

\* The monsters new_with_seed makes from the generator's spawn cells.
LEMMA SpawnedMonsters ==
  ASSUME NEW s \in Seq(Cells)
  PROVE  /\ [i \in DOMAIN s |-> [at |-> s[i], hp |-> MonsterHp]] \in Seq(Monster)
         /\ DOMAIN [i \in DOMAIN s |-> [at |-> s[i], hp |-> MonsterHp]] = 1 .. Len(s)
<1>1. MonsterHp \in Int
  BY DungeonAssumption
<1>2. PICK n \in Nat : s \in [1 .. n -> Cells]
  OBVIOUS
<1>3. [i \in DOMAIN s |-> [at |-> s[i], hp |-> MonsterHp]] \in [1 .. n -> Monster]
  BY <1>1, <1>2 DEF Monster
<1> QED BY <1>2, <1>3

\* A blow at monster i yields a well-typed list of monsters that differs at
\* i only, and there only in hp.
LEMMA BlowType ==
  ASSUME TypeOK, NEW i \in DOMAIN monsters, attack_monster(i)
  PROVE  /\ monsters' \in Seq(Monster)
         /\ DOMAIN monsters' = DOMAIN monsters
         /\ monsters[i].hp \in Int
         /\ monsters'[i].hp = monsters[i].hp - Damage
         /\ monsters'[i].at = monsters[i].at
         /\ \A j \in DOMAIN monsters : j # i => monsters'[j] = monsters[j]
<1>1. PICK n \in Nat : monsters \in [1 .. n -> Monster]
  BY DEF TypeOK
<1>2. monsters[i] \in Monster
  BY <1>1
<1>3. monsters' = [monsters EXCEPT ![i].hp = monsters[i].hp - Damage]
  BY DEF attack_monster
<1>4. monsters' = [monsters EXCEPT ![i] = [monsters[i] EXCEPT !.hp = monsters[i].hp - Damage]]
  BY <1>3
<1>5. [monsters[i] EXCEPT !.hp = monsters[i].hp - Damage]
         = [at |-> monsters[i].at, hp |-> monsters[i].hp - Damage]
  BY <1>2 DEF Monster
<1>6. [at |-> monsters[i].at, hp |-> monsters[i].hp - Damage] \in Monster
  BY <1>2, DamageType DEF Monster
<1>7. monsters' \in [1 .. n -> Monster]
  BY <1>1, <1>4, <1>5, <1>6
<1>8. monsters[i].hp \in Int
  BY <1>2 DEF Monster
<1>9. monsters'[i] = [at |-> monsters[i].at, hp |-> monsters[i].hp - Damage]
  BY <1>1, <1>4, <1>5
<1> QED BY <1>1, <1>4, <1>7, <1>8, <1>9

-----------------------------------------------------------------------------

\* Every variable keeps its type in every reachable state of the game.
THEOREM TypeCorrect == Spec => []TypeOK
<1>1. Init => TypeOK
  <2> SUFFICES ASSUME Init PROVE TypeOK
    OBVIOUS
  <2>1. PICK d \in Dungeons :
          /\ tiles = d.tiles
          /\ player = d.start
          /\ monsters = [i \in DOMAIN d.spawns |->
                           [at |-> d.spawns[i], hp |-> MonsterHp]]
    BY DEF Init
  <2>2. tiles \in [Cells -> Tile] /\ player \in Cells /\ monsters \in Seq(Monster)
    BY <2>1, DungeonShape, SpawnedMonsters
  <2>3. hit_points \in Nat /\ xp \in Nat
    BY DungeonAssumption DEF Init
  <2> QED BY <2>2, <2>3 DEF Init, TypeOK, DisplayOptions, FontChoice
<1>2. TypeOK /\ [Next]_vars => TypeOK'
  <2> SUFFICES ASSUME TypeOK, [Next]_vars PROVE TypeOK'
    OBVIOUS
  <2>1. CASE Draw
    <3>1. explored' \subseteq Cells
      BY <2>1, VisibilityType DEF Draw, TypeOK
    <3>2. font_mode' \in FontChoice
      BY <2>1 DEF Draw, TypeOK, apply_font_command, FontChoice
    <3> QED BY <2>1, <3>1, <3>2 DEF Draw, TypeOK
  <2>2. ASSUME NEW b \in Bytes, HandleKey(decode_key(b)) PROVE TypeOK'
    <3> DEFINE key == decode_key(b)
    <3>1. CASE DeathKey(key)
      BY <3>1 DEF DeathKey, TypeOK
    <3>2. CASE MenuKey(key)
      <4>1. options' \in DisplayOptions
        BY <3>2 DEF MenuKey, TypeOK, DisplayOptions, FontChoice, next_font
      <4>2. font_dirty' \in BOOLEAN
        BY <3>2 DEF MenuKey, TypeOK, marks_font_dirty
      <4> QED BY <3>2, <4>1, <4>2 DEF MenuKey, TypeOK
    <3>3. CASE QuitGame(key)
      BY <3>3 DEF QuitGame, TypeOK
    <3>4. CASE OpenMenu(key)
      BY <3>4 DEF OpenMenu, TypeOK, DisplayOptions
    <3>5. CASE Attack(key)
      <4>1. PICK i \in DOMAIN monsters : attack_monster(i)
        BY <3>5 DEF Attack
      <4>2. monsters' \in Seq(Monster)
        BY <4>1, BlowType
      <4>3. xp' \in Nat /\ hit_points' \in Nat
        BY <4>1, DungeonAssumption DEF attack_monster, apply_damage, TypeOK
      <4> QED BY <3>5, <4>2, <4>3 DEF Attack, TypeOK
    <3>6. CASE Walk(key)
      BY <3>6 DEF Walk, TypeOK, is_walkable
    <3>7. CASE Ignore(key)
      BY <3>7 DEF Ignore, TypeOK
    <3> QED BY <2>2, <3>1, <3>2, <3>3, <3>4, <3>5, <3>6, <3>7 DEF HandleKey
  <2>3. CASE UNCHANGED vars
    BY <2>3 DEF TypeOK
  <2> QED BY <2>1, <2>2, <2>3 DEF Next
<1> QED BY <1>1, <1>2, PTL DEF Spec

\* No sequence of keys puts the player on a cell it could not enter.
THEOREM NeverInWalls == Spec => []PlayerOnFloor
<1>1. Init => PlayerOnFloor
  BY DungeonAssumption DEF Init, PlayerOnFloor, IsDungeon, is_walkable
<1>2. PlayerOnFloor /\ [Next]_vars => PlayerOnFloor'
  <2> SUFFICES ASSUME PlayerOnFloor, [Next]_vars PROVE PlayerOnFloor'
    OBVIOUS
  <2> USE DEF PlayerOnFloor
  <2>1. ASSUME NEW b \in Bytes, Walk(decode_key(b)) PROVE PlayerOnFloor'
    BY <2>1 DEF Walk, is_walkable
  <2>2. CASE UNCHANGED <<tiles, player>>
    BY <2>2 DEF is_walkable
  <2> QED
    BY <2>1, <2>2 DEF Next, HandleKey, Draw, DeathKey, MenuKey, QuitGame,
       OpenMenu, Attack, Ignore
<1> QED BY <1>1, <1>2, PTL DEF Spec

-----------------------------------------------------------------------------

\* A blow at a living monster adds that monster to the dead exactly when xp
\* grows by ten.
LEMMA BlowPays ==
  ASSUME TypeOK, NEW i \in DOMAIN monsters, is_alive(monsters[i]),
         attack_monster(i), KillsPayOnce
  PROVE  KillsPayOnce'
<1>1. IsFiniteSet(Dead)
  <2>1. PICK n \in Nat : monsters \in [1 .. n -> Monster]
    BY DEF TypeOK
  <2>2. Dead \subseteq 1 .. n
    BY <2>1 DEF Dead
  <2>3. IsFiniteSet(1 .. n)
    BY FS_Interval
  <2> QED BY <2>2, <2>3, FS_Subset
<1>2. i \notin Dead
  BY DEF Dead
<1>3. Cardinality(Dead) \in Nat
  BY <1>1, FS_CardinalityType
<1>4. CASE monsters[i].hp - Damage <= 0
  <2>1. ~is_alive(monsters'[i])
    BY <1>4, BlowType, DamageType DEF is_alive
  <2>2. Dead' = Dead \cup {i}
    BY <2>1, BlowType DEF Dead
  <2>3. Cardinality(Dead') = Cardinality(Dead) + 1
    BY <1>1, <1>2, <2>2, FS_AddElement
  <2>4. xp' = xp + 10
    BY <1>4 DEF attack_monster
  <2> QED BY <1>3, <2>3, <2>4 DEF KillsPayOnce
<1>5. CASE ~(monsters[i].hp - Damage <= 0)
  <2>1. is_alive(monsters'[i])
    BY <1>5, BlowType, DamageType DEF is_alive
  <2>2. Dead' = Dead
    BY <1>2, <2>1, BlowType DEF Dead
  <2>3. xp' = xp
    BY <1>5 DEF attack_monster
  <2> QED BY <2>2, <2>3 DEF KillsPayOnce
<1> QED BY <1>4, <1>5

\* Experience is ten times the number of dead monsters in every reachable
\* state: no monster pays twice and none dies unpaid.
THEOREM PayOnce == Spec => []KillsPayOnce
<1>1. Init => KillsPayOnce
  <2> SUFFICES ASSUME Init PROVE KillsPayOnce
    OBVIOUS
  <2>1. \A i \in DOMAIN monsters : monsters[i].hp = MonsterHp
    BY DEF Init
  <2>2. Dead = {}
    BY <2>1, DungeonAssumption DEF Dead, is_alive
  <2> QED BY <2>2, FS_EmptySet DEF KillsPayOnce, Init
<1>2. TypeOK /\ KillsPayOnce /\ [Next]_vars => KillsPayOnce'
  <2> SUFFICES ASSUME TypeOK, KillsPayOnce, [Next]_vars PROVE KillsPayOnce'
    OBVIOUS
  <2>1. ASSUME NEW b \in Bytes, Attack(decode_key(b)) PROVE KillsPayOnce'
    <3>1. PICK i \in DOMAIN monsters :
            FoundMonster(i, Target(decode_key(b))) /\ attack_monster(i)
      BY <2>1 DEF Attack
    <3>2. is_alive(monsters[i])
      BY <3>1 DEF FoundMonster, StandsAt
    <3> QED BY <3>1, <3>2, BlowPays
  <2>2. CASE UNCHANGED <<xp, monsters>>
    BY <2>2 DEF KillsPayOnce, Dead
  <2> QED
    BY <2>1, <2>2 DEF Next, HandleKey, Draw, DeathKey, MenuKey, QuitGame,
       OpenMenu, Walk, Ignore
<1> QED BY <1>1, <1>2, TypeCorrect, PTL DEF Spec

\* FontShown alone is not inductive: between the key that changes the font
\* and the next tick only font_dirty remembers that the escape is unsent.
FontSent == ~font_dirty => font_mode = options.font
FontInv == FontSent /\ (pc = "wait" => ~font_dirty)

\* Whenever the game blocks for a key the console has the chosen font.
THEOREM FontInSync == Spec => []FontShown
<1>1. Init => FontInv
  BY DEF Init, FontInv, FontSent
<1>2. TypeOK /\ FontInv /\ [Next]_vars => FontInv'
  <2> SUFFICES ASSUME TypeOK, FontInv, [Next]_vars PROVE FontInv'
    OBVIOUS
  <2> USE DEF FontInv, FontSent
  <2>1. CASE Draw
    <3>1. apply_font_command(kernel_index(options.font)) = options.font
      BY DEF TypeOK, DisplayOptions, FontChoice, apply_font_command, kernel_index
    <3> QED BY <2>1, <3>1 DEF Draw
  <2>2. ASSUME NEW b \in Bytes, HandleKey(decode_key(b)) PROVE FontInv'
    <3> DEFINE key == decode_key(b)
    <3>1. pc' # "wait"
      BY <2>2 DEF HandleKey, DeathKey, MenuKey, QuitGame, OpenMenu, Attack,
         Walk, Ignore
    <3>2. CASE MenuKey(key)
      <4>1. CASE marks_font_dirty(key)
        BY <3>1, <3>2, <4>1 DEF MenuKey
      <4>2. CASE ~marks_font_dirty(key)
        <5>1. options'.font = options.font
          BY <3>2, <4>2 DEF MenuKey, TypeOK, DisplayOptions, marks_font_dirty
        <5> QED BY <3>1, <3>2, <4>2, <5>1 DEF MenuKey
      <4> QED BY <4>1, <4>2
    <3>3. CASE OpenMenu(key)
      BY <3>1, <3>3 DEF OpenMenu, TypeOK, DisplayOptions
    <3>4. CASE UNCHANGED <<options, font_dirty, font_mode>>
      BY <3>1, <3>4
    <3> QED
      BY <2>2, <3>2, <3>3, <3>4 DEF HandleKey, DeathKey, QuitGame, Attack,
         Walk, Ignore
  <2>3. CASE UNCHANGED vars
    BY <2>3
  <2> QED BY <2>1, <2>2, <2>3 DEF Next
<1>3. FontInv => FontShown
  BY DEF FontInv, FontSent, FontShown
<1> QED BY <1>1, <1>2, <1>3, TypeCorrect, PTL DEF Spec

\* If one blow kills, as it does with the shipped 10, 5 and 2, then the
\* player cannot lose a hit point: the death screen is out of reach.
THEOREM Invulnerable ==
  ASSUME MonsterHp <= Damage
  PROVE  Spec => []Unhurt
<1>1. Init => Unhurt
  BY DEF Init, Unhurt
<1>2. TypeOK /\ Unhurt /\ [Next]_vars => Unhurt'
  <2> SUFFICES ASSUME TypeOK, Unhurt, [Next]_vars PROVE Unhurt'
    OBVIOUS
  <2>1. ASSUME NEW b \in Bytes, Attack(decode_key(b)) PROVE Unhurt'
    <3>1. PICK i \in DOMAIN monsters :
            FoundMonster(i, Target(decode_key(b))) /\ attack_monster(i)
      BY <2>1 DEF Attack
    <3>2. monsters[i].hp = MonsterHp
      BY <3>1 DEF FoundMonster, StandsAt, Unhurt
    <3>3. monsters[i].hp - Damage <= 0
      BY <3>2, DamageType, DungeonAssumption
    <3>4. hit_points' = hit_points
      BY <3>1, <3>3 DEF attack_monster
    <3>5. ~is_alive(monsters'[i])
      BY <3>1, <3>3, BlowType, DamageType DEF is_alive
    <3> QED BY <3>1, <3>4, <3>5, BlowType DEF Unhurt
  <2>2. CASE UNCHANGED <<hit_points, monsters>>
    BY <2>2 DEF Unhurt
  <2> QED
    BY <2>1, <2>2 DEF Next, HandleKey, Draw, DeathKey, MenuKey, QuitGame,
       OpenMenu, Walk, Ignore
<1> QED BY <1>1, <1>2, TypeCorrect, PTL DEF Spec

-----------------------------------------------------------------------------
(* Sight and blows.                                                        *)

\* The loop of bresenham_line: what it starts with and one turn of it.
Turn(s, dx, dy, sx, sy) ==
  LET goX == 2 * s.err >= dy
      goY == 2 * s.err <= dx
  IN  [x   |-> IF goX THEN s.x + sx ELSE s.x,
       y   |-> IF goY THEN s.y + sy ELSE s.y,
       err |-> s.err + (IF goX THEN dy ELSE 0) + (IF goY THEN dx ELSE 0)]

\* The line to a neighbour is the cell itself and the neighbour.
LEMMA NeighbourLine ==
  ASSUME NEW p \in Int \X Int, NEW q \in Int \X Int, p # q,
         q[1] - p[1] \in -1 .. 1, q[2] - p[2] \in -1 .. 1
  PROVE  /\ Len(bresenham_line(p, q)) = 2
         /\ bresenham_line(p, q)[2] = q
<1> DEFINE dx == Abs(q[1] - p[1])
           dy == -Abs(q[2] - p[2])
           sx == IF p[1] < q[1] THEN 1 ELSE -1
           sy == IF p[2] < q[2] THEN 1 ELSE -1
           D == dx - dy
           first == [x |-> p[1], y |-> p[2], err |-> dx + dy]
           second == Turn(first, dx, dy, sx, sy)
           third == Turn(second, dx, dy, sx, sy)
           Solves(g) == g = [n \in 0 .. D |->
                               IF n = 0 THEN first ELSE Turn(g[n - 1], dx, dy, sx, sy)]
           walk == CHOOSE g : Solves(g)
           last == CHOOSE n \in 0 .. D :
                     <<walk[n].x, walk[n].y>> = q
                     /\ \A m \in 0 .. n - 1 : <<walk[m].x, walk[m].y>> # q
<1>1. bresenham_line(p, q)
        = [i \in 1 .. last + 1 |-> <<walk[i - 1].x, walk[i - 1].y>>]
  BY DEF bresenham_line, Turn
<1>2. D \in {1, 2}
  <2>1. q[1] # p[1] \/ q[2] # p[2]
    OBVIOUS
  <2>2. dx \in {0, 1} /\ (dx = 0 <=> q[1] = p[1])
    BY DEF Abs
  <2>3. dy \in {0, -1} /\ (dy = 0 <=> q[2] = p[2])
    BY DEF Abs
  <2> HIDE DEF dx, dy
  <2> QED BY <2>1, <2>2, <2>3
<1>3. second.x = q[1] /\ second.y = q[2]
  <2>1. \/ q[1] - p[1] = -1 /\ dx = 1 /\ sx = -1
        \/ q[1] - p[1] = 0 /\ dx = 0
        \/ q[1] - p[1] = 1 /\ dx = 1 /\ sx = 1
    BY DEF Abs
  <2>2. \/ q[2] - p[2] = -1 /\ dy = -1 /\ sy = -1
        \/ q[2] - p[2] = 0 /\ dy = 0
        \/ q[2] - p[2] = 1 /\ dy = -1 /\ sy = 1
    BY DEF Abs
  <2>3. dx # 0 \/ dy # 0
    BY DEF Abs
  <2>4. first.x = p[1] /\ first.y = p[2] /\ first.err = dx + dy
    OBVIOUS
  <2> HIDE DEF first, dx, dy, sx, sy
  <2>5. (2 * first.err >= dy) = (dx = 1) /\ (2 * first.err <= dx) = (dy = -1)
    BY <2>1, <2>2, <2>3, <2>4
  <2>6. second.x = (IF dx = 1 THEN p[1] + sx ELSE p[1])
        /\ second.y = (IF dy = -1 THEN p[2] + sy ELSE p[2])
    BY <2>4, <2>5 DEF Turn
  <2> QED BY <2>1, <2>2, <2>6
<1>4. first.x = p[1] /\ first.y = p[2]
  OBVIOUS
<1> HIDE DEF first, second, third, dx, dy, sx, sy, D
<1>5. Solves(walk)
  <2> DEFINE f == [n \in 0 .. D |-> IF n = 0 THEN first ELSE IF n = 1 THEN second ELSE third]
  <2>1. f = [n \in 0 .. D |-> IF n = 0 THEN first ELSE Turn(f[n - 1], dx, dy, sx, sy)]
    <3>1. f[0] = first /\ f[1] = second
      BY <1>2
    <3>2. ASSUME NEW n \in 0 .. D, n # 0 PROVE f[n] = Turn(f[n - 1], dx, dy, sx, sy)
      <4>1. CASE n = 1
        BY <3>1, <4>1 DEF second
      <4>2. CASE n = 2
        <5>1. f[2] = third /\ f[2 - 1] = second
          BY <1>2, <4>2
        <5> HIDE DEF f
        <5> QED BY <4>2, <5>1 DEF third
      <4> QED BY <1>2, <3>2, <4>1, <4>2
    <3>3. f = [n \in 0 .. D |-> f[n]]
      OBVIOUS
    <3> HIDE DEF f
    <3> QED BY <3>1, <3>2, <3>3
  <2> HIDE DEF f
  <2>2. Solves(f)
    BY <2>1
  <2> HIDE DEF Solves
  <2> QED BY <2>2
<1> HIDE DEF walk
<1>6. walk[0] = first /\ walk[1] = second
  <2>1. walk[0] = first
    BY <1>2, <1>5
  <2>2. walk[1] = Turn(walk[0], dx, dy, sx, sy)
    BY <1>2, <1>5
  <2> QED BY <2>1, <2>2 DEF second
<1>7. <<walk[0].x, walk[0].y>> = p /\ <<walk[1].x, walk[1].y>> = q
  BY <1>3, <1>4, <1>6
<1>8. last = 1
  <2> DEFINE At(n) == <<walk[n].x, walk[n].y>> = q
                      /\ \A m \in 0 .. n - 1 : <<walk[m].x, walk[m].y>> # q
  <2>1. 1 \in 0 .. D /\ At(1)
    BY <1>2, <1>7
  <2>2. \A n \in 0 .. D : At(n) => n = 1
    <3> SUFFICES ASSUME NEW n \in 0 .. D, At(n), n # 1 PROVE FALSE
      OBVIOUS
    <3>1. n # 0
      BY <1>7
    <3>2. 1 \in 0 .. n - 1
      BY <1>2, <3>1
    <3> QED BY <1>7, <3>2
  <2> HIDE DEF At
  <2>3. last = CHOOSE n \in 0 .. D : At(n)
    BY DEF At
  <2> HIDE DEF last
  <2> QED BY <2>1, <2>2, <2>3
<1> HIDE DEF last
<1> QED BY <1>1, <1>7, <1>8

\* A cell next to the player is visible, whatever stands around.
LEMMA NeighbourVisible ==
  ASSUME NEW t, NEW p \in Cells, NEW q \in Cells, LOS_RADIUS >= 2,
         q[1] - p[1] \in -1 .. 1, q[2] - p[2] \in -1 .. 1
  PROVE  q \in compute_visibility(t, p)
<1>1. CASE q = p
  BY <1>1 DEF compute_visibility
<1>2. CASE q # p
  <2>1. p \in Int \X Int /\ q \in Int \X Int
    BY SizeAssumption DEF Cells
  <2>2. has_line_of_sight(t, p, q)
    <3>1. Len(bresenham_line(p, q)) = 2 /\ bresenham_line(p, q)[2] = q
      BY <1>2, <2>1, NeighbourLine
    <3> QED BY <3>1 DEF has_line_of_sight
  <2>3. (q[1] - p[1]) * (q[1] - p[1]) + (q[2] - p[2]) * (q[2] - p[2]) <= 2
    <3>1. \A n \in -1 .. 1 : n * n <= 1 /\ n * n \in Int
      <4> SUFFICES ASSUME NEW n \in -1 .. 1 PROVE n * n <= 1 /\ n * n \in Int
        OBVIOUS
      <4>1. n = -1 \/ n = 0 \/ n = 1
        OBVIOUS
      <4> QED BY <4>1
    <3> DEFINE a == q[1] - p[1]
               b == q[2] - p[2]
    <3>2. a \in -1 .. 1 /\ b \in -1 .. 1
      OBVIOUS
    <3> HIDE DEF a, b
    <3>3. a * a <= 1 /\ b * b <= 1 /\ a * a \in Int /\ b * b \in Int
      BY <3>1, <3>2
    <3>4. a * a + b * b <= 2
      BY <3>3
    <3> QED BY <3>4 DEF a, b
  <2>4. 2 <= LOS_RADIUS * LOS_RADIUS
    <3>1. LOS_RADIUS \in Nat
      BY RadiusAssumption
    <3>2. LOS_RADIUS * LOS_RADIUS >= 2 * LOS_RADIUS
      BY <3>1
    <3> QED BY <3>1, <3>2
  <2>5. (q[1] - p[1]) * (q[1] - p[1]) + (q[2] - p[2]) * (q[2] - p[2])
          <= LOS_RADIUS * LOS_RADIUS
    <3> DEFINE a == (q[1] - p[1]) * (q[1] - p[1]) + (q[2] - p[2]) * (q[2] - p[2])
               b == LOS_RADIUS * LOS_RADIUS
    <3>1. a \in Int /\ b \in Int
      BY <2>1, RadiusAssumption
    <3>2. a <= 2 /\ 2 <= b
      BY <2>3, <2>4
    <3> HIDE DEF a, b
    <3>3. a <= b
      BY <3>1, <3>2
    <3> QED BY <3>3 DEF a, b
  <2> QED BY <2>2, <2>5 DEF compute_visibility
<1> QED BY <1>1, <1>2

\* A key that moves moves by one cell, and somewhere.
LEMMA MoveKeys ==
  ASSUME NEW b, decode_key(b).type = "Move"
  PROVE  /\ decode_key(b).dx \in -1 .. 1 /\ decode_key(b).dy \in -1 .. 1
         /\ decode_key(b).dx # 0 \/ decode_key(b).dy # 0
<1> DEFINE Moves == {MoveKey(-1, 0), MoveKey(1, 0), MoveKey(0, -1), MoveKey(0, 1),
                     MoveKey(-1, -1), MoveKey(1, -1), MoveKey(-1, 1), MoveKey(1, 1)}
<1>1. decode_key(b) \in Moves \cup {OptionsKey, QuitKey, CharKey(b), UnknownKey}
  BY DEF decode_key
<1>2. decode_key(b) \in Moves
  BY <1>1 DEF CharKey, OptionsKey, QuitKey, UnknownKey
<1> QED BY <1>2 DEF MoveKey

\* In front of a prompt everything the player sees is explored.
SeenInv == pc = "wait" /\ ~is_dead => compute_visibility(tiles, player) \subseteq explored

\* That much holds from the first frame on.
LEMMA AlwaysSeen == Spec => []SeenInv
<1>1. Init => SeenInv
  BY DEF Init, SeenInv
<1>2. SeenInv /\ [Next]_vars => SeenInv'
  <2> SUFFICES ASSUME SeenInv, [Next]_vars PROVE SeenInv'
    OBVIOUS
  <2>1. CASE Draw
    BY <2>1 DEF Draw, SeenInv, is_dead
  <2>2. ASSUME NEW b \in Bytes, HandleKey(decode_key(b)) PROVE SeenInv'
    <3>1. pc' # "wait"
      BY <2>2 DEF HandleKey, DeathKey, MenuKey, QuitGame, OpenMenu, Attack,
         Walk, Ignore
    <3> QED BY <3>1 DEF SeenInv
  <2>3. CASE UNCHANGED vars
    BY <2>3 DEF SeenInv, is_dead
  <2> QED BY <2>1, <2>2, <2>3 DEF Next
<1> QED BY <1>1, <1>2, PTL DEF Spec

\* A blow only lands on a monster whose cell has been drawn: with a radius of
\* at least 2 the cells a key reaches are all visible before the key arrives.
THEOREM NeverUnseen ==
  ASSUME LOS_RADIUS >= 2
  PROVE  Spec => NoUnseenFoe
<1> DEFINE OnlySeen == \A i \in DOMAIN monsters :
                         monsters'[i] # monsters[i] => monsters[i].at \in explored
<1>1. TypeOK /\ SeenInv /\ [Next]_vars => [OnlySeen]_vars
  <2> SUFFICES ASSUME TypeOK, SeenInv, Next PROVE OnlySeen
    OBVIOUS
  <2>1. CASE monsters' = monsters
    BY <2>1
  <2>2. ASSUME NEW b \in Bytes, pc = "wait", Attack(decode_key(b)) PROVE OnlySeen
    <3> DEFINE key == decode_key(b)
               c == Target(key)
    <3>1. PICK i \in DOMAIN monsters : FoundMonster(i, c) /\ attack_monster(i)
      BY <2>2 DEF Attack
    <3>2. key.type = "Move" /\ c \in Cells /\ ~is_dead
      BY <2>2 DEF Attack, InWorld
    <3>3. key.dx \in -1 .. 1 /\ key.dy \in -1 .. 1
      BY <3>2, MoveKeys
    <3>4. player \in Cells /\ player[1] \in Int /\ player[2] \in Int
      BY SizeAssumption DEF TypeOK, Cells
    <3>5. c[1] - player[1] \in -1 .. 1 /\ c[2] - player[2] \in -1 .. 1
      <4> HIDE DEF key
      <4>1. c[1] = player[1] + key.dx /\ c[2] = player[2] + key.dy
        BY DEF Target
      <4> HIDE DEF c
      <4> QED BY <3>3, <3>4, <4>1
    <3> HIDE DEF c
    <3>6. c \in compute_visibility(tiles, player)
      BY <3>2, <3>4, <3>5, NeighbourVisible
    <3>7. c \in explored
      BY <2>2, <3>2, <3>6 DEF SeenInv
    <3>8. monsters[i].at = c
      BY <3>1 DEF FoundMonster, StandsAt
    <3> QED BY <3>1, <3>7, <3>8, BlowType
  <2> QED
    BY <2>1, <2>2 DEF Next, HandleKey, Draw, DeathKey, MenuKey, QuitGame,
       OpenMenu, Walk, Ignore
<1> QED BY <1>1, AlwaysSeen, TypeCorrect, PTL DEF Spec, NoUnseenFoe

\* Neither a move nor a blow has the player's own cell for its target.
LEMMA TargetElsewhere ==
  ASSUME NEW b, decode_key(b).type = "Move", TypeOK
  PROVE  Target(decode_key(b)) # player
<1> DEFINE key == decode_key(b)
<1>1. key.dx \in -1 .. 1 /\ key.dy \in -1 .. 1 /\ (key.dx # 0 \/ key.dy # 0)
  BY MoveKeys
<1>2. player[1] \in Int /\ player[2] \in Int
  BY SizeAssumption DEF TypeOK, Cells
<1> HIDE DEF key
<1>3. Target(key)[1] = player[1] + key.dx /\ Target(key)[2] = player[2] + key.dy
  BY DEF Target
<1>4. player[1] + key.dx # player[1] \/ player[2] + key.dy # player[2]
  BY <1>1, <1>2
<1> QED BY <1>3, <1>4 DEF key

\* A player who shares a cell with a living monster has never left it and has
\* never struck that monster, on any map and with any combat numbers.
THEOREM BornUnderfoot == Spec => []OnlyBornUnderfoot
<1>1. Init => OnlyBornUnderfoot
  <2> SUFFICES ASSUME Init, NEW i \in DOMAIN monsters
               PROVE  monsters[i].hp = MonsterHp /\ explored = {}
    BY DEF OnlyBornUnderfoot
  <2> QED BY DEF Init
<1>2. TypeOK /\ OnlyBornUnderfoot /\ [Next]_vars => OnlyBornUnderfoot'
  <2> SUFFICES ASSUME TypeOK, OnlyBornUnderfoot, [Next]_vars
               PROVE  OnlyBornUnderfoot'
    OBVIOUS
  <2> USE DEF OnlyBornUnderfoot
  <2>1. CASE Draw
    BY <2>1 DEF Draw, is_alive, body
  <2>2. ASSUME NEW b \in Bytes, Walk(decode_key(b)) PROVE OnlyBornUnderfoot'
    BY <2>2 DEF Walk, NoMonsterAt, StandsAt, is_alive
  <2>3. ASSUME NEW b \in Bytes, Attack(decode_key(b)) PROVE OnlyBornUnderfoot'
    <3>1. PICK i \in DOMAIN monsters :
            FoundMonster(i, Target(decode_key(b))) /\ attack_monster(i)
      BY <2>3 DEF Attack
    <3>2. monsters[i].at # player
      BY <2>3, <3>1, TargetElsewhere DEF Attack, FoundMonster, StandsAt
    <3>3. /\ DOMAIN monsters' = DOMAIN monsters
          /\ \A j \in DOMAIN monsters :
               /\ monsters'[j].at = monsters[j].at
               /\ j # i => monsters'[j] = monsters[j]
      BY <3>1, BlowType
    <3>4. player' = player /\ explored' = explored /\ tiles' = tiles
      BY <2>3 DEF Attack
    <3> QED BY <3>2, <3>3, <3>4 DEF is_alive
  <2>4. CASE UNCHANGED <<tiles, body, explored>>
    BY <2>4 DEF body, is_alive
  <2> QED
    BY <2>1, <2>2, <2>3, <2>4 DEF Next, HandleKey, DeathKey, MenuKey, QuitGame,
       OpenMenu, Ignore, vars, body
<1> QED BY <1>1, <1>2, TypeCorrect, PTL DEF Spec

\* Whatever is typed while the menu is open, the player neither dies nor leaves
\* the cell the last frame was drawn from.
THEOREM MenuHoldsWorld == Spec => []NothingBehindMenu
<1>1. Init => NothingBehindMenu
  BY DEF Init, NothingBehindMenu
<1>2. SeenInv /\ NothingBehindMenu /\ [Next]_vars => NothingBehindMenu'
  <2> SUFFICES ASSUME SeenInv, NothingBehindMenu, [Next]_vars
               PROVE  NothingBehindMenu'
    OBVIOUS
  <2> USE DEF NothingBehindMenu, is_dead
  <2>1. CASE Draw
    BY <2>1 DEF Draw, body
  <2>2. ASSUME NEW b \in Bytes, pc = "wait", OpenMenu(decode_key(b))
        PROVE  NothingBehindMenu'
    BY <2>2 DEF OpenMenu, InWorld, SeenInv, body
  <2>3. ASSUME NEW b \in Bytes, MenuKey(decode_key(b))
        PROVE  NothingBehindMenu'
    BY <2>3 DEF MenuKey, body
  <2>4. ASSUME NEW b \in Bytes, Attack(decode_key(b)) \/ Walk(decode_key(b))
        PROVE  ~options'.menu_open
    BY <2>4 DEF Attack, Walk, InWorld
  <2>5. CASE UNCHANGED <<tiles, body, explored, options>>
    BY <2>5 DEF body
  <2> QED
    BY <2>1, <2>2, <2>3, <2>4, <2>5 DEF Next, HandleKey, DeathKey, QuitGame,
       Ignore, vars, body
<1> QED BY <1>1, <1>2, AlwaysSeen, PTL DEF Spec
-----------------------------------------------------------------------------
(* Wounds.                                                                 *)

\* Adding the divisor to a number adds one to the quotient.
LEMMA OneMoreBlow ==
  ASSUME NEW a \in Int, NEW d \in Nat \ {0}
  PROVE  (a + d) \div d = a \div d + 1 /\ a \div d \in Int
<1> DEFINE q == a \div d
           r == a % d
<1>1. q \in Int /\ r \in 0 .. d - 1 /\ a = d * q + r
  OBVIOUS
<1>2. a + d = d * (q + 1) + r
  BY <1>1
<1> QED
  BY <1>1, <1>2

\* u sums a up to each index.
IsTally(u, N, a) ==
  /\ u \in [0 .. N -> Int]
  /\ u[0] = 0
  /\ \A n \in 0 .. N - 1 : u[n + 1] = u[n] + a[n + 1]

\* A change at one index shifts the sum by that change.
LEMMA TallyShift ==
  ASSUME NEW N \in Nat, NEW a, NEW b, NEW u, NEW v, IsTally(u, N, a), IsTally(v, N, b),
         NEW i \in 1 .. N, NEW d \in Int, a[i] \in Int, b[i] = a[i] + d,
         \A n \in 1 .. N : n # i => b[n] = a[n] /\ a[n] \in Int
  PROVE  v[N] = u[N] + d
<1> DEFINE S == {n \in 0 .. N : v[n] = u[n] + (IF n >= i THEN d ELSE 0)}
<1>1. 0 \in S
  BY DEF IsTally
<1>2. ASSUME NEW n \in 0 .. N - 1, n \in S PROVE n + 1 \in S
  <2>1. u[n] \in Int /\ n \in 0 .. N /\ n + 1 \in 0 .. N /\ n + 1 \in 1 .. N
    BY DEF IsTally
  <2>2. u[n + 1] = u[n] + a[n + 1] /\ v[n + 1] = v[n] + b[n + 1]
    BY DEF IsTally
  <2>3. a[n + 1] \in Int /\ b[n + 1] = a[n + 1] + (IF n + 1 = i THEN d ELSE 0)
    BY <2>1
  <2>4. v[n] = u[n] + (IF n >= i THEN d ELSE 0)
    BY <1>2
  <2>5. v[n + 1] = u[n + 1] + (IF n + 1 >= i THEN d ELSE 0)
    BY <2>1, <2>2, <2>3, <2>4
  <2> QED
    BY <2>1, <2>5
<1>3. 0 .. N \subseteq S
  <2> HIDE DEF S
  <2> QED BY <1>1, <1>2, UpTo
<1>4. v[N] = u[N] + (IF N >= i THEN d ELSE 0)
  BY <1>3
<1> QED
  BY <1>4

\* Sums of nothing but zeros are zero.
LEMMA TallyZero ==
  ASSUME NEW N \in Nat, NEW a, NEW u, IsTally(u, N, a), \A n \in 1 .. N : a[n] = 0
  PROVE  u[N] = 0
<1> DEFINE S == {n \in 0 .. N : u[n] = 0}
<1>1. 0 \in S
  BY DEF IsTally
<1>2. ASSUME NEW n \in 0 .. N - 1, n \in S PROVE n + 1 \in S
  BY <1>2 DEF IsTally
<1>3. 0 .. N \subseteq S
  <2> HIDE DEF S
  <2> QED BY <1>1, <1>2, UpTo
<1> QED
  BY <1>3

\* Every list of integers has its sums, and they are what the recursive
\* definition in DamageLedger means.
LEMMA TallyExists ==
  ASSUME NEW N \in Nat, NEW a \in [1 .. N -> Int]
  PROVE  \E u : /\ IsTally(u, N, a)
                /\ u = [n \in 0 .. N |-> IF n = 0 THEN 0 ELSE u[n - 1] + a[n]]
<1> DEFINE step == [vn \in Int \X Nat |->
                      vn[1] + (IF vn[2] + 1 \in 1 .. N THEN a[vn[2] + 1] ELSE 0)]
<1>1. step \in [Int \X Nat -> Int]
  OBVIOUS
<1>2. \A v \in Int, n \in 0 .. N - 1 : step[<<v, n>>] = v + a[n + 1]
  OBVIOUS
<1> HIDE DEF step
<1>3. 0 \in Int
  OBVIOUS
<1>4. PICK u : Recurs(u, N, Int, 0, step)
  BY <1>1, <1>3, Recursion
<1>5. IsTally(u, N, a)
  <2>1. ASSUME NEW n \in 0 .. N - 1 PROVE u[n + 1] = u[n] + a[n + 1]
    <3>1. u[n] \in Int
      BY <1>4 DEF Recurs
    <3>2. u[n + 1] = step[<<u[n], n>>]
      BY <1>4 DEF Recurs
    <3> QED BY <1>2, <3>1, <3>2
  <2> QED BY <1>4, <2>1 DEF Recurs, IsTally
<1>6. u = [n \in 0 .. N |-> IF n = 0 THEN 0 ELSE u[n - 1] + a[n]]
  <2>1. \A n \in 0 .. N : n # 0 => u[n] = u[n - 1] + a[n]
    <3> SUFFICES ASSUME NEW n \in 0 .. N, n # 0 PROVE u[n] = u[n - 1] + a[n]
      OBVIOUS
    <3>1. n - 1 \in 0 .. N - 1 /\ n - 1 + 1 = n
      OBVIOUS
    <3> QED BY <1>5, <3>1 DEF IsTally
  <2>2. u = [n \in 0 .. N |-> u[n]] /\ u[0] = 0
    BY <1>5 DEF IsTally
  <2> QED BY <2>1, <2>2
<1> QED
  BY <1>5, <1>6
Answers == [i \in DOMAIN monsters |-> Answered(i)]

Left(total) == LET left == StartHitPoints - MonsterAttack * total
               IN  IF left > 0 THEN left ELSE 0

LEMMA AnswersType ==
  ASSUME TypeOK
  PROVE  /\ Len(monsters) \in Nat
         /\ DOMAIN monsters = 1 .. Len(monsters)
         /\ Answers \in [1 .. Len(monsters) -> Int]
<1>1. Len(monsters) \in Nat /\ DOMAIN monsters = 1 .. Len(monsters)
  BY DEF TypeOK
<1>2. ASSUME NEW i \in DOMAIN monsters PROVE Answered(i) \in Int
  <2>1. monsters[i] \in Monster
    BY <1>1 DEF TypeOK
  <2>2. MonsterHp - monsters[i].hp \in Int
    BY <2>1, DungeonAssumption DEF Monster
  <2>3. (MonsterHp - monsters[i].hp) \div Damage \in Int
    BY <2>2, DamageType, OneMoreBlow
  <2> QED BY <2>3 DEF Answered
<1> QED BY <1>1, <1>2 DEF Answers

\* DamageLedger in terms of a sum: the recursion it writes out has a solution.
Sums ==
  /\ Len(monsters) \in Nat
  /\ DOMAIN monsters = 1 .. Len(monsters)
  /\ \E u : /\ IsTally(u, Len(monsters), Answers)
            /\ DamageLedger <=> hit_points = Left(u[Len(monsters)])

LEMMA LedgerMeans == TypeOK => Sums
<1> SUFFICES ASSUME TypeOK PROVE Sums
  OBVIOUS
<1> DEFINE N == Len(monsters)
           Solves(g) == g = [n \in 0 .. N |-> IF n = 0 THEN 0 ELSE g[n - 1] + Answered(n)]
           u == CHOOSE g : Solves(g)
<1>1. N \in Nat /\ DOMAIN monsters = 1 .. N /\ Answers \in [1 .. N -> Int]
  BY AnswersType
<1>2. ASSUME NEW n \in 1 .. N PROVE Answers[n] = Answered(n)
  BY <1>1 DEF Answers
<1>3. DamageLedger <=> hit_points = Left(u[N])
  BY DEF DamageLedger, Left
<1> HIDE DEF N
<1>4. PICK f : /\ IsTally(f, N, Answers)
               /\ f = [n \in 0 .. N |-> IF n = 0 THEN 0 ELSE f[n - 1] + Answers[n]]
  BY <1>1, TallyExists
<1>5. Solves(f)
  <2>1. ASSUME NEW n \in 0 .. N, n # 0 PROVE Answers[n] = Answered(n)
    <3>1. n \in 1 .. N
      BY <1>1, <2>1
    <3> QED BY <1>2, <3>1
  <2> QED BY <1>4, <2>1
<1>6. Solves(u)
  <2> HIDE DEF Solves
  <2> QED BY <1>5
<1> HIDE DEF u
<1>7. u[0] = 0
  BY <1>1, <1>6
<1>8. ASSUME NEW n \in 0 .. N - 1 PROVE u[n + 1] = u[n] + Answers[n + 1]
  <2>1. n + 1 \in 0 .. N /\ n + 1 # 0 /\ n + 1 - 1 = n /\ n + 1 \in 1 .. N
    BY <1>1
  <2>2. u[n + 1] = u[n] + Answered(n + 1)
    <3>1. \A k \in 0 .. N : u[k] = IF k = 0 THEN 0 ELSE u[k - 1] + Answered(k)
      BY <1>6
    <3>2. u[n + 1] = u[n + 1 - 1] + Answered(n + 1)
      BY <2>1, <3>1
    <3> QED BY <2>1, <3>2
  <2> QED BY <1>2, <2>1, <2>2
<1>9. u \in [0 .. N -> Int]
  <2> DEFINE S == {n \in 0 .. N : u[n] \in Int}
  <2>1. 0 \in S
    BY <1>1, <1>7
  <2>2. ASSUME NEW n \in 0 .. N - 1, n \in S PROVE n + 1 \in S
    <3>1. n + 1 \in 1 .. N /\ n + 1 \in 0 .. N
      BY <1>1
    <3>2. u[n] \in Int /\ Answers[n + 1] \in Int
      BY <1>1, <2>2, <3>1
    <3> QED BY <1>8, <3>1, <3>2
  <2>3. 0 .. N \subseteq S
    <3> HIDE DEF S
    <3> QED BY <1>1, <2>1, <2>2, UpTo
  <2>4. u = [n \in 0 .. N |-> u[n]]
    BY <1>6
  <2> QED BY <2>3, <2>4
<1>10. IsTally(u, N, Answers)
  BY <1>7, <1>8, <1>9 DEF IsTally
<1> QED BY <1>1, <1>3, <1>10 DEF N, Sums

LEMMA LedgerMeansNext == TypeOK' => Sums'
  BY LedgerMeans, PTL

\* A blow at a living monster adds one answer, or none if it kills.
LEMMA BlowAnswers ==
  ASSUME TypeOK, NEW i \in DOMAIN monsters, is_alive(monsters[i]), attack_monster(i)
  PROVE  /\ Answers'[i] = Answers[i] + (IF monsters[i].hp - Damage <= 0 THEN 0 ELSE 1)
         /\ \A j \in DOMAIN monsters : j # i => Answers'[j] = Answers[j]
         /\ DOMAIN monsters' = DOMAIN monsters
<1> DEFINE hp == monsters[i].hp
<1>1. DOMAIN monsters' = DOMAIN monsters /\ hp \in Int /\ monsters'[i].hp = hp - Damage
  BY BlowType
<1>2. \A j \in DOMAIN monsters : Answers[j] = Answered(j) /\ Answers'[j] = Answered(j)'
  BY <1>1 DEF Answers
<1>3. (MonsterHp - (hp - Damage)) \div Damage = (MonsterHp - hp) \div Damage + 1
      /\ (MonsterHp - hp) \div Damage \in Int
  <2> HIDE DEF hp
  <2>1. MonsterHp - hp \in Int /\ MonsterHp - (hp - Damage) = (MonsterHp - hp) + Damage
    BY <1>1, DamageType, DungeonAssumption
  <2> QED BY <2>1, DamageType, OneMoreBlow
<1>4. Answered(i) = (MonsterHp - hp) \div Damage
  BY DEF Answered
<1>5. Answered(i)' = (IF hp - Damage > 0 THEN (MonsterHp - (hp - Damage)) \div Damage
                      ELSE (MonsterHp - (hp - Damage)) \div Damage - 1)
  BY <1>1 DEF Answered, is_alive
<1>6. Answered(i)' = Answered(i) + (IF hp - Damage <= 0 THEN 0 ELSE 1)
  <2> DEFINE q == (MonsterHp - hp) \div Damage
  <2>1. hp - Damage \in Int
    BY <1>1, DamageType
  <2> HIDE DEF hp, q
  <2>2. Answered(i)' = (IF hp - Damage > 0 THEN q + 1 ELSE q + 1 - 1) /\ q \in Int
    BY <1>3, <1>5 DEF q
  <2> QED BY <1>4, <2>1, <2>2 DEF q
<1>7. ASSUME NEW j \in DOMAIN monsters, j # i PROVE Answered(j)' = Answered(j)
  <2>1. monsters'[j] = monsters[j]
    BY <1>7, BlowType
  <2> QED BY <2>1 DEF Answered
<1> QED BY <1>1, <1>2, <1>6, <1>7

\* The player's hit points are at every moment what the living and dead
\* monsters' wounds say: every blow a monster survives is answered once, and
\* nothing else hurts.
THEOREM LedgerBalances == Spec => []DamageLedger
<1>1. Init /\ TypeOK => DamageLedger
  <2> SUFFICES ASSUME Init, TypeOK PROVE DamageLedger
    OBVIOUS
  <2>1. PICK u : /\ IsTally(u, Len(monsters), Answers)
                 /\ DamageLedger <=> hit_points = Left(u[Len(monsters)])
    BY LedgerMeans DEF Sums
  <2>2. ASSUME NEW i \in DOMAIN monsters PROVE Answered(i) = 0
    <3>1. monsters[i].hp = MonsterHp
      BY <2>2 DEF Init
    <3>2. is_alive(monsters[i]) /\ MonsterHp - monsters[i].hp = 0
      BY <3>1, DungeonAssumption DEF is_alive
    <3>3. 0 \div Damage = 0
      BY DamageType
    <3> QED BY <3>2, <3>3 DEF Answered
  <2>3. u[Len(monsters)] = 0
    BY <2>1, <2>2, AnswersType, TallyZero DEF Answers
  <2>4. Left(0) = StartHitPoints
    BY DungeonAssumption DEF Left
  <2> QED BY <2>1, <2>3, <2>4 DEF Init
<1>2. TypeOK /\ TypeOK' /\ DamageLedger /\ [Next]_vars => DamageLedger'
  <2> SUFFICES ASSUME TypeOK, TypeOK', DamageLedger, [Next]_vars PROVE DamageLedger'
    OBVIOUS
  <2>1. PICK u : /\ IsTally(u, Len(monsters), Answers)
                 /\ DamageLedger <=> hit_points = Left(u[Len(monsters)])
    BY LedgerMeans DEF Sums
  <2>2. PICK v : /\ IsTally(v, Len(monsters'), Answers')
                 /\ DamageLedger' <=> hit_points' = Left(v[Len(monsters')])
    BY LedgerMeansNext DEF Sums
  <2> DEFINE N == Len(monsters)
  <2>3. N \in Nat /\ DOMAIN monsters = 1 .. N /\ Answers \in [1 .. N -> Int]
        /\ Len(monsters') \in Nat /\ DOMAIN monsters' = 1 .. Len(monsters')
    BY AnswersType, LedgerMeansNext DEF Sums
  <2>4. hit_points = Left(u[N])
    BY <2>1
  <2> HIDE DEF N
  <2>next. Len(monsters') \in Nat /\ DOMAIN monsters' = 1 .. Len(monsters')
    BY <2>3
  <2>5. ASSUME NEW i \in 1 .. N, NEW d \in Int, DOMAIN monsters' = DOMAIN monsters,
               Answers'[i] = Answers[i] + d,
               \A j \in 1 .. N : j # i => Answers'[j] = Answers[j]
        PROVE  u[N] \in Int /\ v[N] = u[N] + d /\ Len(monsters') = N
    <3>1. Len(monsters') = N
      <4>1. 1 .. N = 1 .. Len(monsters')
        BY <2>3, <2>5
      <4> HIDE DEF Sums
      <4>2. \A x \in Nat, y \in Nat : 1 .. x = 1 .. y => x = y
        OBVIOUS
      <4> QED BY <2>3, <2>next, <4>1, <4>2
    <3>2. IsTally(v, N, Answers') /\ IsTally(u, N, Answers)
      BY <2>1, <2>2, <3>1 DEF N
    <3>3. u[N] \in Int
      BY <2>3, <3>2 DEF IsTally
    <3>4. \A n \in 1 .. N : Answers[n] \in Int
      BY <2>3
    <3>5. \A n \in 1 .. N : n # i => Answers'[n] = Answers[n] /\ Answers[n] \in Int
      BY <2>5, <3>4
    <3>6. N \in Nat /\ Answers[i] \in Int /\ Answers'[i] = Answers[i] + d
      BY <2>3, <2>5
    <3>7. v[N] = u[N] + d
      <4> DEFINE aa == Answers
                 bb == Answers'
      <4> HIDE DEF aa, bb
      <4>1. IsTally(v, N, bb) /\ IsTally(u, N, aa)
        BY <3>2 DEF aa, bb
      <4>2. \A n \in 1 .. N : n # i => bb[n] = aa[n] /\ aa[n] \in Int
        BY <3>5 DEF aa, bb
      <4>3. N \in Nat /\ aa[i] \in Int /\ bb[i] = aa[i] + d
        BY <3>6 DEF aa, bb
      <4> QED BY <4>1, <4>2, <4>3, TallyShift
    <3> QED BY <3>1, <3>3, <3>7
  <2>6. ASSUME NEW b \in Bytes, Attack(decode_key(b)) PROVE DamageLedger'
    <3>1. PICK i \in DOMAIN monsters :
            FoundMonster(i, Target(decode_key(b))) /\ attack_monster(i)
      BY <2>6 DEF Attack
    <3> DEFINE dies == monsters[i].hp - Damage <= 0
               d == IF dies THEN 0 ELSE 1
    <3>2. is_alive(monsters[i])
      BY <3>1 DEF FoundMonster, StandsAt
    <3>3. /\ Answers'[i] = Answers[i] + d
          /\ \A j \in DOMAIN monsters : j # i => Answers'[j] = Answers[j]
          /\ DOMAIN monsters' = DOMAIN monsters
      BY <3>1, <3>2, BlowAnswers
    <3>4. hit_points' = (IF dies THEN hit_points ELSE apply_damage(MonsterAttack))
      BY <3>1 DEF attack_monster
    <3>5. ~is_dead
      BY <2>6 DEF Attack, InWorld
    <3>6. u[N] \in Int /\ v[N] = u[N] + d /\ Len(monsters') = N
      <4>1. i \in 1 .. N /\ DOMAIN monsters' = DOMAIN monsters
        BY <2>3, <3>3
      <4>step. d \in Int
        OBVIOUS
      <4>2. Answers'[i] = Answers[i] + d
        BY <3>3
      <4>3. \A j \in 1 .. N : j # i => Answers'[j] = Answers[j]
        BY <2>3, <3>3
      <4> HIDE DEF d
      <4> QED BY <2>5, <4>step, <4>1, <4>2, <4>3
    <3> HIDE DEF dies
    <3>7. hit_points' = Left(v[N])
      <4>1. CASE dies
        BY <2>4, <3>4, <3>6, <4>1
      <4>2. CASE ~dies
        <5>1. hit_points = StartHitPoints - MonsterAttack * u[N] /\ hit_points > 0
          BY <2>4, <3>5, <3>6, DungeonAssumption DEF is_dead, Left
        <5>2. StartHitPoints - MonsterAttack * (u[N] + 1) = hit_points - MonsterAttack
          BY <3>6, <5>1, DungeonAssumption
        <5>3. hit_points' = (IF hit_points > MonsterAttack THEN hit_points - MonsterAttack ELSE 0)
          BY <3>4, <4>2 DEF apply_damage
        <5>4. v[N] = u[N] + 1
          BY <3>6, <4>2
        <5>5. hit_points \in Nat /\ MonsterAttack \in Nat
          BY DungeonAssumption DEF TypeOK
        <5>6. Left(v[N]) = (IF hit_points - MonsterAttack > 0 THEN hit_points - MonsterAttack ELSE 0)
          BY <5>2, <5>4 DEF Left
        <5> QED BY <5>3, <5>5, <5>6
      <4> QED BY <4>1, <4>2
    <3> QED BY <2>2, <3>6, <3>7
  <2>7. CASE UNCHANGED <<hit_points, monsters>>
    <3>1. Answers' = Answers
      BY <2>7 DEF Answers, Answered
    <3>2. CASE N = 0
      <4>1. u[N] = 0 /\ v[N] = 0
        BY <2>1, <2>2, <2>7, <3>2 DEF IsTally, N
      <4> QED BY <2>2, <2>4, <2>7, <4>1 DEF N
    <3>3. CASE N # 0
      <4>1. 1 \in 1 .. N /\ Answers'[1] = Answers[1] + 0 /\ DOMAIN monsters' = DOMAIN monsters
        BY <2>3, <2>7, <3>1, <3>3
      <4>2. u[N] \in Int /\ v[N] = u[N] + 0 /\ Len(monsters') = N
        <5>1. \A j \in 1 .. N : j # 1 => Answers'[j] = Answers[j]
          BY <3>1
        <5>2. 0 \in Int
          OBVIOUS
        <5> DEFINE zero == 0
        <5>3. zero \in Int /\ Answers'[1] = Answers[1] + zero
          BY <4>1
        <5> HIDE DEF zero
        <5>4. u[N] \in Int /\ v[N] = u[N] + zero /\ Len(monsters') = N
          BY <2>5, <4>1, <5>1, <5>3
        <5> QED BY <5>4 DEF zero
      <4>3. v[N] = u[N]
        BY <4>2
      <4> QED BY <2>2, <2>4, <2>7, <4>2, <4>3
    <3> QED BY <3>2, <3>3
  <2> QED
    BY <2>6, <2>7 DEF Next, HandleKey, Draw, DeathKey, MenuKey, QuitGame,
       OpenMenu, Walk, Ignore
<1> QED BY <1>1, <1>2, TypeCorrect, PTL DEF Spec
-----------------------------------------------------------------------------
(* The display the game draws on.                                          *)

Item == [ch : Nat, color : {0} \cup Colors]

\* A written item keeps the display well-formed and in its font.
LEMMA PutGood ==
  ASSUME NEW d, Good(d, Nat), NEW item \in Item
  PROVE  Good(put_item(d, item), Nat) /\ put_item(d, item).font = d.font
<1>1. SPACE \in Nat
  BY DEF SPACE
<1>2. item.ch \in Nat /\ item.color \in Int
  BY DEF Item, Colors
<1>3. ASSUME NEW e, Good(e, Nat)
      PROVE  Good(put_char(e, item.ch), Nat) /\ put_char(e, item.ch).font = e.font
  BY <1>1, <1>2, <1>3, NewlineGood, DrawGood DEF put_char
<1>4. CASE item.color = 0
  BY <1>3, <1>4 DEF put_item
<1>5. CASE item.color # 0
  <2> DEFINE e == Sgr(d, item.color)
             f == put_char(e, item.ch)
             g == Sgr(f, 0)
  <2>1. put_item(d, item) = g
    BY <1>5 DEF put_item
  <2>2. Good(e, Nat) /\ e.font = d.font
    BY <1>2, SgrGood
  <2> HIDE DEF e
  <2>3. Good(f, Nat) /\ f.font = d.font
    BY <1>3, <2>2
  <2> HIDE DEF f
  <2>4. 0 \in Int
    OBVIOUS
  <2>5. Good(g, Nat) /\ g.font = d.font
    BY <2>3, <2>4, SgrGood
  <2> QED BY <2>1, <2>5
<1> QED BY <1>4, <1>5

\* f holds the displays while the items are written.
PutTrace(f, N, d, items) ==
  /\ f = [n \in 0 .. N |-> f[n]]
  /\ f[0] = d
  /\ \A n \in 0 .. N - 1 : f[n + 1] = put_item(f[n], items[n + 1])

LEMMA PutTraceExists ==
  ASSUME NEW d, NEW items, NEW N \in Nat
  PROVE  \E f : PutTrace(f, N, d, items)
<1> DEFINE T == {k \in 0 .. N : \E f : PutTrace(f, k, d, items)}
<1>1. 0 \in T
  <2> DEFINE f == [n \in 0 .. 0 |-> d]
  <2>1. PutTrace(f, 0, d, items)
    BY DEF PutTrace
  <2> HIDE DEF f
  <2> QED BY <2>1
<1>2. ASSUME NEW k \in 0 .. N - 1, k \in T PROVE k + 1 \in T
  <2>1. PICK f : PutTrace(f, k, d, items)
    BY <1>2
  <2> DEFINE g == [n \in 0 .. k + 1 |-> IF n <= k THEN f[n] ELSE put_item(f[k], items[k + 1])]
  <2>2. g[0] = d
    BY <2>1 DEF PutTrace
  <2>3. ASSUME NEW n \in 0 .. k PROVE g[n + 1] = put_item(g[n], items[n + 1])
    <3>1. g[n] = f[n]
      OBVIOUS
    <3>2. CASE n < k
      <4>1. g[n + 1] = f[n + 1] /\ n \in 0 .. k - 1
        BY <3>2
      <4> HIDE DEF g
      <4> QED BY <2>1, <3>1, <4>1 DEF PutTrace
    <3>3. CASE n = k
      <4>1. g[k + 1] = put_item(f[k], items[k + 1])
        OBVIOUS
      <4> HIDE DEF g
      <4> QED BY <3>1, <3>3, <4>1
    <3> QED BY <3>2, <3>3
  <2>4. g = [n \in 0 .. k + 1 |-> g[n]]
    OBVIOUS
  <2> HIDE DEF g
  <2>5. k + 1 - 1 = k /\ k + 1 \in 0 .. N
    OBVIOUS
  <2>6. PutTrace(g, k + 1, d, items)
    BY <2>2, <2>3, <2>4, <2>5 DEF PutTrace
  <2> QED BY <2>5, <2>6
<1>3. 0 .. N \subseteq T
  <2> HIDE DEF T
  <2> QED BY <1>1, <1>2, UpTo
<1> QED BY <1>3

\* What Written computes.
LEMMA WrittenTrace ==
  ASSUME NEW d, NEW items, Len(items) \in Nat
  PROVE  \E f : /\ PutTrace(f, Len(items), d, items)
                /\ Written(d, items) = f[Len(items)]
<1> DEFINE N == Len(items)
           Solves(g) == g = [n \in 0 .. N |-> IF n = 0 THEN d ELSE put_item(g[n - 1], items[n])]
           after == CHOOSE g : Solves(g)
<1>1. PICK f : PutTrace(f, N, d, items)
  <2> HIDE DEF N
  <2> QED BY PutTraceExists DEF N
<1>2. Solves(f)
  <2> HIDE DEF N
  <2>n. N \in Nat
    BY DEF N
  <2>1. ASSUME NEW n \in 0 .. N, n # 0 PROVE f[n] = put_item(f[n - 1], items[n])
    <3>1. n - 1 \in 0 .. N - 1 /\ n - 1 + 1 = n
      BY <2>n, <2>1
    <3> QED BY <1>1, <3>1 DEF PutTrace
  <2>2. f = [n \in 0 .. N |-> f[n]] /\ f[0] = d
    BY <1>1 DEF PutTrace
  <2> QED BY <2>1, <2>2
<1>3. Solves(after)
  <2> HIDE DEF Solves
  <2> QED BY <1>2
<1>4. PutTrace(after, N, d, items)
  <2> HIDE DEF after, N
  <2>n. N \in Nat
    BY DEF N
  <2>1. ASSUME NEW n \in 0 .. N - 1 PROVE after[n + 1] = put_item(after[n], items[n + 1])
    <3>1. n + 1 \in 0 .. N /\ n + 1 # 0 /\ n + 1 - 1 = n
      BY <2>n
    <3>2. \A m \in 0 .. N : m # 0 => after[m] = put_item(after[m - 1], items[m])
      BY <1>3
    <3> QED BY <3>1, <3>2
  <2>2. after = [n \in 0 .. N |-> after[n]] /\ after[0] = d
    BY <1>3, <2>n
  <2> QED BY <2>1, <2>2 DEF PutTrace
<1>5. Written(d, items) = after[N]
  BY DEF Written
<1> HIDE DEF after
<1> QED BY <1>4, <1>5


LEMMA WrittenGood ==
  ASSUME NEW d, Good(d, Nat), NEW items \in Seq(Item)
  PROVE  Good(Written(d, items), Nat) /\ Written(d, items).font = d.font
<1> DEFINE N == Len(items)
<1>1. N \in Nat
  OBVIOUS
<1>2. PICK f : PutTrace(f, N, d, items) /\ Written(d, items) = f[N]
  BY <1>1, WrittenTrace
<1> DEFINE S == {n \in 0 .. N : Good(f[n], Nat) /\ f[n].font = d.font}
<1>3. 0 \in S
  BY <1>1, <1>2 DEF PutTrace
<1>4. ASSUME NEW n \in 0 .. N - 1, n \in S PROVE n + 1 \in S
  <2>1. n + 1 \in 0 .. N /\ items[n + 1] \in Item
    BY <1>1
  <2>2. f[n + 1] = put_item(f[n], items[n + 1])
    BY <1>2 DEF PutTrace
  <2>3. Good(f[n], Nat) /\ f[n].font = d.font
    BY <1>4
  <2>4. Good(f[n + 1], Nat) /\ f[n + 1].font = d.font
    BY <2>1, <2>2, <2>3, PutGood
  <2> QED BY <2>1, <2>4
<1>5. 0 .. N \subseteq S
  <2> HIDE DEF S, N
  <2> QED BY <1>1, <1>3, <1>4, UpTo
<1> QED BY <1>1, <1>2, <1>5
\* A text is a sequence of items.
LEMMA PrintType ==
  ASSUME NEW text \in Seq(Nat)
  PROVE  print(text) \in Seq(Item)
<1>1. PICK n \in Nat : text \in [1 .. n -> Nat]
  OBVIOUS
<1>2. \A ch \in Nat : Plain(ch) \in Item
  BY DEF Plain, Item
<1>3. print(text) \in [1 .. n -> Item]
  BY <1>1, <1>2 DEF print
<1> QED BY <1>1, <1>3

LEMMA GlyphType ==
  ASSUME TypeOK, NEW ch \in Nat, NEW color \in Colors
  PROVE  draw_tile(ch, color) \in Item
  BY DEF draw_tile, Item

\* The line-drawing characters, and the one for a wall with no wall beside it.
LineGlyphs == {177, 179, 180, 191, 192, 193, 194, 195, 196, 197, 217, 218}

LEMMA LineArtType ==
  ASSUME NEW arms, arms \subseteq {"n", "s", "w", "e"}
  PROVE  LineArt(arms) \in LineGlyphs
<1> DEFINE n == "n" \in arms
           s == "s" \in arms
           w == "w" \in arms
           e == "e" \in arms
<1>1. \/ arms = {}
      \/ arms # {} /\ arms \subseteq {"n", "s"}
      \/ arms # {} /\ arms \subseteq {"w", "e"}
      \/ arms = {"n", "s", "w", "e"}
      \/ arms = {"n", "s", "w"}
      \/ arms = {"n", "s", "e"}
      \/ arms = {"n", "w", "e"}
      \/ arms = {"s", "w", "e"}
      \/ arms = {"n", "e"}
      \/ arms = {"n", "w"}
      \/ arms = {"s", "e"}
      \/ arms = {"s", "w"}
  OBVIOUS
<1> QED BY <1>1 DEF LineArt, LineGlyphs

LEMMA WallGlyphType ==
  ASSUME NEW c
  PROVE  wall_glyph(c) \in LineGlyphs
<1> DEFINE arms == WallsAround(c)
           overriding == {i \in DOMAIN Edges :
                            /\ c[Edges[i].axis] = Edges[i].at
                            /\ Edges[i].inward \in arms
                            /\ arms \cap Edges[i].along # {}}
           first == CHOOSE i \in overriding : \A j \in overriding : i <= j
           edge == Edges[first]
<1>1. arms \subseteq {"n", "s", "w", "e"}
  BY DEF WallsAround, Beside
<1>2. wall_glyph(c) =
        IF overriding = {} THEN LineArt(arms)
        ELSE IF edge.along \subseteq arms THEN LineArt(edge.along)
        ELSE LineArt({edge.inward} \cup (arms \cap edge.along))
  BY DEF wall_glyph
<1>3. CASE overriding = {}
  BY <1>1, <1>2, <1>3, LineArtType
<1>4. CASE overriding # {}
  <2>1. DOMAIN Edges = 1 .. 4
    BY DEF Edges
  <2>2. overriding \subseteq Nat
    BY <2>1
  <2>3. first \in overriding
    <3> HIDE DEF overriding
    <3> QED BY <1>4, <2>2, LeastOf
  <2>4. first \in 1 .. 4
    BY <2>1, <2>3
  <2> HIDE DEF first
  <2>5. edge.along \subseteq {"n", "s", "w", "e"} /\ edge.inward \in {"n", "s", "w", "e"}
    <3>1. first = 1 \/ first = 2 \/ first = 3 \/ first = 4
      BY <2>4
    <3> QED BY <3>1 DEF Edges
  <2> HIDE DEF edge, overriding, arms
  <2>6. LineArt(edge.along) \in LineGlyphs
    BY <2>5, LineArtType
  <2>7. LineArt({edge.inward} \cup (arms \cap edge.along)) \in LineGlyphs
    <3>1. {edge.inward} \cup (arms \cap edge.along) \subseteq {"n", "s", "w", "e"}
      BY <2>5
    <3> QED BY <3>1, LineArtType
  <2> QED BY <1>2, <1>4, <2>6, <2>7
<1> QED BY <1>3, <1>4

\* A tile is never drawn as the monster's M, and a floor in sight as a floor.
LEMMA TileItem ==
  ASSUME TypeOK, NEW c \in Cells, NEW visible
  PROVE  /\ draw_map_tile(c, visible) \in Item
         /\ draw_map_tile(c, visible).ch \notin {LF, 77}
         /\ tiles[c] \in Walkable /\ visible => draw_map_tile(c, visible).ch \in FloorGlyphs
<1> DEFINE item == draw_map_tile(c, visible)
           art(graphic, plain) == IF options.graphical_tiles THEN graphic ELSE plain
           OK(ch, color) == ch \in Nat \ {LF, 77} /\ color \in Colors
<1>1. 37 \in Colors /\ 32 \in Colors /\ 92 \in Colors /\ 93 \in Colors /\ 96 \in Colors
  BY DEF Colors
<1>2. ASSUME NEW ch, NEW color, OK(ch, color), item = draw_tile(ch, color)
      PROVE  item \in Item /\ item.ch \notin {LF, 77} /\ item.ch = ch
  <2>1. item \in Item
    BY <1>2, GlyphType
  <2>2. item.ch = ch
    BY <1>2 DEF draw_tile
  <2> QED BY <1>2, <2>1, <2>2
<1>3. WALL # ROOM /\ WALL # DOOR /\ WALL # CORRIDOR /\ WALL # ROCK
      /\ ROOM # DOOR /\ ROOM # CORRIDOR /\ ROOM # ROCK
      /\ DOOR # CORRIDOR /\ DOOR # ROCK /\ CORRIDOR # ROCK
  BY DEF WALL, ROOM, DOOR, CORRIDOR, ROCK
<1>4. CASE tiles[c] = WALL
  <2> DEFINE ch == art(wall_glyph(c), 35)
  <2>1. item = draw_tile(ch, 37)
    BY <1>3, <1>4 DEF draw_map_tile
  <2>2. ch \in LineGlyphs \cup {35}
    BY WallGlyphType
  <2> HIDE DEF ch, item
  <2>3. OK(ch, 37)
    BY <1>1, <2>2 DEF LineGlyphs, LF
  <2> QED BY <1>2, <1>3, <1>4, <2>1, <2>3 DEF Walkable, item
<1>5. CASE tiles[c] = ROOM
  <2> DEFINE ch == art(250, 46)
             color == IF options.color /\ ~visible THEN 32 ELSE 92
  <2>1. item = draw_tile(ch, color)
    BY <1>3, <1>5 DEF draw_map_tile
  <2>2. OK(ch, color) /\ ch \in FloorGlyphs
    BY <1>1 DEF FloorGlyphs, LF
  <2> HIDE DEF ch, color, item
  <2> QED BY <1>2, <2>1, <2>2 DEF item
<1>6. CASE tiles[c] = DOOR
  <2> DEFINE ch == art(254, 43)
  <2>1. item = draw_tile(ch, 93)
    BY <1>3, <1>6 DEF draw_map_tile
  <2>2. OK(ch, 93) /\ ch \in FloorGlyphs
    BY <1>1 DEF FloorGlyphs, LF
  <2> HIDE DEF ch, item
  <2> QED BY <1>2, <2>1, <2>2 DEF item
<1>7. CASE tiles[c] = CORRIDOR
  <2> DEFINE ch == art(IF visible THEN 177 ELSE 176, 44)
  <2>1. item = draw_tile(ch, 96)
    BY <1>3, <1>7 DEF draw_map_tile
  <2>2. OK(ch, 96) /\ (visible => ch \in FloorGlyphs)
    BY <1>1 DEF FloorGlyphs, LF
  <2> HIDE DEF ch, item
  <2> QED BY <1>2, <2>1, <2>2 DEF item
<1>8. CASE tiles[c] = ROCK
  <2>1. item = draw_tile(SPACE, 37)
    BY <1>3, <1>8 DEF draw_map_tile
  <2>2. OK(SPACE, 37)
    BY <1>1 DEF SPACE, LF
  <2> HIDE DEF item
  <2> QED BY <1>2, <1>3, <1>8, <2>1, <2>2 DEF Walkable, item
<1>9. tiles[c] \in Tile
  BY DEF TypeOK
<1> QED BY <1>4, <1>5, <1>6, <1>7, <1>8, <1>9 DEF Tile

LEMMA CellItem ==
  ASSUME TypeOK, NEW c \in Cells, NEW seen, NEW visibility
  PROVE  draw_cell(c, seen, visibility) \in Item /\ draw_cell(c, seen, visibility).ch # LF
<1>1. 37 \in Colors /\ 91 \in Colors /\ 93 \in Colors
  BY DEF Colors
<1>2. ASSUME NEW ch \in Nat, ch # LF, NEW color \in Colors
      PROVE  draw_tile(ch, color) \in Item /\ draw_tile(ch, color).ch # LF
  BY <1>2, GlyphType DEF draw_tile
<1>3. draw_map_tile(c, c \in visibility) \in Item
      /\ draw_map_tile(c, c \in visibility).ch # LF
  BY TileItem
<1>4. SPACE \in Nat /\ SPACE # LF /\ 64 # LF /\ 77 # LF
  BY DEF SPACE, LF
<1> QED BY <1>1, <1>2, <1>3, <1>4 DEF draw_cell

\* Where the items of the map stand.
LEMMA RowOf ==
  ASSUME NEW w \in Nat \ {0}, NEW h \in Nat, NEW i \in 1 .. w * h
  PROVE  (i - 1) % w \in 0 .. w - 1 /\ (i - 1) \div w \in 0 .. h - 1
<1> DEFINE q == (i - 1) \div w
           r == (i - 1) % w
<1>1. w * h \in Nat /\ i - 1 \in Nat /\ i - 1 < w * h
  OBVIOUS
<1>2. q \in Int /\ r \in 0 .. w - 1 /\ i - 1 = w * q + r
  BY <1>1
<1>3. q >= 0
  <2> SUFFICES ASSUME q <= -1 PROVE FALSE
    BY <1>2
  <2> HIDE DEF q, r
  <2>1. w * q <= w * (-1)
    BY <1>2
  <2> QED BY <1>1, <1>2, <2>1
<1>4. q < h
  <2> SUFFICES ASSUME q >= h PROVE FALSE
    BY <1>2
  <2> HIDE DEF q, r
  <2>1. w * q >= w * h
    BY <1>2
  <2> QED BY <1>1, <1>2, <2>1
<1> QED BY <1>2, <1>3, <1>4

LEMMA MapItemsType ==
  ASSUME TypeOK, NEW seen, NEW visibility
  PROVE  MapItems(seen, visibility) \in Seq(Item)
<1> DEFINE n == (W + 1) * H
<1>1. W + 1 \in Nat \ {0} /\ H \in Nat /\ n \in Nat
  BY SizeAssumption
<1>2. Plain(LF) \in Item
  BY DEF Plain, LF, Item
<1>3. ASSUME NEW i \in 1 .. n, (i - 1) % (W + 1) # W
      PROVE  draw_cell(<<(i - 1) % (W + 1), (i - 1) \div (W + 1)>>, seen, visibility) \in Item
  <2> DEFINE x == (i - 1) % (W + 1)
             y == (i - 1) \div (W + 1)
  <2>1. x \in 0 .. W /\ y \in 0 .. H - 1
    <3> DEFINE w == W + 1
    <3>1. w \in Nat \ {0} /\ H \in Nat /\ w - 1 = W
      BY SizeAssumption
    <3>2. i \in 1 .. w * H
      OBVIOUS
    <3> HIDE DEF w
    <3>3. (i - 1) % w \in 0 .. w - 1 /\ (i - 1) \div w \in 0 .. H - 1
      BY <3>1, <3>2, RowOf
    <3> QED BY <3>1, <3>3 DEF w
  <2> HIDE DEF x, y
  <2>2. <<x, y>> \in Cells
    BY <1>1, <1>3, <2>1, SizeAssumption DEF Cells, x
  <2>3. draw_cell(<<x, y>>, seen, visibility) \in Item
    BY <2>2, CellItem
  <2> QED BY <2>3 DEF x, y
<1>4. MapItems(seen, visibility) \in [1 .. n -> Item]
  BY <1>2, <1>3 DEF MapItems
<1> HIDE DEF n
<1> QED BY <1>1, <1>4
\* What render and render_dead print.
LEMMA FrameType ==
  ASSUME TypeOK, NEW seen, NEW visibility
  PROVE  Frame(seen, visibility) \in Seq(Item)
<1>1. \A ch \in {"title", "move_help", "hp", "str", "xp", "options_help", "menu",
                 "font", "graphics", "color", "close", "dead", "stats",
                 "leave_help", "leaving", "on", "off"} : Text[ch] \in Nat
  BY DEF Text
<1>2. LF \in Nat /\ label(options.font) \in Nat
  BY DEF LF, label, kernel_index, TypeOK, DisplayOptions, FontChoice
<1>3. OnOff(options.graphical_tiles) \in Nat /\ OnOff(options.color) \in Nat
  BY <1>1 DEF OnOff
<1>4. Number(hit_points) \in Nat /\ Number(Strength) \in Nat /\ Number(xp) \in Nat
  BY DungeonAssumption DEF Number, TypeOK
<1>5. MenuText \in Seq(Nat)
  BY <1>1, <1>2, <1>3 DEF MenuText
<1>6. StatsText \in Seq(Nat)
  BY <1>1, <1>2, <1>4 DEF StatsText
<1> DEFINE top == <<Text.title, LF, LF>>
           foot == <<LF, Text.move_help, LF>>
           help == <<Text.options_help>>
           menu == IF options.menu_open THEN MenuText ELSE <<>>
           end == foot \o StatsText \o help \o menu
<1>7. top \in Seq(Nat) /\ foot \in Seq(Nat) /\ help \in Seq(Nat)
  BY <1>1, <1>2
<1>8. menu \in Seq(Nat)
  <2>1. <<>> \in Seq(Nat)
    OBVIOUS
  <2> QED BY <1>5, <2>1
<1>9. Frame(seen, visibility) = print(top) \o MapItems(seen, visibility) \o print(end)
  BY DEF Frame
<1> HIDE DEF top, foot, help, menu
<1>10. end \in Seq(Nat)
  BY <1>6, <1>7, <1>8
<1> HIDE DEF end
<1>11. print(top) \in Seq(Item) /\ print(end) \in Seq(Item)
       /\ MapItems(seen, visibility) \in Seq(Item)
  BY <1>7, <1>10, PrintType, MapItemsType
<1> DEFINE S == Item
<1> HIDE DEF S
<1>12. \A p \in Seq(S), q \in Seq(S), r \in Seq(S) : p \o q \o r \in Seq(S)
  OBVIOUS
<1> QED BY <1>9, <1>11, <1>12 DEF S

LEMMA DeadFrameType ==
  ASSUME TypeOK
  PROVE  DeadFrame \in Seq(Item)
<1>1. Text.dead \in Nat /\ Text.stats \in Nat /\ Text.str \in Nat
      /\ Text.leave_help \in Nat /\ LF \in Nat
  BY DEF Text, LF
<1>2. Number(hit_points) \in Nat /\ Number(Strength) \in Nat
  BY DungeonAssumption DEF Number, TypeOK
<1> DEFINE text == <<Text.dead, LF, LF, Text.stats, Number(hit_points), Text.str,
                     Number(Strength), LF, LF, Text.leave_help, LF>>
<1>3. text \in Seq(Nat)
  BY <1>1, <1>2
<1>4. DeadFrame = print(text)
  BY DEF DeadFrame
<1> HIDE DEF text
<1> QED BY <1>3, <1>4, PrintType

\* The console is in the font it was last told and its cursor on its screen.
ScreenInv == Good(display, Nat) /\ display.font = font_mode

LEMMA NewDisplayGood == Good(NewDisplay, Nat) /\ NewDisplay.font = "Regular8x8"
<1> DEFINE d == [font |-> "Regular8x8", x |-> 0, y |-> 0, fg |-> DEFAULT,
                 bg |-> DEFAULT, grid |-> <<>>, dirty |-> FALSE]
           e == clear_screen(d)
           f == [e EXCEPT !.dirty = FALSE]
<1>1. SPACE \in Nat
  BY DEF SPACE
<1>2. DOMAIN d = {"font", "x", "y", "fg", "bg", "grid", "dirty"}
      /\ d.font = "Regular8x8" /\ d.font \in FontChoice /\ d.fg \in Color /\ d.bg \in Color
  BY DEF FontChoice, Color
<1>3. NewDisplay = f
  BY DEF NewDisplay
<1> HIDE DEF d
<1>4. Good(e, Nat) /\ e.font = d.font
  BY <1>1, <1>2, ClearGood
<1> HIDE DEF e
<1>5. Good(f, Nat) /\ f.font = e.font
  BY <1>4, FlushGood
<1> QED BY <1>2, <1>3, <1>4, <1>5

\* What a step of the game, a frame or a key, makes of the display.
LEMMA ScreenStep == TypeOK /\ ScreenInv /\ [ScreenNext]_svars => ScreenInv'
<1> SUFFICES ASSUME TypeOK, ScreenInv, [ScreenNext]_svars PROVE ScreenInv'
  OBVIOUS
<1> USE DEF ScreenInv
<1>1. CASE DrawScreen
  <2>1. PICK items \in {IF is_dead THEN DeadFrame
                        ELSE Frame(explored \cup compute_visibility(tiles, player),
                                   compute_visibility(tiles, player))} :
          display' = [Written(Cleared, items) EXCEPT !.dirty = FALSE]
    BY <1>1 DEF DrawScreen
  <2>2. items \in Seq(Item)
    BY <2>1, FrameType, DeadFrameType
  <2> DEFINE told == apply_font_command(kernel_index(options.font))
             d == IF font_dirty THEN set_font_mode(display, told) ELSE display
  <2>3. told \in FontChoice /\ SPACE \in Nat
    BY DEF apply_font_command, FontChoice, SPACE
  <2>4. font_mode' = (IF font_dirty THEN told ELSE font_mode)
    BY <1>1 DEF DrawScreen, Draw
  <2>5. Cleared = clear_screen(d)
    BY DEF Cleared
  <2> HIDE DEF told
  <2>6. Good(d, Nat) /\ d.font = font_mode'
    BY <2>3, <2>4, FontGood
  <2> HIDE DEF d
  <2>7. Good(Cleared, Nat) /\ Cleared.font = font_mode'
    <3>1. DOMAIN d = {"font", "x", "y", "fg", "bg", "grid", "dirty"}
          /\ d.font \in FontChoice /\ d.fg \in Color /\ d.bg \in Color
      BY <2>6, GoodMeans
    <3> QED BY <2>3, <2>5, <2>6, <3>1, ClearGood
  <2> DEFINE e == Written(Cleared, items)
  <2>8. Good(e, Nat) /\ e.font = font_mode'
    BY <2>2, <2>7, WrittenGood
  <2> HIDE DEF e
  <2>9. Good([e EXCEPT !.dirty = FALSE], Nat) /\ [e EXCEPT !.dirty = FALSE].font = e.font
    BY <2>8, FlushGood
  <2>10. display' = [e EXCEPT !.dirty = FALSE]
    BY <2>1 DEF e
  <2> QED BY <2>8, <2>9, <2>10
<1>2. ASSUME NEW b \in Bytes, KeyScreen(decode_key(b)) PROVE ScreenInv'
  <2> DEFINE bye == <<LF, Text.leaving, LF>>
  <2>1. bye \in Seq(Nat)
    BY DEF LF, Text
  <2>2. display' = display \/ display' = Written(display, print(bye))
    BY <1>2 DEF KeyScreen
  <2> HIDE DEF bye
  <2>3. Good(display', Nat) /\ display'.font = display.font
    BY <2>1, <2>2, PrintType, WrittenGood
  <2>4. font_mode' = font_mode
    BY <1>2 DEF KeyScreen, HandleKey, DeathKey, MenuKey, QuitGame, OpenMenu,
       Attack, Walk, Ignore
  <2> QED BY <2>3, <2>4
<1>3. CASE UNCHANGED svars
  BY <1>3 DEF svars
<1> QED BY <1>1, <1>2, <1>3 DEF ScreenNext

\* The game on its screen is the game.
LEMMA ScreenPlays == ScreenSpec => Spec
<1>1. ScreenInit => Init
  BY DEF ScreenInit
<1>2. [ScreenNext]_svars => [Next]_vars
  BY DEF ScreenNext, DrawScreen, KeyScreen, Next, svars
<1> QED BY <1>1, <1>2, PTL DEF ScreenSpec, Spec

\* Through any number of frames, scrolls and changes of font in the middle of
\* a game, the display stays well-formed and in the font it was told.
THEOREM ConsoleFollows == ScreenSpec => []DisplayFollows
<1>1. ScreenInit => ScreenInv
  BY NewDisplayGood DEF ScreenInit, Init, ScreenInv
<1>2. ScreenInv => DisplayFollows
  BY DEF ScreenInv, DisplayFollows, Good
<1> QED BY <1>1, <1>2, ScreenStep, ScreenPlays, TypeCorrect, PTL DEF ScreenSpec

-----------------------------------------------------------------------------
(* How writing draws a picture, item by item and line by line.              *)

Blank == Cell(SPACE, DEFAULT, DEFAULT)

\* The display shows picture pic as far as column x of line l, which is the line
\* the cursor is on, and nothing after that.  Lines are counted from the first one
\* written, so that what scrolls away keeps its number.
Drawn(d, pic, l, x) ==
  /\ Good(d, Nat)
  /\ d.fg = DEFAULT /\ d.bg = DEFAULT
  /\ d.x = x /\ d.y = AtMost(l, rows(d) - 1)
  /\ \A y \in 0 .. rows(d) - 1, c \in 0 .. cols(d) - 1 :
       LET n == y + l - d.y
       IN  d.grid[y][c] = IF n < l \/ (n = l /\ c < x) THEN pic[<<n, c>>] ELSE Blank

\* A character in the current colours, on a line with room for it.
LEMMA CharDrawn ==
  ASSUME NEW d, NEW pic, NEW l \in Nat, NEW x \in Nat, Drawn(d, pic, l, x),
         x < cols(d), NEW item \in Item, item.ch # LF, pic[<<l, x>>] = Shown(item)
  PROVE  Drawn(put_item(d, item), pic, l, x + 1)
<1> DEFINE fg == IF item.color = 0 THEN DEFAULT ELSE item.color
           c == Cell(item.ch, fg, DEFAULT)
           f == put_item(d, item)
<1>1. /\ cols(d) \in Nat /\ cols(d) >= 1 /\ rows(d) \in Nat /\ rows(d) >= 1
      /\ DOMAIN d = {"font", "x", "y", "fg", "bg", "grid", "dirty"}
      /\ d.fg = DEFAULT /\ d.bg = DEFAULT /\ d.x = x
      /\ d.y = AtMost(l, rows(d) - 1) /\ d.y \in 0 .. rows(d) - 1
      /\ d.grid \in [0 .. rows(d) - 1 -> [0 .. cols(d) - 1 -> CellsOf(Nat)]]
  BY GoodSizes, GoodMeans DEF Drawn, GridOf, rows, cols
<1>2. item.ch \in Nat /\ item.color \in {0} \cup Colors
  BY DEF Item
<1>3. /\ DOMAIN f = {"font", "x", "y", "fg", "bg", "grid", "dirty"}
      /\ f.font = d.font /\ f.fg = DEFAULT /\ f.bg = DEFAULT
      /\ f.x = x + 1 /\ f.y = d.y
      /\ f.grid = [d.grid EXCEPT ![d.y] = [d.grid[d.y] EXCEPT ![x] = c]]
  <2>1. ASSUME NEW e,
               /\ DOMAIN e = DOMAIN d /\ e.font = d.font /\ e.x = x /\ e.y = d.y
               /\ e.fg = fg /\ e.bg = DEFAULT /\ e.grid = d.grid,
               NEW g, g = put_char(e, item.ch)
        PROVE  /\ DOMAIN g = {"font", "x", "y", "fg", "bg", "grid", "dirty"}
               /\ g.font = d.font /\ g.fg = fg /\ g.bg = DEFAULT
               /\ g.x = x + 1 /\ g.y = d.y
               /\ g.grid = [d.grid EXCEPT ![d.y] = [d.grid[d.y] EXCEPT ![x] = c]]
    <3>1. cols(e) = cols(d)
      BY <2>1 DEF cols
    <3>2. Wrap(e) = e
      BY <1>1, <2>1, <3>1 DEF Wrap
    <3>3. g = [e EXCEPT !.grid[e.y][e.x] = Cell(item.ch, e.fg, e.bg), !.x = @ + 1, !.dirty = TRUE]
      BY <2>1, <3>2 DEF put_char, draw_char
    <3> QED BY <1>1, <2>1, <3>3
  <2> HIDE DEF c
  <2>2. CASE item.color = 0
    <3>1. f = put_char(d, item.ch)
      BY <2>2 DEF put_item
    <3> HIDE DEF f
    <3> QED BY <1>1, <2>1, <2>2, <3>1
  <2>3. CASE item.color # 0
    <3> DEFINE e == Sgr(d, item.color)
               g == put_char(e, item.ch)
    <3>1. e = [d EXCEPT !.fg = item.color]
      BY <1>2, <2>3 DEF Sgr, Colors
    <3>2. /\ DOMAIN e = DOMAIN d /\ e.font = d.font /\ e.x = x /\ e.y = d.y
          /\ e.fg = fg /\ e.bg = DEFAULT /\ e.grid = d.grid
      BY <1>1, <2>3, <3>1
    <3>3. f = Sgr(g, 0)
      BY <2>3 DEF put_item
    <3>4. f = [g EXCEPT !.fg = DEFAULT, !.bg = DEFAULT]
      BY <3>3 DEF Sgr, Colors
    <3>5. /\ DOMAIN g = {"font", "x", "y", "fg", "bg", "grid", "dirty"}
          /\ g.font = d.font /\ g.x = x + 1 /\ g.y = d.y
          /\ g.grid = [d.grid EXCEPT ![d.y] = [d.grid[d.y] EXCEPT ![x] = c]]
      BY <2>1, <3>2
    <3> HIDE DEF f, g
    <3> QED BY <3>4, <3>5
  <2> QED BY <2>2, <2>3
<1>4. Good(f, Nat)
  BY PutGood DEF Drawn
<1>5. c = pic[<<l, x>>]
  BY DEF Shown
<1> HIDE DEF f, c, fg
<1>6. rows(f) = rows(d) /\ cols(f) = cols(d)
  BY <1>3 DEF rows, cols
<1>7. ASSUME NEW y \in 0 .. rows(d) - 1, NEW k \in 0 .. cols(d) - 1
      PROVE  f.grid[y][k] = IF y + l - d.y < l \/ (y + l - d.y = l /\ k < x + 1)
                            THEN pic[<<y + l - d.y, k>>] ELSE Blank
  <2>1. d.grid[y][k] = IF y + l - d.y < l \/ (y + l - d.y = l /\ k < x)
                       THEN pic[<<y + l - d.y, k>>] ELSE Blank
    BY DEF Drawn
  <2>2. d.grid[y] \in [0 .. cols(d) - 1 -> CellsOf(Nat)] /\ d.y \in Int /\ y \in Int /\ k \in Int
    BY <1>1
  <2>3. CASE y = d.y /\ k = x
    <3>1. f.grid[y][k] = c
      BY <1>1, <1>3, <2>2, <2>3
    <3>2. y + l - d.y = l
      BY <2>2, <2>3
    <3> QED BY <1>5, <2>3, <3>1, <3>2
  <2>4. CASE ~(y = d.y /\ k = x)
    <3>1. f.grid[y][k] = d.grid[y][k]
      BY <1>1, <1>3, <2>2, <2>4
    <3>2. (y + l - d.y = l /\ k < x + 1) <=> (y + l - d.y = l /\ k < x)
      BY <2>2, <2>4
    <3> QED BY <2>1, <3>1, <3>2
  <2> QED BY <2>3, <2>4
<1>8. Drawn(f, pic, l, x + 1)
  BY <1>1, <1>3, <1>4, <1>6, <1>7 DEF Drawn
<1> QED BY <1>8 DEF f

\* The end of a line of which the rest is blank.
LEMMA LineDrawn ==
  ASSUME NEW d, NEW pic, NEW l \in Nat, NEW x \in Nat, Drawn(d, pic, l, x),
         \A c \in Nat : c >= x => pic[<<l, c>>] = Blank
  PROVE  Drawn(put_item(d, Plain(LF)), pic, l + 1, 0)
<1> DEFINE f == newline(d)
           R == rows(d)
           C == cols(d)
<1>1. /\ C \in Nat /\ C >= 1 /\ R \in Nat /\ R >= 1
      /\ DOMAIN d = {"font", "x", "y", "fg", "bg", "grid", "dirty"}
      /\ d.fg = DEFAULT /\ d.bg = DEFAULT /\ d.x = x
      /\ d.y = AtMost(l, R - 1) /\ d.y \in 0 .. R - 1
      /\ d.grid \in [0 .. R - 1 -> [0 .. C - 1 -> CellsOf(Nat)]]
  BY GoodSizes, GoodMeans DEF Drawn, GridOf, rows, cols
<1>2. put_item(d, Plain(LF)) = f
  BY DEF put_item, put_char, Plain
<1>3. Good(f, Nat) /\ f.font = d.font /\ f.x = 0 /\ f.fg = DEFAULT /\ f.bg = DEFAULT
  BY <1>1, NewlineGood DEF Drawn, SPACE
<1>4. rows(f) = R /\ cols(f) = C
  BY <1>3 DEF rows, cols
<1>5. ASSUME NEW y \in 0 .. R - 1, NEW k \in 0 .. C - 1
      PROVE  d.grid[y][k] = IF y + l - d.y < l + 1 THEN pic[<<y + l - d.y, k>>] ELSE Blank
  <2>1. d.grid[y][k] = IF y + l - d.y < l \/ (y + l - d.y = l /\ k < x)
                       THEN pic[<<y + l - d.y, k>>] ELSE Blank
    BY DEF Drawn
  <2>2. k \in Nat /\ y + l - d.y \in Int
    BY <1>1
  <2>3. CASE y + l - d.y = l
    BY <2>1, <2>2, <2>3
  <2>4. CASE y + l - d.y # l
    BY <2>1, <2>2, <2>4
  <2> QED BY <2>3, <2>4
<1>6. CASE d.y + 1 < R
  <2>1. f = [d EXCEPT !.x = 0, !.y = d.y + 1]
    BY <1>6 DEF newline
  <2>2. f.y = d.y + 1 /\ f.grid = d.grid
    BY <1>1, <2>1
  <2> HIDE DEF f, R, C
  <2>3. d.y = l /\ f.y = AtMost(l + 1, R - 1)
    BY <1>1, <1>6, <2>2 DEF AtMost
  <2>4. ASSUME NEW y \in 0 .. R - 1, NEW k \in 0 .. C - 1
        PROVE  f.grid[y][k] = IF y + (l + 1) - f.y < l + 1 \/ (y + (l + 1) - f.y = l + 1 /\ k < 0)
                              THEN pic[<<y + (l + 1) - f.y, k>>] ELSE Blank
    <3>1. y + (l + 1) - f.y = y /\ y + l - d.y = y
      BY <2>2, <2>3
    <3>2. ~(k < 0)
      BY <1>1
    <3> QED BY <1>5, <2>2, <3>1, <3>2
  <2> QED BY <1>2, <1>3, <1>4, <2>3, <2>4 DEF Drawn
<1>7. CASE ~(d.y + 1 < R)
  <2> DEFINE e == [d EXCEPT !.x = 0, !.y = R - 1]
  <2>1. f = scroll_up(e)
    BY <1>7 DEF newline
  <2>2. DOMAIN e = {"font", "x", "y", "fg", "bg", "grid", "dirty"}
        /\ e.font = d.font /\ e.y = R - 1 /\ e.grid = d.grid /\ e.fg = DEFAULT /\ e.bg = DEFAULT
    BY <1>1
  <2>3. rows(e) = R /\ cols(e) = C
    BY <2>2 DEF rows, cols
  <2> HIDE DEF e
  <2>4. /\ f.y = R - 1
        /\ f.grid = [y \in 0 .. R - 1 |-> IF y < R - 1 THEN d.grid[y + 1] ELSE BlankRow(e)]
    BY <2>1, <2>2, <2>3 DEF scroll_up
  <2>5. BlankRow(e) = [k \in 0 .. C - 1 |-> Blank]
    BY <2>2, <2>3 DEF BlankRow, Blank
  <2> HIDE DEF f, R, C
  <2>6. d.y = R - 1 /\ f.y = AtMost(l + 1, R - 1) /\ l >= R - 1
    BY <1>1, <1>7, <2>4 DEF AtMost
  <2>7. ASSUME NEW y \in 0 .. R - 1, NEW k \in 0 .. C - 1
        PROVE  f.grid[y][k] = IF y + (l + 1) - f.y < l + 1 \/ (y + (l + 1) - f.y = l + 1 /\ k < 0)
                              THEN pic[<<y + (l + 1) - f.y, k>>] ELSE Blank
    <3>1. y + (l + 1) - f.y = y + 1 + l - d.y
      BY <1>1, <2>4, <2>6
    <3>2. ~(k < 0)
      BY <1>1
    <3>3. CASE y < R - 1
      <4>1. f.grid[y][k] = d.grid[y + 1][k] /\ y + 1 \in 0 .. R - 1
        BY <1>1, <2>4, <3>3
      <4>2. y + 1 + l - d.y < l + 1
        BY <1>1, <2>6, <3>3
      <4> QED BY <1>5, <3>1, <3>2, <4>1, <4>2
    <3>4. CASE ~(y < R - 1)
      <4>1. f.grid[y][k] = Blank
        BY <1>1, <2>4, <2>5, <3>4
      <4>2. ~(y + (l + 1) - f.y < l + 1)
        BY <1>1, <2>4, <3>4
      <4> QED BY <3>2, <4>1, <4>2
    <3> QED BY <3>3, <3>4
  <2> QED BY <1>2, <1>3, <1>4, <2>6, <2>7 DEF Drawn
<1> QED BY <1>6, <1>7

\* The least number of columns.
Room == WIDTH \div 9

LEMMA RoomFor ==
  ASSUME NEW d, Good(d, Nat)
  PROVE  Room \in Nat /\ Room <= cols(d)
<1>1. d.font \in FontChoice
  BY GoodMeans
<1>2. WIDTH \div 9 \in Nat /\ WIDTH \div 9 <= WIDTH \div 8
  BY PixelAssumption
<1> QED BY <1>1, <1>2 DEF Room, cols, FontCols

\* An item at place p continues the picture to place q.
Fits(pic, p, item, q) ==
  \/ /\ item.ch # LF /\ p[2] < Room
     /\ pic[p] = Shown(item)
     /\ q = <<p[1], p[2] + 1>>
  \/ /\ item = Plain(LF)
     /\ \A c \in Nat : c >= p[2] => pic[<<p[1], c>>] = Blank
     /\ q = <<p[1] + 1, 0>>

\* Items that fit one after the other, the i-th from at[i - 1] to at[i].
LEMMA ItemsDrawn ==
  ASSUME NEW d, NEW pic, NEW items \in Seq(Item),
         NEW at \in [0 .. Len(items) -> Nat \X Nat],
         Drawn(d, pic, at[0][1], at[0][2]),
         \A i \in 0 .. Len(items) - 1 : Fits(pic, at[i], items[i + 1], at[i + 1])
  PROVE  LET N == Len(items)
         IN  Drawn(Written(d, items), pic, at[N][1], at[N][2])
<1> DEFINE N == Len(items)
<1>1. N \in Nat
  OBVIOUS
<1>2. PICK f : PutTrace(f, N, d, items) /\ Written(d, items) = f[N]
  BY <1>1, WrittenTrace
<1> DEFINE S == {n \in 0 .. N : Drawn(f[n], pic, at[n][1], at[n][2])}
<1>3. 0 \in S
  BY <1>1, <1>2 DEF PutTrace
<1>4. ASSUME NEW n \in 0 .. N - 1, n \in S PROVE n + 1 \in S
  <2>1. n + 1 \in 0 .. N /\ n \in 0 .. N /\ items[n + 1] \in Item
    BY <1>1
  <2>2. f[n + 1] = put_item(f[n], items[n + 1])
    BY <1>2 DEF PutTrace
  <2>3. PICK l \in Nat, x \in Nat : at[n] = <<l, x>>
    BY <2>1
  <2>4. Drawn(f[n], pic, l, x)
    BY <1>4, <2>3
  <2>5. PICK item \in Item : item = items[n + 1]
    BY <2>1
  <2>6. Fits(pic, <<l, x>>, item, at[n + 1])
    BY <2>3, <2>5
  <2>7. CASE /\ item.ch # LF /\ x < Room /\ pic[<<l, x>>] = Shown(item)
             /\ at[n + 1] = <<l, x + 1>>
    <3>1. x < cols(f[n])
      BY <2>4, <2>7, RoomFor, GoodSizes DEF Drawn
    <3>2. Drawn(f[n + 1], pic, l, x + 1)
      BY <2>2, <2>4, <2>5, <2>7, <3>1, CharDrawn
    <3> QED BY <2>1, <2>7, <3>2
  <2>8. CASE /\ item = Plain(LF) /\ at[n + 1] = <<l + 1, 0>>
             /\ \A c \in Nat : c >= x => pic[<<l, c>>] = Blank
    <3>1. Drawn(f[n + 1], pic, l + 1, 0)
      BY <2>2, <2>4, <2>5, <2>8, LineDrawn
    <3> QED BY <2>1, <2>8, <3>1
  <2> QED BY <2>6, <2>7, <2>8 DEF Fits
<1>5. 0 .. N \subseteq S
  <2> HIDE DEF S, N
  <2> QED BY <1>1, <1>3, <1>4, UpTo
<1> QED BY <1>1, <1>2, <1>5

\* What is written in two parts.
LEMMA WrittenBoth ==
  ASSUME NEW d, NEW s \in Seq(Item), NEW t \in Seq(Item)
  PROVE  Written(d, s \o t) = Written(Written(d, s), t)
<1> DEFINE N == Len(s)
           M == Len(t)
           u == s \o t
<1>1. /\ N \in Nat /\ M \in Nat /\ Len(u) = N + M
      /\ \A i \in 1 .. N : u[i] = s[i]
      /\ \A i \in 1 .. M : u[N + i] = t[i]
  OBVIOUS
<1> HIDE DEF u
<1>k. PICK K \in Nat : K = Len(u) /\ K = N + M
  BY <1>1
<1>2. PICK f : PutTrace(f, K, d, u) /\ Written(d, u) = f[K]
  BY <1>k, WrittenTrace
<1>3. PICK g : PutTrace(g, N, d, s) /\ Written(d, s) = g[N]
  BY <1>1, WrittenTrace
<1>4. PICK h : PutTrace(h, M, Written(d, s), t) /\ Written(Written(d, s), t) = h[M]
  BY <1>1, WrittenTrace
<1> HIDE DEF N, M
<1>5. f[N] = g[N]
  <2> DEFINE S == {n \in 0 .. N : f[n] = g[n]}
  <2>1. 0 \in S
    BY <1>1, <1>2, <1>3 DEF PutTrace
  <2>2. ASSUME NEW n \in 0 .. N - 1, n \in S PROVE n + 1 \in S
    <3>1. n + 1 \in 1 .. N /\ n + 1 \in 0 .. N /\ n \in 0 .. K - 1
      BY <1>1, <1>k
    <3>a. f[n + 1] = put_item(f[n], u[n + 1])
      BY <1>2, <3>1 DEF PutTrace
    <3>b. g[n + 1] = put_item(g[n], s[n + 1])
      BY <1>3 DEF PutTrace
    <3>2. f[n + 1] = put_item(f[n], u[n + 1]) /\ g[n + 1] = put_item(g[n], s[n + 1])
      BY <3>a, <3>b
    <3> QED BY <1>1, <2>2, <3>1, <3>2
  <2>3. 0 .. N \subseteq S
    <3> HIDE DEF S
    <3> QED BY <1>1, <2>1, <2>2, UpTo
  <2> QED BY <1>1, <2>3
<1>6. f[N + M] = h[M]
  <2> DEFINE S == {n \in 0 .. M : f[N + n] = h[n]}
  <2>1. 0 \in S
    BY <1>1, <1>3, <1>4, <1>5 DEF PutTrace
  <2>2. ASSUME NEW n \in 0 .. M - 1, n \in S PROVE n + 1 \in S
    <3>1. n + 1 \in 1 .. M /\ n + 1 \in 0 .. M /\ N + n \in 0 .. K - 1
          /\ N + n + 1 = N + (n + 1)
      BY <1>1, <1>k
    <3>a. f[N + n + 1] = put_item(f[N + n], u[N + n + 1])
      BY <1>2, <3>1 DEF PutTrace
    <3>b. h[n + 1] = put_item(h[n], t[n + 1])
      BY <1>4 DEF PutTrace
    <3>2. f[N + n + 1] = put_item(f[N + n], u[N + n + 1]) /\ h[n + 1] = put_item(h[n], t[n + 1])
      BY <3>a, <3>b
    <3>3. u[N + (n + 1)] = t[n + 1]
      BY <1>1, <3>1
    <3> QED BY <2>2, <3>1, <3>2, <3>3
  <2>3. 0 .. M \subseteq S
    <3> HIDE DEF S
    <3> QED BY <1>1, <2>1, <2>2, UpTo
  <2> QED BY <1>1, <2>3
<1> QED BY <1>k, <1>2, <1>4, <1>6 DEF u

\* Printing a text is printing its parts.
LEMMA PrintBoth ==
  ASSUME NEW s \in Seq(Nat), NEW t \in Seq(Nat)
  PROVE  print(s \o t) = print(s) \o print(t)
<1> DEFINE u == s \o t
<1>1. /\ Len(s) \in Nat /\ Len(t) \in Nat /\ Len(u) = Len(s) + Len(t)
      /\ DOMAIN s = 1 .. Len(s) /\ DOMAIN t = 1 .. Len(t) /\ DOMAIN u = 1 .. Len(s) + Len(t)
      /\ \A i \in 1 .. Len(s) : u[i] = s[i]
      /\ \A i \in 1 .. Len(t) : u[Len(s) + i] = t[i]
  OBVIOUS
<1>2. print(s) \in Seq(Item) /\ print(t) \in Seq(Item)
  BY PrintType
<1>3. /\ DOMAIN print(s) = 1 .. Len(s) /\ DOMAIN print(t) = 1 .. Len(t)
      /\ DOMAIN print(u) = 1 .. Len(s) + Len(t)
      /\ \A i \in 1 .. Len(s) : print(s)[i] = Plain(s[i])
      /\ \A i \in 1 .. Len(t) : print(t)[i] = Plain(t[i])
      /\ \A i \in 1 .. Len(s) + Len(t) : print(u)[i] = Plain(u[i])
  BY <1>1 DEF print
<1>4. Len(print(s)) = Len(s) /\ Len(print(t)) = Len(t)
  BY <1>1, <1>2, <1>3
<1> DEFINE a == print(s)
           b == print(t)
           v == print(u)
<1>5. v = [i \in 1 .. Len(s) + Len(t) |-> v[i]]
  BY <1>1 DEF print
<1> HIDE DEF a, b, v, u
<1>6. a \o b = [i \in 1 .. Len(a) + Len(b) |-> IF i <= Len(a) THEN a[i] ELSE b[i - Len(a)]]
  <2>1. PICK p \in Seq(Item) : p = a
    BY <1>2 DEF a
  <2>2. PICK q \in Seq(Item) : q = b
    BY <1>2 DEF b
  <2>3. p \o q = [i \in 1 .. Len(p) + Len(q) |-> IF i <= Len(p) THEN p[i] ELSE q[i - Len(p)]]
    <3> DEFINE r == p \o q
    <3>1. /\ Len(p) \in Nat /\ Len(q) \in Nat
          /\ r \in Seq(Item) /\ Len(r) = Len(p) + Len(q)
          /\ \A i \in 1 .. Len(p) : r[i] = p[i]
          /\ \A i \in Len(p) + 1 .. Len(p) + Len(q) : r[i] = q[i - Len(p)]
      BY ONLY <2>1, <2>2
    <3> HIDE DEF r
    <3>2. r = [i \in 1 .. Len(p) + Len(q) |-> r[i]]
      BY ONLY <3>1
    <3>3. ASSUME NEW i \in 1 .. Len(p) + Len(q)
          PROVE  r[i] = IF i <= Len(p) THEN p[i] ELSE q[i - Len(p)]
      <4>1. CASE i <= Len(p)
        <5>1. i \in 1 .. Len(p)
          BY ONLY <3>1, <4>1
        <5> QED BY <3>1, <4>1, <5>1
      <4>2. CASE ~(i <= Len(p))
        <5>1. i \in Len(p) + 1 .. Len(p) + Len(q)
          BY ONLY <3>1, <4>2
        <5> QED BY <3>1, <4>2, <5>1
      <4> QED BY <4>1, <4>2
    <3>4. r = [i \in 1 .. Len(p) + Len(q) |-> IF i <= Len(p) THEN p[i] ELSE q[i - Len(p)]]
      BY ONLY <3>2, <3>3
    <3> QED BY <3>4 DEF r
  <2> QED BY <2>1, <2>2, <2>3
<1>7. ASSUME NEW i \in 1 .. Len(s) + Len(t)
      PROVE  v[i] = IF i <= Len(s) THEN a[i] ELSE b[i - Len(s)]
  <2>1. CASE i <= Len(s)
    <3>1. i \in 1 .. Len(s)
      BY <1>1, <2>1
    <3> QED BY <1>1, <1>3, <2>1, <3>1 DEF v, a
  <2>2. CASE ~(i <= Len(s))
    <3> DEFINE j == i - Len(s)
    <3>1. j \in 1 .. Len(t) /\ i = Len(s) + j
      BY <1>1, <2>2
    <3> HIDE DEF j
    <3> QED BY <1>1, <1>3, <2>2, <3>1 DEF v, b, j
  <2> QED BY <2>1, <2>2
<1>8. v = [i \in 1 .. Len(s) + Len(t) |-> IF i <= Len(s) THEN a[i] ELSE b[i - Len(s)]]
  BY <1>5, <1>7
<1> QED BY <1>4, <1>6, <1>8 DEF a, b, v, u

\* Line l of a picture is a text.
IsLine(pic, l, text) ==
  \A c \in Nat : pic[<<l, c>>] = IF c < Len(text) THEN Shown(Plain(text[c + 1])) ELSE Blank

Texts == Seq(Nat \ {LF})

\* In the course of printing s: from column x of a line on, the rest of its text and
\* the end of the line are what s has from place k + 1 to place n.
LEMMA LineTraced ==
  ASSUME NEW pic, NEW s \in Seq(Nat), NEW d, NEW f, PutTrace(f, Len(s), d, print(s)),
         NEW l \in Nat, NEW text \in Texts, Len(text) <= Room, IsLine(pic, l, text),
         NEW x \in 0 .. Len(text), NEW k \in Nat, Drawn(f[k], pic, l, x),
         NEW n \in 1 .. Len(s), n = k + Len(text) - x + 1,
         \A i \in x + 1 .. Len(text) : s[k - x + i] = text[i],
         s[n] = LF, NEW m, m = l + 1
  PROVE  Drawn(f[n], pic, m, 0)
<1> DEFINE N == Len(text)
           items == print(s)
           M == N - x
           S == {i \in 0 .. M : Drawn(f[k + i], pic, l, x + i)}
<1>1. N \in Nat /\ M \in Nat /\ Len(s) \in Nat /\ \A i \in 1 .. N : text[i] \in Nat \ {LF}
  BY DEF Texts
<1>2. \A i \in 1 .. Len(s) : items[i] = Plain(s[i])
  BY DEF print
<1>3. \A i \in 0 .. Len(s) - 1 : f[i + 1] = put_item(f[i], items[i + 1])
  BY DEF PutTrace
<1>4. Room \in Nat
  BY PixelAssumption DEF Room
<1> HIDE DEF items
<1>5. 0 \in S
  BY <1>1
<1>6. ASSUME NEW i \in 0 .. M - 1, i \in S PROVE i + 1 \in S
  <2>1. PICK c \in Nat : c = x + i /\ c + 1 \in x + 1 .. N /\ c < Room
    <3>1. x + i \in Nat /\ x + i + 1 \in x + 1 .. N /\ x + i < Room
      BY <1>1, <1>4
    <3> QED BY <3>1
  <2>2. PICK j \in Nat : j = k + i /\ j \in 0 .. Len(s) - 1 /\ j + 1 \in 1 .. Len(s)
                         /\ j + 1 = k + (i + 1) /\ j + 1 = k - x + (c + 1)
    <3>1. /\ k + i \in Nat /\ k + i \in 0 .. Len(s) - 1 /\ k + i + 1 \in 1 .. Len(s)
          /\ k + i + 1 = k + (i + 1) /\ k + i + 1 = k - x + (c + 1)
      BY <1>1, <2>1
    <3> QED BY <3>1
  <2>3. s[j + 1] = text[c + 1] /\ text[c + 1] \in Nat \ {LF}
    <3>1. c + 1 \in 1 .. N
      BY <1>1, <2>1
    <3> QED BY <1>1, <2>1, <2>2, <3>1
  <2>4. f[j + 1] = put_item(f[j], Plain(s[j + 1]))
    BY <1>2, <1>3, <2>2
  <2>5. Drawn(f[j], pic, l, c)
    BY <1>6, <2>1, <2>2
  <2>6. c < cols(f[j])
    BY <1>4, <2>1, <2>5, RoomFor, GoodSizes DEF Drawn
  <2>7. pic[<<l, c>>] = Shown(Plain(s[j + 1]))
    <3>1. c < N
      BY <1>1, <2>1
    <3> QED BY <2>3, <3>1 DEF IsLine
  <2>8. Plain(s[j + 1]) \in Item /\ Plain(s[j + 1]).ch # LF
    BY <2>3 DEF Plain, Item
  <2>9. Drawn(f[j + 1], pic, l, c + 1)
    BY <2>4, <2>5, <2>6, <2>7, <2>8, CharDrawn
  <2>10. i + 1 \in 0 .. M /\ c + 1 = x + (i + 1)
    BY <1>1, <2>1
  <2> QED BY <2>2, <2>9, <2>10
<1>7. 0 .. M \subseteq S
  <2> HIDE DEF S, M
  <2> QED BY <1>1, <1>5, <1>6, UpTo
<1>8. PICK j \in Nat : j = n - 1 /\ j = k + M /\ j + 1 = n /\ j \in 0 .. Len(s) - 1
  <2>1. n - 1 \in Nat /\ n - 1 = k + M /\ n - 1 + 1 = n /\ n - 1 \in 0 .. Len(s) - 1
    BY <1>1
  <2> QED BY <2>1
<1>9. Drawn(f[j], pic, l, N)
  <2>1. M \in 0 .. M /\ x + M = N
    <3> HIDE DEF S
    <3> QED BY <1>1 DEF M
  <2>2. M \in S
    BY <1>7, <2>1
  <2>3. Drawn(f[k + M], pic, l, x + M)
    <3> HIDE DEF M
    <3> QED BY <2>2
  <2> QED BY <1>8, <2>1, <2>3
<1>10. f[n] = put_item(f[j], Plain(LF))
  BY <1>2, <1>3, <1>8
<1>11. \A c \in Nat : c >= N => pic[<<l, c>>] = Blank
  BY <1>1 DEF IsLine
<1> HIDE DEF N
<1>12. Drawn(put_item(f[j], Plain(LF)), pic, l + 1, 0)
  BY <1>1, <1>9, <1>11, LineDrawn
<1> QED BY <1>10, <1>12

\* What printing a text does, step by step.
LEMMA PrintTrace ==
  ASSUME NEW d, NEW s \in Seq(Nat)
  PROVE  \E f : /\ PutTrace(f, Len(s), d, print(s)) /\ f[0] = d
                /\ Written(d, print(s)) = f[Len(s)]
<1>1. Len(print(s)) = Len(s) /\ Len(s) \in Nat
  <2>1. print(s) \in Seq(Item)
    BY PrintType
  <2>2. DOMAIN print(s) = DOMAIN s
    BY DEF print
  <2> QED BY <2>1, <2>2
<1>2. PICK f : /\ PutTrace(f, Len(print(s)), d, print(s))
               /\ Written(d, print(s)) = f[Len(print(s))]
  BY <1>1, WrittenTrace
<1> QED BY <1>1, <1>2 DEF PutTrace

-----------------------------------------------------------------------------
(* The picture a frame draws: the map, the texts, the death screen.         *)

\* The picture of Picture when the explored cells are seen: what render draws.
Painted(seen, visibility) ==
  [p \in Nat \X Nat |->
     LET text == IF is_dead THEN DeadLine(p[1]) ELSE TextLine(p[1])
     IN  IF ~is_dead /\ p[1] \in 2 .. H + 1 /\ p[2] < W
           THEN Shown(draw_cell(<<p[2], p[1] - 2>>, seen, visibility))
         ELSE IF p[2] < Len(text) THEN Shown(Plain(text[p[2] + 1]))
         ELSE Shown(Plain(SPACE))]

\* The cell of the picture at column c of line l.
LEMMA PaintedAt ==
  ASSUME NEW seen, NEW visibility, NEW l \in Nat, NEW c \in Nat
  PROVE  Painted(seen, visibility)[<<l, c>>] =
           LET text == IF is_dead THEN DeadLine(l) ELSE TextLine(l)
           IN  IF ~is_dead /\ l \in 2 .. H + 1 /\ c < W
                 THEN Shown(draw_cell(<<c, l - 2>>, seen, visibility))
               ELSE IF c < Len(text) THEN Shown(Plain(text[c + 1])) ELSE Blank
<1>1. <<l, c>> \in Nat \X Nat /\ <<l, c>>[1] = l /\ <<l, c>>[2] = c
  OBVIOUS
<1>2. Shown(Plain(SPACE)) = Blank
  BY DEF Shown, Plain, Blank
<1> DEFINE p == <<l, c>>
           text == IF is_dead THEN DeadLine(p[1]) ELSE TextLine(p[1])
<1>3. Painted(seen, visibility)[p] =
        IF ~is_dead /\ p[1] \in 2 .. H + 1 /\ p[2] < W
          THEN Shown(draw_cell(<<p[2], p[1] - 2>>, seen, visibility))
        ELSE IF p[2] < Len(text) THEN Shown(Plain(text[p[2] + 1]))
        ELSE Shown(Plain(SPACE))
  BY <1>1 DEF Painted
<1> QED BY <1>1, <1>2, <1>3

\* The lines of the picture that are not the map's.
LEMMA PaintedLine ==
  ASSUME NEW seen, NEW visibility, NEW l \in Nat, is_dead \/ l \notin 2 .. H + 1
  PROVE  IsLine(Painted(seen, visibility), l, IF is_dead THEN DeadLine(l) ELSE TextLine(l))
<1>1. ASSUME NEW c \in Nat
      PROVE  LET text == IF is_dead THEN DeadLine(l) ELSE TextLine(l)
             IN  Painted(seen, visibility)[<<l, c>>] =
                   IF c < Len(text) THEN Shown(Plain(text[c + 1])) ELSE Blank
  BY PaintedAt
<1> QED BY <1>1 DEF IsLine

\* The next item of the map's rows is in the same row or begins the next one.
LEMMA NextOf ==
  ASSUME NEW w \in Nat \ {0}, NEW i \in Nat
  PROVE  /\ i % w \in 0 .. w - 1 /\ i \div w \in Nat
         /\ i % w = w - 1 => (i + 1) % w = 0 /\ (i + 1) \div w = i \div w + 1
         /\ i % w # w - 1 => (i + 1) % w = (i % w) + 1 /\ (i + 1) \div w = i \div w
<1> DEFINE q == i \div w
           r == i % w
<1>1. q \in Int /\ r \in 0 .. w - 1 /\ i = w * q + r
  OBVIOUS
<1>2. q >= 0
  <2> SUFFICES ASSUME q <= -1 PROVE FALSE
    BY <1>1
  <2> HIDE DEF q, r
  <2>1. w * q <= w * (-1)
    BY <1>1
  <2> QED BY <1>1, <2>1
<1> DEFINE p == (i + 1) \div w
           s == (i + 1) % w
<1>3. p \in Int /\ s \in 0 .. w - 1 /\ i + 1 = w * p + s
  OBVIOUS
<1> HIDE DEF q, r, p, s
<1>4. CASE r = w - 1
  <2>1. w * p + s = w * (q + 1)
    BY <1>1, <1>3, <1>4
  <2>2. p = q + 1
    <3>1. CASE p >= q + 2
      <4>1. w * p >= w * (q + 2)
        BY <1>1, <1>3, <3>1
      <4> QED BY <1>1, <1>3, <2>1, <4>1
    <3>2. CASE p <= q
      <4>1. w * p <= w * q
        BY <1>1, <1>3, <3>2
      <4> QED BY <1>1, <1>3, <2>1, <4>1
    <3> QED BY <1>1, <1>3, <3>1, <3>2
  <2>3. s = 0
    BY <1>1, <1>3, <2>1, <2>2
  <2> QED BY <1>1, <1>2, <1>4, <2>2, <2>3 DEF p, q, r, s
<1>5. CASE r # w - 1
  <2>1. w * p + s = w * q + (r + 1)
    BY <1>1, <1>3
  <2>2. r + 1 \in 0 .. w - 1
    BY <1>1, <1>5
  <2>3. p = q
    <3>1. CASE p >= q + 1
      <4>1. w * p >= w * (q + 1)
        BY <1>1, <1>3, <3>1
      <4> QED BY <1>1, <1>3, <2>1, <2>2, <4>1
    <3>2. CASE p <= q - 1
      <4>1. w * p <= w * (q - 1)
        BY <1>1, <1>3, <3>2
      <4> QED BY <1>1, <1>3, <2>1, <2>2, <4>1
    <3> QED BY <1>1, <1>3, <3>1, <3>2
  <2>4. s = r + 1
    BY <1>1, <1>3, <2>1, <2>2, <2>3
  <2> QED BY <1>1, <1>2, <1>5, <2>3, <2>4 DEF p, q, r, s
<1> QED BY <1>4, <1>5

\* The rows of the map, written from the start of line 2.
LEMMA MapDrawn ==
  ASSUME TypeOK, ~is_dead, W <= Room, NEW seen, NEW visibility,
         NEW d, Drawn(d, Painted(seen, visibility), 2, 0)
  PROVE  Drawn(Written(d, MapItems(seen, visibility)), Painted(seen, visibility), H + 2, 0)
<1> DEFINE pic == Painted(seen, visibility)
           items == MapItems(seen, visibility)
           w == W + 1
           N == w * H
           at == [i \in 0 .. N |-> <<2 + (i \div w), i % w>>]
<1>1. w \in Nat \ {0} /\ W \in Nat /\ H \in Nat /\ w - 1 = W
  BY SizeAssumption
<1>2. N \in Nat
  BY <1>1
<1>3. items \in Seq(Item)
  BY MapItemsType
<1>4. items = [i \in 1 .. N |->
                 IF (i - 1) % w = W THEN Plain(LF)
                 ELSE draw_cell(<<(i - 1) % w, (i - 1) \div w>>, seen, visibility)]
  BY DEF MapItems
<1>5. ASSUME NEW i \in 0 .. N - 1
      PROVE  /\ i \in Nat /\ i \in 0 .. N /\ i + 1 \in 0 .. N
             /\ items[i + 1] = IF i % w = W THEN Plain(LF)
                               ELSE draw_cell(<<i % w, i \div w>>, seen, visibility)
             /\ i \div w \in 0 .. H - 1
  <2> HIDE DEF w
  <2>1. i + 1 \in 1 .. N /\ i + 1 - 1 = i /\ i \in Nat
    BY <1>2
  <2>2. i \div w \in 0 .. H - 1
    BY <1>1, <2>1, RowOf
  <2> HIDE DEF N, items
  <2> QED BY <1>2, <1>4, <2>1, <2>2
<1> HIDE DEF items, w, N
<1>6. Len(items) = N
  <2>1. DOMAIN items = 1 .. N
    BY <1>4
  <2> QED BY <1>2, <1>3, <2>1
<1>7. \A i \in 0 .. N : at[i] = <<2 + (i \div w), i % w>>
  OBVIOUS
<1>8. at \in [0 .. N -> Nat \X Nat]
  <2>1. ASSUME NEW i \in 0 .. N PROVE i \div w \in Nat /\ i % w \in Nat
    <3>1. i \in Nat
      BY <1>2
    <3>2. i % w \in 0 .. w - 1 /\ i \div w \in Nat
      BY <1>1, <3>1, NextOf
    <3> QED BY <1>1, <3>2
  <2> QED BY <2>1
<1> HIDE DEF at
<1>9. ASSUME NEW i \in 0 .. N - 1 PROVE Fits(pic, at[i], items[i + 1], at[i + 1])
  <2>1. /\ i \in Nat /\ at[i] = <<2 + (i \div w), i % w>>
        /\ at[i + 1] = <<2 + ((i + 1) \div w), (i + 1) % w>>
        /\ i \div w \in 0 .. H - 1 /\ i % w \in 0 .. W
    BY <1>1, <1>5, <1>7, NextOf
  <2>2. PICK x \in Nat, y \in Nat : x = i % w /\ y = i \div w /\ x \in 0 .. W /\ y \in 0 .. H - 1
    BY <1>1, <2>1
  <2>3. at[i] = <<2 + y, x>>
    BY <2>1, <2>2
  <2>4. 2 + y \in Nat /\ 2 + y \in 2 .. H + 1 /\ 2 + y - 2 = y
    BY <1>1, <2>2
  <2> HIDE DEF pic
  <2>5. CASE x = W
    <3>1. items[i + 1] = Plain(LF)
      BY <1>5, <2>2, <2>5
    <3>2. at[i + 1] = <<2 + y + 1, 0>>
      <4>1. (i + 1) % w = 0 /\ (i + 1) \div w = y + 1
        BY <1>1, <2>1, <2>2, <2>5, NextOf
      <4>2. 2 + (y + 1) = 2 + y + 1
        BY <2>2
      <4> QED BY <2>1, <4>1, <4>2
    <3>3. ASSUME NEW c \in Nat, c >= x PROVE pic[<<2 + y, c>>] = Blank
      <4>1. ~(c < W) /\ ~(c < Len(TextLine(2 + y)))
        <5>1. TextLine(2 + y) = <<>>
          <6>1. PICK n \in Nat : n = 2 + y
            BY <2>2
          <6>2. /\ n # 0 /\ n # H + 3 /\ n # H + 4 /\ n # H + 5 /\ n # H + 6
                /\ n # H + 7 /\ n # H + 8 /\ n # H + 9 /\ n # H + 10
            BY <1>1, <2>2, <6>1
          <6>3. TextLine(n) = <<>>
            BY <6>2 DEF TextLine
          <6> QED BY <6>1, <6>3
        <5>2. ~(c < 0) /\ ~(c < W)
          BY <1>1, <2>5, <3>3
        <5> QED BY <5>1, <5>2
      <4> QED BY <2>4, <4>1, PaintedAt DEF pic
    <3> QED BY <2>3, <3>1, <3>2, <3>3 DEF Fits
  <2>6. CASE x # W
    <3>1. items[i + 1] = draw_cell(<<x, y>>, seen, visibility)
      BY <1>5, <2>2, <2>6
    <3>2. at[i + 1] = <<2 + y, x + 1>>
      BY <1>1, <2>1, <2>2, <2>6, NextOf
    <3>3. x < W /\ x < Room
      BY <1>1, <2>2, <2>6, PixelAssumption DEF Room
    <3>4. <<x, y>> \in Cells
      BY <1>1, <2>2, <3>3 DEF Cells
    <3>5. items[i + 1].ch # LF
      BY <3>1, <3>4, CellItem
    <3>6. pic[<<2 + y, x>>] = Shown(items[i + 1])
      <4>1. PICK l \in Nat : l = 2 + y /\ l \in 2 .. H + 1 /\ l - 2 = y
        BY <2>4
      <4>2. pic[<<l, x>>] = Shown(draw_cell(<<x, l - 2>>, seen, visibility))
        BY <3>3, <4>1, PaintedAt DEF pic
      <4> QED BY <3>1, <4>1, <4>2
    <3> QED BY <2>3, <3>2, <3>3, <3>5, <3>6 DEF Fits
  <2> QED BY <2>5, <2>6
<1>10. at[0] = <<2, 0>> /\ at[N] = <<2 + H, 0>>
  <2>1. 0 \div w = 0 /\ 0 % w = 0
    BY <1>1
  <2>2. N \div w = H /\ N % w = 0
    <3>1. N = w * H + 0
      BY <1>1 DEF N
    <3> DEFINE q == N \div w
               r == N % w
    <3>2. q \in Int /\ r \in 0 .. w - 1 /\ N = w * q + r
      BY <1>1, <1>2
    <3> HIDE DEF q, r
    <3>3. q = H
      <4>1. CASE q >= H + 1
        <5>1. w * q >= w * (H + 1)
          BY <1>1, <3>2, <4>1
        <5> QED BY <1>1, <3>1, <3>2, <5>1
      <4>2. CASE q <= H - 1
        <5>1. w * q <= w * (H - 1)
          BY <1>1, <3>2, <4>2
        <5> QED BY <1>1, <3>1, <3>2, <5>1
      <4> QED BY <1>1, <3>2, <4>1, <4>2
    <3>4. r = 0
      BY <1>1, <3>1, <3>2, <3>3
    <3> QED BY <3>3, <3>4 DEF q, r
  <2> QED BY <1>2, <1>7, <2>1, <2>2
<1>11. Drawn(d, pic, at[0][1], at[0][2])
  BY <1>10
<1> HIDE DEF pic
<1>12. Drawn(Written(d, items), pic, at[N][1], at[N][2])
  BY <1>3, <1>6, <1>8, <1>9, <1>11, ItemsDrawn
<1>13. 2 + H = H + 2
  BY <1>1
<1> QED BY <1>10, <1>12, <1>13 DEF items, pic

\* The codes printed.
LEMMA TextCodes ==
  ASSUME TypeOK
  PROVE  /\ \A ch \in {"title", "move_help", "hp", "str", "xp", "options_help", "menu",
                       "font", "graphics", "color", "close", "dead", "stats",
                       "leave_help", "leaving", "on", "off"} : Text[ch] \in Nat \ {LF}
         /\ label(options.font) \in Nat \ {LF}
         /\ OnOff(options.graphical_tiles) \in Nat \ {LF} /\ OnOff(options.color) \in Nat \ {LF}
         /\ Number(hit_points) \in Nat \ {LF} /\ Number(Strength) \in Nat \ {LF}
         /\ Number(xp) \in Nat \ {LF}
<1>1. \A ch \in {"title", "move_help", "hp", "str", "xp", "options_help", "menu",
                 "font", "graphics", "color", "close", "dead", "stats",
                 "leave_help", "leaving", "on", "off"} : Text[ch] \in Nat \ {LF}
  BY DEF Text, LF
<1>2. label(options.font) \in Nat \ {LF}
  BY DEF LF, label, kernel_index, TypeOK, DisplayOptions, FontChoice
<1>3. OnOff(options.graphical_tiles) \in Nat \ {LF} /\ OnOff(options.color) \in Nat \ {LF}
  BY <1>1 DEF OnOff
<1>4. Number(hit_points) \in Nat \ {LF} /\ Number(Strength) \in Nat \ {LF} /\ Number(xp) \in Nat \ {LF}
  BY DungeonAssumption DEF Number, TypeOK, LF
<1> QED BY <1>1, <1>2, <1>3, <1>4

\* The death screen, written on a cleared display.
LEMMA DeadDrawn ==
  ASSUME TypeOK, is_dead, 6 <= Room, NEW seen, NEW visibility,
         NEW d, Drawn(d, Painted(seen, visibility), 0, 0)
  PROVE  Drawn(Written(d, DeadFrame), Painted(seen, visibility), 5, 0)
<1> DEFINE pic == Painted(seen, visibility)
           dead == <<Text.dead>>
           stats == <<Text.stats, Number(hit_points), Text.str, Number(Strength)>>
           help == <<Text.leave_help>>
           s == <<Text.dead, LF, LF, Text.stats, Number(hit_points), Text.str,
                  Number(Strength), LF, LF, Text.leave_help, LF>>
<1>1. LF \in Nat /\ Text.dead \in Nat \ {LF} /\ Text.stats \in Nat \ {LF}
      /\ Number(hit_points) \in Nat \ {LF} /\ Text.str \in Nat \ {LF}
      /\ Number(Strength) \in Nat \ {LF} /\ Text.leave_help \in Nat \ {LF}
  BY TextCodes DEF LF
<1>2. Room \in Nat
  BY PixelAssumption DEF Room
<1>3. /\ dead \in Texts /\ stats \in Texts /\ help \in Texts /\ <<>> \in Texts
      /\ Len(dead) = 1 /\ Len(stats) = 4 /\ Len(help) = 1 /\ Len(<<>>) = 0
  BY <1>1 DEF Texts
<1>4. /\ IsLine(pic, 0, dead) /\ IsLine(pic, 1, <<>>) /\ IsLine(pic, 2, stats)
      /\ IsLine(pic, 3, <<>>) /\ IsLine(pic, 4, help)
  <2>1. ASSUME NEW l \in Nat PROVE IsLine(pic, l, DeadLine(l))
    BY PaintedLine
  <2>2. DeadLine(0) = dead /\ DeadLine(1) = <<>> /\ DeadLine(2) = stats
        /\ DeadLine(3) = <<>> /\ DeadLine(4) = help
    BY DEF DeadLine
  <2> HIDE DEF pic, dead, stats, help
  <2> QED BY <2>1, <2>2
<1>5. DeadFrame = print(s)
  BY DEF DeadFrame
<1>6. s \in Seq(Nat) /\ Len(s) = 11 /\ s[2] = LF /\ s[3] = LF /\ s[8] = LF /\ s[9] = LF
      /\ s[11] = LF
  BY <1>1
<1>7. /\ \A i \in 1 .. 1 : s[0 - 0 + i] = dead[i]
      /\ \A i \in 1 .. 4 : s[3 - 0 + i] = stats[i]
      /\ \A i \in 1 .. 1 : s[9 - 0 + i] = help[i]
  <2>1. s[1] = dead[1] /\ s[4] = stats[1] /\ s[5] = stats[2] /\ s[6] = stats[3]
        /\ s[7] = stats[4] /\ s[10] = help[1]
    OBVIOUS
  <2>2. \A i \in 1 .. 4 : i = 1 \/ i = 2 \/ i = 3 \/ i = 4
    OBVIOUS
  <2> HIDE DEF s, dead, stats, help
  <2> QED BY <2>1, <2>2
<1> HIDE DEF pic, dead, stats, help, s
<1>8. PICK f : PutTrace(f, Len(s), d, print(s)) /\ f[0] = d /\ Written(d, print(s)) = f[Len(s)]
  BY <1>6, PrintTrace
<1>9. Drawn(f[0], pic, 0, 0)
  BY <1>8 DEF pic
<1> DEFINE Traced(text, l, k, n) ==
             /\ Drawn(f[k], pic, l, 0) /\ IsLine(pic, l, text)
             /\ \A i \in 0 + 1 .. Len(text) : s[k - 0 + i] = text[i]
             /\ s[n] = LF
<1>10. ASSUME NEW l \in Nat, NEW text \in Texts, Len(text) <= Room, NEW k \in Nat,
              NEW n \in 1 .. 11, n = k + Len(text) - 0 + 1, NEW m, m = l + 1,
              Traced(text, l, k, n)
       PROVE  Drawn(f[n], pic, m, 0)
  <2>1. 0 \in 0 .. Len(text)
    BY <1>2 DEF Texts
  <2>2. n \in 1 .. Len(s)
    BY <1>6
  <2> QED BY <1>6, <1>8, <1>10, <2>1, <2>2, LineTraced
<1>11. Drawn(f[2], pic, 1, 0)
  <2>1. Traced(dead, 0, 0, 2)
    BY <1>3, <1>4, <1>6, <1>7, <1>9
  <2> HIDE DEF Traced
  <2>2. /\ 2 \in 1 .. 11 /\ 2 = 0 + Len(dead) - 0 + 1 /\ 1 = 0 + 1
        /\ Len(dead) <= Room /\ dead \in Texts
    BY <1>2, <1>3
  <2> QED BY <1>10, <2>1, <2>2
<1>12. Drawn(f[3], pic, 2, 0)
  <2>1. Traced(<<>>, 1, 2, 3)
    BY <1>3, <1>4, <1>6, <1>11
  <2> HIDE DEF Traced
  <2> QED BY <1>2, <1>3, <1>10, <2>1
<1>13. Drawn(f[8], pic, 3, 0)
  <2>1. Traced(stats, 2, 3, 8)
    BY <1>3, <1>4, <1>6, <1>7, <1>12
  <2> HIDE DEF Traced
  <2>2. /\ 8 \in 1 .. 11 /\ 8 = 3 + Len(stats) - 0 + 1 /\ 3 = 2 + 1
        /\ Len(stats) <= Room /\ stats \in Texts
    BY <1>2, <1>3
  <2> QED BY <1>10, <2>1, <2>2
<1>14. Drawn(f[9], pic, 4, 0)
  <2>1. Traced(<<>>, 3, 8, 9)
    BY <1>3, <1>4, <1>6, <1>13
  <2> HIDE DEF Traced
  <2> QED BY <1>2, <1>3, <1>10, <2>1
<1>15. Drawn(f[11], pic, 5, 0)
  <2>1. Traced(help, 4, 9, 11)
    BY <1>3, <1>4, <1>6, <1>7, <1>14
  <2> HIDE DEF Traced
  <2>2. /\ 11 \in 1 .. 11 /\ 11 = 9 + Len(help) - 0 + 1 /\ 5 = 4 + 1
        /\ Len(help) <= Room /\ help \in Texts
    BY <1>2, <1>3
  <2> QED BY <1>10, <2>1, <2>2
<1> QED BY <1>5, <1>6, <1>8, <1>15 DEF pic

HealthText == <<Text.hp, Number(hit_points), Text.str, Number(Strength),
                Text.xp, Number(xp)>>
FontText == <<Text.font, label(options.font)>>
GraphicsText == <<Text.graphics, OnOff(options.graphical_tiles)>>
ColorText == <<Text.color, OnOff(options.color)>>

\* The texts are free of line ends and no longer than the screen is wide.
LEMMA TextLengths ==
  ASSUME TypeOK
  PROVE  /\ HealthText \in Texts /\ Len(HealthText) = 6
         /\ FontText \in Texts /\ Len(FontText) = 2
         /\ GraphicsText \in Texts /\ Len(GraphicsText) = 2
         /\ ColorText \in Texts /\ Len(ColorText) = 2
         /\ \A t \in {"title", "move_help", "options_help", "menu", "close"} :
              <<Text[t]>> \in Texts /\ Len(<<Text[t]>>) = 1
         /\ <<>> \in Texts /\ Len(<<>>) = 0
<1>1. HealthText \in Texts /\ Len(HealthText) = 6
  BY TextCodes DEF HealthText, Texts
<1>2. /\ FontText \in Texts /\ Len(FontText) = 2
      /\ GraphicsText \in Texts /\ Len(GraphicsText) = 2
      /\ ColorText \in Texts /\ Len(ColorText) = 2
  BY TextCodes DEF FontText, GraphicsText, ColorText, Texts
<1>3. ASSUME NEW t \in {"title", "move_help", "options_help", "menu", "close"}
      PROVE  <<Text[t]>> \in Texts /\ Len(<<Text[t]>>) = 1
  <2>1. Text[t] \in Nat \ {LF}
    BY TextCodes
  <2> QED BY <2>1 DEF Texts
<1>4. <<>> \in Texts /\ Len(<<>>) = 0
  BY DEF Texts
<1> QED BY <1>1, <1>2, <1>3, <1>4

\* The lines of a frame that are not the map's.
LEMMA LiveLines ==
  ASSUME TypeOK, ~is_dead, NEW seen, NEW visibility, NEW pic, pic = Painted(seen, visibility)
  PROVE  /\ IsLine(pic, 0, <<Text.title>>) /\ IsLine(pic, 1, <<>>)
         /\ IsLine(pic, H + 2, <<>>) /\ IsLine(pic, H + 3, <<Text.move_help>>)
         /\ IsLine(pic, H + 4, HealthText) /\ IsLine(pic, H + 5, <<Text.options_help>>)
         /\ options.menu_open =>
              /\ IsLine(pic, H + 6, <<Text.menu>>) /\ IsLine(pic, H + 7, FontText)
              /\ IsLine(pic, H + 8, GraphicsText) /\ IsLine(pic, H + 9, ColorText)
              /\ IsLine(pic, H + 10, <<Text.close>>)
<1>1. H \in Nat
  BY SizeAssumption
<1>2. \A l \in Nat : l \notin 2 .. H + 1 => IsLine(pic, l, TextLine(l))
  BY PaintedLine
<1>3. /\ 0 \in Nat \ (2 .. H + 1) /\ 1 \in Nat \ (2 .. H + 1)
      /\ \A i \in 2 .. 11 : H + i \in Nat \ (2 .. H + 1)
  BY <1>1
<1> DEFINE T == <<Text.title>>
           M == <<Text.move_help>>
           O == <<Text.options_help>>
           U == <<Text.menu>>
           C == <<Text.close>>
           S == HealthText
           F == FontText
           G == GraphicsText
           K == ColorText
<1>4. \A n :
        TextLine(n) =
          IF n >= FrameLines THEN <<>>
          ELSE CASE n = 0 -> T
                 [] n = H + 3 -> M
                 [] n = H + 4 -> S
                 [] n = H + 5 -> O
                 [] n = H + 6 -> U
                 [] n = H + 7 -> F
                 [] n = H + 8 -> G
                 [] n = H + 9 -> K
                 [] n = H + 10 -> C
                 [] OTHER -> <<>>
  BY DEF TextLine, HealthText, FontText, GraphicsText, ColorText
<1>5. FrameLines = IF options.menu_open THEN H + 12 ELSE H + 6
  BY DEF FrameLines
<1> HIDE DEF T, M, O, U, C, S, F, G, K
<1>6. /\ TextLine(0) = T /\ TextLine(1) = <<>> /\ TextLine(H + 2) = <<>>
      /\ TextLine(H + 3) = M /\ TextLine(H + 4) = S /\ TextLine(H + 5) = O
  <2>1. TextLine(0) = T
    BY <1>1, <1>4, <1>5
  <2>2. TextLine(1) = <<>>
    BY <1>1, <1>4, <1>5
  <2>3. TextLine(H + 2) = <<>>
    <3>1. PICK n \in Nat : n = H + 2
      BY <1>1
    <3>2. /\ ~(n >= FrameLines) /\ n # 0
          /\ n # H + 3 /\ n # H + 4 /\ n # H + 5 /\ n # H + 6 /\ n # H + 7 /\ n # H + 8 /\ n # H + 9 /\ n # H + 10
      BY <1>1, <1>5, <3>1
    <3>3. TextLine(n) = <<>>
      BY <1>4, <3>2
    <3> QED BY <3>1, <3>3
  <2>4. TextLine(H + 3) = M
    <3>1. PICK n \in Nat : n = H + 3
      BY <1>1
    <3>2. /\ ~(n >= FrameLines) /\ n # 0
          /\ n # H + 4 /\ n # H + 5 /\ n # H + 6 /\ n # H + 7 /\ n # H + 8 /\ n # H + 9 /\ n # H + 10 /\ n = H + 3
      BY <1>1, <1>5, <3>1
    <3>3. TextLine(n) = M
      BY <1>4, <3>2
    <3> QED BY <3>1, <3>3
  <2>5. TextLine(H + 4) = S
    <3>1. PICK n \in Nat : n = H + 4
      BY <1>1
    <3>2. /\ ~(n >= FrameLines) /\ n # 0
          /\ n # H + 3 /\ n # H + 5 /\ n # H + 6 /\ n # H + 7 /\ n # H + 8 /\ n # H + 9 /\ n # H + 10 /\ n = H + 4
      BY <1>1, <1>5, <3>1
    <3>3. TextLine(n) = S
      BY <1>4, <3>2
    <3> QED BY <3>1, <3>3
  <2>6. TextLine(H + 5) = O
    <3>1. PICK n \in Nat : n = H + 5
      BY <1>1
    <3>2. /\ ~(n >= FrameLines) /\ n # 0
          /\ n # H + 3 /\ n # H + 4 /\ n # H + 6 /\ n # H + 7 /\ n # H + 8 /\ n # H + 9 /\ n # H + 10 /\ n = H + 5
      BY <1>1, <1>5, <3>1
    <3>3. TextLine(n) = O
      BY <1>4, <3>2
    <3> QED BY <3>1, <3>3
  <2> QED BY <2>1, <2>2, <2>3, <2>4, <2>5, <2>6
<1>7. options.menu_open =>
        /\ TextLine(H + 6) = U /\ TextLine(H + 7) = F /\ TextLine(H + 8) = G
        /\ TextLine(H + 9) = K /\ TextLine(H + 10) = C
  BY <1>1, <1>4, <1>5
<1>8. /\ IsLine(pic, 0, T) /\ IsLine(pic, 1, <<>>) /\ IsLine(pic, H + 2, <<>>)
      /\ IsLine(pic, H + 3, M) /\ IsLine(pic, H + 4, S) /\ IsLine(pic, H + 5, O)
  BY <1>2, <1>3, <1>6
<1>9. options.menu_open =>
        /\ IsLine(pic, H + 6, U) /\ IsLine(pic, H + 7, F) /\ IsLine(pic, H + 8, G)
        /\ IsLine(pic, H + 9, K) /\ IsLine(pic, H + 10, C)
  BY <1>2, <1>3, <1>7
<1> QED BY <1>8, <1>9 DEF T, M, O, U, C, S, F, G, K

\* Line l of the picture has the text that s has from place k + 1 on, up to the end
\* of the line at place n, and the display shows the picture down to that line.
Whole(pic, f, s, text, l, k, n) ==
  /\ Drawn(f[k], pic, l, 0)
  /\ IsLine(pic, l, text) /\ text \in Texts /\ Len(text) <= Room
  /\ n \in 1 .. Len(s) /\ n = k + Len(text) + 1
  /\ \A i \in 1 .. Len(text) : s[k + i] = text[i]
  /\ s[n] = LF

\* Such a line takes the display to the start of the next one.
LEMMA WholeLine ==
  ASSUME NEW pic, NEW s \in Seq(Nat), NEW d, NEW f, PutTrace(f, Len(s), d, print(s)),
         NEW text, NEW l \in Nat, NEW k \in Nat, NEW n, Whole(pic, f, s, text, l, k, n)
  PROVE  Drawn(f[n], pic, l + 1, 0)
<1>1. /\ Drawn(f[k], pic, l, 0) /\ IsLine(pic, l, text) /\ text \in Texts
      /\ Len(text) <= Room /\ s[n] = LF
      /\ n \in 1 .. Len(s) /\ n = k + Len(text) + 1
      /\ \A i \in 1 .. Len(text) : s[k + i] = text[i]
  BY DEF Whole
<1>2. Len(text) \in Nat
  BY <1>1 DEF Texts
<1>3. 0 \in 0 .. Len(text) /\ n = k + Len(text) - 0 + 1
  BY <1>1, <1>2
<1>4. \A i \in 0 + 1 .. Len(text) : s[k - 0 + i] = text[i]
  BY <1>1, <1>2
<1> QED BY <1>1, <1>3, <1>4, LineTraced

\* The parts of a frame one after the other: the title and the empty line above
\* the map, ...
LEMMA TopDrawn ==
  ASSUME NEW pic, NEW d, NEW t \in Nat \ {LF}, 1 <= Room,
         Drawn(d, pic, 0, 0), IsLine(pic, 0, <<t>>), IsLine(pic, 1, <<>>)
  PROVE  Drawn(Written(d, print(<<t, LF, LF>>)), pic, 2, 0)
<1> DEFINE s == <<t, LF, LF>>
           text == <<t>>
<1>1. /\ s \in Seq(Nat) /\ Len(s) = 3 /\ s[1] = text[1] /\ s[2] = LF /\ s[3] = LF
      /\ text \in Texts /\ Len(text) = 1 /\ <<>> \in Texts /\ Len(<<>>) = 0
  BY DEF Texts, LF
<1>2. Room \in Nat
  BY PixelAssumption DEF Room
<1> HIDE DEF s, text
<1>3. PICK f : PutTrace(f, Len(s), d, print(s)) /\ f[0] = d /\ Written(d, print(s)) = f[Len(s)]
  BY <1>1, PrintTrace
<1>4. Drawn(f[2], pic, 1, 0)
  <2>1. Whole(pic, f, s, text, 0, 0, 2)
    BY <1>1, <1>3 DEF Whole, text
  <2>2. 0 \in Nat /\ 0 + 1 = 1
    OBVIOUS
  <2>3. Drawn(f[2], pic, 0 + 1, 0)
    BY <1>1, <1>3, <2>1, <2>2, WholeLine
  <2> QED BY <2>2, <2>3
<1>5. Drawn(f[3], pic, 2, 0)
  <2>1. Whole(pic, f, s, <<>>, 1, 2, 3)
    BY <1>1, <1>2, <1>4 DEF Whole
  <2>2. 1 \in Nat /\ 2 \in Nat /\ 1 + 1 = 2
    OBVIOUS
  <2>3. Drawn(f[3], pic, 1 + 1, 0)
    BY <1>1, <1>3, <2>1, <2>2, WholeLine
  <2> QED BY <2>2, <2>3
<1> QED BY <1>1, <1>3, <1>5 DEF s

\* ... the empty line below it and the keys that move, ...
LEMMA FootDrawn ==
  ASSUME NEW pic, NEW d, NEW t \in Nat \ {LF}, 1 <= Room, NEW l \in Nat,
         Drawn(d, pic, l, 0), IsLine(pic, l, <<>>), IsLine(pic, l + 1, <<t>>)
  PROVE  Drawn(Written(d, print(<<LF, t, LF>>)), pic, l + 2, 0)
<1> DEFINE s == <<LF, t, LF>>
           text == <<t>>
<1>1. /\ s \in Seq(Nat) /\ Len(s) = 3 /\ s[1] = LF /\ s[2] = text[1] /\ s[3] = LF
      /\ text \in Texts /\ Len(text) = 1 /\ <<>> \in Texts /\ Len(<<>>) = 0
  BY DEF Texts, LF
<1>2. Room \in Nat
  BY PixelAssumption DEF Room
<1> HIDE DEF s, text
<1>3. PICK f : PutTrace(f, Len(s), d, print(s)) /\ f[0] = d /\ Written(d, print(s)) = f[Len(s)]
  BY <1>1, PrintTrace
<1>4. Drawn(f[1], pic, l + 1, 0)
  <2>1. Whole(pic, f, s, <<>>, l, 0, 1)
    BY <1>1, <1>2, <1>3 DEF Whole
  <2>2. 0 \in Nat
    OBVIOUS
  <2> QED BY <1>1, <1>3, <2>1, <2>2, WholeLine
<1>5. Drawn(f[3], pic, l + 2, 0)
  <2>1. Whole(pic, f, s, text, l + 1, 1, 3)
    BY <1>1, <1>4 DEF Whole, text
  <2>2. 1 \in Nat /\ l + 1 \in Nat /\ l + 1 + 1 = l + 2
    OBVIOUS
  <2>3. Drawn(f[3], pic, l + 1 + 1, 0)
    BY <1>1, <1>3, <2>1, <2>2, WholeLine
  <2> QED BY <2>2, <2>3
<1> QED BY <1>1, <1>3, <1>5 DEF s

\* ... the health, ...
LEMMA StatsDrawn ==
  ASSUME TypeOK, 6 <= Room, NEW pic, NEW d, NEW l \in Nat,
         Drawn(d, pic, l, 0), IsLine(pic, l, HealthText)
  PROVE  Drawn(Written(d, print(StatsText)), pic, l + 1, 0)
<1> DEFINE s == StatsText
<1>1. /\ s \in Seq(Nat) /\ Len(s) = 7 /\ s[7] = LF
      /\ s[1] = HealthText[1] /\ s[2] = HealthText[2] /\ s[3] = HealthText[3]
      /\ s[4] = HealthText[4] /\ s[5] = HealthText[5] /\ s[6] = HealthText[6]
  BY TextCodes DEF StatsText, HealthText, LF
<1> HIDE DEF s
<1>2. \A i \in 1 .. 6 : s[0 + i] = HealthText[i]
  BY <1>1
<1>3. PICK f : PutTrace(f, Len(s), d, print(s)) /\ f[0] = d /\ Written(d, print(s)) = f[Len(s)]
  BY <1>1, PrintTrace
<1>4. Whole(pic, f, s, HealthText, l, 0, 7)
  <2>1. HealthText \in Texts /\ Len(HealthText) = 6
    BY TextLengths
  <2>2. Drawn(f[0], pic, l, 0) /\ 7 \in 1 .. Len(s)
    BY <1>1, <1>3
  <2> QED BY <1>1, <1>2, <2>1, <2>2 DEF Whole
<1>5. 0 \in Nat
  OBVIOUS
<1>6. Drawn(f[7], pic, l + 1, 0)
  BY <1>1, <1>3, <1>4, <1>5, WholeLine
<1> QED BY <1>1, <1>3, <1>6 DEF s

\* ... the keys for the options, with no end of line behind them, ...
LEMMA HelpDrawn ==
  ASSUME NEW pic, NEW d, NEW t \in Nat \ {LF}, 1 <= Room, NEW l \in Nat,
         Drawn(d, pic, l, 0), IsLine(pic, l, <<t>>)
  PROVE  Drawn(Written(d, print(<<t>>)), pic, l, 1)
<1> DEFINE s == <<t>>
<1>1. s \in Seq(Nat) /\ Len(s) = 1 /\ s[1] = t
  BY DEF LF
<1>2. pic[<<l, 0>>] = Shown(Plain(t))
  BY <1>1 DEF IsLine
<1> HIDE DEF s
<1>3. PICK f : PutTrace(f, Len(s), d, print(s)) /\ f[0] = d /\ Written(d, print(s)) = f[Len(s)]
  BY <1>1, PrintTrace
<1>4. f[0 + 1] = put_item(f[0], print(s)[0 + 1])
  BY <1>1, <1>3 DEF PutTrace
<1>5. f[1] = put_item(d, Plain(t))
  <2>1. print(s)[1] = Plain(t)
    BY <1>1 DEF print
  <2> QED BY <1>3, <1>4, <2>1
<1>6. 0 < cols(d)
  BY GoodSizes DEF Drawn
<1>7. Plain(t) \in Item /\ Plain(t).ch # LF
  BY DEF Plain, Item
<1>8. Drawn(f[1], pic, l, 0 + 1)
  BY <1>2, <1>5, <1>6, <1>7, CharDrawn
<1> QED BY <1>1, <1>3, <1>8 DEF s

\* ... and the menu, which ends that line first.
LEMMA MenuDrawn ==
  ASSUME TypeOK, 6 <= Room, NEW pic, NEW d, NEW l \in Nat, Drawn(d, pic, l, 1),
         NEW help, IsLine(pic, l, <<help>>), help \in Nat \ {LF},
         IsLine(pic, l + 1, <<Text.menu>>), IsLine(pic, l + 2, FontText),
         IsLine(pic, l + 3, GraphicsText), IsLine(pic, l + 4, ColorText),
         IsLine(pic, l + 5, <<Text.close>>)
  PROVE  Drawn(Written(d, print(MenuText)), pic, l + 6, 0)
<1> DEFINE s == MenuText
           h == <<help>>
           menu == <<Text.menu>>
           close == <<Text.close>>
<1>1. /\ s \in Seq(Nat) /\ Len(s) = 14
      /\ s[1] = LF /\ s[3] = LF /\ s[6] = LF /\ s[9] = LF /\ s[12] = LF /\ s[14] = LF
  BY TextCodes DEF MenuText, LF
<1>2. /\ s[2] = menu[1] /\ s[4] = FontText[1] /\ s[5] = FontText[2]
      /\ s[7] = GraphicsText[1] /\ s[8] = GraphicsText[2]
      /\ s[10] = ColorText[1] /\ s[11] = ColorText[2] /\ s[13] = close[1]
  BY DEF MenuText, FontText, GraphicsText, ColorText
<1>3. /\ h \in Texts /\ Len(h) = 1 /\ menu \in Texts /\ Len(menu) = 1
      /\ close \in Texts /\ Len(close) = 1
      /\ FontText \in Texts /\ Len(FontText) = 2
      /\ GraphicsText \in Texts /\ Len(GraphicsText) = 2
      /\ ColorText \in Texts /\ Len(ColorText) = 2
  BY TextLengths DEF Texts
<1>4. Room \in Nat
  BY PixelAssumption DEF Room
<1> HIDE DEF s, h, menu, close
<1>5. PICK f : PutTrace(f, Len(s), d, print(s)) /\ f[0] = d /\ Written(d, print(s)) = f[Len(s)]
  BY <1>1, PrintTrace
<1>6. Drawn(f[1], pic, l + 1, 0)
  <2>1. f[0 + 1] = put_item(f[0], print(s)[0 + 1])
    BY <1>1, <1>5 DEF PutTrace
  <2>2. print(s)[1] = Plain(LF)
    BY <1>1 DEF print
  <2>3. IsLine(pic, l, h)
    BY DEF h
  <2>4. \A c \in Nat : c >= 1 => pic[<<l, c>>] = Blank
    BY <1>3, <2>3 DEF IsLine
  <2>5. Drawn(put_item(d, Plain(LF)), pic, l + 1, 0)
    BY <2>4, LineDrawn
  <2> QED BY <1>5, <2>1, <2>2, <2>5
<1>7. Drawn(f[3], pic, l + 2, 0)
  <2>1. 1 \in Nat /\ l + 1 \in Nat /\ l + 1 + 1 = l + 2 /\ 3 \in 1 .. Len(s)
        /\ 3 = 1 + Len(menu) + 1 /\ Len(menu) <= Room
    BY <1>1, <1>3, <1>4
  <2>2. \A i \in 1 .. Len(menu) : s[1 + i] = menu[i]
    BY <1>2, <1>3
  <2>3. Whole(pic, f, s, menu, l + 1, 1, 3)
    BY <1>1, <1>3, <1>6, <2>1, <2>2 DEF Whole, menu
  <2>4. Drawn(f[3], pic, l + 1 + 1, 0)
    BY <1>1, <1>5, <2>1, <2>3, WholeLine
  <2> QED BY <2>1, <2>4
<1>8. Drawn(f[6], pic, l + 3, 0)
  <2>1. 3 \in Nat /\ l + 2 \in Nat /\ l + 2 + 1 = l + 3 /\ 6 \in 1 .. Len(s)
        /\ 6 = 3 + Len(FontText) + 1 /\ Len(FontText) <= Room
    BY <1>1, <1>3, <1>4
  <2>2. \A i \in 1 .. Len(FontText) : s[3 + i] = FontText[i]
    BY <1>2, <1>3
  <2>3. Whole(pic, f, s, FontText, l + 2, 3, 6)
    BY <1>1, <1>3, <1>7, <2>1, <2>2 DEF Whole
  <2>4. Drawn(f[6], pic, l + 2 + 1, 0)
    BY <1>1, <1>5, <2>1, <2>3, WholeLine
  <2> QED BY <2>1, <2>4
<1>9. Drawn(f[9], pic, l + 4, 0)
  <2>1. 6 \in Nat /\ l + 3 \in Nat /\ l + 3 + 1 = l + 4 /\ 9 \in 1 .. Len(s)
        /\ 9 = 6 + Len(GraphicsText) + 1 /\ Len(GraphicsText) <= Room
    BY <1>1, <1>3, <1>4
  <2>2. \A i \in 1 .. Len(GraphicsText) : s[6 + i] = GraphicsText[i]
    BY <1>2, <1>3
  <2>3. Whole(pic, f, s, GraphicsText, l + 3, 6, 9)
    BY <1>1, <1>3, <1>8, <2>1, <2>2 DEF Whole
  <2>4. Drawn(f[9], pic, l + 3 + 1, 0)
    BY <1>1, <1>5, <2>1, <2>3, WholeLine
  <2> QED BY <2>1, <2>4
<1>10. Drawn(f[12], pic, l + 5, 0)
  <2>1. 9 \in Nat /\ l + 4 \in Nat /\ l + 4 + 1 = l + 5 /\ 12 \in 1 .. Len(s)
        /\ 12 = 9 + Len(ColorText) + 1 /\ Len(ColorText) <= Room
    BY <1>1, <1>3, <1>4
  <2>2. \A i \in 1 .. Len(ColorText) : s[9 + i] = ColorText[i]
    BY <1>2, <1>3
  <2>3. Whole(pic, f, s, ColorText, l + 4, 9, 12)
    BY <1>1, <1>3, <1>9, <2>1, <2>2 DEF Whole
  <2>4. Drawn(f[12], pic, l + 4 + 1, 0)
    BY <1>1, <1>5, <2>1, <2>3, WholeLine
  <2> QED BY <2>1, <2>4
<1>11. Drawn(f[14], pic, l + 6, 0)
  <2>1. 12 \in Nat /\ l + 5 \in Nat /\ l + 5 + 1 = l + 6 /\ 14 \in 1 .. Len(s)
        /\ 14 = 12 + Len(close) + 1 /\ Len(close) <= Room
    BY <1>1, <1>3, <1>4
  <2>2. \A i \in 1 .. Len(close) : s[12 + i] = close[i]
    BY <1>2, <1>3
  <2>3. Whole(pic, f, s, close, l + 5, 12, 14)
    BY <1>1, <1>3, <1>10, <2>1, <2>2 DEF Whole, close
  <2>4. Drawn(f[14], pic, l + 5 + 1, 0)
    BY <1>1, <1>5, <2>1, <2>3, WholeLine
  <2> QED BY <2>1, <2>4
<1> QED BY <1>1, <1>5, <1>11 DEF s

\* What is printed in two parts.
LEMMA PrintedBoth ==
  ASSUME NEW d, NEW s \in Seq(Nat), NEW t \in Seq(Nat)
  PROVE  Written(d, print(s \o t)) = Written(Written(d, print(s)), print(t))
<1>1. print(s) \in Seq(Item) /\ print(t) \in Seq(Item)
  BY PrintType
<1>2. print(s \o t) = print(s) \o print(t)
  BY PrintBoth
<1>3. ASSUME NEW a \in Seq(Item), NEW b \in Seq(Item)
      PROVE  Written(d, a \o b) = Written(Written(d, a), b)
  BY WrittenBoth
<1>4. Written(d, print(s) \o print(t)) = Written(Written(d, print(s)), print(t))
  BY <1>1, <1>3
<1> QED BY <1>2, <1>4

LEMMA NothingPrinted ==
  ASSUME NEW d
  PROVE  Written(d, print(<<>>)) = d
<1>1. <<>> \in Seq(Nat) /\ Len(<<>>) = 0
  OBVIOUS
<1> QED BY <1>1, PrintTrace

\* Where a live frame ends: under the options it offers, or under the menu.
LastLine == IF is_dead THEN 5 ELSE IF options.menu_open THEN H + 11 ELSE H + 5
LastColumn == IF is_dead \/ options.menu_open THEN 0 ELSE 1

\* The whole frame, written on a cleared display.
LEMMA FrameDrawn ==
  ASSUME TypeOK, ~is_dead, W <= Room, 6 <= Room, NEW seen, NEW visibility,
         NEW d, Drawn(d, Painted(seen, visibility), 0, 0)
  PROVE  Drawn(Written(d, Frame(seen, visibility)), Painted(seen, visibility),
               LastLine, LastColumn)
<1>1. PICK pic : pic = Painted(seen, visibility)
  OBVIOUS
<1> DEFINE A == <<Text.title, LF, LF>>
           M == MapItems(seen, visibility)
           F == <<LF, Text.move_help, LF>>
           S == StatsText
           O == <<Text.options_help>>
           X == IF options.menu_open THEN MenuText ELSE <<>>
           d1 == Written(d, print(A))
           d2 == Written(d1, M)
           d3 == Written(d2, print(F))
           d4 == Written(d3, print(S))
           d5 == Written(d4, print(O))
           d6 == Written(d5, print(X))
<1>2. /\ A \in Seq(Nat) /\ F \in Seq(Nat) /\ S \in Seq(Nat) /\ O \in Seq(Nat)
      /\ X \in Seq(Nat)
  <2>1. A \in Seq(Nat) /\ F \in Seq(Nat) /\ O \in Seq(Nat)
    BY TextCodes DEF LF
  <2>2. S \in Seq(Nat)
    BY TextCodes DEF LF, StatsText
  <2>3. MenuText \in Seq(Nat)
    BY TextCodes DEF LF, MenuText
  <2> QED BY <2>1, <2>2, <2>3
<1>3. M \in Seq(Item)
  BY MapItemsType
<1>4. Written(d, Frame(seen, visibility)) = d6
  <2>1. Frame(seen, visibility) = (print(A) \o M) \o print(((F \o S) \o O) \o X)
    BY DEF Frame
  <2> HIDE DEF A, M, F, S, O, X
  <2>2. print(A) \in Seq(Item)
    BY <1>2, PrintType
  <2>3. F \o S \in Seq(Nat) /\ (F \o S) \o O \in Seq(Nat) /\ ((F \o S) \o O) \o X \in Seq(Nat)
    BY <1>2
  <2> DEFINE R == ((F \o S) \o O) \o X
  <2>4. print(R) \in Seq(Item) /\ print(A) \o M \in Seq(Item)
    <3>1. R \in Seq(Nat)
      BY <2>3
    <3> HIDE DEF R
    <3>2. print(R) \in Seq(Item)
      BY <3>1, PrintType
    <3>3. PICK a \in Seq(Item) : a = print(A)
      BY <2>2
    <3>4. a \o M \in Seq(Item)
      BY <1>3
    <3> QED BY <3>2, <3>3, <3>4
  <2>5. Written(d, Frame(seen, visibility)) =
          Written(Written(d, print(A) \o M), print(((F \o S) \o O) \o X))
    <3>1. ASSUME NEW a \in Seq(Item), NEW b \in Seq(Item)
          PROVE  Written(d, a \o b) = Written(Written(d, a), b)
      BY WrittenBoth
    <3> DEFINE a == print(A) \o M
               b == print(R)
    <3>2. a \in Seq(Item) /\ b \in Seq(Item) /\ Frame(seen, visibility) = a \o b
      BY <2>1, <2>4
    <3> HIDE DEF a, b
    <3>3. Written(d, Frame(seen, visibility)) = Written(Written(d, a), b)
      BY <3>1, <3>2
    <3> QED BY <3>3 DEF a, b
  <2>6. Written(d, print(A) \o M) = d2
    BY <1>3, <2>2, WrittenBoth
  <2> HIDE DEF d2, d3, d4, d5
  <2>7. Written(d2, print(((F \o S) \o O) \o X)) = Written(Written(d2, print((F \o S) \o O)), print(X))
    BY <1>2, <2>3, PrintedBoth
  <2>8. Written(d2, print((F \o S) \o O)) = Written(Written(d2, print(F \o S)), print(O))
    BY <1>2, <2>3, PrintedBoth
  <2>9. Written(d2, print(F \o S)) = Written(Written(d2, print(F)), print(S))
    BY <1>2, PrintedBoth
  <2> QED BY <2>5, <2>6, <2>7, <2>8, <2>9 DEF d3, d4, d5
<1>5. H \in Nat /\ Room \in Nat
  BY SizeAssumption, PixelAssumption DEF Room
<1>6. /\ IsLine(pic, 0, <<Text.title>>) /\ IsLine(pic, 1, <<>>)
      /\ IsLine(pic, H + 2, <<>>) /\ IsLine(pic, H + 3, <<Text.move_help>>)
      /\ IsLine(pic, H + 4, HealthText) /\ IsLine(pic, H + 5, <<Text.options_help>>)
      /\ options.menu_open =>
           /\ IsLine(pic, H + 6, <<Text.menu>>) /\ IsLine(pic, H + 7, FontText)
           /\ IsLine(pic, H + 8, GraphicsText) /\ IsLine(pic, H + 9, ColorText)
           /\ IsLine(pic, H + 10, <<Text.close>>)
  BY <1>1, LiveLines
<1>7. Drawn(d1, pic, 2, 0)
  <2>1. Text.title \in Nat \ {LF} /\ 1 <= Room
    BY <1>5, TextCodes
  <2>2. Drawn(d, pic, 0, 0)
    BY <1>1
  <2> QED BY <1>6, <2>1, <2>2, TopDrawn
<1>8. Drawn(d2, pic, H + 2, 0)
  <2> HIDE DEF d1
  <2> QED BY <1>1, <1>7, MapDrawn
<1>9. Drawn(d3, pic, H + 4, 0)
  <2> HIDE DEF d2
  <2>1. Text.move_help \in Nat \ {LF} /\ 1 <= Room
    BY <1>5, TextCodes
  <2>2. H + 2 \in Nat /\ H + 2 + 1 = H + 3 /\ H + 2 + 2 = H + 4
    BY <1>5
  <2>3. Drawn(d3, pic, H + 2 + 2, 0)
    BY <1>6, <1>8, <2>1, <2>2, FootDrawn
  <2> QED BY <2>2, <2>3
<1>10. Drawn(d4, pic, H + 5, 0)
  <2> HIDE DEF d3
  <2>1. H + 4 \in Nat /\ H + 4 + 1 = H + 5
    BY <1>5
  <2>2. Drawn(d4, pic, H + 4 + 1, 0)
    BY <1>6, <1>9, <2>1, StatsDrawn
  <2> QED BY <2>1, <2>2
<1>11. Drawn(d5, pic, H + 5, 1)
  <2> HIDE DEF d4
  <2>1. Text.options_help \in Nat \ {LF} /\ 1 <= Room /\ H + 5 \in Nat
    BY <1>5, TextCodes
  <2> QED BY <1>6, <1>10, <2>1, HelpDrawn
<1> HIDE DEF d5
<1>12. CASE ~options.menu_open
  <2>1. d6 = d5
    BY <1>12, NothingPrinted
  <2>2. LastLine = H + 5 /\ LastColumn = 1
    BY <1>12 DEF LastLine, LastColumn
  <2> QED BY <1>1, <1>4, <1>11, <2>1, <2>2
<1>13. CASE options.menu_open
  <2>1. d6 = Written(d5, print(MenuText))
    BY <1>13
  <2>2. LastLine = H + 11 /\ LastColumn = 0
    BY <1>13 DEF LastLine, LastColumn
  <2>3. PICK l \in Nat : /\ l = H + 5 /\ l + 1 = H + 6 /\ l + 2 = H + 7 /\ l + 3 = H + 8
                         /\ l + 4 = H + 9 /\ l + 5 = H + 10 /\ l + 6 = H + 11
    <3>1. /\ H + 5 \in Nat /\ H + 5 + 1 = H + 6 /\ H + 5 + 2 = H + 7 /\ H + 5 + 3 = H + 8
          /\ H + 5 + 4 = H + 9 /\ H + 5 + 5 = H + 10 /\ H + 5 + 6 = H + 11
      BY <1>5
    <3> QED BY <3>1
  <2>4. PICK help : help = Text.options_help /\ help \in Nat \ {LF}
    BY TextCodes
  <2>5. /\ IsLine(pic, l, <<help>>) /\ IsLine(pic, l + 1, <<Text.menu>>)
        /\ IsLine(pic, l + 2, FontText) /\ IsLine(pic, l + 3, GraphicsText)
        /\ IsLine(pic, l + 4, ColorText) /\ IsLine(pic, l + 5, <<Text.close>>)
    BY <1>6, <1>13, <2>3, <2>4
  <2>6. Drawn(Written(d5, print(MenuText)), pic, l + 6, 0)
    BY <1>11, <2>3, <2>4, <2>5, MenuDrawn
  <2> QED BY <1>1, <1>4, <2>1, <2>2, <2>3, <2>6
<1> QED BY <1>12, <1>13

-----------------------------------------------------------------------------
(* What the player sees in front of a prompt.                               *)

\* What is drawn depends on the tiles, the body and the options alone: when they
\* stay, so do the glyph of a wall, ...
LEMMA StillWall ==
  ASSUME UNCHANGED <<tiles, body, options>>, NEW CONSTANT c
  PROVE  wall_glyph(c)' = wall_glyph(c)
<1>1. WallsAround(c)' = WallsAround(c)
  BY DEF WallsAround, is_wall
<1> QED BY <1>1 DEF wall_glyph

\* ... the glyph and colour of a tile, ...
LEMMA StillTile ==
  ASSUME UNCHANGED <<tiles, body, options>>, NEW CONSTANT c, NEW CONSTANT v
  PROVE  draw_map_tile(c, v)' = draw_map_tile(c, v)
<1>1. wall_glyph(c)' = wall_glyph(c)
  BY StillWall
<1> QED BY <1>1 DEF draw_map_tile, draw_tile

\* ... the item of a cell, ...
LEMMA StillCell ==
  ASSUME UNCHANGED <<tiles, body, options>>, NEW CONSTANT c, NEW CONSTANT s, NEW CONSTANT v
  PROVE  draw_cell(c, s, v)' = draw_cell(c, s, v)
<1>1. draw_map_tile(c, c \in v)' = draw_map_tile(c, c \in v)
  BY StillTile
<1>2. DrawsMonster(c)' = DrawsMonster(c)
  BY DEF DrawsMonster, StandsAt, is_alive, body
<1>3. player' = player
  BY DEF body
<1>4. draw_tile(SPACE, 37)' = draw_tile(SPACE, 37) /\ draw_tile(64, 93)' = draw_tile(64, 93)
      /\ draw_tile(77, 91)' = draw_tile(77, 91)
  BY DEF draw_tile
<1> QED BY <1>1, <1>2, <1>3, <1>4 DEF draw_cell

\* ... the lines of text and where the frame ends, ...
LEMMA StillText ==
  ASSUME UNCHANGED <<tiles, body, options>>, NEW CONSTANT n
  PROVE  /\ TextLine(n)' = TextLine(n) /\ DeadLine(n)' = DeadLine(n)
         /\ is_dead' = is_dead /\ LastLine' = LastLine /\ LastColumn' = LastColumn
<1>1. is_dead' = is_dead
  BY DEF is_dead, body
<1>2. FrameLines' = FrameLines
  BY <1>1 DEF FrameLines
<1>3. Number(hit_points)' = Number(hit_points) /\ Number(xp)' = Number(xp)
  BY DEF Number, body
<1>4. label(options.font)' = label(options.font)
  BY DEF label
<1>5. OnOff(options.color)' = OnOff(options.color)
      /\ OnOff(options.graphical_tiles)' = OnOff(options.graphical_tiles)
  BY DEF OnOff
<1>6. TextLine(n)' = TextLine(n)
  BY <1>2, <1>3, <1>4, <1>5 DEF TextLine
<1>7. DeadLine(n)' = DeadLine(n)
  BY <1>3 DEF DeadLine
<1> QED BY <1>1, <1>6, <1>7 DEF LastLine, LastColumn

\* ... and with them the picture.
LEMMA StillPainted ==
  ASSUME UNCHANGED <<tiles, body, options>>, NEW CONSTANT s, NEW CONSTANT v
  PROVE  Painted(s, v)' = Painted(s, v)
<1>1. ASSUME NEW CONSTANT p \in Nat \X Nat
      PROVE  Painted(s, v)'[p] = Painted(s, v)[p]
  <2>1. TextLine(p[1])' = TextLine(p[1]) /\ DeadLine(p[1])' = DeadLine(p[1]) /\ is_dead' = is_dead
    BY StillText
  <2>2. draw_cell(<<p[2], p[1] - 2>>, s, v)' = draw_cell(<<p[2], p[1] - 2>>, s, v)
    BY StillCell
  <2> QED BY <2>1, <2>2 DEF Painted
<1>2. Painted(s, v) = [p \in Nat \X Nat |-> Painted(s, v)[p]]
  BY DEF Painted
<1>3. Painted(s, v)' = [p \in Nat \X Nat |-> Painted(s, v)'[p]]
  BY DEF Painted
<1> QED BY <1>1, <1>2, <1>3

\* Behind the end of the frame the picture is blank.
LEMMA Beyond ==
  ASSUME NEW seen, NEW visibility, NEW n \in Nat, NEW c \in Nat,
         n > LastLine \/ (n = LastLine /\ c >= LastColumn)
  PROVE  Painted(seen, visibility)[<<n, c>>] = Blank
<1>1. H \in Nat
  BY SizeAssumption
<1>2. CASE is_dead
  <2>1. LastLine = 5
    BY <1>2 DEF LastLine
  <2>2. n # 0 /\ n # 2 /\ n # 4
    BY <2>1
  <2>3. DeadLine(n) = <<>>
    BY <2>2 DEF DeadLine
  <2>4. ~(c < Len(<<>>))
    OBVIOUS
  <2> QED BY <1>2, <2>3, <2>4, PaintedAt
<1>3. CASE ~is_dead
  <2>1. LastLine \in Nat /\ LastLine >= H + 5 /\ n \notin 2 .. H + 1
    BY <1>1, <1>3 DEF LastLine
  <2>2. ~(c < Len(TextLine(n)))
    <3>1. CASE n >= FrameLines
      <4>1. TextLine(n) = <<>>
        BY <3>1 DEF TextLine
      <4> QED BY <4>1
    <3>2. CASE ~(n >= FrameLines)
      <4>1. FrameLines = LastLine + 1
        BY <1>1, <1>3 DEF LastLine, FrameLines
      <4>2. n = LastLine /\ c >= LastColumn
        BY <2>1, <3>2, <4>1
      <4>3. CASE options.menu_open
        <5>1. n = H + 11
          BY <1>3, <4>2, <4>3 DEF LastLine
        <5>2. n # 0 /\ n # H + 3 /\ n # H + 4 /\ n # H + 5 /\ n # H + 6
              /\ n # H + 7 /\ n # H + 8 /\ n # H + 9 /\ n # H + 10
          BY <1>1, <5>1
        <5>3. TextLine(n) = <<>>
          BY <3>2, <5>2 DEF TextLine
        <5> QED BY <5>3
      <4>4. CASE ~options.menu_open
        <5>1. n = H + 5 /\ c >= 1
          BY <1>3, <4>2, <4>4 DEF LastLine, LastColumn
        <5>2. n # 0 /\ n # H + 3 /\ n # H + 4 /\ n # H + 6
              /\ n # H + 7 /\ n # H + 8 /\ n # H + 9 /\ n # H + 10
          BY <1>1, <5>1
        <5> DEFINE O == <<Text.options_help>>
                   S == <<Text.hp, Number(hit_points), Text.str, Number(Strength),
                          Text.xp, Number(xp)>>
                   T == <<Text.title>>
                   M == <<Text.move_help>>
                   U == <<Text.menu>>
                   F == <<Text.font, label(options.font)>>
                   G == <<Text.graphics, OnOff(options.graphical_tiles)>>
                   K == <<Text.color, OnOff(options.color)>>
                   Q == <<Text.close>>
        <5>a. TextLine(n) = CASE n = 0 -> T
                              [] n = H + 3 -> M
                              [] n = H + 4 -> S
                              [] n = H + 5 -> O
                              [] n = H + 6 -> U
                              [] n = H + 7 -> F
                              [] n = H + 8 -> G
                              [] n = H + 9 -> K
                              [] n = H + 10 -> Q
                              [] OTHER -> <<>>
          BY <3>2 DEF TextLine
        <5>b. Len(O) = 1
          OBVIOUS
        <5> HIDE DEF O, S, T, M, U, F, G, K, Q
        <5>3. TextLine(n) = O
          BY <5>1, <5>2, <5>a
        <5>4. Len(TextLine(n)) = 1
          BY <5>3, <5>b
        <5>5. PICK k : k = Len(TextLine(n))
          OBVIOUS
        <5>6. ~(c < k)
          BY <5>1, <5>4, <5>5
        <5> QED BY <5>5, <5>6
      <4> QED BY <4>3, <4>4
    <3> QED BY <3>1, <3>2
  <2> QED BY <1>3, <2>1, <2>2, PaintedAt
<1> QED BY <1>2, <1>3

\* A display that shows the whole frame shows each line of it in its place,
\* counted from the bottom when the frame is higher than the screen.
LEMMA PictureShown ==
  ASSUME NEW visibility,
         Drawn(display, Painted(explored, visibility), LastLine, LastColumn)
  PROVE  \A y \in DOMAIN display.grid : \A x \in DOMAIN display.grid[y] :
           display.grid[y][x] = Picture(y + Overflow, x, visibility)
<1> DEFINE pic == Painted(explored, visibility)
           R == rows(display)
           C == cols(display)
           l == LastLine
<1>1. /\ R \in Nat /\ R >= 1 /\ C \in Nat
      /\ display.grid \in [0 .. R - 1 -> [0 .. C - 1 -> CellsOf(Nat)]]
      /\ display.y = AtMost(l, R - 1)
  BY GoodSizes, GoodMeans DEF Drawn, GridOf, rows, cols
<1>2. l \in Nat /\ FrameLines = l + 1
  BY SizeAssumption DEF LastLine, FrameLines
<1>3. Overflow = l - display.y /\ Overflow \in Nat /\ display.y \in Nat
  <2> HIDE DEF R, l
  <2>1. Overflow = IF FrameLines > R THEN FrameLines - R ELSE 0
    BY DEF Overflow, R
  <2>2. PICK F \in Nat : F = FrameLines /\ F = l + 1
    BY <1>2
  <2>3. CASE F > R
    <3>1. Overflow = F - R
      BY <2>1, <2>2, <2>3
    <3>2. display.y = R - 1
      BY <1>1, <1>2, <2>2, <2>3 DEF AtMost
    <3> QED BY <1>1, <1>2, <2>2, <2>3, <3>1, <3>2
  <2>4. CASE ~(F > R)
    <3>1. Overflow = 0
      BY <2>1, <2>2, <2>4
    <3>2. display.y = l
      BY <1>1, <1>2, <2>2, <2>4 DEF AtMost
    <3> QED BY <1>1, <1>2, <3>1, <3>2
  <2> QED BY <2>3, <2>4
<1>4. \A y \in 0 .. R - 1, c \in 0 .. C - 1 :
        LET n == y + l - display.y
        IN  display.grid[y][c] =
              IF n < l \/ (n = l /\ c < LastColumn) THEN pic[<<n, c>>] ELSE Blank
  BY DEF Drawn
<1> SUFFICES ASSUME NEW y \in 0 .. R - 1, NEW x \in 0 .. C - 1
             PROVE  display.grid[y][x] = Picture(y + Overflow, x, visibility)
  <2> HIDE DEF R, C
  <2> QED BY <1>1
<1> HIDE DEF R, C, l
<1>5. PICK n \in Nat : n = y + Overflow /\ n = y + l - display.y
  BY <1>1, <1>2, <1>3
<1>6. x \in Nat
  BY <1>1
<1>7. Picture(n, x, visibility) = pic[<<n, x>>]
  <2>1. Shown(Plain(SPACE)) = Blank
    BY DEF Shown, Plain, Blank
  <2> QED BY <1>6, <2>1, PaintedAt DEF Picture
<1> HIDE DEF pic
<1>8. display.grid[y][x] = IF n < l \/ (n = l /\ x < LastColumn) THEN pic[<<n, x>>] ELSE Blank
  BY <1>4, <1>5
<1>9. LastColumn \in Nat
  BY DEF LastColumn
<1>10. ~(n < l \/ (n = l /\ x < LastColumn)) => pic[<<n, x>>] = Blank
  <2> SUFFICES ASSUME ~(n < l \/ (n = l /\ x < LastColumn)) PROVE pic[<<n, x>>] = Blank
    OBVIOUS
  <2>1. n > LastLine \/ (n = LastLine /\ x >= LastColumn)
    BY <1>2, <1>6, <1>9 DEF l
  <2> QED BY <1>6, <2>1, Beyond DEF pic
<1> QED BY <1>5, <1>7, <1>8, <1>10

\* A cleared screen shows nothing yet, of whatever picture.
LEMMA ClearDrawn ==
  ASSUME NEW d, Good(d, Nat), d.fg = DEFAULT, d.bg = DEFAULT, NEW pic
  PROVE  Drawn(clear_screen(d), pic, 0, 0)
<1> DEFINE e == clear_screen(d)
<1>1. /\ DOMAIN d = {"font", "x", "y", "fg", "bg", "grid", "dirty"}
      /\ d.font \in FontChoice /\ d.fg \in Color /\ d.bg \in Color /\ SPACE \in Nat
  BY GoodMeans DEF SPACE
<1>2. Good(e, Nat)
  BY <1>1, ClearGood
<1>3. /\ e.font = d.font /\ e.x = 0 /\ e.y = 0 /\ e.fg = DEFAULT /\ e.bg = DEFAULT
      /\ e.grid = [y \in 0 .. rows(d) - 1 |-> BlankRow(d)]
  BY <1>1 DEF clear_screen
<1>4. BlankRow(d) = [x \in 0 .. cols(d) - 1 |-> Blank]
  BY DEF BlankRow, Blank
<1> HIDE DEF e
<1>5. rows(e) = rows(d) /\ cols(e) = cols(d) /\ rows(e) \in Nat /\ rows(e) >= 1
      /\ cols(e) \in Nat
  BY <1>2, <1>3, GoodSizes DEF rows, cols
<1>6. e.y = AtMost(0, rows(e) - 1)
  BY <1>3, <1>5 DEF AtMost
<1>7. ASSUME NEW y \in 0 .. rows(e) - 1, NEW c \in 0 .. cols(e) - 1
      PROVE  LET n == y + 0 - e.y
             IN  e.grid[y][c] = IF n < 0 \/ (n = 0 /\ c < 0) THEN pic[<<n, c>>] ELSE Blank
  <2>1. e.grid[y][c] = Blank
    BY <1>3, <1>4, <1>5
  <2>2. ~(y + 0 - e.y < 0) /\ ~(c < 0)
    BY <1>3, <1>5
  <2> QED BY <2>1, <2>2
<1>8. Drawn(e, pic, 0, 0)
  BY <1>2, <1>3, <1>6, <1>7 DEF Drawn
<1> QED BY <1>8 DEF e

\* A flush changes nothing of it.
LEMMA FlushDrawn ==
  ASSUME NEW d, NEW pic, NEW l, NEW x, Drawn(d, pic, l, x)
  PROVE  Drawn([d EXCEPT !.dirty = FALSE], pic, l, x)
<1> DEFINE e == [d EXCEPT !.dirty = FALSE]
<1>1. DOMAIN d = {"font", "x", "y", "fg", "bg", "grid", "dirty"}
  BY GoodMeans DEF Drawn
<1>2. Good(e, Nat)
  BY FlushGood DEF Drawn
<1>3. /\ e.font = d.font /\ e.x = d.x /\ e.y = d.y /\ e.fg = d.fg /\ e.bg = d.bg
      /\ e.grid = d.grid
  BY <1>1
<1> HIDE DEF e
<1>4. rows(e) = rows(d) /\ cols(e) = cols(d)
  BY <1>3 DEF rows, cols
<1>5. Drawn(e, pic, l, x)
  BY <1>2, <1>3, <1>4 DEF Drawn
<1> QED BY <1>5 DEF e

\* Between ticks the style is the default one, and in front of a prompt the whole
\* frame has been drawn.
PictureInv ==
  /\ pc \in {"draw", "wait"} => display.fg = DEFAULT /\ display.bg = DEFAULT
  /\ pc = "wait" => Drawn(display, Painted(explored, compute_visibility(tiles, player)),
                          LastLine, LastColumn)

\* A tick draws the whole frame in front of the prompt it ends with.
LEMMA PictureDrawn ==
  ASSUME TypeOK, ScreenInv, PictureInv, DrawScreen, W <= Room, 6 <= Room
  PROVE  PictureInv'
<1>1. PICK visibility : visibility = compute_visibility(tiles, player)
  OBVIOUS
<1>2. PICK seen : seen = IF is_dead THEN explored ELSE explored \cup visibility
  OBVIOUS
<1>3. display' = [Written(Cleared, IF is_dead THEN DeadFrame
                                   ELSE Frame(explored \cup visibility, visibility))
                   EXCEPT !.dirty = FALSE]
  BY <1>1 DEF DrawScreen
<1>4. PICK pic : pic = Painted(seen, visibility)
  OBVIOUS
<1>5. PICK d : d = IF font_dirty
                     THEN set_font_mode(display, apply_font_command(kernel_index(options.font)))
                     ELSE display
  OBVIOUS
<1>6. Good(d, Nat) /\ d.fg = DEFAULT /\ d.bg = DEFAULT
  <2>1. display.fg = DEFAULT /\ display.bg = DEFAULT
    BY DEF PictureInv, DrawScreen, Draw
  <2>2. Good(display, Nat)
    BY DEF ScreenInv
  <2>3. PICK told \in FontChoice : told = apply_font_command(kernel_index(options.font))
    BY DEF apply_font_command, FontChoice
  <2>4. SPACE \in Nat
    BY DEF SPACE
  <2> DEFINE e == set_font_mode(display, told)
  <2>5. Good(e, Nat)
    BY <2>2, <2>4, FontGood
  <2>6. DOMAIN display = {"font", "x", "y", "fg", "bg", "grid", "dirty"}
    BY <2>2, GoodMeans
  <2>7. e.fg = DEFAULT /\ e.bg = DEFAULT
    BY <2>1, <2>6 DEF set_font_mode, clear_screen
  <2> HIDE DEF e
  <2> QED BY <1>5, <2>1, <2>2, <2>3, <2>5, <2>7 DEF e
<1>7. Drawn(Cleared, pic, 0, 0)
  <2>1. Cleared = clear_screen(d)
    BY <1>5 DEF Cleared
  <2> QED BY <1>6, <2>1, ClearDrawn
<1>8. PICK items : items = IF is_dead THEN DeadFrame ELSE Frame(seen, visibility)
  OBVIOUS
<1>9. display' = [Written(Cleared, items) EXCEPT !.dirty = FALSE]
  BY <1>2, <1>3, <1>8
<1>10. Drawn(Written(Cleared, items), pic, LastLine, LastColumn)
  <2>1. CASE is_dead
    <3>1. LastLine = 5 /\ LastColumn = 0
      BY <2>1 DEF LastLine, LastColumn
    <3> QED BY <1>4, <1>7, <1>8, <2>1, <3>1, DeadDrawn
  <2>2. CASE ~is_dead
    BY <1>4, <1>7, <1>8, <2>2, FrameDrawn
  <2> QED BY <2>1, <2>2
<1>11. PICK l, x : l = LastLine /\ x = LastColumn
  OBVIOUS
<1>12. Drawn(display', pic, l, x)
  BY <1>9, <1>10, <1>11, FlushDrawn
<1>13. UNCHANGED <<tiles, body, options>> /\ player' = player /\ explored' = seen
  BY <1>1, <1>2 DEF DrawScreen, Draw, body
<1>14. Painted(seen, visibility)' = pic /\ LastLine' = l /\ LastColumn' = x
  BY <1>4, <1>11, <1>13, StillPainted, StillText
<1>15. (compute_visibility(tiles, player))' = visibility
  BY <1>1, <1>13
<1>16. Painted(explored, compute_visibility(tiles, player))' = pic
  BY <1>13, <1>14, <1>15
<1>17. Drawn(display', Painted(explored, compute_visibility(tiles, player))', LastLine', LastColumn')
  BY <1>12, <1>14, <1>16
<1>18. display'.fg = DEFAULT /\ display'.bg = DEFAULT
  BY <1>12 DEF Drawn
<1> QED BY <1>17, <1>18 DEF PictureInv

\* No key draws anything before the next prompt.
LEMMA PictureInvariant ==
  ASSUME W <= Room, 6 <= Room
  PROVE  /\ ScreenInit => ScreenInv /\ PictureInv
         /\ TypeOK /\ ScreenInv /\ PictureInv /\ [ScreenNext]_svars => PictureInv'
<1>1. ScreenInit => ScreenInv /\ PictureInv
  <2>1. NewDisplay.fg = DEFAULT /\ NewDisplay.bg = DEFAULT
    BY DEF NewDisplay, clear_screen
  <2> QED BY <2>1, NewDisplayGood DEF ScreenInit, Init, ScreenInv, PictureInv
<1>2. ASSUME TypeOK, ScreenInv, PictureInv, [ScreenNext]_svars
      PROVE  PictureInv'
  <2>1. CASE DrawScreen
    BY <1>2, <2>1, PictureDrawn
  <2>2. ASSUME NEW b \in Bytes, KeyScreen(decode_key(b)) PROVE PictureInv'
    <3> DEFINE key == decode_key(b)
    <3>1. pc = "wait" /\ HandleKey(key)
      BY <2>2 DEF KeyScreen, HandleKey
    <3>2. pc' # "wait"
      BY <3>1 DEF HandleKey, DeathKey, MenuKey, QuitGame, OpenMenu, Attack,
         Walk, Ignore
    <3>3. CASE ~is_dead /\ key = QuitKey
      <4>1. key.type = "Quit" /\ key # OptionsKey
        BY <3>3 DEF QuitKey, OptionsKey
      <4> HIDE DEF key
      <4>2. pc' = "quit"
        BY <3>1, <3>3, <4>1 DEF HandleKey, DeathKey, MenuKey, QuitGame, OpenMenu, Attack,
           Walk, Ignore
      <4> QED BY <4>2 DEF PictureInv
    <3>4. CASE ~(~is_dead /\ key = QuitKey)
      <4>1. display' = display
        BY <2>2, <3>4 DEF KeyScreen
      <4> QED BY <1>2, <3>1, <3>2, <4>1 DEF PictureInv
    <3> QED BY <3>3, <3>4
  <2>3. CASE UNCHANGED svars
    <3>1. UNCHANGED <<tiles, body, options>> /\ UNCHANGED <<pc, display, explored, tiles, player>>
      BY <2>3 DEF svars, vars, body
    <3>2. PICK s, v : s = explored /\ v = compute_visibility(tiles, player)
      OBVIOUS
    <3>3. Painted(s, v)' = Painted(s, v) /\ LastLine' = LastLine /\ LastColumn' = LastColumn
      BY <3>1, StillPainted, StillText
    <3>4. Painted(explored, compute_visibility(tiles, player))' = Painted(s, v)
      BY <3>1, <3>2, <3>3
    <3>5. pc = "wait" => Drawn(display, Painted(s, v), LastLine, LastColumn)
      BY <1>2, <3>2 DEF PictureInv
    <3>6. pc' = "wait" => Drawn(display', Painted(s, v), LastLine', LastColumn')
      BY <3>1, <3>3, <3>5
    <3> QED BY <1>2, <3>1, <3>4, <3>6 DEF PictureInv
  <2> QED BY <1>2, <2>1, <2>2, <2>3 DEF ScreenNext
<1> QED BY <1>1, <1>2

\* Whatever was on the screen before, each frame shows the state in front of the
\* player and nothing else, on every display the map and the longest line fit:
\* 60 columns and 6 cells on the shipped 71.
THEOREM FramesShowState ==
  ASSUME W <= WIDTH \div 9, 6 <= WIDTH \div 9
  PROVE  ScreenSpec => []ShowsPicture
<1>1. W <= Room /\ 6 <= Room
  BY DEF Room
<1>2. /\ ScreenInit => ScreenInv /\ PictureInv
      /\ TypeOK /\ ScreenInv /\ PictureInv /\ [ScreenNext]_svars => PictureInv'
  BY <1>1, PictureInvariant
<1>3. PictureInv => ShowsPicture
  BY PictureShown DEF PictureInv, ShowsPicture
<1> QED BY <1>2, <1>3, ScreenStep, ScreenPlays, TypeCorrect, PTL DEF ScreenSpec

\* Where the screen shows a cell of the map.
LEMMA CellShown ==
  ASSUME TypeOK, pc = "wait", ~is_dead, PictureInv, W <= Room, NEW c \in Cells, OnScreen(c)
  PROVE  GlyphAt(c) = draw_cell(c, explored, compute_visibility(tiles, player)).ch
<1> DEFINE visibility == compute_visibility(tiles, player)
           y == ScreenRow(c)
           x == c[1]
<1>1. Drawn(display, Painted(explored, visibility), LastLine, LastColumn)
  BY DEF PictureInv
<1>2. Good(display, Nat)
  BY <1>1 DEF Drawn
<1>3. /\ rows(display) \in Nat /\ Room \in Nat /\ cols(display) \in Nat /\ Room <= cols(display)
      /\ DOMAIN display.grid = 0 .. rows(display) - 1
      /\ \A r \in 0 .. rows(display) - 1 : DOMAIN display.grid[r] = 0 .. cols(display) - 1
  BY <1>2, GoodSizes, GoodMeans, RoomFor DEF GridOf, rows, cols
<1>4. /\ W \in Nat /\ H \in Nat
      /\ c[1] \in 0 .. W - 1 /\ c[2] \in 0 .. H - 1 /\ c = <<c[1], c[2]>>
  BY SizeAssumption DEF Cells
<1>5. FrameLines \in Nat /\ FrameLines >= H + 6
  BY <1>4 DEF FrameLines
<1>6. Overflow = IF FrameLines > rows(display) THEN FrameLines - rows(display) ELSE 0
  BY DEF Overflow
<1>7. y = c[2] + 2 - Overflow /\ y >= 0
  BY DEF ScreenRow, OnScreen
<1>8. x \in 0 .. cols(display) - 1
  BY <1>3, <1>4
<1>9. Overflow \in Nat /\ y \in 0 .. rows(display) - 1 /\ y + Overflow = c[2] + 2
  <2> HIDE DEF y
  <2>1. PICK F \in Nat, R \in Nat : F = FrameLines /\ R = rows(display)
    BY <1>3, <1>5
  <2>2. CASE F > R
    <3>1. Overflow = F - R
      BY <1>6, <2>1, <2>2
    <3> QED BY <1>4, <1>5, <1>7, <2>1, <2>2, <3>1
  <2>3. CASE ~(F > R)
    <3>1. Overflow = 0
      BY <1>6, <2>1, <2>3
    <3> QED BY <1>4, <1>5, <1>7, <2>1, <2>3, <3>1
  <2> QED BY <2>2, <2>3
<1>10. display.grid[y][x] = Picture(y + Overflow, x, visibility)
  <2>1. PICK v : v = visibility
    OBVIOUS
  <2>2. \A r \in DOMAIN display.grid : \A k \in DOMAIN display.grid[r] :
          display.grid[r][k] = Picture(r + Overflow, k, v)
    BY <1>1, <2>1, PictureShown
  <2> HIDE DEF y, x, visibility
  <2> QED BY <1>3, <1>8, <1>9, <2>1, <2>2
<1>11. Picture(c[2] + 2, x, visibility) = Shown(draw_cell(c, explored, visibility))
  <2>1. /\ c[2] + 2 \in 2 .. H + 1 /\ c[2] + 2 - 2 = c[2] /\ x < W
    BY <1>4
  <2>2. PICK n \in Nat : n = c[2] + 2 /\ n \in 2 .. H + 1 /\ n - 2 = c[2]
    <3>1. PICK j \in Nat : j = c[2] /\ j < H
      BY <1>4
    <3>2. j + 2 \in 2 .. H + 1 /\ j + 2 - 2 = j
      BY <1>4, <3>1
    <3>3. PICK n \in Nat : n = j + 2 /\ n \in 2 .. H + 1 /\ n - 2 = j
      BY <3>2
    <3> QED BY <3>1, <3>3
  <2>3. Picture(n, x, visibility) = Shown(draw_cell(<<x, n - 2>>, explored, visibility))
    BY <2>1, <2>2 DEF Picture
  <2> QED BY <1>4, <2>2, <2>3
<1>12. \A item : Shown(item).ch = item.ch
  BY DEF Shown, Cell
<1> QED BY <1>9, <1>10, <1>11, <1>12 DEF GlyphAt

\* What the screen shows of a cell a key can reach.
LEMMA ReachShown ==
  ASSUME TypeOK, SeenInv, PictureInv, LOS_RADIUS >= 2, W <= Room,
         pc = "wait", InWorld, NEW b \in Bytes, decode_key(b).type = "Move",
         NEW c, c = Target(decode_key(b)), OnScreen(c)
  PROVE  /\ GlyphAt(c) = 77 <=> \E i \in DOMAIN monsters : FoundMonster(i, c)
         /\ is_walkable(tiles, c) /\ NoMonsterAt(c) => GlyphAt(c) \in FloorGlyphs
<1> DEFINE key == decode_key(b)
           visibility == compute_visibility(tiles, player)
<1>1. c \in Cells /\ ~is_dead
  BY DEF OnScreen, InWorld
<1>2. key.dx \in -1 .. 1 /\ key.dy \in -1 .. 1 /\ (key.dx # 0 \/ key.dy # 0)
  BY MoveKeys
<1>3. player \in Cells /\ player[1] \in Int /\ player[2] \in Int
  BY SizeAssumption DEF TypeOK, Cells
<1>4. c[1] - player[1] \in -1 .. 1 /\ c[2] - player[2] \in -1 .. 1 /\ c # player
  <2> HIDE DEF key
  <2>1. c[1] = player[1] + key.dx /\ c[2] = player[2] + key.dy
    BY DEF Target, key
  <2> QED BY <1>2, <1>3, <2>1
<1>5. c \in visibility
  BY <1>1, <1>3, <1>4, NeighbourVisible
<1>6. c \in explored
  BY <1>1, <1>5 DEF SeenInv
<1>7. GlyphAt(c) = draw_cell(c, explored, visibility).ch
  BY <1>1, CellShown
<1> HIDE DEF visibility
<1>8. CASE DrawsMonster(c)
  <2>1. GlyphAt(c) = 77
    BY <1>4, <1>6, <1>7, <1>8 DEF draw_cell, draw_tile
  <2>2. \E i \in DOMAIN monsters : FoundMonster(i, c)
    <3> DEFINE S == {i \in DOMAIN monsters : StandsAt(i, c)}
    <3>1. monsters \in Seq(Monster)
      BY DEF TypeOK
    <3>2. DOMAIN monsters = 1 .. Len(monsters) /\ Len(monsters) \in Nat
      BY <3>1
    <3>3. S \subseteq Nat /\ S # {}
      BY <1>8, <3>2 DEF DrawsMonster
    <3>4. PICK m \in S : \A n \in S : m <= n
      <4> HIDE DEF S
      <4> QED BY <3>3, LeastOf
    <3>5. \A j \in 1 .. m - 1 : j \in DOMAIN monsters /\ ~(m <= j)
      BY <3>2, <3>4
    <3> QED BY <3>4, <3>5 DEF FoundMonster
  <2>3. ~NoMonsterAt(c)
    BY <1>8 DEF DrawsMonster, NoMonsterAt
  <2> QED BY <2>1, <2>2, <2>3
<1>9. CASE ~DrawsMonster(c)
  <2>1. GlyphAt(c) = draw_map_tile(c, TRUE).ch
    <3>1. (c \in visibility) = TRUE
      BY <1>5
    <3> QED BY <1>4, <1>6, <1>7, <1>9, <3>1 DEF draw_cell
  <2>2. draw_map_tile(c, TRUE).ch # 77
    <3>1. draw_map_tile(c, TRUE).ch \notin {LF, 77}
      BY <1>1, TileItem
    <3> QED BY <3>1
  <2>3. ~\E i \in DOMAIN monsters : FoundMonster(i, c)
    BY <1>9 DEF DrawsMonster, FoundMonster
  <2>4. is_walkable(tiles, c) => draw_map_tile(c, TRUE).ch \in FloorGlyphs
    BY <1>1, TileItem DEF is_walkable
  <2> QED BY <2>1, <2>2, <2>3, <2>4
<1> QED BY <1>8, <1>9

\* The player can trust the screen about the cells a key can reach: where an M is
\* drawn the key hits it, nowhere else does it hit anything, and a free cell looks
\* free (render and tick look at the monsters and tiles separately).
THEOREM SeenIsWhatIsHit ==
  ASSUME LOS_RADIUS >= 2, W <= WIDTH \div 9, 6 <= WIDTH \div 9
  PROVE  ScreenSpec => []SeenIsHit
<1>1. W <= Room /\ 6 <= Room
  BY DEF Room
<1>2. /\ ScreenInit => ScreenInv /\ PictureInv
      /\ TypeOK /\ ScreenInv /\ PictureInv /\ [ScreenNext]_svars => PictureInv'
  BY <1>1, PictureInvariant
<1>3. TypeOK /\ SeenInv /\ PictureInv => SeenIsHit
  <2> SUFFICES ASSUME TypeOK, SeenInv, PictureInv, pc = "wait", InWorld, NEW b \in Bytes,
                      decode_key(b).type = "Move", OnScreen(Target(decode_key(b)))
               PROVE  LET c == Target(decode_key(b))
                      IN  /\ GlyphAt(c) = 77 <=> \E i \in DOMAIN monsters : FoundMonster(i, c)
                          /\ is_walkable(tiles, c) /\ NoMonsterAt(c) =>
                               GlyphAt(c) \in FloorGlyphs
    BY DEF SeenIsHit
  <2> QED BY <1>1, ReachShown
<1> QED BY <1>2, <1>3, ScreenStep, ScreenPlays, AlwaysSeen, TypeCorrect, PTL DEF ScreenSpec
=============================================================================
