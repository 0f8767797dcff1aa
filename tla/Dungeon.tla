------------------------------ MODULE Dungeon ------------------------------
(***************************************************************************)
(* The running game: DungeonState and its tick, driven by main_loop.  A    *)
(* tick is two steps, split where the code blocks on the console: Draw     *)
(* runs from the start of the tick to ctx.key(), and one of the key        *)
(* actions runs from the key's arrival to the end of the tick.             *)
(***************************************************************************)
EXTENDS Sight, Input, Fonts, FiniteSets

CONSTANTS
  Dungeons,        \* the generated maps a game may start on
  Bytes,           \* the bytes the console may deliver
  StartHitPoints,  \* 20 as shipped
  Strength,        \* 10: assigned once, never changed
  MonsterHp,       \* 5
  MonsterAttack    \* 2

ASSUME DungeonAssumption ==
  /\ \A d \in Dungeons : IsDungeon(d)
  /\ Bytes \subseteq Byte
  /\ StartHitPoints \in Nat \ {0}
  /\ Strength \in Nat
  /\ MonsterHp \in Nat \ {0}
  /\ MonsterAttack \in Nat

VARIABLES
  pc,          \* "draw": tick begins; "wait": blocked on key(); "quit"
  tiles,       \* the map, never changed after generation
  player,      \* <<px, py>>
  hit_points,
  xp,
  monsters,    \* sequence of [at |-> <<x, y>>, hp |-> hp]
  explored,    \* the cells whose explored flag is set
  options,     \* DisplayOptions
  font_dirty,
  font_mode    \* the framebuffer console's font, set through the escape

body == <<player, hit_points, xp, monsters>>
vars == <<pc, tiles, player, hit_points, xp, monsters, explored, options,
          font_dirty, font_mode>>

DisplayOptions == [font : FontChoice, graphical_tiles : BOOLEAN,
                   color : BOOLEAN, menu_open : BOOLEAN]

Monster == [at : Cells, hp : Int]

TypeOK ==
  /\ pc \in {"draw", "wait", "quit"}
  /\ tiles \in [Cells -> Tile]
  /\ player \in Cells
  /\ hit_points \in Nat
  /\ xp \in Nat
  /\ monsters \in Seq(Monster)
  /\ explored \subseteq Cells
  /\ options \in DisplayOptions
  /\ font_dirty \in BOOLEAN
  /\ font_mode \in FontChoice

-----------------------------------------------------------------------------

is_alive(m) == m.hp > 0
is_dead == hit_points <= 0

next_font(f) ==
  CASE f = "Regular8x8"  -> "Bold8x8"
    [] f = "Bold8x8"     -> "Regular9x14"
    [] f = "Regular9x14" -> "Regular8x8"

Damage == IF Strength \div 2 > 1 THEN Strength \div 2 ELSE 1

\* Mutant: corpses are found too.
StandsAtDeadOrAlive(i, c) == monsters[i].at = c

\* Mutant: the columns are compared and the rows are not.
StandsInColumn(i, c) == monsters[i].at[1] = c[1] /\ is_alive(monsters[i])

StandsAt(i, c) == monsters[i].at = c /\ is_alive(monsters[i])

\* i is the index find_monster_at returns for cell c: the first living
\* monster there.
FoundMonster(i, c) ==
  /\ i \in DOMAIN monsters
  /\ StandsAt(i, c)
  /\ \A j \in 1 .. i - 1 : ~StandsAt(j, c)

NoMonsterAt(c) == \A i \in DOMAIN monsters : ~StandsAt(i, c)

Init ==
  /\ pc = "draw"
  /\ \E d \in Dungeons :
       /\ tiles = d.tiles
       /\ player = d.start
       /\ monsters = [i \in DOMAIN d.spawns |->
                        [at |-> d.spawns[i], hp |-> MonsterHp]]
  /\ hit_points = StartHitPoints
  /\ xp = 0
  /\ explored = {}
  /\ options = [font |-> "Regular8x8", graphical_tiles |-> TRUE,
                color |-> TRUE, menu_open |-> FALSE]
  /\ font_dirty = TRUE
  /\ font_mode = "Regular8x8"

\* tick up to ctx.key(): apply_options, then either the death screen or
\* compute_visibility, update_explored and render.
Draw ==
  /\ pc = "draw"
  /\ pc' = "wait"
  /\ font_mode' = IF font_dirty
                    THEN apply_font_command(kernel_index(options.font))
                    ELSE font_mode
  /\ font_dirty' = FALSE
  /\ explored' = IF is_dead THEN explored
                 ELSE explored \cup compute_visibility(tiles, player)
  /\ UNCHANGED <<tiles, body, options>>

\* On the death screen only SPACE leaves the game.
DeathKey(key) ==
  /\ is_dead
  /\ pc' = IF key = CharKey(32) THEN "quit" ELSE "draw"
  /\ UNCHANGED <<tiles, body, explored, options, font_dirty, font_mode>>

\* Mutant: the lower-case key cycles the font and forgets to mark it.
marks_upper_only(key) == key = CharKey(70)

\* The keys that mark the font choice for the next tick's apply_options.
marks_font_dirty(key) == key \in {CharKey(70), CharKey(102)}

\* on_options_key: the key goes to the open menu and not to the world.
MenuKey(key) ==
  /\ ~is_dead
  /\ options.menu_open
  /\ pc' = IF key = QuitKey THEN "quit" ELSE "draw"
  /\ options' =
       CASE key = OptionsKey -> [options EXCEPT !.menu_open = FALSE]
         [] key \in {CharKey(70), CharKey(102)} ->
              [options EXCEPT !.font = next_font(options.font)]
         [] key \in {CharKey(71), CharKey(103)} ->
              [options EXCEPT !.graphical_tiles = ~@]
         [] key \in {CharKey(67), CharKey(99)} ->
              [options EXCEPT !.color = ~@]
         [] OTHER -> options
  /\ font_dirty' = (font_dirty \/ marks_font_dirty(key))
  /\ UNCHANGED <<tiles, body, explored, font_mode>>

\* Mutant: an open menu does not keep the key from the world.
InWorldMenuOrNot == ~is_dead

\* The key reaches the world: the player is alive and the menu is closed.
InWorld == ~is_dead /\ ~options.menu_open

QuitGame(key) ==
  /\ InWorld
  /\ key = QuitKey
  /\ pc' = "quit"
  /\ UNCHANGED <<tiles, body, explored, options, font_dirty, font_mode>>

OpenMenu(key) ==
  /\ InWorld
  /\ key = OptionsKey
  /\ options' = [options EXCEPT !.menu_open = TRUE]
  /\ pc' = "draw"
  /\ UNCHANGED <<tiles, body, explored, font_dirty, font_mode>>

Target(key) == <<player[1] + key.dx, player[2] + key.dy>>

\* Mutant: a plain subtraction.
unclamped_damage(amount) == hit_points - amount

\* apply_damage: hit points stop at zero.
apply_damage(amount) ==
  IF hit_points > amount THEN hit_points - amount ELSE 0

\* Mutant: the monster answers the blow that kills it.
attack_answered_always(i) ==
  LET hp == monsters[i].hp - Damage
  IN  /\ monsters' = [monsters EXCEPT ![i].hp = hp]
      /\ xp' = IF hp <= 0 THEN xp + 10 ELSE xp
      /\ hit_points' = apply_damage(MonsterAttack)

\* attack_monster: a blow that kills pays, one that does not is answered.
attack_monster(i) ==
  LET hp == monsters[i].hp - Damage
  IN  /\ monsters' = [monsters EXCEPT ![i].hp = hp]
      /\ xp' = IF hp <= 0 THEN xp + 10 ELSE xp
      /\ hit_points' = IF hp <= 0 THEN hit_points
                       ELSE apply_damage(MonsterAttack)

Attack(key) ==
  /\ InWorld
  /\ key.type = "Move"
  /\ Target(key) \in Cells
  /\ \E i \in DOMAIN monsters :
       FoundMonster(i, Target(key)) /\ attack_monster(i)
  /\ pc' = "draw"
  /\ UNCHANGED <<tiles, player, explored, options, font_dirty, font_mode>>

Walk(key) ==
  /\ InWorld
  /\ key.type = "Move"
  /\ NoMonsterAt(Target(key))
  /\ is_walkable(tiles, Target(key))
  /\ player' = Target(key)
  /\ pc' = "draw"
  /\ UNCHANGED <<tiles, hit_points, xp, monsters, explored, options,
                 font_dirty, font_mode>>

\* A move off the map or into an unwalkable cell, and every key that means
\* nothing in the world, redraws and changes nothing.
Ignore(key) ==
  /\ InWorld
  /\ \/ key.type \in {"Char", "Unknown"}
     \/ /\ key.type = "Move"
        /\ NoMonsterAt(Target(key))
        /\ ~is_walkable(tiles, Target(key))
  /\ pc' = "draw"
  /\ UNCHANGED <<tiles, body, explored, options, font_dirty, font_mode>>

HandleKey(key) ==
  /\ pc = "wait"
  /\ \/ DeathKey(key)
     \/ MenuKey(key)
     \/ QuitGame(key)
     \/ OpenMenu(key)
     \/ Attack(key)
     \/ Walk(key)
     \/ Ignore(key)

Next == Draw \/ \E b \in Bytes : HandleKey(decode_key(b))

Spec == Init /\ [][Next]_vars

-----------------------------------------------------------------------------

\* The player always stands on a cell the map lets it stand on, whatever
\* sequence of moves, attacks and menu keys came before (tick, is_walkable).
PlayerOnFloor == tiles[player] \in Walkable

Dead == {i \in DOMAIN monsters : ~is_alive(monsters[i])}

\* The experience counter equals ten times the number of dead monsters: each
\* monster pays once, so find_monster_at never hands a corpse to
\* attack_monster again.
KillsPayOnce == xp = 10 * Cardinality(Dead)

\* The blows monster i has answered: every blow that left it alive.
Answered(i) ==
  LET blows == (MonsterHp - monsters[i].hp) \div Damage
  IN  IF is_alive(monsters[i]) THEN blows ELSE blows - 1

\* The player's wounds are exactly the answers of the monsters it failed to
\* kill: hit_points can be recomputed from the monsters' hp alone, and stays
\* at zero once it gets there (attack_monster, apply_damage).
DamageLedger ==
  LET upto[n \in 0 .. Len(monsters)] ==
        IF n = 0 THEN 0 ELSE upto[n - 1] + Answered(n)
      left == StartHitPoints - MonsterAttack * upto[Len(monsters)]
  IN  hit_points = IF left > 0 THEN left ELSE 0

\* Whenever the game waits for a key the console draws in the font the
\* options name, so no change of font is left unsent (font_dirty).
FontShown == pc = "wait" => font_mode = options.font

\* With the shipped numbers one blow kills: no monster is ever left wounded
\* and alive, so nothing ever answers and the player cannot lose a point
\* (attack_monster).  It is false where a monster survives a blow.
Unhurt ==
  /\ hit_points = StartHitPoints
  /\ \A i \in DOMAIN monsters :
       is_alive(monsters[i]) => monsters[i].hp = MonsterHp

\* The one way to share a cell with a living monster is to have begun on it,
\* since spawn_monsters does not exclude the start: such a monster has taken no
\* blow, and the player, who has seen nothing but what is seen from there, has
\* not left the cell since.  Once the player has stepped off, or has wounded
\* the monster, no order of steps and blows gets it back on
\* (find_monster_at, attack_monster, tick).
OnlyBornUnderfoot ==
  \A i \in DOMAIN monsters :
    is_alive(monsters[i]) /\ monsters[i].at = player =>
      /\ monsters[i].hp = MonsterHp
      /\ explored \subseteq compute_visibility(tiles, player)

\* The keys that move and fight do nothing behind the menu, over a visit of any
\* length: a player with the menu open is alive and, also before the next
\* frame is drawn, has explored everything it can see, so it still stands
\* where the last frame was drawn from (tick, on_options_key).
NothingBehindMenu ==
  options.menu_open =>
    ~is_dead /\ compute_visibility(tiles, player) \subseteq explored

\* A blow only ever lands on a monster whose cell has been explored, hence
\* drawn: visibility computed at the start of the tick covers every cell the
\* next key can reach (compute_visibility, update_explored, render).
NoUnseenFoe ==
  [][\A i \in DOMAIN monsters :
       monsters'[i] # monsters[i] => monsters[i].at \in explored]_vars
=============================================================================
