------------------------------- MODULE Screen -------------------------------
(***************************************************************************)
(* The game and the display it draws on: Dungeon with the output of every  *)
(* tick added.  The escapes BTerm writes are taken to do what Terminal     *)
(* shows they do (CommandsUnderstood), so a step writes to the display     *)
(* directly.  A piece of text is one cell, whatever its length, and so is  *)
(* a number: no line of a frame is as long as the screen is wide.          *)
(***************************************************************************)
EXTENDS Dungeon, Display

VARIABLE display

svars == <<vars, display>>

LF == 10

\* The texts of a frame, as codes above those of the glyphs.
Text == [title |-> 256, move_help |-> 257, hp |-> 258, str |-> 259, xp |-> 260,
         options_help |-> 261, menu |-> 262, font |-> 263, graphics |-> 264,
         color |-> 265, close |-> 266, dead |-> 267, stats |-> 268,
         leave_help |-> 269, leaving |-> 270, on |-> 271, off |-> 272]

label(font) == 280 + kernel_index(font)
OnOff(b) == IF b THEN Text.on ELSE Text.off
Number(n) == 300 + n

\* A byte written, in a colour of its own or (0) in the current one.
Plain(ch) == [ch |-> ch, color |-> 0]
draw_tile(ch, color) ==
  [ch |-> ch, color |-> IF options.color THEN color ELSE 0]

put_char(d, ch) == IF ch = LF THEN newline(d) ELSE draw_char(d, ch)

\* Mutant: the style is not reset.
put_item_unreset(d, item) ==
  IF item.color = 0 THEN put_char(d, item.ch)
  ELSE put_char(Sgr(d, item.color), item.ch)

\* set_sgr, the byte, reset_style.
put_item(d, item) ==
  IF item.color = 0 THEN put_char(d, item.ch)
  ELSE Sgr(put_char(Sgr(d, item.color), item.ch), 0)

\* The display after a sequence of items.  (The test always holds: it makes TLC
\* compute each display before the next.)
Written(d, items) ==
  LET after[n \in 0 .. Len(items)] ==
        IF n = 0 THEN d
        ELSE LET e == after[n - 1]
             IN  IF e = e THEN put_item(e, items[n]) ELSE e
  IN  after[Len(items)]

print(text) == [i \in DOMAIN text |-> Plain(text[i])]

-----------------------------------------------------------------------------

Beside == [n |-> <<0, -1>>, s |-> <<0, 1>>, w |-> <<-1, 0>>, e |-> <<1, 0>>]

\* Off the map counts as wall.
is_wall(c) == c \notin Cells \/ tiles[c] \in {WALL, DOOR}

WallsAround(c) ==
  {a \in DOMAIN Beside : is_wall(<<c[1] + Beside[a][1], c[2] + Beside[a][2]>>)}

\* The line-drawing character with these arms.
LineArt(arms) ==
  CASE arms = {} -> 177
    [] arms # {} /\ arms \subseteq {"n", "s"} -> 179
    [] arms # {} /\ arms \subseteq {"w", "e"} -> 196
    [] arms = {"n", "s", "w", "e"} -> 197
    [] arms = {"n", "s", "w"} -> 180
    [] arms = {"n", "s", "e"} -> 195
    [] arms = {"n", "w", "e"} -> 193
    [] arms = {"s", "w", "e"} -> 194
    [] arms = {"n", "e"} -> 192
    [] arms = {"n", "w"} -> 217
    [] arms = {"s", "e"} -> 218
    [] arms = {"s", "w"} -> 191

\* The edges of the map in the order wall_glyph asks for them.
Edges ==
  <<[axis |-> 2, at |-> 0,     inward |-> "s", along |-> {"w", "e"}],
    [axis |-> 2, at |-> H - 1, inward |-> "n", along |-> {"w", "e"}],
    [axis |-> 1, at |-> 0,     inward |-> "e", along |-> {"n", "s"}],
    [axis |-> 1, at |-> W - 1, inward |-> "w", along |-> {"n", "s"}]>>

\* On an edge with a wall inward of it, a wall on both sides makes the glyph
\* straight and a wall on one side a corner; the first such edge decides.
wall_glyph(c) ==
  LET arms == WallsAround(c)
      overriding ==
        {i \in DOMAIN Edges :
           /\ c[Edges[i].axis] = Edges[i].at
           /\ Edges[i].inward \in arms
           /\ arms \cap Edges[i].along # {}}
      edge == Edges[CHOOSE i \in overriding : \A j \in overriding : i <= j]
  IN  IF overriding = {} THEN LineArt(arms)
      ELSE IF edge.along \subseteq arms THEN LineArt(edge.along)
      ELSE LineArt({edge.inward} \cup (arms \cap edge.along))

\* The glyph and the colour of a map tile.
draw_map_tile(c, visible) ==
  LET art(graphic, plain) == IF options.graphical_tiles THEN graphic ELSE plain
      tile == tiles[c]
  IN  CASE tile = WALL -> draw_tile(art(wall_glyph(c), 35), 37)
        [] tile = ROOM -> draw_tile(art(250, 46),
                                    IF options.color /\ ~visible THEN 32 ELSE 92)
        [] tile = DOOR -> draw_tile(art(254, 43), 93)
        [] tile = CORRIDOR ->
             draw_tile(art(IF visible THEN 177 ELSE 176, 44), 96)
        [] tile = ROCK -> draw_tile(SPACE, 37)

\* Mutant: the dead are drawn as well.
DrawsMonsterDeadOrAlive(c) == \E i \in DOMAIN monsters : monsters[i].at = c

DrawsMonster(c) == \E i \in DOMAIN monsters : StandsAt(i, c)

draw_cell(c, seen, visibility) ==
  IF c \notin seen THEN draw_tile(SPACE, 37)
  ELSE IF c = player THEN draw_tile(64, 93)
  ELSE IF DrawsMonster(c) THEN draw_tile(77, 91)
  ELSE draw_map_tile(c, c \in visibility)

\* The rows of the map from left to right, each ended by a newline.
MapItems(seen, visibility) ==
  [i \in 1 .. (W + 1) * H |->
     LET x == (i - 1) % (W + 1)
         y == (i - 1) \div (W + 1)
     IN  IF x = W THEN Plain(LF) ELSE draw_cell(<<x, y>>, seen, visibility)]

MenuText ==
  <<LF, Text.menu, LF,
    Text.font, label(options.font), LF,
    Text.graphics, OnOff(options.graphical_tiles), LF,
    Text.color, OnOff(options.color), LF,
    Text.close, LF>>

StatsText ==
  <<Text.hp, Number(hit_points), Text.str, Number(Strength),
    Text.xp, Number(xp), LF>>

\* What render prints after cls.
Frame(seen, visibility) ==
  print(<<Text.title, LF, LF>>) \o MapItems(seen, visibility)
    \o print(<<LF, Text.move_help, LF>> \o StatsText \o <<Text.options_help>>
               \o IF options.menu_open THEN MenuText ELSE <<>>)

\* What render_dead prints after cls.
DeadFrame ==
  print(<<Text.dead, LF, LF,
          Text.stats, Number(hit_points), Text.str, Number(Strength), LF, LF,
          Text.leave_help, LF>>)

ScreenInit == Init /\ display = NewDisplay

\* apply_options and cls, either of which starts on a cleared screen.
Cleared ==
  clear_screen(IF font_dirty
                 THEN set_font_mode(display,
                        apply_font_command(kernel_index(options.font)))
                 ELSE display)

\* The frame, and the flush with which the read of the next key begins.
DrawScreen ==
  /\ Draw
  /\ \E visibility \in {compute_visibility(tiles, player)} :
     \E items \in {IF is_dead THEN DeadFrame
                   ELSE Frame(explored \cup visibility, visibility)} :
       display' = [Written(Cleared, items) EXCEPT !.dirty = FALSE]

\* Leaving says goodbye on a display nobody flushes any more; no other key
\* writes anything.
KeyScreen(key) ==
  /\ HandleKey(key)
  /\ display' = IF ~is_dead /\ key = QuitKey
                  THEN Written(display, print(<<LF, Text.leaving, LF>>))
                  ELSE display

ScreenNext == DrawScreen \/ \E b \in Bytes : KeyScreen(decode_key(b))

ScreenSpec == ScreenInit /\ [][ScreenNext]_svars

-----------------------------------------------------------------------------

\* The lines of the frame in front of the player, its last one included.
FrameLines ==
  IF is_dead THEN 6 ELSE IF options.menu_open THEN H + 12 ELSE H + 6

\* The lines that have scrolled away at the top.
Overflow ==
  IF FrameLines > rows(display) THEN FrameLines - rows(display) ELSE 0

\* A well-formed display in the font the console was last told, through any
\* number of frames, scrolls and changes of font in the middle of a game.
DisplayFollows ==
  /\ IsDisplay(display, Nat)
  /\ display.font = font_mode

DeadLine(n) ==
  CASE n = 0 -> <<Text.dead>>
    [] n = 2 -> <<Text.stats, Number(hit_points), Text.str, Number(Strength)>>
    [] n = 4 -> <<Text.leave_help>>
    [] OTHER -> <<>>

TextLine(n) ==
  IF n >= FrameLines THEN <<>>
  ELSE CASE n = 0 -> <<Text.title>>
         [] n = H + 3 -> <<Text.move_help>>
         [] n = H + 4 -> <<Text.hp, Number(hit_points), Text.str, Number(Strength),
                           Text.xp, Number(xp)>>
         [] n = H + 5 -> <<Text.options_help>>
         [] n = H + 6 -> <<Text.menu>>
         [] n = H + 7 -> <<Text.font, label(options.font)>>
         [] n = H + 8 -> <<Text.graphics, OnOff(options.graphical_tiles)>>
         [] n = H + 9 -> <<Text.color, OnOff(options.color)>>
         [] n = H + 10 -> <<Text.close>>
         [] OTHER -> <<>>

\* An item in its colour on the default background, at column x of line n.
Shown(item) ==
  Cell(item.ch, IF item.color = 0 THEN DEFAULT ELSE item.color, DEFAULT)

Picture(n, x, visibility) ==
  LET text == IF is_dead THEN DeadLine(n) ELSE TextLine(n)
  IN  IF ~is_dead /\ n \in 2 .. H + 1 /\ x < W
        THEN Shown(draw_cell(<<x, n - 2>>, explored, visibility))
      ELSE IF x < Len(text) THEN Shown(Plain(text[x + 1]))
      ELSE Shown(Plain(SPACE))

\* Whatever was on the screen before, the player in front of a prompt sees the
\* current state and nothing else: each line of the frame in its place, counted
\* from the bottom when the frame is higher than the screen, each cell in its
\* own colour, the rest blank (render, newline, scroll_up, reset_style).
ShowsPicture ==
  pc = "wait" =>
    LET visibility == compute_visibility(tiles, player)
    IN  \A y \in DOMAIN display.grid : \A x \in DOMAIN display.grid[y] :
          display.grid[y][x] = Picture(y + Overflow, x, visibility)

\* Where the display shows cell c of the map.
ScreenRow(c) == c[2] + 2 - Overflow
GlyphAt(c) == display.grid[ScreenRow(c)][c[1]].ch
OnScreen(c) == c \in Cells /\ ScreenRow(c) >= 0

FloorGlyphs == {250, 254, 177, 46, 43, 44}

\* The player can trust the screen about the cells a key can reach: an M there
\* is hit by the key and is the only thing that is, and a cell that can be
\* entered is drawn as floor, corridor or door (render and tick look at the
\* monsters and tiles separately).
SeenIsHit ==
  pc = "wait" /\ InWorld =>
    \A b \in Bytes :
      LET key == decode_key(b)
          c == Target(key)
      IN  key.type = "Move" /\ OnScreen(c) =>
            /\ GlyphAt(c) = 77 <=> \E i \in DOMAIN monsters : FoundMonster(i, c)
            /\ is_walkable(tiles, c) /\ NoMonsterAt(c) =>
                 GlyphAt(c) \in FloorGlyphs

\* The arms of a line-drawing character.
ArmsShown(glyph) ==
  UNION {arms \in SUBSET DOMAIN Beside :
           Cardinality(arms) >= 2 /\ LineArt(arms) = glyph}

\* No wall on the edge of the map is drawn as a junction with an arm that
\* leaves the map.
NoArmsOffMap ==
  pc = "wait" /\ ~is_dead /\ options.graphical_tiles =>
    \A i \in DOMAIN Edges : \A c \in explored :
      LET edge == Edges[i]
          arms == ArmsShown(GlyphAt(c))
      IN  /\ c[edge.axis] = edge.at /\ tiles[c] = WALL /\ OnScreen(c)
          /\ edge.along \subseteq arms
          => arms \subseteq edge.along \cup {edge.inward}
=============================================================================
