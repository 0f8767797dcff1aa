------------------------------ MODULE Display ------------------------------
(***************************************************************************)
(* What FramebufferConsole draws on.  A display is a record of the font,   *)
(* the cursor, the two colours, the dirty flag and the pixels, which are   *)
(* kept as rows of character cells of the font's size.  A colour is its    *)
(* SGR code, DEFAULT the one the console starts with.  The strips the 9x14 *)
(* font leaves over at the right and the bottom are left out: scroll_up    *)
(* moves the lower one into the new row, which is a blank row as long as   *)
(* the background is the one of the last clear, as it is in the game.      *)
(***************************************************************************)
EXTENDS Fonts, Sequences

CONSTANTS WIDTH, HEIGHT   \* in pixels: 640 x 400 as shipped

\* Room for at least one cell of the largest font.
ASSUME PixelAssumption ==
  /\ WIDTH \in Nat /\ WIDTH >= 9
  /\ HEIGHT \in Nat /\ HEIGHT >= 14

DEFAULT == 39
SPACE == 32

FontCols(font) == IF font = "Regular9x14" THEN WIDTH \div 9 ELSE WIDTH \div 8
FontRows(font) == IF font = "Regular9x14" THEN HEIGHT \div 14 ELSE HEIGHT \div 8

cols(d) == FontCols(d.font)
rows(d) == FontRows(d.font)

\* A space shows its background only.
Cell(ch, fg, bg) == [ch |-> ch, fg |-> IF ch = SPACE THEN bg ELSE fg, bg |-> bg]

BlankRow(d) == [x \in 0 .. cols(d) - 1 |-> Cell(SPACE, d.fg, d.bg)]

clear_screen(d) ==
  [d EXCEPT !.grid = [y \in 0 .. rows(d) - 1 |-> BlankRow(d)],
            !.x = 0, !.y = 0, !.dirty = TRUE]

\* Mutant: what was moved is not said to have changed.
scroll_up_unmarked(d) ==
  [d EXCEPT !.grid = [y \in 0 .. rows(d) - 1 |->
                        IF y < rows(d) - 1 THEN d.grid[y + 1] ELSE BlankRow(d)]]

\* Every row moves up by one; the last one is cleared.
scroll_up(d) ==
  [d EXCEPT !.grid = [y \in 0 .. rows(d) - 1 |->
                        IF y < rows(d) - 1 THEN d.grid[y + 1] ELSE BlankRow(d)],
            !.dirty = TRUE]

\* Mutant: the screen scrolls and the cursor moves on all the same.
newline_unclamped(d) ==
  IF d.y + 1 < rows(d) THEN [d EXCEPT !.x = 0, !.y = @ + 1]
  ELSE scroll_up([d EXCEPT !.x = 0, !.y = @ + 1])

newline(d) ==
  IF d.y + 1 < rows(d) THEN [d EXCEPT !.x = 0, !.y = @ + 1]
  ELSE scroll_up([d EXCEPT !.x = 0, !.y = rows(d) - 1])

\* Mutant: a character behind the last column stays there.
WrapNever(d) == d

\* The line is wrapped when the character after the last column comes.
Wrap(d) == IF d.x >= cols(d) THEN newline(d) ELSE d

draw_char(d, ch) ==
  LET e == Wrap(d)
  IN  [e EXCEPT !.grid[e.y][e.x] = Cell(ch, d.fg, d.bg),
                !.x = @ + 1, !.dirty = TRUE]

AtMost(n, most) == IF n < most THEN n ELSE most

carriage_return(d) == [d EXCEPT !.x = 0]
tab(d) == [d EXCEPT !.x = AtMost(8 * ((@ + 8) \div 8), cols(d) - 1)]
backspace(d) == [d EXCEPT !.x = IF @ > 0 THEN @ - 1 ELSE 0]

csi_cursor_position(d, row, col) ==
  [d EXCEPT !.y = AtMost(row, rows(d) - 1), !.x = AtMost(col, cols(d) - 1)]

\* A new font starts on a cleared screen.
set_font_mode(d, font) ==
  IF d.font = font THEN d ELSE clear_screen([d EXCEPT !.font = font])

Colors == 30 .. 37 \cup 90 .. 97

\* One code of apply_sgr.
Sgr(d, code) ==
  CASE code = 0           -> [d EXCEPT !.fg = DEFAULT, !.bg = DEFAULT]
    [] code \in Colors    -> [d EXCEPT !.fg = code]
    [] code = 39          -> [d EXCEPT !.fg = DEFAULT]
    [] code - 10 \in Colors -> [d EXCEPT !.bg = code - 10]
    [] code = 49          -> [d EXCEPT !.bg = DEFAULT]
    [] OTHER              -> d

\* apply_sgr: the codes from left to right.
apply_sgr(d, params) ==
  LET after[n \in 0 .. Len(params)] ==
        IF n = 0 THEN d ELSE Sgr(after[n - 1], params[n])
  IN  after[Len(params)]

\* FramebufferConsole::new: a cleared screen, flushed.
NewDisplay ==
  LET d == [font |-> "Regular8x8", x |-> 0, y |-> 0, fg |-> DEFAULT,
            bg |-> DEFAULT, grid |-> <<>>, dirty |-> FALSE]
  IN  [clear_screen(d) EXCEPT !.dirty = FALSE]

Color == {DEFAULT} \cup Colors

\* The cursor is on the grid of its font, or just behind a row's end.
IsDisplay(d, Glyphs) ==
  /\ d.font \in FontChoice
  /\ d.x \in 0 .. cols(d) /\ d.y \in 0 .. rows(d) - 1
  /\ d.fg \in Color /\ d.bg \in Color
  /\ d.dirty \in BOOLEAN
  /\ d.grid \in [0 .. rows(d) - 1 ->
                  [0 .. cols(d) - 1 -> [ch : Glyphs, fg : Color, bg : Color]]]
=============================================================================
