--------------------------- MODULE DisplayProofs ---------------------------
(***************************************************************************)
(* For every size of the screen: what each operation of the console makes  *)
(* of a well-formed display is a well-formed display, and a change of a    *)
(* cell is marked.                                                         *)
(***************************************************************************)
EXTENDS Display, Induction

\* A display that is a record of its fields and nothing else.
Good(d, G) ==
  /\ DOMAIN d = {"font", "x", "y", "fg", "bg", "grid", "dirty"}
  /\ IsDisplay(d, G)

\* A step from d to e: no change of a cell goes unmarked, no mark is removed.
Marks(d, e) == (e.grid # d.grid => e.dirty) /\ (d.dirty => e.dirty)

CellsOf(G) == [ch : G, fg : Color, bg : Color]

GridOf(font, G) ==
  [0 .. FontRows(font) - 1 -> [0 .. FontCols(font) - 1 -> CellsOf(G)]]

\* A display piece by piece.
LEMMA GoodMeans ==
  ASSUME NEW G, NEW d
  PROVE  Good(d, G) <=>
           /\ DOMAIN d = {"font", "x", "y", "fg", "bg", "grid", "dirty"}
           /\ d.font \in FontChoice
           /\ d.x \in 0 .. cols(d) /\ d.y \in 0 .. rows(d) - 1
           /\ d.fg \in Color /\ d.bg \in Color
           /\ d.dirty \in BOOLEAN
           /\ d.grid \in GridOf(d.font, G)
BY DEF Good, IsDisplay, GridOf, CellsOf, cols, rows

\* Room for a cell at least, in every font.
LEMMA Sizes ==
  ASSUME NEW font \in FontChoice
  PROVE  /\ FontCols(font) \in Nat /\ FontCols(font) >= 1
         /\ FontRows(font) \in Nat /\ FontRows(font) >= 1
BY PixelAssumption DEF FontCols, FontRows

LEMMA GoodSizes ==
  ASSUME NEW G, NEW d, Good(d, G)
  PROVE  /\ cols(d) \in Nat /\ cols(d) >= 1
         /\ rows(d) \in Nat /\ rows(d) >= 1
BY Sizes DEF Good, IsDisplay, cols, rows

LEMMA CellType ==
  ASSUME NEW G, SPACE \in G, NEW ch \in G, NEW fg \in Color, NEW bg \in Color
  PROVE  Cell(ch, fg, bg) \in CellsOf(G)
BY DEF Cell, CellsOf

\* clear_screen in a font of any kind.
LEMMA ClearGood ==
  ASSUME NEW G, SPACE \in G, NEW d,
         DOMAIN d = {"font", "x", "y", "fg", "bg", "grid", "dirty"},
         d.font \in FontChoice, d.fg \in Color, d.bg \in Color
  PROVE  /\ Good(clear_screen(d), G)
         /\ clear_screen(d).font = d.font
         /\ clear_screen(d).dirty
<1> DEFINE e == clear_screen(d)
           blank == [y \in 0 .. rows(d) - 1 |-> BlankRow(d)]
<1>1. /\ DOMAIN e = {"font", "x", "y", "fg", "bg", "grid", "dirty"}
      /\ e.font = d.font /\ e.fg = d.fg /\ e.bg = d.bg
      /\ e.x = 0 /\ e.y = 0 /\ e.dirty = TRUE /\ e.grid = blank
  BY DEF clear_screen
<1>2. /\ cols(d) \in Nat /\ cols(d) >= 1 /\ cols(e) = cols(d)
      /\ rows(d) \in Nat /\ rows(d) >= 1 /\ rows(e) = rows(d)
  BY <1>1, Sizes DEF cols, rows
<1>3. BlankRow(d) \in [0 .. cols(d) - 1 -> CellsOf(G)]
  BY CellType DEF BlankRow
<1>4. blank \in GridOf(d.font, G)
  BY <1>3 DEF GridOf, cols, rows
<1> HIDE DEF e, blank
<1>5. Good(e, G)
  <2>1. 0 \in 0 .. cols(e) /\ 0 \in 0 .. rows(e) - 1
    BY <1>2
  <2> QED BY <1>1, <1>4, <2>1, GoodMeans
<1> QED BY <1>1, <1>5 DEF e

\* What scroll_up leaves: the font, the cursor and the colours.
LEMMA ScrollGood ==
  ASSUME NEW G, SPACE \in G, NEW d, Good(d, G)
  PROVE  /\ Good(scroll_up(d), G)
         /\ scroll_up(d).font = d.font /\ scroll_up(d).dirty
         /\ scroll_up(d).x = d.x /\ scroll_up(d).y = d.y
<1> DEFINE e == scroll_up(d)
           moved == [y \in 0 .. rows(d) - 1 |->
                       IF y < rows(d) - 1 THEN d.grid[y + 1] ELSE BlankRow(d)]
<1>1. /\ DOMAIN e = {"font", "x", "y", "fg", "bg", "grid", "dirty"}
      /\ e.font = d.font /\ e.fg = d.fg /\ e.bg = d.bg
      /\ e.x = d.x /\ e.y = d.y /\ e.dirty = TRUE /\ e.grid = moved
  BY DEF scroll_up, Good
<1>2. /\ cols(d) \in Nat /\ cols(d) >= 1 /\ cols(e) = cols(d)
      /\ rows(d) \in Nat /\ rows(d) >= 1 /\ rows(e) = rows(d)
  BY <1>1, GoodSizes DEF cols, rows
<1>3. BlankRow(d) \in [0 .. cols(d) - 1 -> CellsOf(G)]
  BY CellType DEF BlankRow, Good, IsDisplay
<1>4. d.grid \in [0 .. rows(d) - 1 -> [0 .. cols(d) - 1 -> CellsOf(G)]]
  BY GoodMeans DEF GridOf, cols, rows
<1>5. moved \in [0 .. rows(d) - 1 -> [0 .. cols(d) - 1 -> CellsOf(G)]]
  BY <1>2, <1>3, <1>4
<1> HIDE DEF e, moved
<1>6. moved \in GridOf(e.font, G)
  BY <1>1, <1>5 DEF GridOf, cols, rows
<1>7. Good(e, G)
  BY <1>1, <1>2, <1>6, GoodMeans
<1> QED BY <1>1, <1>7 DEF e

\* A cursor moved within the grid.
LEMMA MoveGood ==
  ASSUME NEW G, NEW d, Good(d, G), NEW e,
         DOMAIN e = {"font", "x", "y", "fg", "bg", "grid", "dirty"},
         e.font = d.font, e.fg = d.fg, e.bg = d.bg,
         e.grid = d.grid, e.dirty = d.dirty,
         e.x \in 0 .. cols(d), e.y \in 0 .. rows(d) - 1
  PROVE  Good(e, G) /\ Marks(d, e)
<1>1. cols(e) = cols(d) /\ rows(e) = rows(d)
  BY DEF cols, rows
<1>2. Good(e, G)
  BY <1>1, GoodMeans
<1> QED BY <1>2 DEF Marks

\* A flush resets the mark only.
LEMMA FlushGood ==
  ASSUME NEW G, NEW d, Good(d, G)
  PROVE  /\ Good([d EXCEPT !.dirty = FALSE], G)
         /\ [d EXCEPT !.dirty = FALSE].font = d.font
<1> DEFINE e == [d EXCEPT !.dirty = FALSE]
<1>1. DOMAIN e = {"font", "x", "y", "fg", "bg", "grid", "dirty"}
      /\ e.font = d.font /\ e.x = d.x /\ e.y = d.y /\ e.fg = d.fg
      /\ e.bg = d.bg /\ e.grid = d.grid /\ e.dirty = FALSE
  BY GoodMeans
<1> HIDE DEF e
<1>2. cols(e) = cols(d) /\ rows(e) = rows(d)
  BY <1>1 DEF cols, rows
<1>3. Good(e, G)
  BY <1>1, <1>2, GoodMeans
<1> QED BY <1>1, <1>3 DEF e

LEMMA NewlineGood ==
  ASSUME NEW G, SPACE \in G, NEW d, Good(d, G)
  PROVE  /\ Good(newline(d), G)
         /\ newline(d).font = d.font /\ newline(d).x = 0
         /\ newline(d).fg = d.fg /\ newline(d).bg = d.bg
         /\ Marks(d, newline(d))
<1>1. /\ cols(d) \in Nat /\ cols(d) >= 1
      /\ rows(d) \in Nat /\ rows(d) >= 1
      /\ d.y \in 0 .. rows(d) - 1
  BY GoodSizes DEF Good, IsDisplay
<1>2. CASE d.y + 1 < rows(d)
  <2> DEFINE e == [d EXCEPT !.x = 0, !.y = d.y + 1]
  <2>1. newline(d) = e
    BY <1>2 DEF newline
  <2>2. DOMAIN e = {"font", "x", "y", "fg", "bg", "grid", "dirty"}
        /\ e.font = d.font /\ e.x = 0 /\ e.y = d.y + 1 /\ e.grid = d.grid
        /\ e.dirty = d.dirty /\ e.fg = d.fg /\ e.bg = d.bg
    BY GoodMeans
  <2> HIDE DEF e
  <2>3. e.x \in 0 .. cols(d) /\ e.y \in 0 .. rows(d) - 1
    BY <1>1, <1>2, <2>2
  <2> QED BY <2>1, <2>2, <2>3, MoveGood
<1>3. CASE ~(d.y + 1 < rows(d))
  <2> DEFINE e == [d EXCEPT !.x = 0, !.y = rows(d) - 1]
  <2>1. newline(d) = scroll_up(e)
    BY <1>3 DEF newline
  <2>2. DOMAIN e = {"font", "x", "y", "fg", "bg", "grid", "dirty"}
        /\ e.font = d.font /\ e.x = 0 /\ e.y = rows(d) - 1 /\ e.grid = d.grid
        /\ e.dirty = d.dirty /\ e.fg = d.fg /\ e.bg = d.bg
    BY GoodMeans
  <2> HIDE DEF e
  <2>3. e.x \in 0 .. cols(d) /\ e.y \in 0 .. rows(d) - 1
    BY <1>1, <2>2
  <2>4. Good(e, G)
    BY <2>2, <2>3, MoveGood
  <2>5. scroll_up(e).fg = e.fg /\ scroll_up(e).bg = e.bg
    BY <2>2 DEF scroll_up
  <2> QED BY <2>1, <2>2, <2>4, <2>5, ScrollGood DEF Marks
<1> QED BY <1>2, <1>3

LEMMA DrawGood ==
  ASSUME NEW G, SPACE \in G, NEW d, Good(d, G), NEW ch \in G
  PROVE  /\ Good(draw_char(d, ch), G)
         /\ draw_char(d, ch).font = d.font
         /\ Marks(d, draw_char(d, ch))
<1> DEFINE e == Wrap(d)
           f == draw_char(d, ch)
           c == Cell(ch, d.fg, d.bg)
<1>1. /\ Good(e, G) /\ e.font = d.font /\ cols(e) = cols(d)
      /\ e.x \in 0 .. cols(e) - 1 /\ e.y \in 0 .. rows(e) - 1
      /\ e.fg = d.fg /\ e.bg = d.bg
  <2>1. CASE d.x >= cols(d)
    <3>1. e = newline(d)
      BY <2>1 DEF Wrap
    <3>2. Good(e, G) /\ e.font = d.font /\ e.x = 0 /\ e.fg = d.fg /\ e.bg = d.bg
      BY <3>1, NewlineGood
    <3> HIDE DEF e
    <3>3. e.y \in 0 .. rows(e) - 1 /\ cols(e) \in Nat /\ cols(e) >= 1
          /\ cols(e) = cols(d)
      BY <3>2, GoodSizes DEF Good, IsDisplay, cols
    <3> QED BY <3>2, <3>3
  <2>2. CASE ~(d.x >= cols(d))
    <3>1. e = d
      BY <2>2 DEF Wrap
    <3> HIDE DEF e
    <3>2. d.x \in 0 .. cols(d) /\ d.y \in 0 .. rows(d) - 1 /\ cols(d) \in Nat
      BY GoodSizes DEF Good, IsDisplay
    <3> QED BY <2>2, <3>1, <3>2
  <2> QED BY <2>1, <2>2
<1>2. c \in CellsOf(G)
  BY CellType DEF Good, IsDisplay
<1>3. f = [e EXCEPT !.grid[e.y][e.x] = c, !.x = @ + 1, !.dirty = TRUE]
  BY DEF draw_char
<1> HIDE DEF e, f, c
<1>4. /\ DOMAIN f = {"font", "x", "y", "fg", "bg", "grid", "dirty"}
      /\ f.font = e.font /\ f.fg = e.fg /\ f.bg = e.bg
      /\ f.x = e.x + 1 /\ f.y = e.y /\ f.dirty = TRUE
      /\ f.grid = [e.grid EXCEPT ![e.y][e.x] = c]
  BY <1>1, <1>3 DEF Good
<1>5. cols(f) = cols(e) /\ rows(f) = rows(e) /\ cols(e) \in Nat /\ rows(e) \in Nat
  BY <1>1, <1>4, GoodSizes DEF cols, rows
<1>6. f.grid \in GridOf(f.font, G)
  <2>1. e.grid \in [0 .. rows(e) - 1 -> [0 .. cols(e) - 1 -> CellsOf(G)]]
    BY <1>1, GoodMeans DEF GridOf, cols, rows
  <2>2. e.grid[e.y] \in [0 .. cols(e) - 1 -> CellsOf(G)]
    BY <1>1, <2>1
  <2>3. [e.grid[e.y] EXCEPT ![e.x] = c] \in [0 .. cols(e) - 1 -> CellsOf(G)]
    BY <1>1, <1>2, <2>2
  <2>4. f.grid = [e.grid EXCEPT ![e.y] = [e.grid[e.y] EXCEPT ![e.x] = c]]
    BY <1>4
  <2>5. f.grid \in [0 .. rows(e) - 1 -> [0 .. cols(e) - 1 -> CellsOf(G)]]
    BY <1>1, <2>1, <2>3, <2>4
  <2> QED BY <1>4, <2>5 DEF GridOf, cols, rows
<1>7. Good(f, G)
  <2>1. f.x \in 0 .. cols(f) /\ f.y \in 0 .. rows(f) - 1
    BY <1>1, <1>4, <1>5
  <2>2. e.font \in FontChoice /\ e.fg \in Color /\ e.bg \in Color
    BY <1>1, GoodMeans
  <2> QED BY <1>4, <1>6, <2>1, <2>2, GoodMeans
<1>8. Marks(d, f)
  BY <1>4 DEF Marks
<1> QED BY <1>1, <1>4, <1>7, <1>8 DEF f

LEMMA CursorGood ==
  ASSUME NEW G, NEW d, Good(d, G)
  PROVE  /\ Good(carriage_return(d), G) /\ Marks(d, carriage_return(d))
         /\ Good(tab(d), G) /\ Marks(d, tab(d))
         /\ Good(backspace(d), G) /\ Marks(d, backspace(d))
<1>1. /\ cols(d) \in Nat /\ cols(d) >= 1
      /\ d.x \in 0 .. cols(d) /\ d.y \in 0 .. rows(d) - 1
  BY GoodSizes, GoodMeans
<1>2. ASSUME NEW x \in 0 .. cols(d)
      PROVE  Good([d EXCEPT !.x = x], G) /\ Marks(d, [d EXCEPT !.x = x])
  <2> DEFINE e == [d EXCEPT !.x = x]
  <2>1. DOMAIN e = {"font", "x", "y", "fg", "bg", "grid", "dirty"}
        /\ e.font = d.font /\ e.x = x /\ e.y = d.y /\ e.grid = d.grid
        /\ e.dirty = d.dirty /\ e.fg = d.fg /\ e.bg = d.bg
    BY GoodMeans
  <2>2. Good(e, G) /\ Marks(d, e)
    <3> HIDE DEF e
    <3> QED BY <1>1, <2>1, MoveGood
  <2> QED BY <2>2
<1>3. 0 \in 0 .. cols(d) /\ carriage_return(d) = [d EXCEPT !.x = 0]
  BY <1>1 DEF carriage_return
<1>4. PICK n \in 0 .. cols(d) : tab(d) = [d EXCEPT !.x = n]
  <2> DEFINE n == AtMost(8 * ((d.x + 8) \div 8), cols(d) - 1)
  <2>1. n \in 0 .. cols(d)
    BY <1>1 DEF AtMost
  <2>2. tab(d) = [d EXCEPT !.x = n]
    BY DEF tab
  <2> HIDE DEF n
  <2> QED BY <2>1, <2>2
<1>5. PICK m \in 0 .. cols(d) : backspace(d) = [d EXCEPT !.x = m]
  <2> DEFINE m == IF d.x > 0 THEN d.x - 1 ELSE 0
  <2>1. m \in 0 .. cols(d)
    BY <1>1
  <2>2. backspace(d) = [d EXCEPT !.x = m]
    BY DEF backspace
  <2> HIDE DEF m
  <2> QED BY <2>1, <2>2
<1> QED BY <1>2, <1>3, <1>4, <1>5

LEMMA PositionGood ==
  ASSUME NEW G, NEW d, Good(d, G), NEW row \in Nat, NEW col \in Nat
  PROVE  /\ Good(csi_cursor_position(d, row, col), G)
         /\ Marks(d, csi_cursor_position(d, row, col))
<1> DEFINE e == csi_cursor_position(d, row, col)
<1>1. /\ cols(d) \in Nat /\ cols(d) >= 1 /\ rows(d) \in Nat /\ rows(d) >= 1
  BY GoodSizes
<1>2. DOMAIN e = {"font", "x", "y", "fg", "bg", "grid", "dirty"}
      /\ e.font = d.font /\ e.grid = d.grid
      /\ e.dirty = d.dirty /\ e.fg = d.fg /\ e.bg = d.bg
      /\ e.x = AtMost(col, cols(d) - 1) /\ e.y = AtMost(row, rows(d) - 1)
  BY GoodMeans DEF csi_cursor_position
<1> HIDE DEF e
<1>3. e.x \in 0 .. cols(d) /\ e.y \in 0 .. rows(d) - 1
  BY <1>1, <1>2 DEF AtMost
<1>4. Good(e, G) /\ Marks(d, e)
  BY <1>2, <1>3, MoveGood
<1> QED BY <1>4 DEF e

LEMMA FontGood ==
  ASSUME NEW G, SPACE \in G, NEW d, Good(d, G), NEW font \in FontChoice
  PROVE  /\ Good(set_font_mode(d, font), G)
         /\ Marks(d, set_font_mode(d, font))
         /\ set_font_mode(d, font).font = font
<1>1. CASE d.font = font
  BY <1>1 DEF set_font_mode, Marks
<1>2. CASE d.font # font
  <2> DEFINE e == [d EXCEPT !.font = font]
  <2>1. set_font_mode(d, font) = clear_screen(e)
    BY <1>2 DEF set_font_mode
  <2>2. DOMAIN e = {"font", "x", "y", "fg", "bg", "grid", "dirty"}
        /\ e.font = font /\ e.fg \in Color /\ e.bg \in Color
    BY GoodMeans
  <2> HIDE DEF e
  <2> QED BY <2>1, <2>2, ClearGood DEF Marks
<1> QED BY <1>1, <1>2

\* clear_screen on a display that is well-formed already.
LEMMA ClearsGood ==
  ASSUME NEW G, SPACE \in G, NEW d, Good(d, G)
  PROVE  Good(clear_screen(d), G) /\ Marks(d, clear_screen(d))
BY GoodMeans, ClearGood DEF Marks

LEMMA SgrGood ==
  ASSUME NEW G, NEW d, Good(d, G), NEW code \in Int
  PROVE  /\ Good(Sgr(d, code), G)
         /\ Marks(d, Sgr(d, code))
         /\ Sgr(d, code).font = d.font
<1> DEFINE e == Sgr(d, code)
<1>1. /\ DOMAIN e = {"font", "x", "y", "fg", "bg", "grid", "dirty"}
      /\ e.font = d.font /\ e.grid = d.grid /\ e.dirty = d.dirty
      /\ e.x = d.x /\ e.y = d.y
      /\ e.fg \in {d.fg, DEFAULT, code} /\ (e.fg = code => e.fg \in {d.fg, DEFAULT} \cup Colors)
      /\ e.bg \in {d.bg, DEFAULT} \cup Colors
  BY GoodMeans DEF Sgr
<1>2. d.fg \in Color /\ d.bg \in Color
  BY GoodMeans
<1> HIDE DEF e
<1>3. e.fg \in Color /\ e.bg \in Color
  BY <1>1, <1>2 DEF Color
<1>4. cols(e) = cols(d) /\ rows(e) = rows(d)
  BY <1>1 DEF cols, rows
<1>5. Good(e, G) /\ Marks(d, e)
  BY <1>1, <1>3, <1>4, GoodMeans DEF Marks
<1> QED BY <1>1, <1>5 DEF e

\* f holds the displays while the codes are read.
SgrTrace(f, N, d, params) ==
  /\ f = [n \in 0 .. N |-> f[n]]
  /\ f[0] = d
  /\ \A n \in 0 .. N - 1 : f[n + 1] = Sgr(f[n], params[n + 1])

LEMMA SgrTraceExists ==
  ASSUME NEW d, NEW params, NEW N \in Nat
  PROVE  \E f : SgrTrace(f, N, d, params)
<1> DEFINE T == {k \in 0 .. N : \E f : SgrTrace(f, k, d, params)}
<1>1. 0 \in T
  <2> DEFINE f == [n \in 0 .. 0 |-> d]
  <2>1. SgrTrace(f, 0, d, params)
    BY DEF SgrTrace
  <2> HIDE DEF f
  <2> QED BY <2>1
<1>2. ASSUME NEW k \in 0 .. N - 1, k \in T PROVE k + 1 \in T
  <2>1. PICK f : SgrTrace(f, k, d, params)
    BY <1>2
  <2> DEFINE g == [n \in 0 .. k + 1 |-> IF n <= k THEN f[n] ELSE Sgr(f[k], params[k + 1])]
  <2>2. g[0] = d
    BY <2>1 DEF SgrTrace
  <2>3. ASSUME NEW n \in 0 .. k PROVE g[n + 1] = Sgr(g[n], params[n + 1])
    <3>1. g[n] = f[n]
      OBVIOUS
    <3>2. CASE n < k
      <4>1. g[n + 1] = f[n + 1] /\ n \in 0 .. k - 1
        BY <3>2
      <4> HIDE DEF g
      <4> QED BY <2>1, <3>1, <4>1 DEF SgrTrace
    <3>3. CASE n = k
      <4>1. g[k + 1] = Sgr(f[k], params[k + 1])
        OBVIOUS
      <4> HIDE DEF g
      <4> QED BY <3>1, <3>3, <4>1
    <3> QED BY <3>2, <3>3
  <2>4. g = [n \in 0 .. k + 1 |-> g[n]]
    OBVIOUS
  <2> HIDE DEF g
  <2>5. k + 1 - 1 = k /\ k + 1 \in 0 .. N
    OBVIOUS
  <2>6. SgrTrace(g, k + 1, d, params)
    BY <2>2, <2>3, <2>4, <2>5 DEF SgrTrace
  <2> QED BY <2>5, <2>6
<1>3. 0 .. N \subseteq T
  <2> HIDE DEF T
  <2> QED BY <1>1, <1>2, UpTo
<1> QED BY <1>3

\* What apply_sgr computes.
LEMMA ApplySgrTrace ==
  ASSUME NEW d, NEW params, Len(params) \in Nat
  PROVE  \E f : /\ SgrTrace(f, Len(params), d, params)
                /\ apply_sgr(d, params) = f[Len(params)]
<1> DEFINE N == Len(params)
           Solves(g) == g = [n \in 0 .. N |-> IF n = 0 THEN d ELSE Sgr(g[n - 1], params[n])]
           after == CHOOSE g : Solves(g)
<1>1. PICK f : SgrTrace(f, N, d, params)
  <2> HIDE DEF N
  <2> QED BY SgrTraceExists DEF N
<1>2. Solves(f)
  <2> HIDE DEF N
  <2>0. N \in Nat
    BY DEF N
  <2>1. ASSUME NEW n \in 0 .. N, n # 0 PROVE f[n] = Sgr(f[n - 1], params[n])
    <3>1. n - 1 \in 0 .. N - 1 /\ n - 1 + 1 = n
      BY <2>0, <2>1
    <3> QED BY <1>1, <3>1 DEF SgrTrace
  <2>2. f = [n \in 0 .. N |-> f[n]] /\ f[0] = d
    BY <1>1 DEF SgrTrace
  <2> QED BY <2>1, <2>2
<1>3. Solves(after)
  <2> HIDE DEF Solves
  <2> QED BY <1>2
<1>4. SgrTrace(after, N, d, params)
  <2> HIDE DEF after, N
  <2>0. N \in Nat
    BY DEF N
  <2>1. ASSUME NEW n \in 0 .. N - 1 PROVE after[n + 1] = Sgr(after[n], params[n + 1])
    <3>1. n + 1 \in 0 .. N /\ n + 1 # 0 /\ n + 1 - 1 = n
      BY <2>0
    <3>2. \A m \in 0 .. N : m # 0 => after[m] = Sgr(after[m - 1], params[m])
      BY <1>3
    <3> QED BY <3>1, <3>2
  <2>2. after = [n \in 0 .. N |-> after[n]] /\ after[0] = d
    BY <1>3, <2>0
  <2> QED BY <2>1, <2>2 DEF SgrTrace
<1>5. apply_sgr(d, params) = after[N]
  BY DEF apply_sgr
<1> HIDE DEF after
<1> QED BY <1>4, <1>5

LEMMA ApplySgrGood ==
  ASSUME NEW G, NEW d, Good(d, G), NEW params \in Seq(Int)
  PROVE  /\ Good(apply_sgr(d, params), G)
         /\ Marks(d, apply_sgr(d, params))
<1> DEFINE N == Len(params)
           T(f) == {n \in 0 .. N : Good(f[n], G) /\ Marks(d, f[n])}
<1>1. N \in Nat
  OBVIOUS
<1>2. PICK f : SgrTrace(f, N, d, params) /\ apply_sgr(d, params) = f[N]
  BY <1>1, ApplySgrTrace
<1>3. 0 \in T(f)
  BY <1>1, <1>2 DEF SgrTrace, Marks
<1>4. ASSUME NEW n \in 0 .. N - 1, n \in T(f) PROVE n + 1 \in T(f)
  <2>1. n + 1 \in 0 .. N /\ params[n + 1] \in Int
    BY <1>1
  <2>2. f[n + 1] = Sgr(f[n], params[n + 1])
    BY <1>2 DEF SgrTrace
  <2>3. Good(f[n + 1], G) /\ Marks(f[n], f[n + 1])
    BY <1>4, <2>1, <2>2, SgrGood
  <2> QED BY <1>4, <2>1, <2>3 DEF Marks
<1>5. 0 .. N \subseteq T(f)
  <2> HIDE DEF N
  <2> DEFINE S == T(f)
  <2>1. 0 \in S /\ \A n \in 0 .. N - 1 : n \in S => n + 1 \in S
    BY <1>3, <1>4
  <2> HIDE DEF S
  <2>2. 0 .. N \subseteq S
    BY <1>1, <2>1, UpTo
  <2> QED BY <2>2 DEF S
<1> QED BY <1>1, <1>2, <1>5
=============================================================================
