--------------------------- MODULE TerminalProofs ---------------------------
(***************************************************************************)
(* For every size of the screen and every stream of bytes, cut anywhere:   *)
(* the terminal never draws off the screen, marks what it changes, does    *)
(* what the game's escapes ask, and reads every sequence as a whole.       *)
(***************************************************************************)
EXTENDS Terminal, DisplayProofs

\* What the parser can be in.
AnsiOK(a) ==
  \/ a = Ground
  \/ a = Esc
  \/ \E params \in Seq(Nat), current \in Nat, has_current \in BOOLEAN :
       a = Csi(params, current, has_current)

Glyphs == {Glyph(byte) : byte \in Bytes} \cup {SPACE}

LEMMA AccumulateType ==
  ASSUME NEW n \in Nat, NEW byte \in Digit
  PROVE  accumulate(n, byte) \in Nat
BY TerminalAssumption DEF accumulate, Digit

LEMMA PushedType ==
  ASSUME NEW params \in Seq(Nat), NEW current \in Nat, NEW has_current
  PROVE  pushed(Csi(params, current, has_current)) \in Seq(Nat)
BY DEF pushed, Csi

LEMMA AnsiStep ==
  ASSUME NEW a, AnsiOK(a), NEW byte \in 0 .. 255
  PROVE  AnsiOK(AnsiAfter(a, byte))
<1>1. CASE a = Ground
  BY <1>1 DEF AnsiAfter, Ground, Esc, AnsiOK
<1>2. CASE a = Esc
  <2>1. AnsiAfter(a, byte) \in {Csi(<<>>, 0, FALSE), Ground}
    BY <1>2 DEF AnsiAfter, Esc
  <2>2. <<>> \in Seq(Nat) /\ 0 \in Nat /\ FALSE \in BOOLEAN
    OBVIOUS
  <2> QED BY <2>1, <2>2 DEF AnsiOK
<1>3. ASSUME NEW params \in Seq(Nat), NEW current \in Nat, NEW has_current \in BOOLEAN,
             a = Csi(params, current, has_current)
      PROVE  AnsiOK(AnsiAfter(a, byte))
  <2>1. a.state = "Csi" /\ a.params = params /\ a.current = current
    BY <1>3 DEF Csi
  <2>2. CASE byte \in Digit
    <3>1. AnsiAfter(a, byte) = Csi(params, accumulate(current, byte), TRUE)
      BY <2>1, <2>2 DEF AnsiAfter
    <3> QED BY <2>2, <3>1, AccumulateType DEF AnsiOK
  <2>3. CASE byte \notin Digit /\ byte = SEPARATOR
    <3>1. AnsiAfter(a, byte) = Csi(pushed(a), 0, FALSE)
      BY <2>1, <2>3 DEF AnsiAfter
    <3> QED BY <1>3, <3>1, PushedType DEF AnsiOK
  <2>4. CASE byte \notin Digit /\ byte # SEPARATOR
    BY <2>1, <2>4 DEF AnsiAfter, AnsiOK
  <2> QED BY <2>2, <2>3, <2>4
<1> QED BY <1>1, <1>2, <1>3 DEF AnsiOK

LEMMA ParamType ==
  ASSUME NEW params \in Seq(Nat), NEW index, NEW default \in Nat
  PROVE  get_param(params, index, default) \in Nat
<1>1. ASSUME index \in DOMAIN params PROVE params[index] \in Nat
  BY <1>1
<1> QED BY <1>1 DEF get_param

LEMMA CsiGood ==
  ASSUME NEW G, SPACE \in G, NEW d, Good(d, G), NEW action \in 0 .. 255,
         NEW params \in Seq(Nat)
  PROVE  /\ Good(handle_csi(d, action, params), G)
         /\ Marks(d, handle_csi(d, action, params))
<1> DEFINE e == handle_csi(d, action, params)
<1>1. CASE e = clear_screen(d)
  BY <1>1, ClearsGood
<1>2. CASE e = csi_cursor_position(d, Pred(get_param(params, 1, 1)),
                                      Pred(get_param(params, 2, 1)))
  <2>1. Pred(get_param(params, 1, 1)) \in Nat /\ Pred(get_param(params, 2, 1)) \in Nat
    BY ParamType DEF Pred
  <2> HIDE DEF e
  <2>2. Good(e, G) /\ Marks(d, e)
    BY <1>2, <2>1, PositionGood
  <2> QED BY <2>2 DEF e
<1>3. CASE e = apply_sgr(d, params)
  <2>1. params \in Seq(Int)
    OBVIOUS
  <2> QED BY <1>3, <2>1, ApplySgrGood
<1>4. CASE e = set_font_mode(d, apply_font_command(get_param(params, 1, 0)))
  <2>1. apply_font_command(get_param(params, 1, 0)) \in FontChoice
    BY DEF apply_font_command, FontChoice
  <2> HIDE DEF e
  <2>2. Good(e, G) /\ Marks(d, e)
    BY <1>4, <2>1, FontGood
  <2> QED BY <2>2 DEF e
<1>5. CASE e = d
  BY <1>5 DEF Marks
<1>6. \/ e = clear_screen(d)
      \/ e = csi_cursor_position(d, Pred(get_param(params, 1, 1)),
                                    Pred(get_param(params, 2, 1)))
      \/ e = apply_sgr(d, params)
      \/ e = set_font_mode(d, apply_font_command(get_param(params, 1, 0)))
      \/ e = d
  BY DEF handle_csi
<1> HIDE DEF e
<1>7. Good(e, G) /\ Marks(d, e)
  BY <1>1, <1>2, <1>3, <1>4, <1>5, <1>6 DEF e
<1> QED BY <1>7 DEF e

LEMMA GroundGood ==
  ASSUME NEW G, SPACE \in G, NEW d, Good(d, G), NEW byte \in 0 .. 255,
         Glyph(byte) \in G
  PROVE  Good(ground_byte(d, byte), G) /\ Marks(d, ground_byte(d, byte))
<1> DEFINE e == ground_byte(d, byte)
<1>1. \/ e = newline(d) \/ e = carriage_return(d) \/ e = tab(d)
      \/ e = backspace(d) \/ e = draw_char(d, Glyph(byte)) \/ e = d
  BY DEF ground_byte
<1> HIDE DEF e
<1>2. Good(e, G) /\ Marks(d, e)
  BY <1>1, NewlineGood, CursorGood, DrawGood DEF Marks
<1> QED BY <1>2 DEF e

LEMMA ByteGood ==
  ASSUME NEW G, SPACE \in G, NEW d, Good(d, G), NEW a, AnsiOK(a),
         NEW byte \in 0 .. 255, Glyph(byte) \in G
  PROVE  Good(DisplayAfter(a, d, byte), G) /\ Marks(d, DisplayAfter(a, d, byte))
<1>1. CASE a = Ground
  <2>1. DisplayAfter(a, d, byte) = ground_byte(d, byte)
    BY <1>1 DEF DisplayAfter, Ground
  <2> QED BY <2>1, GroundGood
<1>2. CASE a = Esc
  <2>1. DisplayAfter(a, d, byte) = d
    BY <1>2 DEF DisplayAfter, Esc
  <2> QED BY <2>1 DEF Marks
<1>3. ASSUME NEW params \in Seq(Nat), NEW current \in Nat, NEW has_current \in BOOLEAN,
             a = Csi(params, current, has_current)
      PROVE  Good(DisplayAfter(a, d, byte), G) /\ Marks(d, DisplayAfter(a, d, byte))
  <2>1. a.state = "Csi"
    BY <1>3 DEF Csi
  <2>2. DisplayAfter(a, d, byte) = d \/ DisplayAfter(a, d, byte) = handle_csi(d, byte, pushed(a))
    BY <2>1 DEF DisplayAfter
  <2>3. pushed(a) \in Seq(Nat)
    BY <1>3, PushedType
  <2> QED BY <2>2, <2>3, CsiGood DEF Marks
<1> QED BY <1>1, <1>2, <1>3 DEF AnsiOK

-----------------------------------------------------------------------------

\* The inductive invariant.
TerminalInv ==
  /\ AnsiOK(ansi)
  /\ Good(display, Glyphs)
  /\ CleanMeansShown

\* After any bytes and any flushes the parser and the display are well-formed
\* and marked (feed_ansi, flush).
THEOREM TerminalInvariant == Spec => []TerminalInv
<1>1. Init => TerminalInv
  <2> SUFFICES ASSUME Init PROVE TerminalInv
    OBVIOUS
  <2> DEFINE d == [font |-> "Regular8x8", x |-> 0, y |-> 0, fg |-> DEFAULT,
                   bg |-> DEFAULT, grid |-> <<>>, dirty |-> FALSE]
             c == clear_screen(d)
  <2>1. DOMAIN d = {"font", "x", "y", "fg", "bg", "grid", "dirty"}
        /\ d.font \in FontChoice /\ d.fg \in Color /\ d.bg \in Color
    BY DEF FontChoice, Color
  <2>2. SPACE \in Glyphs
    BY DEF Glyphs
  <2>3. Good(c, Glyphs)
    <3> HIDE DEF d
    <3> QED BY <2>1, <2>2, ClearGood
  <2>4. display = [c EXCEPT !.dirty = FALSE]
    BY DEF Init, NewDisplay
  <2> HIDE DEF c, d
  <2>5. Good(display, Glyphs)
    <3>1. DOMAIN display = {"font", "x", "y", "fg", "bg", "grid", "dirty"}
          /\ display.font = c.font /\ display.x = c.x /\ display.y = c.y
          /\ display.fg = c.fg /\ display.bg = c.bg /\ display.grid = c.grid
          /\ display.dirty = FALSE
      BY <2>3, <2>4, GoodMeans
    <3>2. cols(display) = cols(c) /\ rows(display) = rows(c)
      BY <3>1 DEF cols, rows
    <3> QED BY <2>3, <3>1, <3>2, GoodMeans
  <2>6. CleanMeansShown /\ AnsiOK(ansi)
    BY DEF Init, CleanMeansShown, AnsiOK
  <2> QED BY <2>5, <2>6 DEF TerminalInv
<1>2. TerminalInv /\ [Next]_tvars => TerminalInv'
  <2> SUFFICES ASSUME TerminalInv, [Next]_tvars PROVE TerminalInv'
    OBVIOUS
  <2>1. ASSUME NEW byte \in Bytes, write_byte(byte) PROVE TerminalInv'
    <3>1. byte \in 0 .. 255 /\ Glyph(byte) \in Glyphs /\ SPACE \in Glyphs
      BY TerminalAssumption DEF Glyphs
    <3>2. ansi' = AnsiAfter(ansi, byte) /\ display' = DisplayAfter(ansi, display, byte)
      BY <2>1 DEF write_byte
    <3>3. AnsiOK(ansi')
      BY <3>1, <3>2, AnsiStep DEF TerminalInv
    <3>4. Good(display', Glyphs) /\ Marks(display, display')
      BY <3>1, <3>2, ByteGood DEF TerminalInv
    <3>5. CleanMeansShown'
      BY <2>1, <3>4 DEF TerminalInv, CleanMeansShown, Marks, write_byte
    <3> QED BY <3>3, <3>4, <3>5 DEF TerminalInv
  <2>2. ASSUME NEW ok \in BOOLEAN, flush(ok) PROVE TerminalInv'
    <3>1. display' = [display EXCEPT !.dirty = FALSE] /\ ansi' = ansi
      BY <2>2 DEF flush
    <3>2. DOMAIN display' = {"font", "x", "y", "fg", "bg", "grid", "dirty"}
          /\ display'.font = display.font /\ display'.x = display.x
          /\ display'.y = display.y /\ display'.fg = display.fg
          /\ display'.bg = display.bg /\ display'.grid = display.grid
          /\ display'.dirty = FALSE
      BY <3>1, GoodMeans DEF TerminalInv
    <3>3. cols(display') = cols(display) /\ rows(display') = rows(display)
      BY <3>2 DEF cols, rows
    <3>4. Good(display', Glyphs)
      BY <3>2, <3>3, GoodMeans DEF TerminalInv
    <3>5. CleanMeansShown'
      BY <2>2 DEF flush, CleanMeansShown
    <3> QED BY <3>1, <3>4, <3>5 DEF TerminalInv
  <2>3. CASE UNCHANGED tvars
    BY <2>3 DEF tvars, TerminalInv, CleanMeansShown
  <2> QED BY <2>1, <2>2, <2>3 DEF Next
<1> QED BY <1>1, <1>2, PTL DEF Spec

\* Whatever bytes arrive in whatever order, the cursor stays on the grid and
\* the grid has the size of the font (draw_char, newline, tab, handle_csi).
THEOREM NeverOffScreen == Spec => []DisplayOK
<1>1. TerminalInv => DisplayOK
  BY DEF TerminalInv, DisplayOK, Good, Glyphs
<1> QED BY <1>1, TerminalInvariant, PTL

\* No change of a cell goes unmarked: a clean display is the one the user sees
\* unless the last flush failed (draw_char, scroll_up, clear_screen, flush).
THEOREM NothingUnmarked == Spec => []CleanMeansShown
<1>1. TerminalInv => CleanMeansShown
  BY DEF TerminalInv
<1> QED BY <1>1, TerminalInvariant, PTL

-----------------------------------------------------------------------------
(* The escapes of the game.                                                *)

\* The parser and the display, and the two after one more byte.
State(a, d) == [a |-> a, d |-> d]

Single(n) == <<n>>

Fed(s, byte) == State(AnsiAfter(s.a, byte), DisplayAfter(s.a, s.d, byte))

\* f holds the parser and the display while the bytes are written.
Starts(f, N) == f = [n \in 0 .. N |-> f[n]] /\ f[0] = State(ansi, display)

Writes(f, N, bytes) ==
  /\ Starts(f, N)
  /\ \A n \in 0 .. N - 1 : f[n + 1] = Fed(f[n], bytes[n + 1])

LEMMA WritesExists ==
  ASSUME NEW bytes, NEW N \in Nat
  PROVE  \E f : Writes(f, N, bytes)
<1> DEFINE T == {k \in 0 .. N : \E f : Writes(f, k, bytes)}
<1>1. 0 \in T
  <2> DEFINE f == [n \in 0 .. 0 |-> State(ansi, display)]
  <2>1. Writes(f, 0, bytes)
    BY DEF Writes, Starts
  <2> HIDE DEF f
  <2> QED BY <2>1
<1>2. ASSUME NEW k \in 0 .. N - 1, k \in T PROVE k + 1 \in T
  <2>1. PICK f : Writes(f, k, bytes)
    BY <1>2
  <2> DEFINE g == [n \in 0 .. k + 1 |-> IF n <= k THEN f[n] ELSE Fed(f[k], bytes[k + 1])]
  <2>2. g[0] = State(ansi, display)
    BY <2>1 DEF Writes, Starts
  <2>3. ASSUME NEW n \in 0 .. k PROVE g[n + 1] = Fed(g[n], bytes[n + 1])
    <3>1. g[n] = f[n]
      OBVIOUS
    <3>2. CASE n < k
      <4>1. g[n + 1] = f[n + 1] /\ n \in 0 .. k - 1
        BY <3>2
      <4> HIDE DEF g
      <4> QED BY <2>1, <3>1, <4>1 DEF Writes
    <3>3. CASE n = k
      <4>1. g[k + 1] = Fed(f[k], bytes[k + 1])
        OBVIOUS
      <4> HIDE DEF g
      <4> QED BY <3>1, <3>3, <4>1
    <3> QED BY <3>2, <3>3
  <2>4. g = [n \in 0 .. k + 1 |-> g[n]]
    OBVIOUS
  <2> HIDE DEF g
  <2>5. k + 1 - 1 = k /\ k + 1 \in 0 .. N
    OBVIOUS
  <2>6. Writes(g, k + 1, bytes)
    <3>1. \A n \in 0 .. k + 1 - 1 : g[n + 1] = Fed(g[n], bytes[n + 1])
      BY <2>3, <2>5
    <3>2. Starts(g, k + 1)
      BY <2>2, <2>4 DEF Starts
    <3> QED BY <3>1, <3>2 DEF Writes
  <2>7. \E e : Writes(e, k + 1, bytes)
    BY <2>6
  <2> QED BY <2>5, <2>7
<1>3. 0 .. N \subseteq T
  <2> HIDE DEF T
  <2> QED BY <1>1, <1>2, UpTo
<1> QED BY <1>3

\* What AfterWriting computes.
Computes(f, N, bytes) == Writes(f, N, bytes) /\ AfterWriting(bytes) = f[N]

LEMMA WritesComputed ==
  ASSUME NEW bytes, NEW N \in Nat, Len(bytes) = N
  PROVE  \E f : Computes(f, N, bytes)
<1> DEFINE Solves(g) ==
             g = [n \in 0 .. N |-> IF n = 0 THEN State(ansi, display)
                                   ELSE Fed(g[n - 1], bytes[n])]
           run == CHOOSE g : Solves(g)
<1>1. PICK f : Writes(f, N, bytes)
  BY WritesExists
<1>2. Solves(f)
  <2>1. ASSUME NEW n \in 0 .. N, n # 0 PROVE f[n] = Fed(f[n - 1], bytes[n])
    <3>1. n - 1 \in 0 .. N - 1 /\ n - 1 + 1 = n
      BY <2>1
    <3> QED BY <1>1, <3>1 DEF Writes
  <2>2. f = [n \in 0 .. N |-> f[n]] /\ f[0] = State(ansi, display)
    BY <1>1 DEF Writes, Starts
  <2> QED BY <2>1, <2>2
<1>3. Solves(run)
  <2> HIDE DEF Solves
  <2> QED BY <1>2
<1>4. Writes(run, N, bytes)
  <2> HIDE DEF run
  <2>1. ASSUME NEW n \in 0 .. N - 1 PROVE run[n + 1] = Fed(run[n], bytes[n + 1])
    <3>1. n + 1 \in 0 .. N /\ n + 1 # 0 /\ n + 1 - 1 = n
      OBVIOUS
    <3>2. \A m \in 0 .. N : m # 0 => run[m] = Fed(run[m - 1], bytes[m])
      BY <1>3
    <3> QED BY <3>1, <3>2
  <2>2. run = [n \in 0 .. N |-> run[n]] /\ run[0] = State(ansi, display)
    BY <1>3
  <2> QED BY <2>1, <2>2 DEF Writes, Starts
<1>5. AfterWriting(bytes) = run[N]
  BY DEF AfterWriting, Fed, State
<1> HIDE DEF run
<1> QED BY <1>4, <1>5 DEF Computes

\* The bytes of a sequence with one number: how it begins, a digit of the
\* number, the final byte.
LEMMA FedEscape ==
  ASSUME NEW d
  PROVE  /\ Fed(State(Ground, d), ESC) = State(Esc, d)
         /\ Fed(State(Esc, d), OPEN) = State(Csi(<<>>, 0, FALSE), d)
<1>1. Ground.state = "Ground" /\ Esc.state = "Esc"
  BY DEF Ground, Esc
<1>2. AnsiAfter(Ground, ESC) = Esc /\ DisplayAfter(Ground, d, ESC) = d
  BY <1>1 DEF AnsiAfter, DisplayAfter, ground_byte, ESC, SPACE
<1>3. AnsiAfter(Esc, OPEN) = Csi(<<>>, 0, FALSE) /\ DisplayAfter(Esc, d, OPEN) = d
  BY <1>1 DEF AnsiAfter, DisplayAfter
<1> QED BY <1>2, <1>3 DEF Fed, State

LEMMA FedDigit ==
  ASSUME NEW d, NEW n, NEW h, NEW byte \in Digit
  PROVE  Fed(State(Csi(<<>>, n, h), d), byte) =
           State(Csi(<<>>, accumulate(n, byte), TRUE), d)
<1> DEFINE c == Csi(<<>>, n, h)
<1>1. c.state = "Csi" /\ c.params = <<>> /\ c.current = n
  BY DEF Csi
<1> HIDE DEF c
<1>2. AnsiAfter(c, byte) = Csi(<<>>, accumulate(n, byte), TRUE)
  BY <1>1 DEF AnsiAfter
<1>3. DisplayAfter(c, d, byte) = d
  BY <1>1 DEF DisplayAfter
<1> QED BY <1>2, <1>3 DEF Fed, State, c

LEMMA FedFinal ==
  ASSUME NEW d, NEW n, NEW h, NEW byte, byte \notin Digit, byte # SEPARATOR
  PROVE  Fed(State(Csi(<<>>, n, h), d), byte) =
           State(Ground, handle_csi(d, byte, Single(n)))
<1> DEFINE c == Csi(<<>>, n, h)
<1>1. c.state = "Csi" /\ c.params = <<>> /\ c.current = n
  BY DEF Csi
<1> HIDE DEF c
<1>2. pushed(c) = Single(n)
  BY <1>1 DEF pushed, MaxParams, Single
<1>3. AnsiAfter(c, byte) = Ground
  BY <1>1 DEF AnsiAfter
<1>4. DisplayAfter(c, d, byte) = handle_csi(d, byte, Single(n))
  BY <1>1, <1>2 DEF DisplayAfter
<1> QED BY <1>3, <1>4 DEF Fed, State, c

\* What a sequence with one number of at most two digits does.
LEMMA OneNumber ==
  ASSUME ansi = Ground, NEW n \in 0 .. 99, n <= ParamMax,
         NEW final, final \notin Digit, final # SEPARATOR
  PROVE  AfterWriting(<<ESC, OPEN>> \o Decimal(n) \o <<final>>) =
           State(Ground, handle_csi(display, final, Single(n)))
<1> DEFINE bytes == <<ESC, OPEN>> \o Decimal(n) \o <<final>>
<1>1. CASE n < 10
  <2>1. /\ bytes[1] = ESC /\ bytes[2] = OPEN
        /\ bytes[3] = 48 + n /\ bytes[4] = final
    <3>1. Decimal(n) = <<48 + n>>
      BY <1>1 DEF Decimal
    <3>2. bytes = <<ESC, OPEN>> \o <<48 + n>> \o <<final>>
      BY <3>1
    <3> HIDE DEF bytes
    <3> QED BY <3>2
  <2>2. Len(bytes) = 4
    <3>1. Decimal(n) = <<48 + n>>
      BY <1>1 DEF Decimal
    <3>2. bytes = <<ESC, OPEN>> \o <<48 + n>> \o <<final>>
      BY <3>1
    <3> HIDE DEF bytes
    <3> QED BY <3>2
  <2> HIDE DEF bytes
  <2>3. PICK f : Computes(f, 4, bytes)
    BY <2>2, WritesComputed
  <2>4. /\ f[0] = State(ansi, display)
        /\ f[1] = Fed(f[0], ESC) /\ f[2] = Fed(f[1], OPEN)
        /\ f[3] = Fed(f[2], 48 + n) /\ f[4] = Fed(f[3], final)
    <3>1. \A i \in 0 .. 3 : f[i + 1] = Fed(f[i], bytes[i + 1])
      BY <2>3 DEF Computes, Writes, Starts
    <3>2. f[1] = Fed(f[0], bytes[1]) /\ f[2] = Fed(f[1], bytes[2])
          /\ f[3] = Fed(f[2], bytes[3]) /\ f[4] = Fed(f[3], bytes[4])
      BY <3>1
    <3> QED BY <2>1, <2>3, <3>2 DEF Computes, Writes, Starts
  <2>5. f[2] = State(Csi(<<>>, 0, FALSE), display)
    BY <2>4, FedEscape
  <2>6. 48 + n \in Digit /\ accumulate(0, 48 + n) = n
    BY <1>1, TerminalAssumption DEF Digit, accumulate
  <2>7. f[3] = State(Csi(<<>>, n, TRUE), display)
    BY <2>4, <2>5, <2>6, FedDigit
  <2>8. f[4] = State(Ground, handle_csi(display, final, Single(n)))
    <3>1. Fed(State(Csi(<<>>, n, TRUE), display), final)
            = State(Ground, handle_csi(display, final, Single(n)))
      BY FedFinal
    <3>2. f[4] = Fed(f[3], final)
      BY <2>4
    <3> QED BY <2>7, <3>1, <3>2
  <2> QED BY <2>3, <2>8 DEF bytes, Computes
<1>2. CASE n >= 10
  <2> DEFINE tens == 48 + (n \div 10)
             ones == 48 + (n % 10)
  <2>1. /\ bytes[1] = ESC /\ bytes[2] = OPEN
        /\ bytes[3] = tens /\ bytes[4] = ones /\ bytes[5] = final
    <3>1. Decimal(n) = <<tens, ones>>
      BY <1>2 DEF Decimal
    <3>2. bytes = <<ESC, OPEN>> \o <<tens, ones>> \o <<final>>
      BY <3>1
    <3> HIDE DEF bytes, tens, ones
    <3> QED BY <3>2
  <2>2. Len(bytes) = 5
    <3>1. Decimal(n) = <<tens, ones>>
      BY <1>2 DEF Decimal
    <3>2. bytes = <<ESC, OPEN>> \o <<tens, ones>> \o <<final>>
      BY <3>1
    <3> HIDE DEF bytes, tens, ones
    <3> QED BY <3>2
  <2>3. tens \in Digit /\ ones \in Digit
    BY <1>2 DEF Digit
  <2>4. accumulate(accumulate(0, tens), ones) = n
    BY <1>2, TerminalAssumption DEF accumulate
  <2> HIDE DEF bytes, tens, ones
  <2>5. PICK f : Computes(f, 5, bytes)
    BY <2>2, WritesComputed
  <2>6. /\ f[0] = State(ansi, display)
        /\ f[1] = Fed(f[0], ESC) /\ f[2] = Fed(f[1], OPEN)
        /\ f[3] = Fed(f[2], tens) /\ f[4] = Fed(f[3], ones) /\ f[5] = Fed(f[4], final)
    <3>1. \A i \in 0 .. 4 : f[i + 1] = Fed(f[i], bytes[i + 1])
      BY <2>5 DEF Computes, Writes, Starts
    <3>2. f[1] = Fed(f[0], bytes[1]) /\ f[2] = Fed(f[1], bytes[2])
          /\ f[3] = Fed(f[2], bytes[3]) /\ f[4] = Fed(f[3], bytes[4])
          /\ f[5] = Fed(f[4], bytes[5])
      BY <3>1
    <3> QED BY <2>1, <2>5, <3>2 DEF Computes, Writes, Starts
  <2>7. f[2] = State(Csi(<<>>, 0, FALSE), display)
    BY <2>6, FedEscape
  <2>8. f[3] = State(Csi(<<>>, accumulate(0, tens), TRUE), display)
    BY <2>3, <2>6, <2>7, FedDigit
  <2>9. f[4] = State(Csi(<<>>, n, TRUE), display)
    BY <2>3, <2>4, <2>6, <2>8, FedDigit
  <2>10. f[5] = State(Ground, handle_csi(display, final, Single(n)))
    <3>1. Fed(State(Csi(<<>>, n, TRUE), display), final)
            = State(Ground, handle_csi(display, final, Single(n)))
      BY FedFinal
    <3>2. f[5] = Fed(f[4], final)
      BY <2>6
    <3> QED BY <2>9, <3>1, <3>2
  <2> QED BY <2>5, <2>10 DEF bytes, Computes
<1> QED BY <1>1, <1>2

\* cls: the screen is cleared by the first sequence, the cursor is home
\* already when the second puts it there.
LEMMA ClsUnderstood ==
  ASSUME ansi = Ground, Good(display, Glyphs)
  PROVE  AfterWriting(ClsBytes) = State(Ground, clear_screen(display))
<1> DEFINE c == clear_screen(display)
<1>1. Len(ClsBytes) = 7
  BY DEF ClsBytes
<1>2. PICK f : Computes(f, 7, ClsBytes)
  BY <1>1, WritesComputed
<1>3. /\ f[0] = State(Ground, display)
      /\ f[1] = Fed(f[0], ESC) /\ f[2] = Fed(f[1], OPEN) /\ f[3] = Fed(f[2], 50)
      /\ f[4] = Fed(f[3], 74) /\ f[5] = Fed(f[4], ESC) /\ f[6] = Fed(f[5], OPEN)
      /\ f[7] = Fed(f[6], 72)
  <2>1. \A i \in 0 .. 6 : f[i + 1] = Fed(f[i], ClsBytes[i + 1])
    BY <1>2 DEF Computes, Writes, Starts
  <2>2. /\ f[1] = Fed(f[0], ClsBytes[1]) /\ f[2] = Fed(f[1], ClsBytes[2])
        /\ f[3] = Fed(f[2], ClsBytes[3]) /\ f[4] = Fed(f[3], ClsBytes[4])
        /\ f[5] = Fed(f[4], ClsBytes[5]) /\ f[6] = Fed(f[5], ClsBytes[6])
        /\ f[7] = Fed(f[6], ClsBytes[7])
    BY <2>1
  <2> QED BY <1>2, <2>2 DEF Computes, Writes, Starts, ClsBytes
<1>4. f[2] = State(Csi(<<>>, 0, FALSE), display)
  <2>1. Fed(State(Ground, display), ESC) = State(Esc, display)
    BY FedEscape
  <2>2. Fed(State(Esc, display), OPEN) = State(Csi(<<>>, 0, FALSE), display)
    BY FedEscape
  <2>3. f[1] = State(Esc, display)
    BY <1>3, <2>1
  <2>4. f[2] = Fed(f[1], OPEN)
    BY <1>3
  <2> QED BY <2>2, <2>3, <2>4
<1>5. 50 \in Digit /\ accumulate(0, 50) = 2
  BY TerminalAssumption DEF Digit, accumulate
<1>6. f[3] = State(Csi(<<>>, 2, TRUE), display)
  <2>1. Fed(State(Csi(<<>>, 0, FALSE), display), 50)
          = State(Csi(<<>>, accumulate(0, 50), TRUE), display)
    BY <1>5, FedDigit
  <2>2. f[3] = Fed(f[2], 50)
    BY <1>3
  <2> QED BY <1>4, <1>5, <2>1, <2>2
<1>7. handle_csi(display, 74, Single(2)) = c
  BY DEF handle_csi, get_param, Single
<1> HIDE DEF c
<1>8. f[4] = State(Ground, c)
  <2>1. 74 \notin Digit /\ 74 # SEPARATOR
    BY DEF Digit, SEPARATOR
  <2>2. Fed(State(Csi(<<>>, 2, TRUE), display), 74)
          = State(Ground, handle_csi(display, 74, Single(2)))
    BY <2>1, FedFinal
  <2>3. f[4] = Fed(f[3], 74)
    BY <1>3
  <2> QED BY <1>6, <1>7, <2>2, <2>3
<1>9. f[6] = State(Csi(<<>>, 0, FALSE), c)
  <2>1. Fed(State(Ground, c), ESC) = State(Esc, c)
    BY FedEscape
  <2>2. Fed(State(Esc, c), OPEN) = State(Csi(<<>>, 0, FALSE), c)
    BY FedEscape
  <2>3. f[5] = Fed(f[4], ESC) /\ f[6] = Fed(f[5], OPEN)
    BY <1>3
  <2>4. f[5] = State(Esc, c)
    BY <1>8, <2>1, <2>3
  <2> QED BY <2>2, <2>3, <2>4
<1>10. handle_csi(c, 72, Single(0)) = csi_cursor_position(c, 0, 0)
  <2>1. Pred(get_param(<<0>>, 1, 1)) = 0 /\ Pred(get_param(<<0>>, 2, 1)) = 0
    BY DEF get_param, Pred
  <2> QED BY <2>1 DEF handle_csi, Single
<1>11. csi_cursor_position(c, 0, 0) = c
  <2>1. cols(c) \in Nat /\ cols(c) >= 1 /\ rows(c) \in Nat /\ rows(c) >= 1
    <3>1. Good(c, Glyphs)
      BY ClearsGood DEF c, Glyphs
    <3> QED BY <3>1, GoodSizes
  <2>2. AtMost(0, cols(c) - 1) = 0 /\ AtMost(0, rows(c) - 1) = 0
    BY <2>1 DEF AtMost
  <2>3. c.x = 0 /\ c.y = 0 /\ c = [k \in DOMAIN c |-> c[k]]
    BY GoodMeans DEF c, clear_screen
  <2>4. [c EXCEPT !.y = 0, !.x = 0] = c
    BY <2>3
  <2> QED BY <2>2, <2>4 DEF csi_cursor_position
<1>12. f[7] = State(Ground, c)
  <2>1. 72 \notin Digit /\ 72 # SEPARATOR
    BY DEF Digit, SEPARATOR
  <2>2. Fed(State(Csi(<<>>, 0, FALSE), c), 72) = State(Ground, handle_csi(c, 72, Single(0)))
    BY <2>1, FedFinal
  <2>3. f[7] = Fed(f[6], 72)
    BY <1>3
  <2> QED BY <1>9, <1>10, <1>11, <2>2, <2>3
<1> QED BY <1>2, <1>12 DEF c, Computes

LEMMA SgrUnderstood ==
  ASSUME ansi = Ground, NEW code \in SgrCodes
  PROVE  AfterWriting(SgrBytes(code)) = State(Ground, Sgr(display, code))
<1>1. 109 \notin Digit /\ 109 # SEPARATOR
  BY DEF Digit, SEPARATOR
<1>2. code \in 0 .. 99 /\ code <= ParamMax
  BY TerminalAssumption
<1>3. AfterWriting(SgrBytes(code)) = State(Ground, handle_csi(display, 109, Single(code)))
  BY <1>1, <1>2, OneNumber DEF SgrBytes
<1>4. handle_csi(display, 109, Single(code)) = apply_sgr(display, <<code>>)
  BY DEF handle_csi, Single
<1>5. Len(<<code>>) = 1
  OBVIOUS
<1>6. PICK f : SgrTrace(f, 1, display, <<code>>) /\ apply_sgr(display, <<code>>) = f[1]
  BY <1>5, ApplySgrTrace
<1>7. f[0 + 1] = Sgr(f[0], <<code>>[0 + 1]) /\ f[0] = display
  BY <1>6 DEF SgrTrace
<1> QED BY <1>3, <1>4, <1>6, <1>7

LEMMA FontUnderstood ==
  ASSUME ansi = Ground, NEW font \in FontChoice
  PROVE  AfterWriting(FontBytes(kernel_index(font))) =
           State(Ground, set_font_mode(display, font))
<1> DEFINE n == kernel_index(font)
<1>1. n \in 0 .. 2 /\ apply_font_command(n) = font
  BY DEF kernel_index, apply_font_command, FontChoice
<1>2. 122 \notin Digit /\ 122 # SEPARATOR
  BY DEF Digit, SEPARATOR
<1> HIDE DEF n
<1>3. n \in 0 .. 99 /\ n <= ParamMax
  BY <1>1, TerminalAssumption
<1>4. AfterWriting(FontBytes(n)) = State(Ground, handle_csi(display, 122, Single(n)))
  BY <1>2, <1>3, OneNumber DEF FontBytes
<1>5. get_param(Single(n), 1, 0) = n
  BY <1>1 DEF get_param, Single
<1>6. handle_csi(display, 122, Single(n)) = set_font_mode(display, font)
  BY <1>1, <1>5 DEF handle_csi
<1> QED BY <1>4, <1>6 DEF n

\* Whatever was written before, an escape of the game that begins outside a
\* sequence means to the console what it means to the game (BTerm::cls,
\* set_sgr, set_font, handle_csi).
THEOREM EscapesUnderstood == Spec => []CommandsUnderstood
<1>1. TerminalInv => CommandsUnderstood
  BY ClsUnderstood, SgrUnderstood, FontUnderstood DEF TerminalInv, CommandsUnderstood, State
<1> QED BY <1>1, TerminalInvariant, PTL

-----------------------------------------------------------------------------

\* u holds the values of the digits up to each place.
IsDecimal(u, digits) ==
  /\ u \in [0 .. Len(digits) -> Nat]
  /\ u[0] = 0
  /\ \A n \in 0 .. Len(digits) - 1 : u[n + 1] = u[n] * 10 + digits[n + 1] - 48

\* Value is such a function's last value.
LEMMA DecimalExists ==
  ASSUME NEW digits \in Seq(Digit)
  PROVE  \E u : IsDecimal(u, digits) /\ Value(digits) = AtMost(u[Len(digits)], ParamMax)
<1> DEFINE N == Len(digits)
           Solves(g) == g = [n \in 0 .. N |-> IF n = 0 THEN 0 ELSE g[n - 1] * 10 + digits[n] - 48]
           upto == CHOOSE g : Solves(g)
           step == [vn \in Nat \X Nat |->
                      IF vn[2] + 1 \in 1 .. N THEN vn[1] * 10 + digits[vn[2] + 1] - 48 ELSE 0]
<1>1. N \in Nat /\ \A n \in 1 .. N : digits[n] \in Digit
  OBVIOUS
<1>2. step \in [Nat \X Nat -> Nat]
  <2>1. ASSUME NEW v \in Nat, NEW n \in Nat, n + 1 \in 1 .. N
        PROVE  v * 10 + digits[n + 1] - 48 \in Nat
    <3>1. digits[n + 1] \in 48 .. 57
      BY <1>1, <2>1 DEF Digit
    <3> HIDE DEF N
    <3> QED BY <3>1
  <2>2. \A vn \in Nat \X Nat : vn[1] \in Nat /\ vn[2] \in Nat
    OBVIOUS
  <2> HIDE DEF N
  <2> QED BY <2>1, <2>2
<1>3. \A v \in Nat, n \in 0 .. N - 1 : step[<<v, n>>] = v * 10 + digits[n + 1] - 48
  BY <1>1
<1> HIDE DEF step, N
<1>4. 0 \in Nat
  OBVIOUS
<1>5. PICK f : Recurs(f, N, Nat, 0, step)
  BY <1>1, <1>2, <1>4, Recursion
<1>6. Solves(f)
  <2>1. ASSUME NEW n \in 0 .. N, n # 0 PROVE f[n] = f[n - 1] * 10 + digits[n] - 48
    <3>1. n - 1 \in 0 .. N - 1 /\ n - 1 + 1 = n
      BY <1>1, <2>1
    <3>2. f[n - 1] \in Nat
      BY <1>1, <1>5, <3>1 DEF Recurs
    <3>3. f[n - 1 + 1] = step[<<f[n - 1], n - 1>>]
      BY <1>5, <3>1 DEF Recurs
    <3> QED BY <1>3, <3>1, <3>2, <3>3
  <2>2. f = [n \in 0 .. N |-> f[n]] /\ f[0] = 0
    BY <1>5 DEF Recurs
  <2> QED BY <2>1, <2>2
<1>7. Solves(upto)
  <2> HIDE DEF Solves
  <2> QED BY <1>6
<1>8. Value(digits) = AtMost(upto[N], ParamMax)
  BY DEF Value, N
<1> HIDE DEF upto
<1>9. upto = f
  <2> DEFINE S == {n \in 0 .. N : upto[n] = f[n]}
  <2>1. 0 \in S
    BY <1>1, <1>6, <1>7
  <2>2. ASSUME NEW n \in 0 .. N - 1, n \in S PROVE n + 1 \in S
    <3>1. n + 1 \in 0 .. N /\ n + 1 # 0 /\ n + 1 - 1 = n
      BY <1>1
    <3>a. \A m \in 0 .. N : m # 0 => f[m] = f[m - 1] * 10 + digits[m] - 48
      BY <1>6
    <3>b. \A m \in 0 .. N : m # 0 => upto[m] = upto[m - 1] * 10 + digits[m] - 48
      BY <1>7
    <3>2. f[n + 1] = f[n] * 10 + digits[n + 1] - 48
      BY <3>1, <3>a
    <3>3. upto[n + 1] = upto[n] * 10 + digits[n + 1] - 48
      BY <3>1, <3>b
    <3> QED BY <2>2, <3>1, <3>2, <3>3
  <2>3. 0 .. N \subseteq S
    <3> HIDE DEF S
    <3> QED BY <1>1, <2>1, <2>2, UpTo
  <2>4. \A n \in 0 .. N : upto[n] = f[n]
    BY <2>3
  <2>5. upto = [n \in 0 .. N |-> upto[n]] /\ f = [n \in 0 .. N |-> f[n]]
    BY <1>6, <1>7
  <2> QED BY <2>4, <2>5
<1>10. IsDecimal(f, digits)
  <2>1. ASSUME NEW n \in 0 .. N - 1 PROVE f[n + 1] = f[n] * 10 + digits[n + 1] - 48
    <3>1. f[n] \in Nat
      BY <1>5, <1>1 DEF Recurs
    <3>2. f[n + 1] = step[<<f[n], n>>]
      BY <1>5 DEF Recurs
    <3> QED BY <1>3, <3>1, <3>2
  <2> QED BY <1>5, <2>1 DEF Recurs, IsDecimal, N
<1> QED BY <1>8, <1>9, <1>10 DEF N

\* Nothing read is zero.
LEMMA ValueEmpty == Value(<<>>) = 0
<1>1. <<>> \in Seq(Digit) /\ Len(<<>>) = 0
  OBVIOUS
<1>2. PICK u : IsDecimal(u, <<>>) /\ Value(<<>>) = AtMost(u[Len(<<>>)], ParamMax)
  BY <1>1, DecimalExists
<1>3. u[0] = 0
  BY <1>2 DEF IsDecimal
<1> QED BY <1>1, <1>2, <1>3, TerminalAssumption DEF AtMost

\* One digit more: to stop at ParamMax on the way is to stop there at the end.
LEMMA ValueAppend ==
  ASSUME NEW digits \in Seq(Digit), NEW byte \in Digit
  PROVE  Value(Append(digits, byte)) = accumulate(Value(digits), byte)
<1> DEFINE N == Len(digits)
           more == Append(digits, byte)
<1>1. /\ N \in Nat /\ more \in Seq(Digit) /\ Len(more) = N + 1
      /\ \A n \in 1 .. N : more[n] = digits[n]
      /\ more[N + 1] = byte
      /\ \A n \in 1 .. N : digits[n] \in Digit
  OBVIOUS
<1>2. PICK u : IsDecimal(u, digits) /\ Value(digits) = AtMost(u[N], ParamMax)
  BY DecimalExists
<1>3. PICK v : IsDecimal(v, more) /\ Value(more) = AtMost(v[N + 1], ParamMax)
  <2> HIDE DEF more
  <2> QED BY <1>1, DecimalExists
<1> HIDE DEF more
<1> DEFINE S == {n \in 0 .. N : v[n] = u[n]}
<1>4. 0 \in S
  BY <1>1, <1>2, <1>3 DEF IsDecimal
<1>5. ASSUME NEW n \in 0 .. N - 1, n \in S PROVE n + 1 \in S
  <2>1. n + 1 \in 0 .. N /\ n + 1 \in 1 .. N /\ n \in 0 .. N + 1 - 1
    BY <1>1
  <2>2. u[n + 1] = u[n] * 10 + digits[n + 1] - 48
    BY <1>2 DEF IsDecimal
  <2>3. v[n + 1] = v[n] * 10 + more[n + 1] - 48
    BY <1>1, <1>3, <2>1 DEF IsDecimal
  <2> QED BY <1>1, <1>5, <2>1, <2>2, <2>3
<1>6. 0 .. N \subseteq S
  <2> HIDE DEF S, N
  <2> QED BY <1>1, <1>4, <1>5, UpTo
<1>7. v[N] = u[N] /\ u[N] \in Nat
  BY <1>1, <1>2, <1>6 DEF IsDecimal
<1>8. v[N + 1] = u[N] * 10 + byte - 48
  <2>1. N \in 0 .. N + 1 - 1
    BY <1>1
  <2> QED BY <1>1, <1>3, <1>7, <2>1 DEF IsDecimal
<1>9. byte - 48 \in 0 .. 9 /\ ParamMax \in Nat
  BY TerminalAssumption DEF Digit
<1> HIDE DEF N
<1>10. AtMost(v[N + 1], ParamMax) = accumulate(AtMost(u[N], ParamMax), byte)
  <2>1. PICK t \in Nat : t = u[N]
    BY <1>7
  <2>2. v[N + 1] = t * 10 + byte - 48
    BY <1>8, <2>1
  <2>3. AtMost(t * 10 + byte - 48, ParamMax) = accumulate(AtMost(t, ParamMax), byte)
    BY <1>9 DEF AtMost, accumulate
  <2> QED BY <2>1, <2>2, <2>3
<1> QED BY <1>2, <1>3, <1>10 DEF more, N

\* How many separators there are up to a place.
Rank(i) == Cardinality({j \in Separators : j <= i})

Read == Cardinality(Separators)

\* The separators are numbered from 1 on.
Cuts ==
  /\ sequence \in Seq(Digit \cup {SEPARATOR})
  /\ Read \in Nat
  /\ \A i \in Separators : Rank(i) \in 1 .. Read
  /\ \A n \in 1 .. Read : \E i \in Separators : Rank(i) = n
  /\ \A i, j \in Separators : Rank(i) = Rank(j) => i = j

\* So every number of the sequence has an end.
Ends ==
  /\ Len(sequence) \in Nat
  /\ DOMAIN sequence = 1 .. Len(sequence)
  /\ Separators \subseteq 1 .. Len(sequence)
  /\ IsFiniteSet(Separators)
  /\ EndOf(0) = 0
  /\ \A n \in 1 .. Read : EndOf(n) \in Separators /\ Rank(EndOf(n)) = n
  /\ \A n \in 0 .. Read : EndOf(n) \in 0 .. Len(sequence)
  /\ EndOf(Read + 1) = Len(sequence) + 1

LEMMA CutsEnd == Cuts => Ends
<1> SUFFICES ASSUME Cuts PROVE Ends
  OBVIOUS
<1>1. Len(sequence) \in Nat /\ DOMAIN sequence = 1 .. Len(sequence)
  BY DEF Cuts
<1>2. Separators \subseteq 1 .. Len(sequence)
  BY <1>1 DEF Separators
<1>3. IsFiniteSet(Separators)
  <2>1. 1 \in Int /\ Len(sequence) \in Int
    BY <1>1
  <2>2. IsFiniteSet(1 .. Len(sequence))
    BY <2>1, FS_Interval
  <2> QED BY <1>2, <2>2, FS_Subset
<1>4. ASSUME NEW n \in 1 .. Read PROVE EndOf(n) \in Separators /\ Rank(EndOf(n)) = n
  <2>1. n # 0 /\ ~(n > Cardinality(Separators))
    BY DEF Cuts, Read
  <2>2. EndOf(n) = CHOOSE i \in Separators : Rank(i) = n
    BY <2>1 DEF EndOf, Rank
  <2>3. \E i \in Separators : Rank(i) = n
    BY DEF Cuts
  <2> QED BY <2>2, <2>3
<1>5. EndOf(0) = 0
  BY DEF EndOf
<1>6. \A n \in 0 .. Read : n # 0 => n \in 1 .. Read
  BY DEF Cuts
<1>7. EndOf(Read + 1) = Len(sequence) + 1
  BY DEF Cuts, EndOf, Read
<1>8. \A n \in 0 .. Read : EndOf(n) \in 0 .. Len(sequence)
  <2> SUFFICES ASSUME NEW n \in 0 .. Read PROVE EndOf(n) \in 0 .. Len(sequence)
    OBVIOUS
  <2>1. CASE n = 0
    BY <1>1, <1>5, <2>1
  <2>2. CASE n # 0
    <3>1. EndOf(n) \in 1 .. Len(sequence)
      BY <1>2, <1>4, <1>6, <2>2
    <3> QED BY <1>1, <3>1
  <2> QED BY <2>1, <2>2
<1> QED BY <1>1, <1>2, <1>3, <1>4, <1>5, <1>7, <1>8 DEF Ends

\* A byte more: the numbers that have ended stay what they are.
LEMMA CutsStep ==
  ASSUME Cuts, NEW byte \in Digit \cup {SEPARATOR},
         sequence' = Append(sequence, byte)
  PROVE  /\ Cuts'
         /\ Read' = IF byte = SEPARATOR THEN Read + 1 ELSE Read
         /\ \A n \in 0 .. Read : EndOf(n)' = EndOf(n)
         /\ byte = SEPARATOR => \A n \in Nat : n = Read + 1 => EndOf(n)' = Len(sequence')
<1> DEFINE B == Digit \cup {SEPARATOR}
<1>0. Ends
  BY CutsEnd
<1>a. PICK L \in Nat : L = Len(sequence)
  BY <1>0 DEF Ends
<1>b. PICK R \in Nat : R = Read
  BY DEF Cuts
<1>1. /\ sequence' \in Seq(B) /\ Len(sequence') = L + 1
      /\ DOMAIN sequence = 1 .. L /\ DOMAIN sequence' = 1 .. L + 1
      /\ \A i \in 1 .. L : sequence'[i] = sequence[i]
      /\ sequence'[L + 1] = byte
  <2>1. sequence \in Seq(B) /\ byte \in B
    BY DEF Cuts
  <2> HIDE DEF B
  <2> QED BY <1>a, <2>1
<1>2. Separators' = Separators \cup (IF byte = SEPARATOR THEN {L + 1} ELSE {})
  BY <1>1 DEF Separators
<1>3. /\ Separators \subseteq 1 .. L /\ IsFiniteSet(Separators)
      /\ \A n \in 1 .. R : \E e \in Separators : EndOf(n) = e /\ Rank(e) = n
  BY <1>0, <1>a, <1>b DEF Ends
<1>4. ASSUME NEW i \in Separators PROVE Rank(i)' = Rank(i)
  <2>1. {j \in Separators' : j <= i} = {j \in Separators : j <= i}
    BY <1>1, <1>2, <1>3
  <2> QED BY <2>1 DEF Rank
<1>5. Read' = IF byte = SEPARATOR THEN R + 1 ELSE R
  <2>1. CASE byte = SEPARATOR
    <3>1. L + 1 \notin Separators
      BY <1>1, <1>3
    <3>2. Separators' = Separators \cup {L + 1}
      BY <1>2, <2>1
    <3>3. Cardinality(Separators \cup {L + 1}) = Cardinality(Separators) + 1
      BY <1>3, <3>1, FS_AddElement
    <3> QED BY <1>b, <2>1, <3>2, <3>3 DEF Read
  <2>2. CASE byte # SEPARATOR
    BY <1>b, <1>2, <2>2 DEF Read
  <2> QED BY <2>1, <2>2
<1>6. ASSUME byte = SEPARATOR PROVE L + 1 \in Separators' /\ Rank(L + 1)' = R + 1
  <2>1. \A j \in Separators' : j <= L + 1
    BY <1>2, <1>3
  <2>2. {j \in Separators' : j <= L + 1} = Separators'
    BY <2>1
  <2>3. Rank(L + 1)' = Cardinality({j \in Separators' : j <= L + 1})
    BY DEF Rank
  <2>4. Rank(L + 1)' = Cardinality(Separators')
    BY <2>2, <2>3
  <2> QED BY <1>2, <1>5, <1>6, <2>4 DEF Read
<1>7. \A i \in Separators : Rank(i) \in 1 .. R
  BY <1>b DEF Cuts
<1>8. ASSUME NEW i \in Separators', i \notin Separators
      PROVE  byte = SEPARATOR /\ i = L + 1 /\ Rank(i)' = R + 1 /\ Read' = R + 1
  <2>1. byte = SEPARATOR /\ i = L + 1
    BY <1>2, <1>8
  <2> QED BY <1>5, <1>6, <2>1
<1>9. Cuts'
  <2>1. Read' \in Nat /\ R <= Read'
    BY <1>5
  <2>2. ASSUME NEW i \in Separators' PROVE Rank(i)' \in 1 .. Read'
    <3>1. CASE i \in Separators
      BY <1>4, <1>7, <2>1, <3>1
    <3>2. CASE i \notin Separators
      BY <1>8, <3>2
    <3> QED BY <3>1, <3>2
  <2>3. ASSUME NEW n \in 1 .. Read' PROVE \E i \in Separators' : Rank(i)' = n
    <3>1. CASE n \in 1 .. R
      <4>1. PICK e \in Separators : Rank(e) = n
        BY <1>3, <3>1
      <4>2. e \in Separators' /\ Rank(e)' = n
        BY <1>2, <1>4, <4>1
      <4> QED BY <4>2
    <3>2. CASE n \notin 1 .. R
      <4>1. byte = SEPARATOR /\ n = R + 1
        BY <1>5, <3>2
      <4> QED BY <1>6, <4>1
    <3> QED BY <3>1, <3>2
  <2>4. ASSUME NEW i \in Separators', NEW j \in Separators', Rank(i)' = Rank(j)' PROVE i = j
    <3>1. CASE i \in Separators /\ j \in Separators
      BY <1>4, <2>4, <3>1 DEF Cuts
    <3>2. CASE i \in Separators /\ j \notin Separators
      <4>1. Rank(i)' \in 1 .. R /\ Rank(j)' = R + 1
        BY <1>4, <1>7, <1>8, <3>2
      <4> QED BY <2>4, <4>1
    <3>3. CASE i \notin Separators /\ j \in Separators
      <4>1. Rank(j)' \in 1 .. R /\ Rank(i)' = R + 1
        BY <1>4, <1>7, <1>8, <3>3
      <4> QED BY <2>4, <4>1
    <3>4. CASE i \notin Separators /\ j \notin Separators
      BY <1>8, <3>4
    <3> QED BY <3>1, <3>2, <3>3, <3>4
  <2> QED BY <1>1, <2>1, <2>2, <2>3, <2>4 DEF Cuts
<1>10. Ends'
  BY <1>9, CutsEnd, PTL
<1>11. ASSUME NEW n \in 1 .. R PROVE EndOf(n)' = EndOf(n)
  <2>1. PICK e \in Separators : EndOf(n) = e /\ Rank(e) = n
    BY <1>3
  <2>2. n \in 1 .. Read'
    BY <1>5
  <2>3. PICK f \in Separators' : EndOf(n)' = f /\ Rank(f)' = n
    BY <1>10, <2>2 DEF Ends
  <2>4. e \in Separators' /\ Rank(e)' = n
    BY <1>2, <1>4, <2>1
  <2> QED BY <1>9, <2>1, <2>3, <2>4 DEF Cuts
<1>12. \A n \in 0 .. R : EndOf(n)' = EndOf(n)
  <2>1. EndOf(0)' = 0 /\ EndOf(0) = 0
    BY <1>0, <1>10 DEF Ends
  <2>2. \A n \in 0 .. R : n = 0 \/ n \in 1 .. R
    OBVIOUS
  <2> QED BY <1>11, <2>1, <2>2
<1>13. ASSUME byte = SEPARATOR, NEW n \in Nat, n = Read + 1 PROVE EndOf(n)' = Len(sequence')
  <2>1. n = Read' /\ n = R + 1
    BY <1>b, <1>5, <1>13
  <2>2. PICK f \in Separators' : EndOf(n)' = f /\ Rank(f)' = n
    <3>1. n \in 1 .. Read'
      BY <2>1
    <3> QED BY <1>10, <3>1 DEF Ends
  <2>3. f = L + 1
    BY <1>6, <1>9, <1>13, <2>1, <2>2 DEF Cuts
  <2> QED BY <1>1, <2>1, <2>2, <2>3
<1> QED BY <1>b, <1>5, <1>9, <1>12, <1>13

LEMMA SubSeqFirst ==
  ASSUME NEW B, NEW s \in Seq(B), NEW b \in B, NEW m \in 1 .. Len(s) + 1, NEW n \in 0 .. Len(s)
  PROVE  SubSeq(Append(s, b), m, n) = SubSeq(s, m, n)
  OBVIOUS

LEMMA SubSeqLast ==
  ASSUME NEW B, NEW s \in Seq(B), NEW b \in B, NEW m \in 1 .. Len(s) + 1
  PROVE  SubSeq(Append(s, b), m, Len(s) + 1) = Append(SubSeq(s, m, Len(s)), b)
  OBVIOUS

LEMMA SubSeqNone ==
  ASSUME NEW B, NEW s \in Seq(B)
  PROVE  SubSeq(s, Len(s) + 1, Len(s)) = <<>>
  OBVIOUS

\* What a byte more does to the numbers: those that have ended stay, the last one
\* grows by a digit or ends.
LEMMA NumbersStep ==
  ASSUME Cuts, NEW byte \in Digit \cup {SEPARATOR},
         sequence' = Append(sequence, byte),
         NEW R \in Nat, R = Read
  PROVE  /\ \A n \in 1 .. R : Number(n)' = Number(n)
         /\ byte # SEPARATOR => /\ Read' = R
                                /\ Number(R + 1)' = Append(Number(R + 1), byte)
         /\ byte = SEPARATOR => /\ Read' = R + 1
                                /\ Number(R + 1)' = Number(R + 1)
                                /\ Number(R + 2)' = <<>>
<1> DEFINE B == Digit \cup {SEPARATOR}
<1>1. /\ Cuts' /\ Ends
      /\ Read' = (IF byte = SEPARATOR THEN R + 1 ELSE R)
      /\ \A n \in 0 .. R : EndOf(n)' = EndOf(n)
      /\ byte = SEPARATOR => \A n \in Nat : n = R + 1 => EndOf(n)' = Len(sequence')
  BY CutsStep, CutsEnd
<1>2. Ends'
  BY <1>1, CutsEnd, PTL
<1>3. PICK L \in Nat : L = Len(sequence)
  BY <1>1 DEF Ends
<1>4. sequence \in Seq(B) /\ byte \in B /\ sequence' \in Seq(B) /\ Len(sequence') = L + 1
  <2>1. sequence \in Seq(B) /\ byte \in B
    BY DEF Cuts
  <2> HIDE DEF B
  <2> QED BY <1>3, <2>1
<1> HIDE DEF B
<1>5. /\ \A n \in 0 .. R : EndOf(n) \in 0 .. L
      /\ \A n \in 1 .. R : EndOf(n) \in 1 .. L
      /\ EndOf(R + 1) = L + 1
  BY <1>1, <1>3 DEF Ends
<1>6. ASSUME NEW n \in 1 .. R PROVE Number(n)' = Number(n)
  <2>1. n \in 0 .. R /\ n - 1 \in 0 .. R
    OBVIOUS
  <2>2. EndOf(n)' = EndOf(n) /\ EndOf(n - 1)' = EndOf(n - 1)
    BY <1>1, <2>1
  <2>3. EndOf(n - 1) + 1 \in 1 .. L + 1 /\ EndOf(n) - 1 \in 0 .. L
    BY <1>5, <2>1
  <2>4. SubSeq(Append(sequence, byte), EndOf(n - 1) + 1, EndOf(n) - 1)
          = SubSeq(sequence, EndOf(n - 1) + 1, EndOf(n) - 1)
    BY <1>3, <1>4, <2>3, SubSeqFirst
  <2> QED BY <2>2, <2>4 DEF Number
<1>7. PICK m \in 1 .. L + 1 : m = EndOf(R) + 1 /\ EndOf(R)' + 1 = m
  BY <1>1, <1>5
<1>8. Number(R + 1) = SubSeq(sequence, m, L)
  <2>1. R + 1 - 1 = R /\ L + 1 - 1 = L
    OBVIOUS
  <2> QED BY <1>5, <1>7, <2>1 DEF Number
<1>9. ASSUME byte # SEPARATOR
      PROVE  Read' = R /\ Number(R + 1)' = Append(Number(R + 1), byte)
  <2>1. PICK k \in Nat : k = R + 1
    OBVIOUS
  <2>2. Read' = R /\ EndOf(k)' = L + 2
    <3>1. Read' = R
      BY <1>1, <1>9
    <3>2. EndOf(Read + 1)' = Len(sequence') + 1
      BY <1>2 DEF Ends
    <3> QED BY <1>4, <2>1, <3>1, <3>2
  <2>3. k - 1 = R /\ L + 2 - 1 = L + 1
    BY <2>1
  <2>4. Number(k)' = SubSeq(sequence', m, L + 1)
    <3>1. Number(k)' = SubSeq(sequence', EndOf(k - 1)' + 1, EndOf(k)' - 1)
      BY DEF Number
    <3>2. EndOf(k - 1)' = EndOf(R)'
      BY <2>3
    <3>3. EndOf(k - 1)' + 1 = m
      BY <1>7, <3>2
    <3>4. EndOf(k)' - 1 = L + 1
      BY <2>2, <2>3
    <3> QED BY <3>1, <3>3, <3>4
  <2>5. SubSeq(Append(sequence, byte), m, L + 1) = Append(SubSeq(sequence, m, L), byte)
    BY <1>3, <1>4, SubSeqLast
  <2> QED BY <1>8, <2>1, <2>2, <2>4, <2>5
<1>10. ASSUME byte = SEPARATOR
       PROVE  Read' = R + 1 /\ Number(R + 1)' = Number(R + 1) /\ Number(R + 2)' = <<>>
  <2>1. PICK k \in Nat : k = R + 1
    OBVIOUS
  <2>2. PICK j \in Nat : j = R + 2
    OBVIOUS
  <2>3. Read' = k /\ EndOf(k)' = L + 1
    BY <1>1, <1>4, <1>10, <2>1
  <2>4. EndOf(j)' = L + 2
    <3>1. EndOf(Read + 1)' = Len(sequence') + 1
      BY <1>2 DEF Ends
    <3> QED BY <1>4, <2>1, <2>2, <2>3, <3>1
  <2>5. k - 1 = R /\ L + 1 - 1 = L /\ j - 1 = k /\ L + 2 - 1 = L + 1 /\ L + 1 + 1 = L + 2
    BY <2>1, <2>2
  <2>6. Number(k)' = SubSeq(sequence', m, L)
    <3>1. Number(k)' = SubSeq(sequence', EndOf(k - 1)' + 1, EndOf(k)' - 1)
      BY DEF Number
    <3>2. EndOf(k - 1)' = EndOf(R)'
      BY <2>5
    <3>3. EndOf(k - 1)' + 1 = m
      BY <1>7, <3>2
    <3>4. EndOf(k)' - 1 = L
      BY <2>3, <2>5
    <3> QED BY <3>1, <3>3, <3>4
  <2>7. SubSeq(Append(sequence, byte), m, L) = SubSeq(sequence, m, L)
    BY <1>3, <1>4, SubSeqFirst
  <2>8. Number(j)' = SubSeq(sequence', L + 2, L + 1)
    <3>1. Number(j)' = SubSeq(sequence', EndOf(j - 1)' + 1, EndOf(j)' - 1)
      BY DEF Number
    <3>2. EndOf(j - 1)' = EndOf(k)'
      BY <2>5
    <3> QED BY <2>3, <2>4, <2>5, <3>1, <3>2
  <2>9. SubSeq(sequence', L + 2, L + 1) = <<>>
    <3>1. Len(sequence') + 1 = L + 2
      BY <1>4
    <3> QED BY <1>4, <3>1, SubSeqNone
  <2> QED BY <1>8, <2>1, <2>2, <2>3, <2>6, <2>7, <2>8, <2>9
<1> QED BY <1>6, <1>9, <1>10

\* The beginning of a sequence.
Fresh == Cuts /\ Read = 0 /\ Number(1) = <<>>

LEMMA NoNumberYet == sequence = <<>> => Fresh
<1> SUFFICES ASSUME sequence = <<>> PROVE Fresh
  OBVIOUS
<1>1. Separators = {}
  BY DEF Separators
<1>2. Read = 0
  BY <1>1, FS_EmptySet DEF Read
<1>3. Cuts
  BY <1>1, <1>2 DEF Cuts
<1>4. EndOf(0) = 0 /\ EndOf(1) = 1
  BY <1>1, <1>2 DEF EndOf, Read
<1>5. SubSeq(<<>>, 1, 0) = <<>>
  OBVIOUS
<1> QED BY <1>2, <1>3, <1>4, <1>5 DEF Fresh, Number

\* Nothing of a sequence is touched.
LEMMA SequenceKept ==
  ASSUME sequence' = sequence
  PROVE  /\ Separators' = Separators /\ Cuts' = Cuts /\ Read' = Read
         /\ \A n : Number(n)' = Number(n)
<1>1. Separators' = Separators
  BY DEF Separators
<1>2. Read' = Read
  BY <1>1 DEF Read
<1>3. \A n : EndOf(n)' = EndOf(n)
  BY <1>1 DEF EndOf
<1>4. \A i : Rank(i)' = Rank(i)
  BY <1>1 DEF Rank
<1>5. ASSUME NEW n PROVE Number(n)' = Number(n)
  <2>1. EndOf(n)' = EndOf(n) /\ EndOf(n - 1)' = EndOf(n - 1)
    BY <1>3
  <2> QED BY <2>1 DEF Number
<1>6. Cuts' = Cuts
  BY <1>1, <1>2, <1>4 DEF Cuts
<1> QED BY <1>1, <1>2, <1>5, <1>6

\* SequenceUnderstood in the words of the lemmas, with what makes it inductive.
Understood(R) ==
  /\ Cuts /\ R = Read
  /\ Number(R + 1) \in Seq(Digit)
  /\ Len(ansi.params) = AtMost(R, MaxParams)
  /\ \A i \in DOMAIN ansi.params : ansi.params[i] = Value(Number(i))
  /\ ansi.current = Value(Number(R + 1))
  /\ ansi.has_current <=> Number(R + 1) # <<>>

SequenceInv == ansi.state = "Csi" => \E R \in Nat : Understood(R)

\* However a sequence is cut into writes, the parser knows of it what a reader of
\* the whole would (feed_ansi).
THEOREM SequencesUnderstood == Spec => []SequenceUnderstood
<1>1. Init => SequenceInv
  BY DEF Init, Ground, SequenceInv
<1>2. TerminalInv /\ SequenceInv /\ [Next]_tvars => SequenceInv'
  <2> SUFFICES ASSUME TerminalInv, SequenceInv, [Next]_tvars PROVE SequenceInv'
    OBVIOUS
  <2>1. ASSUME NEW byte \in Bytes, write_byte(byte) PROVE SequenceInv'
    <3>1. ansi' = AnsiAfter(ansi, byte)
          /\ sequence' = (IF ansi.state = "Csi" /\ ansi'.state = "Csi"
                           THEN Append(sequence, byte) ELSE <<>>)
      BY <2>1 DEF write_byte
    <3>2. CASE ansi'.state # "Csi"
      BY <3>2 DEF SequenceInv
    <3>3. CASE ansi'.state = "Csi" /\ ansi.state # "Csi"
      <4>1. ansi = Esc
        <5>1. ansi = Ground \/ ansi = Esc
          BY <3>3 DEF TerminalInv, AnsiOK, Csi
        <5>2. ansi # Ground
          <6>1. Ground.state = "Ground" /\ Esc.state = "Esc"
            BY DEF Ground, Esc
          <6>2. ansi = Ground => AnsiAfter(ansi, byte) \in {Ground, Esc}
            BY <6>1 DEF AnsiAfter
          <6> QED BY <3>1, <3>3, <6>1, <6>2
        <5> QED BY <5>1, <5>2
      <4>2. ansi' = Csi(<<>>, 0, FALSE)
        BY <3>1, <3>3, <4>1 DEF AnsiAfter, Esc, Ground
      <4>3. ansi'.params = <<>> /\ ansi'.current = 0 /\ ansi'.has_current = FALSE
        BY <4>2 DEF Csi
      <4>4. (sequence = <<>>)' => Fresh'
        BY NoNumberYet, PTL
      <4>5. Cuts' /\ Read' = 0 /\ Number(1)' = <<>>
        BY <3>1, <3>3, <4>4 DEF Fresh
      <4>6. PICK R \in Nat : R = 0
        OBVIOUS
      <4>7. Number(R + 1)' = <<>>
        <5>1. R + 1 = 1
          BY <4>6
        <5> QED BY <4>5, <5>1
      <4>8. Len(<<>>) = AtMost(R, MaxParams) /\ <<>> \in Seq(Digit) /\ DOMAIN <<>> = {}
        BY <4>6 DEF AtMost, MaxParams
      <4>9. Understood(R)'
        BY <4>3, <4>5, <4>6, <4>7, <4>8, ValueEmpty DEF Understood
      <4> QED BY <4>9 DEF SequenceInv
    <3>4. CASE ansi'.state = "Csi" /\ ansi.state = "Csi"
      <4>1. PICK R \in Nat : Understood(R)
        BY <3>4 DEF SequenceInv
      <4>2. byte \in Digit \cup {SEPARATOR}
        BY <3>1, <3>4 DEF AnsiAfter, Ground
      <4>3. /\ \A n \in 1 .. R : Number(n)' = Number(n)
            /\ byte # SEPARATOR => /\ Read' = R
                                   /\ Number(R + 1)' = Append(Number(R + 1), byte)
            /\ byte = SEPARATOR => /\ Read' = R + 1
                                   /\ Number(R + 1)' = Number(R + 1)
                                   /\ Number(R + 2)' = <<>>
        BY <3>1, <3>4, <4>1, <4>2, NumbersStep DEF Understood
      <4>4. Cuts'
        BY <3>1, <3>4, <4>1, <4>2, CutsStep DEF Understood
      <4>5. ansi.params \in Seq(Nat) /\ Len(ansi.params) \in Nat /\ Len(ansi.params) <= MaxParams
            /\ ansi.current \in Nat
        <5>1. ansi.params \in Seq(Nat) /\ ansi.current \in Nat
          BY <3>4 DEF TerminalInv, AnsiOK, Csi, Ground, Esc
        <5>2. Len(ansi.params) = AtMost(R, MaxParams)
          BY <4>1 DEF Understood
        <5> QED BY <5>1, <5>2 DEF AtMost, MaxParams
      <4>6. DOMAIN ansi.params = 1 .. Len(ansi.params) /\ Len(ansi.params) <= R
        BY <4>1, <4>5 DEF Understood, AtMost, MaxParams
      <4>7. CASE byte \in Digit
        <5>1. byte # SEPARATOR
          BY <4>7 DEF Digit, SEPARATOR
        <5>2. ansi' = Csi(ansi.params, accumulate(ansi.current, byte), TRUE)
          BY <3>1, <3>4, <4>7 DEF AnsiAfter
        <5>3. ansi'.params = ansi.params /\ ansi'.current = accumulate(ansi.current, byte)
              /\ ansi'.has_current = TRUE
          BY <5>2 DEF Csi
        <5>4. Number(R + 1)' \in Seq(Digit) /\ Number(R + 1)' # <<>>
              /\ Value(Number(R + 1)') = accumulate(ansi.current, byte)
          <6>1. PICK s \in Seq(Digit) : s = Number(R + 1)
            BY <4>1 DEF Understood
          <6>2. Append(s, byte) \in Seq(Digit) /\ Append(s, byte) # <<>>
            <7>1. byte \in Digit
              BY <4>7
            <7>2. Append(s, byte) \in Seq(Digit) /\ Len(Append(s, byte)) = Len(s) + 1 /\ Len(s) \in Nat
              BY ONLY <6>1, <7>1
            <7>3. Len(<<>>) = 0
              OBVIOUS
            <7> QED BY <7>2, <7>3
          <6>3. Value(Append(s, byte)) = accumulate(Value(s), byte)
            BY <4>7, ValueAppend
          <6>4. Number(R + 1)' = Append(s, byte)
            BY <4>3, <5>1, <6>1
          <6>5. ansi.current = Value(s)
            BY <4>1, <6>1 DEF Understood
          <6> QED BY <6>2, <6>3, <6>4, <6>5
        <5>5. \A i \in DOMAIN ansi.params : Number(i)' = Number(i)
          BY <4>3, <4>5, <4>6
        <5>6. Understood(R)'
          BY <4>1, <4>3, <4>4, <5>1, <5>3, <5>4, <5>5 DEF Understood
        <5> QED BY <5>6 DEF SequenceInv
      <4>8. CASE byte = SEPARATOR
        <5>1. byte \notin Digit
          BY <4>8 DEF Digit, SEPARATOR
        <5>2. ansi' = Csi(pushed(ansi), 0, FALSE)
          BY <3>1, <3>4, <4>8, <5>1 DEF AnsiAfter
        <5>3. ansi'.params = pushed(ansi) /\ ansi'.current = 0 /\ ansi'.has_current = FALSE
          BY <5>2 DEF Csi
        <5>4. PICK Q \in Nat : Q = R + 1 /\ Q + 1 = R + 2
          OBVIOUS
        <5>5. Number(Q + 1)' = <<>> /\ Read' = Q /\ Number(Q)' = Number(Q)
          BY <4>3, <4>8, <5>4
        <5>6. \A i \in 1 .. Q : Number(i)' = Number(i)
          <6>1. \A i \in 1 .. Q : i \in 1 .. R \/ i = Q
            BY <5>4
          <6> QED BY <4>3, <5>5, <6>1
        <5>7. /\ Len(pushed(ansi)) = AtMost(Q, MaxParams)
              /\ \A i \in DOMAIN pushed(ansi) : i \in 1 .. Q /\ pushed(ansi)[i] = Value(Number(i))
          <6>1. /\ Len(ansi.params) = AtMost(R, MaxParams)
                /\ \A i \in DOMAIN ansi.params : ansi.params[i] = Value(Number(i))
                /\ ansi.current = Value(Number(Q))
            BY <4>1, <5>4 DEF Understood
          <6>2. CASE Len(ansi.params) < MaxParams
            <7>1. pushed(ansi) = Append(ansi.params, ansi.current)
              BY <6>2 DEF pushed
            <7>2. Len(ansi.params) = R
              BY <6>1, <6>2 DEF AtMost, MaxParams
            <7>3. /\ Len(pushed(ansi)) = Q /\ DOMAIN pushed(ansi) = 1 .. Q
                  /\ \A i \in 1 .. R : pushed(ansi)[i] = ansi.params[i]
                  /\ pushed(ansi)[Q] = ansi.current
              BY <4>5, <5>4, <7>1, <7>2
            <7>4. Q = AtMost(Q, MaxParams)
              BY <5>4, <6>2, <7>2 DEF AtMost, MaxParams
            <7>5. \A i \in 1 .. Q : i \in 1 .. R \/ i = Q
              BY <5>4
            <7>6. \A i \in 1 .. R : pushed(ansi)[i] = Value(Number(i))
              BY <4>6, <6>1, <7>2, <7>3
            <7>7. pushed(ansi)[Q] = Value(Number(Q))
              BY <6>1, <7>3
            <7>8. ASSUME NEW i \in 1 .. Q PROVE pushed(ansi)[i] = Value(Number(i))
              BY <7>5, <7>6, <7>7
            <7> QED BY <7>3, <7>4, <7>8
          <6>3. CASE ~(Len(ansi.params) < MaxParams)
            <7>1. pushed(ansi) = ansi.params
              BY <6>3 DEF pushed
            <7>2. AtMost(Q, MaxParams) = Len(ansi.params)
              BY <4>5, <5>4, <6>1, <6>3 DEF AtMost, MaxParams
            <7>3. \A i \in DOMAIN ansi.params : i \in 1 .. Q
              BY <4>5, <4>6, <5>4
            <7> QED BY <6>1, <7>1, <7>2, <7>3
          <6> QED BY <6>2, <6>3
        <5>8. <<>> \in Seq(Digit)
          OBVIOUS
        <5>9. Understood(Q)'
          BY <4>4, <5>3, <5>5, <5>6, <5>7, <5>8, ValueEmpty DEF Understood
        <5> QED BY <5>9 DEF SequenceInv
      <4> QED BY <4>2, <4>7, <4>8
    <3> QED BY <3>2, <3>3, <3>4
  <2>2. CASE sequence' = sequence /\ ansi' = ansi
    <3>1. CASE ansi.state = "Csi"
      <4>1. PICK R \in Nat : Understood(R)
        BY <3>1 DEF SequenceInv
      <4>2. \A n : Number(n)' = Number(n)
        BY <2>2, SequenceKept
      <4>3. Cuts' = Cuts /\ Read' = Read
        BY <2>2, SequenceKept
      <4>4. Understood(R)'
        BY <2>2, <4>1, <4>2, <4>3 DEF Understood
      <4> QED BY <4>4 DEF SequenceInv
    <3>2. CASE ansi.state # "Csi"
      BY <2>2, <3>2 DEF SequenceInv
    <3> QED BY <3>1, <3>2
  <2>3. \A ok \in BOOLEAN : flush(ok) => sequence' = sequence /\ ansi' = ansi
    BY DEF flush
  <2> QED BY <2>1, <2>2, <2>3 DEF Next, tvars
<1>3. SequenceInv => SequenceUnderstood
  BY DEF SequenceInv, Understood, SequenceUnderstood, Read
<1> QED BY <1>1, <1>2, <1>3, TerminalInvariant, PTL DEF Spec
=============================================================================
