------------------------------ MODULE Terminal ------------------------------
(***************************************************************************)
(* FramebufferConsole as a terminal: the bytes written to it go through    *)
(* the escape parser of feed_ansi to the display, and a read first flushes *)
(* the display if it is dirty.  The parser keeps its state between writes, *)
(* so a sequence may be cut anywhere, and nothing obliges the writer to    *)
(* finish one.                                                             *)
(***************************************************************************)
EXTENDS Display, FiniteSets

CONSTANTS
  Bytes,       \* the bytes written
  Glyph(_),    \* decode_cp437 and the font: the picture of a byte
  ParamMax,    \* 65535: a parameter is a u16
  SgrCodes,    \* the codes the game sends
  MaxSequence  \* bounds the bytes between ESC [ and the final byte

ASSUME TerminalAssumption ==
  /\ Bytes \subseteq 0 .. 255
  /\ ParamMax \in Nat /\ ParamMax >= 2
  /\ SgrCodes \subseteq 0 .. 99 /\ SgrCodes \subseteq 0 .. ParamMax

MaxParams == 4

ESC == 27
OPEN == 91        \* [
SEPARATOR == 59   \* ;
Digit == 48 .. 57

VARIABLES
  ansi,      \* AnsiState
  display,
  stale,     \* the screen in front of the user is not the display's grid
  failed,    \* the last flush failed
  sequence   \* the bytes since ESC [, while the sequence is not finished

tvars == <<ansi, display, stale, failed, sequence>>

Ground == [state |-> "Ground"]
Esc == [state |-> "Esc"]
Csi(params, current, has_current) ==
  [state |-> "Csi", params |-> params, current |-> current,
   has_current |-> has_current]

\* saturating_mul and saturating_add.
accumulate(n, byte) ==
  LET m == n * 10 + byte - 48 IN IF m < ParamMax THEN m ELSE ParamMax

\* Mutant: a number that does not fit replaces the last one.
pushed_last(a) ==
  IF Len(a.params) < MaxParams THEN Append(a.params, a.current)
  ELSE [a.params EXCEPT ![MaxParams] = a.current]

\* The parameters with the number read last; a fifth is dropped.
pushed(a) ==
  IF Len(a.params) < MaxParams THEN Append(a.params, a.current) ELSE a.params

\* Zero and nothing both mean the default.
get_param(params, index, default) ==
  IF index \in DOMAIN params /\ params[index] # 0 THEN params[index] ELSE default

Pred(n) == IF n > 0 THEN n - 1 ELSE 0

\* Mutant: rows and columns are taken to start at zero.
handle_csi_zero_based(d, action, params) ==
  CASE action = 72 -> csi_cursor_position(d, get_param(params, 1, 1),
                                             get_param(params, 2, 1))
    [] action = 74 /\ get_param(params, 1, 0) = 2 -> clear_screen(d)
    [] action = 109 -> apply_sgr(d, params)
    [] action = 122 ->
         set_font_mode(d, apply_font_command(get_param(params, 1, 0)))
    [] OTHER -> d

\* J, H and f, m, z; any other final byte ends its sequence unheard.
handle_csi(d, action, params) ==
  CASE action = 74 /\ get_param(params, 1, 0) = 2 -> clear_screen(d)
    [] action \in {72, 102} ->
         csi_cursor_position(d, Pred(get_param(params, 1, 1)),
                                Pred(get_param(params, 2, 1)))
    [] action = 109 -> apply_sgr(d, params)
    [] action = 122 ->
         set_font_mode(d, apply_font_command(get_param(params, 1, 0)))
    [] OTHER -> d

\* What a byte outside any sequence does.
ground_byte(d, byte) ==
  CASE byte = 10 -> newline(d)
    [] byte = 13 -> carriage_return(d)
    [] byte = 9  -> tab(d)
    [] byte = 8  -> backspace(d)
    [] byte >= SPACE -> draw_char(d, Glyph(byte))
    [] OTHER -> d

\* feed_ansi, the parser's half.
AnsiAfter(a, byte) ==
  CASE a.state = "Ground" -> IF byte = ESC THEN Esc ELSE a
    [] a.state = "Esc" -> IF byte = OPEN THEN Csi(<<>>, 0, FALSE) ELSE Ground
    [] a.state = "Csi" ->
         IF byte \in Digit
         THEN Csi(a.params, accumulate(a.current, byte), TRUE)
         ELSE IF byte = SEPARATOR THEN Csi(pushed(a), 0, FALSE)
         ELSE Ground

\* feed_ansi, the display's half: only a byte outside a sequence and the final
\* byte of one do anything.
DisplayAfter(a, d, byte) ==
  CASE a.state = "Ground" -> ground_byte(d, byte)
    [] a.state = "Esc" -> d
    [] a.state = "Csi" ->
         IF byte \in Digit \cup {SEPARATOR} THEN d
         ELSE handle_csi(d, byte, pushed(a))

Init ==
  /\ ansi = Ground
  /\ display = NewDisplay
  /\ failed \in BOOLEAN
  /\ stale = failed
  /\ sequence = <<>>

write_byte(byte) ==
  /\ Len(sequence) < MaxSequence \/ byte \notin Digit \cup {SEPARATOR}
  /\ ansi' = AnsiAfter(ansi, byte)
  /\ display' = DisplayAfter(ansi, display, byte)
  /\ stale' = (stale \/ display'.grid # display.grid)
  /\ sequence' = IF ansi.state = "Csi" /\ ansi'.state = "Csi"
                 THEN Append(sequence, byte) ELSE <<>>
  /\ UNCHANGED failed

\* flush, at the start of read_byte_blocking: the display counts as clean
\* even if the device refused.
flush(ok) ==
  /\ display.dirty
  /\ display' = [display EXCEPT !.dirty = FALSE]
  /\ stale' = (stale /\ ~ok)
  /\ failed' = ~ok
  /\ UNCHANGED <<ansi, sequence>>

Next ==
  \/ \E byte \in Bytes : write_byte(byte)
  \/ \E ok \in BOOLEAN : flush(ok)

Spec == Init /\ [][Next]_tvars

\* Two digits at most: the game sends no larger number.
Decimal(n) == IF n < 10 THEN <<48 + n>> ELSE <<48 + (n \div 10), 48 + (n % 10)>>

\* What BTerm::cls, set_sgr and set_font write.
ClsBytes == <<ESC, OPEN, 50, 74, ESC, OPEN, 72>>
SgrBytes(code) == <<ESC, OPEN>> \o Decimal(code) \o <<109>>
FontBytes(index) == <<ESC, OPEN>> \o Decimal(index) \o <<122>>

-----------------------------------------------------------------------------

\* Through every wrap, scroll, tab, move and change of font the cursor stays on
\* the grid of the font in use, or just behind the end of a row, and the grid
\* has that font's size: draw_char never draws off the screen.
DisplayOK == IsDisplay(display, {Glyph(byte) : byte \in Bytes} \cup {SPACE})

\* The value of a run of digits, as far as a parameter can hold it.
Value(digits) ==
  LET upto[n \in 0 .. Len(digits)] ==
        IF n = 0 THEN 0 ELSE upto[n - 1] * 10 + digits[n] - 48
  IN  AtMost(upto[Len(digits)], ParamMax)

Separators == {i \in DOMAIN sequence : sequence[i] = SEPARATOR}

\* Where the n-th number of the sequence ends.
EndOf(n) ==
  IF n = 0 THEN 0
  ELSE IF n > Cardinality(Separators) THEN Len(sequence) + 1
  ELSE CHOOSE i \in Separators : Cardinality({j \in Separators : j <= i}) = n

Number(n) == SubSeq(sequence, EndOf(n - 1) + 1, EndOf(n) - 1)

\* However a sequence is cut into writes, the parser knows of it what a reader
\* of the whole would: the values of its first four numbers and of the one
\* being read (feed_ansi).
SequenceUnderstood ==
  ansi.state = "Csi" =>
    LET read == Cardinality(Separators)
    IN  /\ Len(ansi.params) = AtMost(read, MaxParams)
        /\ \A i \in DOMAIN ansi.params : ansi.params[i] = Value(Number(i))
        /\ ansi.current = Value(Number(read + 1))
        /\ ansi.has_current <=> Number(read + 1) # <<>>

\* The display after the bytes, and the parser.
AfterWriting(bytes) ==
  LET run[n \in 0 .. Len(bytes)] ==
        IF n = 0 THEN [a |-> ansi, d |-> display]
        ELSE [a |-> AnsiAfter(run[n - 1].a, bytes[n]),
              d |-> DisplayAfter(run[n - 1].a, run[n - 1].d, bytes[n])]
  IN  run[Len(bytes)]

\* Whatever was written before, an escape of the game that begins outside a
\* sequence does to the display what the game means by it and ends outside a
\* sequence: the screen is cleared and the cursor home, one colour changes,
\* the font is the one chosen (BTerm::cls, set_sgr, set_font, handle_csi).
CommandsUnderstood ==
  ansi = Ground =>
    /\ AfterWriting(ClsBytes) = [a |-> Ground, d |-> clear_screen(display)]
    /\ \A code \in SgrCodes :
         AfterWriting(SgrBytes(code)) = [a |-> Ground, d |-> Sgr(display, code)]
    /\ \A font \in FontChoice :
         AfterWriting(FontBytes(kernel_index(font))) =
           [a |-> Ground, d |-> set_font_mode(display, font)]

\* When nothing is marked for flushing the user sees the display as it is,
\* unless the last flush failed: no change of a cell goes unmarked.
CleanMeansShown == ~display.dirty /\ ~failed => ~stale
=============================================================================
