------------------------------- MODULE Keymap -------------------------------
(***************************************************************************)
(* map_keycode: from Linux evdev key codes to the bytes the game decodes.  *)
(* A key without a byte maps to NoByte.                                    *)
(***************************************************************************)
EXTENDS Integers, Sequences

NoByte == -1

\* Codes 2 .. 11, the digit row.
DigitRow  == <<49, 50, 51, 52, 53, 54, 55, 56, 57, 48>>
SymbolRow == <<33, 64, 35, 36, 37, 94, 38, 42, 40, 41>>

\* Codes 16 .. 25, 30 .. 38 and 44 .. 50, the letter rows.
TopRow    == <<113, 119, 101, 114, 116, 121, 117, 105, 111, 112>>
HomeRow   == <<97, 115, 100, 102, 103, 104, 106, 107, 108>>
BottomRow == <<122, 120, 99, 118, 98, 110, 109>>

\* ENTER, SPACE, the arrows, and the keypad with and without NumLock: the
\* same byte whether a shift key is down or not.
Unshifted(code) ==
  CASE code = 28 -> 10  [] code = 57 -> 32
    [] code = 105 -> 104 [] code = 103 -> 107 [] code = 106 -> 108 [] code = 108 -> 106
    [] code \in 79 .. 81 -> code - 30
    [] code \in 75 .. 77 -> code - 23
    [] code \in 71 .. 73 -> code - 16
    [] code = 107 -> 49 [] code = 109 -> 51 [] code = 102 -> 55 [] code = 104 -> 57
    [] OTHER -> NoByte

LetterOf(code, shift) ==
  LET letter == CASE code \in 16 .. 25 -> TopRow[code - 15]
                  [] code \in 30 .. 38 -> HomeRow[code - 29]
                  [] code \in 44 .. 50 -> BottomRow[code - 43]
  IN  IF shift THEN letter - 32 ELSE letter

map_keycode(code, shift) ==
  CASE code \in 2 .. 11 -> IF shift THEN SymbolRow[code - 1] ELSE DigitRow[code - 1]
    [] code \in 16 .. 25 \cup 30 .. 38 \cup 44 .. 50 -> LetterOf(code, shift)
    [] OTHER -> Unshifted(code)
=============================================================================
