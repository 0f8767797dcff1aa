----------------------------- MODULE MCTerminal -----------------------------
(***************************************************************************)
(* A terminal of 2 x 2 cells (2 x 1 in the large font) fed with every      *)
(* string over a sample of bytes: what is left out is carriage return, f   *)
(* (another H) and further digits, letters and meaningless bytes.          *)
(***************************************************************************)
EXTENDS Terminal

\* ESC [ 2 ; H J m z, newline, tab, backspace and BEL.  A large number
\* stops at ParamMax, here the code of a colour.
MCBytes == {27, 91, 50, 59, 72, 74, 109, 122, 10, 9, 8, 7}

\* One picture for every printable byte.
MCGlyph(byte) == 65
=============================================================================
