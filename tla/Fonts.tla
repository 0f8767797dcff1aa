------------------------------- MODULE Fonts -------------------------------
(***************************************************************************)
(* The three fonts, named alike by the game (FontChoice) and the console   *)
(* (FontMode), and the escape ESC [ index z that carries the choice from   *)
(* one to the other.                                                       *)
(***************************************************************************)
EXTENDS Integers

FontChoice == {"Regular8x8", "Bold8x8", "Regular9x14"}

kernel_index(f) ==
  CASE f = "Regular8x8" -> 0 [] f = "Bold8x8" -> 1 [] f = "Regular9x14" -> 2

\* The console's side of the escape.
apply_font_command(index) ==
  CASE index = 1 -> "Bold8x8"
    [] index = 2 -> "Regular9x14"
    [] OTHER     -> "Regular8x8"
=============================================================================
