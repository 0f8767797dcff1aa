------------------------------- MODULE Input -------------------------------
(***************************************************************************)
(* game/src/input.rs: the bytes a console delivers and the keys they mean. *)
(* Bytes are their ASCII codes.                                            *)
(***************************************************************************)
EXTENDS Integers

Byte == 0 .. 255

MoveKey(dx, dy) == [type |-> "Move", dx |-> dx, dy |-> dy]
CharKey(byte)   == [type |-> "Char", byte |-> byte]
OptionsKey      == [type |-> "Options"]
QuitKey         == [type |-> "Quit"]
UnknownKey      == [type |-> "Unknown"]

decode_key(byte) ==
  CASE byte \in {104, 52} -> MoveKey(-1, 0)      \* h 4
    [] byte \in {108, 54} -> MoveKey(1, 0)       \* l 6
    [] byte \in {107, 56} -> MoveKey(0, -1)      \* k 8
    [] byte \in {106, 50} -> MoveKey(0, 1)       \* j 2
    [] byte \in {121, 55} -> MoveKey(-1, -1)     \* y 7
    [] byte \in {117, 57} -> MoveKey(1, -1)      \* u 9
    [] byte \in {98, 49}  -> MoveKey(-1, 1)      \* b 1
    [] byte \in {110, 51} -> MoveKey(1, 1)       \* n 3
    [] byte \in {79, 111} -> OptionsKey          \* O o
    [] byte \in {113, 3, 4} -> QuitKey           \* q ^C ^D
    [] OTHER -> IF byte \in 32 .. 126 THEN CharKey(byte) ELSE UnknownKey
=============================================================================
