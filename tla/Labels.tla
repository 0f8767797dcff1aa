------------------------------- MODULE Labels -------------------------------
(***************************************************************************)
(* What a union-find structure promises.  Every item carries the label of  *)
(* its class, itself a member of the class; find answers the label and     *)
(* moves nothing; union gives two classes one of their two labels and      *)
(* answers whether they differed.                                          *)
(***************************************************************************)
EXTENDS Naturals

CONSTANT Items

\* The items of x's class and of y's class take the label r.
Relabel(l, x, y, r) == [z \in Items |-> IF l[z] \in {l[x], l[y]} THEN r ELSE l[z]]

VARIABLES
  label,
  answer   \* what the last operation returned

lvars == <<label, answer>>

LInit ==
  /\ label = [x \in Items |-> x]
  /\ answer = [call |-> "none"]

LFind(x) ==
  /\ answer' = [call |-> "find", root |-> label[x]]
  /\ UNCHANGED label

LUnion(x, y) ==
  /\ \E r \in {label[x], label[y]} : label' = Relabel(label, x, y, r)
  /\ answer' = [call |-> "union", merged |-> label[x] # label[y]]

LNext == \E x \in Items : LFind(x) \/ \E y \in Items : LUnion(x, y)

LSpec == LInit /\ [][LNext]_lvars
=============================================================================
