---------------------------- MODULE BoundedQueue ----------------------------
(***************************************************************************)
(* What the key buffer promises: a first-in first-out queue of at most     *)
(* Capacity keys that silently refuses a key when it is full.              *)
(***************************************************************************)
EXTENDS Naturals, Sequences

CONSTANTS Keys, Capacity

VARIABLES
  queue,
  taken    \* the answer of the last Take: <<key>>, or <<>> for "empty"

qvars == <<queue, taken>>

QInit == queue = <<>> /\ taken = <<>>

Put(key) ==
  /\ queue' = IF Len(queue) < Capacity THEN Append(queue, key) ELSE queue
  /\ UNCHANGED taken

Take ==
  \/ /\ queue = <<>>
     /\ taken' = <<>>
     /\ UNCHANGED queue
  \/ /\ queue # <<>>
     /\ taken' = <<Head(queue)>>
     /\ queue' = Tail(queue)

QNext == Take \/ \E key \in Keys : Put(key)

QSpec == QInit /\ [][QNext]_qvars
=============================================================================
