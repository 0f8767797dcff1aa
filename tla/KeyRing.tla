------------------------------ MODULE KeyRing ------------------------------
(***************************************************************************)
(* The key buffer of FramebufferConsole: a fixed array read at key_head    *)
(* and written at key_tail, both wrapping.  Equal indices mean empty, so   *)
(* one slot always stays unused.                                           *)
(***************************************************************************)
EXTENDS Integers, Sequences

CONSTANTS
  Keys,    \* the bytes that may be enqueued
  Size     \* keybuf.len(): 64 as shipped

ASSUME RingAssumption == Size \in Nat /\ Size >= 2

VARIABLES keybuf, key_head, key_tail,
          taken   \* what the last dequeue_key returned: <<key>> or <<>>

rvars == <<keybuf, key_head, key_tail, taken>>

Slots == 0 .. Size - 1

NextSlot(i) == (i + 1) % Size

\* Mutant: the last free slot is used too.
NeverFull == FALSE

Full == NextSlot(key_tail) = key_head

RingInit ==
  /\ keybuf = [i \in Slots |-> 0]
  /\ key_head = 0
  /\ key_tail = 0
  /\ taken = <<>>

\* A key that finds the buffer full is dropped.
enqueue_key(key) ==
  /\ IF Full THEN UNCHANGED <<keybuf, key_tail>>
     ELSE /\ keybuf' = [keybuf EXCEPT ![key_tail] = key]
          /\ key_tail' = NextSlot(key_tail)
  /\ UNCHANGED <<key_head, taken>>

dequeue_key ==
  /\ IF key_head = key_tail
     THEN taken' = <<>> /\ UNCHANGED key_head
     ELSE taken' = <<keybuf[key_head]>> /\ key_head' = NextSlot(key_head)
  /\ UNCHANGED <<keybuf, key_tail>>

RingNext == dequeue_key \/ \E key \in Keys : enqueue_key(key)

RingSpec == RingInit /\ [][RingNext]_rvars

-----------------------------------------------------------------------------

\* Both indices stay inside the array (the remainder in enqueue_key and
\* dequeue_key).
RingTypeOK ==
  /\ keybuf \in [Slots -> Keys \cup {0}]
  /\ key_head \in Slots
  /\ key_tail \in Slots
  /\ taken \in {<<>>} \cup {<<key>> : key \in Keys \cup {0}}

\* The keys waiting, oldest first.
Waiting == IF key_tail >= key_head THEN key_tail - key_head
           ELSE key_tail - key_head + Size

\* The slot n steps after slot i.
SlotAfter(i, n) == IF i + n < Size THEN i + n ELSE i + n - Size

Contents == [n \in 1 .. Waiting |-> keybuf[SlotAfter(key_head, n - 1)]]

Q == INSTANCE BoundedQueue WITH queue <- Contents, Capacity <- Size - 1

\* The ring implements a queue of Size - 1 keys: it keeps their order through
\* every wrap, loses none it accepted, and refuses a key only when Size - 1
\* are waiting (enqueue_key, dequeue_key).
ImplementsQueue == Q!QSpec
=============================================================================
