--------------------------- MODULE KeyboardProofs --------------------------
(***************************************************************************)
(* The key buffer is a bounded queue for every size of the buffer and      *)
(* every set of keys; and what the user types is what the game reads, for  *)
(* every keyboard, room of the device and number of events.                *)
(***************************************************************************)
EXTENDS Keyboard, Induction, SequenceTheorems

\* The step of an index, without the remainder.
LEMMA StepOf ==
  ASSUME NEW i \in Slots
  PROVE  NextSlot(i) = IF i = Size - 1 THEN 0 ELSE i + 1
  BY RingAssumption DEF Slots, NextSlot

LEMMA RingTypeStep ==
  ASSUME RingTypeOK, [RingNext]_rvars
  PROVE  RingTypeOK'
<1> USE RingAssumption DEF RingTypeOK, Slots
<1>1. CASE dequeue_key
  BY <1>1 DEF dequeue_key, NextSlot
<1>2. ASSUME NEW key \in Keys, enqueue_key(key) PROVE RingTypeOK'
  BY <1>2 DEF enqueue_key, NextSlot
<1>3. CASE UNCHANGED rvars
  BY <1>3 DEF rvars
<1> QED BY <1>1, <1>2, <1>3 DEF RingNext

\* The indices stay in the buffer.
THEOREM RingTypeCorrect == RingSpec => []RingTypeOK
<1>1. RingInit => RingTypeOK
  BY RingAssumption DEF RingInit, RingTypeOK, Slots
<1>2. RingTypeOK /\ [RingNext]_rvars => RingTypeOK'
  BY RingTypeStep
<1> QED BY <1>1, <1>2, PTL DEF RingSpec

\* Full means that all slots but one are taken.
LEMMA FullMeans ==
  ASSUME RingTypeOK
  PROVE  /\ Waiting \in 0 .. Size - 1
         /\ Full <=> Waiting = Size - 1
         /\ key_head = key_tail <=> Waiting = 0
  BY RingAssumption, StepOf DEF RingTypeOK, Slots, Full, Waiting

\* A key that is accepted becomes the last of the waiting keys.
LEMMA EnqueueAppends ==
  ASSUME RingTypeOK, NEW key \in Keys, enqueue_key(key), ~Full
  PROVE  Contents' = Append(Contents, key)
<1> USE RingAssumption
<1>1. key_head' = key_head /\ key_tail' = NextSlot(key_tail)
      /\ keybuf' = [keybuf EXCEPT ![key_tail] = key]
  BY DEF enqueue_key
<1>2. Waiting \in Nat /\ Waiting' = Waiting + 1
  <2>1. key_tail \in Slots /\ key_head \in Slots
    BY DEF RingTypeOK
  <2>2. key_tail' = IF key_tail = Size - 1 THEN 0 ELSE key_tail + 1
    BY <1>1, <2>1, StepOf
  <2>3. key_tail' # key_head
    BY <1>1 DEF Full
  <2> QED BY <1>1, <2>1, <2>2, <2>3 DEF Slots, Waiting
<1>3. ASSUME NEW n \in 1 .. Waiting
      PROVE  keybuf'[SlotAfter(key_head, n - 1)] = keybuf[SlotAfter(key_head, n - 1)]
  <2>1. SlotAfter(key_head, n - 1) \in Slots \ {key_tail}
    BY DEF RingTypeOK, Slots, SlotAfter, Waiting
  <2> QED BY <1>1, <2>1 DEF RingTypeOK
<1>4. keybuf'[SlotAfter(key_head, Waiting)] = key
  <2>1. SlotAfter(key_head, Waiting) = key_tail
    BY DEF RingTypeOK, Slots, SlotAfter, Waiting
  <2> QED BY <1>1, <2>1 DEF RingTypeOK
<1>5. Contents' = [n \in 1 .. Waiting + 1 |-> keybuf'[SlotAfter(key_head, n - 1)]]
  BY <1>1, <1>2 DEF Contents
<1>6. Append(Contents, key)
        = [n \in 1 .. Waiting + 1 |-> IF n = Waiting + 1 THEN key
                                      ELSE keybuf[SlotAfter(key_head, n - 1)]]
  BY <1>2 DEF Contents
<1> QED BY <1>2, <1>3, <1>4, <1>5, <1>6

\* Taking a key hands out the oldest and leaves the others in order.
LEMMA DequeueTails ==
  ASSUME RingTypeOK, dequeue_key, key_head # key_tail
  PROVE  /\ Contents # <<>>
         /\ taken' = <<Head(Contents)>>
         /\ Contents' = Tail(Contents)
<1> USE RingAssumption
<1>1. /\ key_head' = NextSlot(key_head)
      /\ taken' = <<keybuf[key_head]>>
      /\ UNCHANGED <<keybuf, key_tail>>
  BY DEF dequeue_key
<1>2. Waiting \in Nat \ {0} /\ Waiting' = Waiting - 1
  BY <1>1, StepOf DEF RingTypeOK, Slots, Waiting
<1>3. Contents # <<>> /\ Head(Contents) = keybuf[key_head]
  <2>1. Contents[1] = keybuf[SlotAfter(key_head, 0)] /\ Len(Contents) = Waiting
    BY <1>2 DEF Contents
  <2>2. SlotAfter(key_head, 0) = key_head
    BY DEF RingTypeOK, Slots, SlotAfter
  <2> QED BY <1>2, <2>1, <2>2
<1>4. ASSUME NEW n \in 1 .. Waiting - 1
      PROVE  SlotAfter(key_head', n - 1) = SlotAfter(key_head, n)
  <2>1. key_head \in Slots
    BY DEF RingTypeOK
  <2>2. key_head' = IF key_head = Size - 1 THEN 0 ELSE key_head + 1
    BY <1>1, <2>1, StepOf
  <2>3. n \in 1 .. Size - 2
    BY FullMeans
  <2> QED BY <2>1, <2>2, <2>3 DEF Slots, SlotAfter
<1>5. Contents' = [n \in 1 .. Waiting - 1 |-> keybuf[SlotAfter(key_head, n)]]
  BY <1>1, <1>2, <1>4 DEF Contents
<1>6. Tail(Contents) = [n \in 1 .. Waiting - 1 |-> keybuf[SlotAfter(key_head, n)]]
  BY <1>2 DEF Contents
<1> QED BY <1>1, <1>3, <1>5, <1>6

\* The indices, the wrap and the unused slot are invisible: whatever the size
\* of the buffer, it behaves as a queue of Size - 1 keys.
THEOREM RingIsQueue == RingSpec => ImplementsQueue
<1>1. RingInit => Q!QInit
  <2> SUFFICES ASSUME RingInit PROVE Q!QInit
    OBVIOUS
  <2>1. Waiting = 0
    BY DEF RingInit, Waiting
  <2> QED BY <2>1 DEF RingInit, Q!QInit, Contents
<1>2. RingTypeOK /\ [RingNext]_rvars => [Q!QNext]_Q!qvars
  <2> SUFFICES ASSUME RingTypeOK, [RingNext]_rvars PROVE [Q!QNext]_Q!qvars
    OBVIOUS
  <2>1. CASE dequeue_key
    <3>1. CASE key_head = key_tail
      <4>1. Contents = <<>>
        BY <3>1, FullMeans DEF Contents
      <4>2. Contents' = Contents /\ taken' = <<>>
        BY <2>1, <3>1 DEF dequeue_key, Contents, Waiting
      <4> QED BY <4>1, <4>2 DEF Q!QNext, Q!Take
    <3>2. CASE key_head # key_tail
      BY <2>1, <3>2, DequeueTails DEF Q!QNext, Q!Take
    <3> QED BY <3>1, <3>2
  <2>2. ASSUME NEW key \in Keys, enqueue_key(key) PROVE Q!Put(key)
    <3>1. Len(Contents) = Waiting
      BY FullMeans DEF Contents
    <3>2. CASE Full
      <4>1. Contents' = Contents /\ taken' = taken
        BY <2>2, <3>2 DEF enqueue_key, Contents, Waiting
      <4>2. ~(Len(Contents) < Size - 1)
        BY <3>1, <3>2, FullMeans, RingAssumption
      <4> QED BY <4>1, <4>2 DEF Q!Put
    <3>3. CASE ~Full
      <4>1. Len(Contents) < Size - 1
        BY <3>1, <3>3, FullMeans, RingAssumption
      <4>2. taken' = taken
        BY <2>2 DEF enqueue_key
      <4> QED BY <2>2, <3>3, <4>1, <4>2, EnqueueAppends DEF Q!Put
    <3> QED BY <3>2, <3>3
  <2>3. CASE UNCHANGED rvars
    BY <2>3 DEF rvars, Q!qvars, Contents, Waiting
  <2> QED BY <2>1, <2>2, <2>3 DEF RingNext, Q!QNext
<1> QED BY <1>1, <1>2, RingTypeCorrect, PTL DEF RingSpec, ImplementsQueue, Q!QSpec

-----------------------------------------------------------------------------
(* What a queue of events makes.                                           *)

\* The events the device delivers.
Events == {Event(EV_KEY, code, value) :
             code \in Codes \cup Shifts, value \in {KEY_RELEASE, KEY_PRESS, KEY_REPEAT}}
          \cup {Event(EV_SYN, 0, 0)}

Acc(shift, bytes) == [shift |-> shift, bytes |-> bytes]

\* The flag, and the bytes one event makes, when the flag is shift.
FlagAfter(shift, event) == Heard(Acc(shift, <<>>), event).shift

Made(shift, event) == Heard(Acc(shift, <<>>), event).bytes

\* f holds the flag and the bytes while the events are heard.
Starts(f, N, shift) == f = [n \in 0 .. N |-> f[n]] /\ f[0] = Acc(shift, <<>>)

Hears(f, N, shift, events) ==
  /\ Starts(f, N, shift)
  /\ \A n \in 0 .. N - 1 : f[n + 1] = Heard(f[n], events[n + 1])

LEMMA HearsExists ==
  ASSUME NEW events, NEW shift, NEW N \in Nat
  PROVE  \E f : Hears(f, N, shift, events)
<1> DEFINE T == {k \in 0 .. N : \E f : Hears(f, k, shift, events)}
<1>1. 0 \in T
  <2> DEFINE f == [n \in 0 .. 0 |-> Acc(shift, <<>>)]
  <2>1. Hears(f, 0, shift, events)
    BY DEF Hears, Starts
  <2> HIDE DEF f
  <2> QED BY <2>1
<1>2. ASSUME NEW k \in 0 .. N - 1, k \in T PROVE k + 1 \in T
  <2>1. PICK f : Hears(f, k, shift, events)
    BY <1>2
  <2> DEFINE g == [n \in 0 .. k + 1 |-> IF n <= k THEN f[n] ELSE Heard(f[k], events[k + 1])]
  <2>2. g[0] = Acc(shift, <<>>)
    BY <2>1 DEF Hears, Starts
  <2>3. ASSUME NEW n \in 0 .. k PROVE g[n + 1] = Heard(g[n], events[n + 1])
    <3>1. g[n] = f[n]
      OBVIOUS
    <3>2. CASE n < k
      <4>1. g[n + 1] = f[n + 1] /\ n \in 0 .. k - 1
        BY <3>2
      <4> HIDE DEF g
      <4> QED BY <2>1, <3>1, <4>1 DEF Hears
    <3>3. CASE n = k
      <4>1. g[k + 1] = Heard(f[k], events[k + 1])
        OBVIOUS
      <4> HIDE DEF g
      <4> QED BY <3>1, <3>3, <4>1
    <3> QED BY <3>2, <3>3
  <2>4. g = [n \in 0 .. k + 1 |-> g[n]]
    OBVIOUS
  <2> HIDE DEF g
  <2>5. k + 1 - 1 = k /\ k + 1 \in 0 .. N
    OBVIOUS
  <2>6. Hears(g, k + 1, shift, events)
    <3>1. \A n \in 0 .. k + 1 - 1 : g[n + 1] = Heard(g[n], events[n + 1])
      BY <2>3, <2>5
    <3>2. Starts(g, k + 1, shift)
      BY <2>2, <2>4 DEF Starts
    <3> QED BY <3>1, <3>2 DEF Hears
  <2> QED BY <2>5, <2>6
<1>3. 0 .. N \subseteq T
  <2> HIDE DEF T
  <2> QED BY <1>1, <1>2, UpTo
<1> QED BY <1>3

\* Two such functions agree as far as their events do.
LEMMA HearsUnique ==
  ASSUME NEW ev1, NEW ev2, NEW shift, NEW N \in Nat, NEW M \in Nat, N <= M,
         NEW f, NEW g, Hears(f, N, shift, ev1), Hears(g, M, shift, ev2),
         \A n \in 1 .. N : ev1[n] = ev2[n]
  PROVE  f[N] = g[N]
<1> DEFINE T == {k \in 0 .. N : f[k] = g[k]}
<1>1. 0 \in T
  BY DEF Hears, Starts
<1>2. ASSUME NEW k \in 0 .. N - 1, k \in T PROVE k + 1 \in T
  <2>1. f[k + 1] = Heard(f[k], ev1[k + 1])
    BY DEF Hears
  <2>2. k \in 0 .. M - 1 /\ k + 1 \in 1 .. N
    OBVIOUS
  <2>3. g[k + 1] = Heard(g[k], ev2[k + 1])
    BY <2>2 DEF Hears
  <2>4. ev1[k + 1] = ev2[k + 1] /\ f[k] = g[k]
    BY <1>2, <2>2
  <2> QED BY <2>1, <2>2, <2>3, <2>4
<1>3. 0 .. N \subseteq T
  <2> HIDE DEF T
  <2> QED BY <1>1, <1>2, UpTo
<1> QED BY <1>3

Translates(f, shift, events) ==
  Hears(f, Len(events), shift, events) /\ Translation(events, shift) = f[Len(events)]

HasTrace(shift, events) == \E f : Translates(f, shift, events)

LEMMA TranslationIs ==
  ASSUME NEW events, NEW shift, Len(events) \in Nat
  PROVE  HasTrace(shift, events)
<1> DEFINE N == Len(events)
           Solves(g) ==
             g = [n \in 0 .. N |-> IF n = 0 THEN Acc(shift, <<>>)
                                   ELSE Heard(g[n - 1], events[n])]
           after == CHOOSE g : Solves(g)
<1>0. N \in Nat
  OBVIOUS
<1>1. PICK f : Hears(f, N, shift, events)
  <2> HIDE DEF N
  <2> QED BY <1>0, HearsExists
<1>2. Solves(f)
  <2> HIDE DEF N
  <2>1. ASSUME NEW n \in 0 .. N, n # 0 PROVE f[n] = Heard(f[n - 1], events[n])
    <3>1. n - 1 \in 0 .. N - 1 /\ n - 1 + 1 = n
      BY <1>0, <2>1
    <3> QED BY <1>1, <3>1 DEF Hears
  <2>2. f = [n \in 0 .. N |-> f[n]] /\ f[0] = Acc(shift, <<>>)
    BY <1>1 DEF Hears, Starts
  <2> QED BY <2>1, <2>2
<1>3. Solves(after)
  <2> HIDE DEF Solves
  <2> QED BY <1>2
<1>4. Hears(after, N, shift, events)
  <2> HIDE DEF after, N
  <2>1. ASSUME NEW n \in 0 .. N - 1 PROVE after[n + 1] = Heard(after[n], events[n + 1])
    <3>1. n + 1 \in 0 .. N /\ n + 1 # 0 /\ n + 1 - 1 = n
      BY <1>0
    <3>2. \A m \in 0 .. N : m # 0 => after[m] = Heard(after[m - 1], events[m])
      BY <1>3
    <3> QED BY <3>1, <3>2
  <2>2. after = [n \in 0 .. N |-> after[n]]
    BY <1>3
  <2>3. after[0] = Acc(shift, <<>>)
    BY <1>0, <1>3
  <2> QED BY <2>1, <2>2, <2>3 DEF Hears, Starts
<1>5. Translation(events, shift) = after[N]
  BY DEF Translation, Acc
<1> HIDE DEF after
<1>6. Translates(after, shift, events)
  BY <1>4, <1>5 DEF Translates
<1> QED BY <1>6 DEF HasTrace
LEMMA TranslationEmpty ==
  ASSUME NEW shift
  PROVE  Translation(<<>>, shift) = Acc(shift, <<>>)
<1> DEFINE none == <<>>
<1>1. Len(none) = 0
  OBVIOUS
<1> HIDE DEF none
<1>2. HasTrace(shift, none)
  BY <1>1, TranslationIs
<1>3. Translation(none, shift) = Acc(shift, <<>>)
  BY <1>1, <1>2 DEF HasTrace, Translates, Hears, Starts
<1> QED BY <1>3 DEF none

\* One more event at the end is heard last.
LEMMA TranslationAppend ==
  ASSUME NEW S, NEW events \in Seq(S), NEW event \in S, NEW shift
  PROVE  Translation(Append(events, event), shift) = Heard(Translation(events, shift), event)
<1> DEFINE N == Len(events)
           more == Append(events, event)
<1>1. N \in Nat /\ Len(more) = N + 1 /\ more[N + 1] = event
      /\ \A n \in 1 .. N : events[n] = more[n]
  OBVIOUS
<1>2. HasTrace(shift, events) /\ HasTrace(shift, more)
  BY <1>1, TranslationIs
<1>3. PICK f : Translates(f, shift, events)
  BY <1>2 DEF HasTrace
<1>4. PICK g : Translates(g, shift, more)
  BY <1>2 DEF HasTrace
<1> HIDE DEF more
<1>5. Hears(f, N, shift, events) /\ Translation(events, shift) = f[N]
  BY <1>3 DEF Translates
<1> HIDE DEF N
<1>6. Hears(g, N + 1, shift, more) /\ Translation(more, shift) = g[N + 1]
  BY <1>1, <1>4 DEF Translates
<1>7. f[N] = g[N]
  <2>1. N + 1 \in Nat /\ N <= N + 1
    BY <1>1
  <2> QED BY <1>1, <1>5, <1>6, <2>1, HearsUnique
<1>8. g[N + 1] = Heard(g[N], more[N + 1])
  <2>1. N \in 0 .. N + 1 - 1
    BY <1>1
  <2> QED BY <1>6, <2>1 DEF Hears
<1>9. Translation(more, shift) = Heard(Translation(events, shift), event)
  BY <1>1, <1>5, <1>6, <1>7, <1>8
<1> QED BY <1>9 DEF more

\* An event only adds to the bytes, and what it adds depends on the flag.
LEMMA HeardAdds ==
  ASSUME NEW shift \in BOOLEAN, NEW event \in Events, NEW bytes \in Seq(Keys)
  PROVE  /\ FlagAfter(shift, event) \in BOOLEAN
         /\ Made(shift, event) \in Seq(Keys)
         /\ Heard(Acc(shift, bytes), event)
              = Acc(FlagAfter(shift, event), bytes \o Made(shift, event))
<1> DEFINE byte == map_keycode(event.code, shift)
           stroke == IsStroke(event) /\ byte # NoByte
<1>1. FlagAfter(shift, event) \in BOOLEAN
  BY DEF FlagAfter, Heard, Acc
<1>2. stroke => byte \in Keys
  <2>1. IsStroke(event) => event.code \in Codes
    BY KeyboardAssumption
       DEF Events, Event, IsStroke, IsShift, EV_KEY, EV_SYN, KEY_RELEASE, KEY_PRESS, KEY_REPEAT
  <2>2. event.code \in Codes => byte \in Keys \cup {NoByte}
    BY KeyboardAssumption DEF byte
  <2> QED BY <2>1, <2>2
<1>3. Made(shift, event) = IF stroke THEN Append(<<>>, byte) ELSE <<>>
  BY DEF Made, Heard, Acc
<1>4. Heard(Acc(shift, bytes), event).bytes = IF stroke THEN Append(bytes, byte) ELSE bytes
  BY DEF Heard, Acc
<1>5. Heard(Acc(shift, bytes), event).shift = FlagAfter(shift, event)
  BY DEF Heard, Acc, FlagAfter
<1>6. Heard(Acc(shift, bytes), event)
        = Acc(Heard(Acc(shift, bytes), event).shift, Heard(Acc(shift, bytes), event).bytes)
  BY DEF Heard, Acc
<1> HIDE DEF byte
<1>7. Made(shift, event) \in Seq(Keys)
  BY <1>2, <1>3
<1>8. Heard(Acc(shift, bytes), event).bytes = bytes \o Made(shift, event)
  BY <1>2, <1>3, <1>4
<1> QED BY <1>1, <1>5, <1>6, <1>7, <1>8
\* What a queue makes is what its first event makes, and then what the others
\* make with the flag the first one leaves.
LEMMA TranslationHead ==
  ASSUME NEW events \in Seq(Events), events # <<>>, NEW shift \in BOOLEAN
  PROVE  /\ Translation(events, shift).shift
              = Translation(Tail(events), FlagAfter(shift, Head(events))).shift
         /\ Translation(events, shift).bytes
              = Made(shift, Head(events))
                \o Translation(Tail(events), FlagAfter(shift, Head(events))).bytes
         /\ Translation(Tail(events), FlagAfter(shift, Head(events))).bytes \in Seq(Keys)
         /\ Translation(events, shift).shift \in BOOLEAN
<1> DEFINE N == Len(events)
           rest == Tail(events)
           first == Head(events)
           flag == FlagAfter(shift, first)
           made == Made(shift, first)
<1>1. N \in Nat \ {0} /\ Len(rest) = N - 1 /\ first = events[1]
      /\ first \in Events /\ \A n \in 1 .. N - 1 : rest[n] = events[n + 1]
  <2> HIDE DEF Events
  <2> QED OBVIOUS
<1>2. \A n \in 1 .. N : events[n] \in Events
  OBVIOUS
<1>3. HasTrace(shift, events) /\ HasTrace(flag, rest)
  <2>1. Len(events) \in Nat /\ Len(rest) \in Nat
    BY <1>1
  <2> HIDE DEF rest, flag
  <2> QED BY <2>1, TranslationIs
<1>4. PICK f : Translates(f, shift, events)
  BY <1>3 DEF HasTrace
<1>5. PICK g : Translates(g, flag, rest)
  BY <1>3 DEF HasTrace
<1>6. flag \in BOOLEAN /\ made \in Seq(Keys)
      /\ \A s \in Seq(Keys) : Heard(Acc(shift, s), first) = Acc(flag, s \o made)
  <2> HIDE DEF first
  <2>1. <<>> \in Seq(Keys)
    OBVIOUS
  <2>2. flag \in BOOLEAN /\ made \in Seq(Keys)
    BY <1>1, <2>1, HeardAdds
  <2>3. ASSUME NEW s \in Seq(Keys) PROVE Heard(Acc(shift, s), first) = Acc(flag, s \o made)
    BY <1>1, HeardAdds
  <2> QED BY <2>2, <2>3
<1> HIDE DEF rest, first, flag, made
<1>7. Hears(f, N, shift, events) /\ Translation(events, shift) = f[N]
  BY <1>4 DEF Translates
<1> HIDE DEF N
<1>8. Hears(g, N - 1, flag, rest) /\ Translation(rest, flag) = g[N - 1]
  BY <1>1, <1>5 DEF Translates
<1> DEFINE Shape(n) == /\ g[n] = Acc(g[n].shift, g[n].bytes)
                       /\ g[n].shift \in BOOLEAN /\ g[n].bytes \in Seq(Keys)
                       /\ f[n + 1] = Acc(g[n].shift, made \o g[n].bytes)
           T == {n \in 0 .. N - 1 : Shape(n)}
<1>9. 0 \in T
  <2>1. g[0] = Acc(flag, <<>>) /\ f[0] = Acc(shift, <<>>)
    BY <1>7, <1>8 DEF Hears, Starts
  <2>2. f[0 + 1] = Heard(f[0], events[0 + 1])
    BY <1>1, <1>7 DEF Hears
  <2>3. Heard(Acc(shift, <<>>), first) = Acc(flag, <<>> \o made)
    <3>1. <<>> \in Seq(Keys)
      OBVIOUS
    <3> QED BY <1>6, <3>1
  <2>4. f[0 + 1] = Acc(flag, <<>> \o made)
    BY <1>1, <2>1, <2>2, <2>3
  <2>5. <<>> \o made = made /\ made \o <<>> = made
    BY <1>6
  <2>6. g[0].shift = flag /\ g[0].bytes = <<>>
    BY <2>1 DEF Acc
  <2>7. <<>> \in Seq(Keys) /\ 0 \in 0 .. N - 1
    BY <1>1
  <2> QED BY <1>6, <2>1, <2>4, <2>5, <2>6, <2>7
<1>10. ASSUME NEW n \in 0 .. (N - 1) - 1, n \in T PROVE n + 1 \in T
  <2> DEFINE sh == g[n].shift
             bs == g[n].bytes
             e == events[n + 2]
  <2>1. Shape(n)
    BY <1>10
  <2>2. n + 1 \in 0 .. N - 1 /\ n + 2 \in 1 .. N /\ n + 1 \in 1 .. N - 1
        /\ (n + 1) + 1 = n + 2
    BY <1>1
  <2>3. g[n + 1] = Heard(g[n], rest[n + 1])
    BY <1>8 DEF Hears
  <2>4. f[(n + 1) + 1] = Heard(f[n + 1], events[(n + 1) + 1])
    BY <1>7, <2>2 DEF Hears
  <2>5. rest[n + 1] = e /\ e \in Events
    BY <1>1, <1>2, <2>2
  <2> HIDE DEF e
  <2>6. /\ FlagAfter(sh, e) \in BOOLEAN
        /\ Made(sh, e) \in Seq(Keys)
        /\ \A s \in Seq(Keys) : Heard(Acc(sh, s), e) = Acc(FlagAfter(sh, e), s \o Made(sh, e))
    BY <2>1, <2>5, HeardAdds
  <2>7. bs \in Seq(Keys) /\ made \o bs \in Seq(Keys)
    BY <1>6, <2>1
  <2>8. g[n + 1] = Acc(FlagAfter(sh, e), bs \o Made(sh, e))
    <3>1. g[n] = Acc(sh, bs)
      BY <2>1
    <3> HIDE DEF sh, bs
    <3> QED BY <2>3, <2>5, <2>6, <2>7, <3>1
  <2>9. f[(n + 1) + 1] = Acc(FlagAfter(sh, e), (made \o bs) \o Made(sh, e))
    <3>1. f[n + 1] = Acc(sh, made \o bs)
      BY <2>1
    <3>2. events[(n + 1) + 1] = e
      BY <2>2 DEF e
    <3> HIDE DEF sh, bs
    <3> QED BY <2>4, <2>6, <2>7, <3>1, <3>2
  <2>10. (made \o bs) \o Made(sh, e) = made \o (bs \o Made(sh, e))
    <3> HIDE DEF sh, bs
    <3> QED BY <1>6, <2>6, <2>7
  <2>11. g[n + 1].shift = FlagAfter(sh, e) /\ g[n + 1].bytes = bs \o Made(sh, e)
    <3> HIDE DEF sh, bs
    <3> QED BY <2>8 DEF Acc
  <2>12. bs \o Made(sh, e) \in Seq(Keys)
    <3> HIDE DEF sh, bs
    <3> QED BY <2>6, <2>7
  <2>13. Shape(n + 1)
    <3> HIDE DEF sh, bs
    <3> QED BY <2>6, <2>8, <2>9, <2>10, <2>11, <2>12
  <2> HIDE DEF Shape
  <2> QED BY <2>2, <2>13
<1>11. Shape(N - 1)
  <2> HIDE DEF Shape
  <2>1. N - 1 \in Nat
    BY <1>1
  <2>2. 0 .. N - 1 \subseteq T
    <3> HIDE DEF T
    <3> QED BY <1>9, <1>10, <2>1, UpTo
  <2> QED BY <2>1, <2>2
<1>12. f[N] = Acc(g[N - 1].shift, made \o g[N - 1].bytes)
  <2>1. (N - 1) + 1 = N
    BY <1>1
  <2> QED BY <1>11, <2>1
<1>13. f[N].shift = g[N - 1].shift /\ f[N].bytes = made \o g[N - 1].bytes
  BY <1>12 DEF Acc
<1>14. /\ Translation(events, shift).shift = Translation(rest, flag).shift
       /\ Translation(events, shift).bytes = made \o Translation(rest, flag).bytes
       /\ Translation(rest, flag).bytes \in Seq(Keys)
       /\ Translation(events, shift).shift \in BOOLEAN
  BY <1>7, <1>8, <1>11, <1>13
<1> QED BY <1>14 DEF rest, flag, made, first
-----------------------------------------------------------------------------
(* Sequences with elements left out.                                       *)

\* The two ways in which elements count as the same.
Agree(a, b, exactly) == IF exactly THEN a = b ELSE SameKey(a, b)

Picks(f, s, t, exactly) ==
  /\ f \in [DOMAIN s -> DOMAIN t]
  /\ \A i, j \in DOMAIN s : i < j => f[i] < f[j]
  /\ \A i \in DOMAIN s : Agree(s[i], t[f[i]], exactly)

Picked(s, t, exactly) == \E f : Picks(f, s, t, exactly)

LEMMA PickedMeans ==
  ASSUME NEW s, NEW t
  PROVE  /\ Picked(s, t, TRUE) => LeavesOutOf(s, t, LAMBDA a, b : a = b)
         /\ Picked(s, t, FALSE) => LeavesOutOf(s, t, SameKey)
<1>1. ASSUME Picked(s, t, TRUE) PROVE LeavesOutOf(s, t, LAMBDA a, b : a = b)
  BY <1>1 DEF Picked, Picks, Agree, LeavesOutOf
<1>2. ASSUME Picked(s, t, FALSE) PROVE LeavesOutOf(s, t, SameKey)
  BY <1>2 DEF Picked, Picks, Agree, LeavesOutOf
<1> QED BY <1>1, <1>2


\* One more element at the end of both, or of the longer one only.
LEMMA PickedAppend ==
  ASSUME NEW S, NEW s \in Seq(S), NEW t \in Seq(S), NEW a \in S, NEW b \in S,
         NEW exactly \in BOOLEAN, Picked(s, t, exactly)
  PROVE  /\ Picked(s, Append(t, b), exactly)
         /\ Agree(a, b, exactly) => Picked(Append(s, a), Append(t, b), exactly)
<1> DEFINE N == Len(s)
           M == Len(t)
           s1 == Append(s, a)
           t1 == Append(t, b)
<1>1. PICK f : Picks(f, s, t, exactly)
  BY DEF Picked
<1>2. /\ N \in Nat /\ M \in Nat /\ DOMAIN s = 1 .. N /\ DOMAIN t = 1 .. M
      /\ DOMAIN s1 = 1 .. N + 1 /\ DOMAIN t1 = 1 .. M + 1
      /\ \A i \in 1 .. N : s1[i] = s[i]
      /\ \A i \in 1 .. M : t1[i] = t[i]
      /\ s1[N + 1] = a /\ t1[M + 1] = b
  OBVIOUS
<1> HIDE DEF N, M, s1, t1
<1>3. Picked(s, t1, exactly)
  <2>1. f \in [DOMAIN s -> DOMAIN t1]
    BY <1>1, <1>2 DEF Picks
  <2>2. \A i \in DOMAIN s : t1[f[i]] = t[f[i]]
    BY <1>1, <1>2 DEF Picks
  <2>3. Picks(f, s, t1, exactly)
    BY <1>1, <2>1, <2>2 DEF Picks
  <2> QED BY <2>3 DEF Picked
<1>4. ASSUME Agree(a, b, exactly) PROVE Picked(s1, t1, exactly)
  <2> DEFINE g == [i \in 1 .. N + 1 |-> IF i = N + 1 THEN M + 1 ELSE f[i]]
  <2>1. \A i \in 1 .. N : f[i] \in 1 .. M
    BY <1>1, <1>2 DEF Picks
  <2>2. g \in [1 .. N + 1 -> 1 .. M + 1]
    BY <1>2, <2>1
  <2>3. g[N + 1] = M + 1 /\ \A i \in 1 .. N : g[i] = f[i]
    BY <1>2
  <2> HIDE DEF g
  <2>4. \A i, j \in 1 .. N + 1 : i < j => g[i] < g[j]
    <3> SUFFICES ASSUME NEW i \in 1 .. N + 1, NEW j \in 1 .. N + 1, i < j
                 PROVE  g[i] < g[j]
      OBVIOUS
    <3>1. i \in 1 .. N
      BY <1>2
    <3>2. CASE j = N + 1
      BY <1>2, <2>1, <2>3, <3>1, <3>2
    <3>3. CASE j # N + 1
      <4>1. j \in 1 .. N
        BY <1>2, <3>3
      <4>2. f[i] < f[j]
        BY <1>1, <1>2, <3>1, <4>1 DEF Picks
      <4> QED BY <2>3, <3>1, <4>1, <4>2
    <3> QED BY <3>2, <3>3
  <2>5. ASSUME NEW i \in 1 .. N + 1 PROVE Agree(s1[i], t1[g[i]], exactly)
    <3>1. CASE i = N + 1
      BY <1>2, <1>4, <2>3, <3>1
    <3>2. CASE i # N + 1
      <4>1. i \in 1 .. N
        BY <1>2, <3>2
      <4>2. Agree(s[i], t[f[i]], exactly)
        BY <1>1, <1>2, <4>1 DEF Picks
      <4>3. s1[i] = s[i] /\ t1[g[i]] = t[f[i]]
        BY <1>2, <2>1, <2>3, <4>1
      <4> QED BY <4>2, <4>3
    <3> QED BY <3>1, <3>2
  <2>6. Picks(g, s1, t1, exactly)
    BY <1>2, <2>2, <2>4, <2>5 DEF Picks
  <2> QED BY <2>6 DEF Picked
<1> QED BY <1>3, <1>4 DEF s1, t1

\* One element of the shorter one less.
LEMMA PickedWithout ==
  ASSUME NEW S, NEW u \in Seq(S), NEW b \in S, NEW v \in Seq(S), NEW t \in Seq(S),
         NEW exactly \in BOOLEAN, Picked(u \o (<<b>> \o v), t, exactly)
  PROVE  Picked(u \o v, t, exactly)
<1> DEFINE N == Len(u)
           M == Len(v)
           more == u \o (<<b>> \o v)
           less == u \o v
           g == [i \in 1 .. N + M |-> IF i <= N THEN i ELSE i + 1]
<1>1. PICK f : Picks(f, more, t, exactly)
  BY DEF Picked
<1>2. /\ N \in Nat /\ M \in Nat
      /\ DOMAIN more = 1 .. N + M + 1 /\ DOMAIN less = 1 .. N + M
  OBVIOUS
<1>3. ASSUME NEW i \in 1 .. N + M PROVE less[i] = more[g[i]]
  OBVIOUS
<1>4. /\ \A i \in 1 .. N + M : g[i] \in 1 .. N + M + 1
      /\ \A i, j \in 1 .. N + M : i < j => g[i] < g[j]
  BY <1>2
<1> DEFINE h == [i \in 1 .. N + M |-> f[g[i]]]
<1> HIDE DEF N, M, more, less, g
<1>5. \A i \in 1 .. N + M : h[i] = f[g[i]]
  OBVIOUS
<1>6. h \in [1 .. N + M -> DOMAIN t]
  BY <1>1, <1>2, <1>4 DEF Picks
<1> HIDE DEF h
<1>7. ASSUME NEW i \in 1 .. N + M, NEW j \in 1 .. N + M, i < j PROVE h[i] < h[j]
  <2>1. g[i] \in DOMAIN more /\ g[j] \in DOMAIN more /\ g[i] < g[j]
    BY <1>2, <1>4, <1>7
  <2>2. f[g[i]] < f[g[j]]
    BY <1>1, <2>1 DEF Picks
  <2> QED BY <1>5, <2>2
<1>8. \A i \in 1 .. N + M : Agree(less[i], t[h[i]], exactly)
  BY <1>1, <1>2, <1>3, <1>4, <1>5 DEF Picks
<1>9. Picks(h, less, t, exactly)
  BY <1>2, <1>6, <1>7, <1>8 DEF Picks
<1> QED BY <1>9 DEF Picked, less
-----------------------------------------------------------------------------
(* The keyboard.                                                           *)

\* The types of what the steps of the keyboard read.
KeyTypeOK ==
  /\ RingTypeOK
  /\ pending \in Seq(Events)
  /\ shift_down \in BOOLEAN
  /\ held \subseteq Shifts
  /\ lost \in BOOLEAN
  /\ refused \in BOOLEAN
  /\ typed \in Seq(Keys \cup {0})
  /\ returned \in Seq(Keys \cup {0})

\* The events of the user.
LEMMA EventsOf ==
  /\ \A code \in Codes \cup Shifts : \A value \in {KEY_RELEASE, KEY_PRESS, KEY_REPEAT} :
       Event(EV_KEY, code, value) \in Events
  /\ Event(EV_SYN, 0, 0) \in Events
  BY DEF Events

\* A stroke of an event is a stroke of an ordinary key.
LEMMA StrokeByte ==
  ASSUME NEW event \in Events, NEW shift \in BOOLEAN, IsStroke(event),
         map_keycode(event.code, shift) # NoByte
  PROVE  map_keycode(event.code, shift) \in Keys
<1>1. event.code \in Codes
  BY KeyboardAssumption
     DEF Events, Event, IsStroke, IsShift, EV_KEY, EV_SYN, KEY_RELEASE, KEY_PRESS, KEY_REPEAT
<1> QED BY <1>1, KeyboardAssumption

LEMMA PollRings ==
  ASSUME KeyTypeOK, PollEvent
  PROVE  [RingNext]_rvars
<1> DEFINE event == Head(pending)
           byte == map_keycode(event.code, shift_down)
<1>1. event \in Events
  <2> HIDE DEF Events
  <2> QED BY DEF KeyTypeOK, PollEvent
<1>2. IF IsStroke(event) /\ byte # NoByte THEN enqueue_key(byte) ELSE UNCHANGED rvars
  BY DEF PollEvent, process_event
<1>3. IsStroke(event) /\ byte # NoByte => byte \in Keys
  BY <1>1, StrokeByte DEF KeyTypeOK
<1> QED BY <1>2, <1>3 DEF RingNext

\* What the keyboard does to the ring is what the ring's own module allows.
LEMMA KeyboardRings ==
  ASSUME KeyTypeOK, [Next]_vars
  PROVE  [RingNext]_rvars
<1>1. ASSUME NEW event, Deliver(event) PROVE UNCHANGED rvars
  BY <1>1 DEF Deliver
<1>2. ASSUME NEW code \in Shifts, HoldShift(code) \/ ReleaseShift(code) PROVE UNCHANGED rvars
  BY <1>1, <1>2 DEF HoldShift, ReleaseShift
<1>3. ASSUME NEW code \in Codes, NEW value, HitKey(code, value) PROVE UNCHANGED rvars
  BY <1>1, <1>3 DEF HitKey
<1>4. ASSUME NEW code \in Codes, LetGo(code) PROVE UNCHANGED rvars
  BY <1>1, <1>4 DEF LetGo
<1>5. CASE AskForKey
  BY <1>5 DEF AskForKey
<1>6. CASE PollEvent
  BY <1>6, PollRings
<1>7. CASE PollEnds
  BY <1>7 DEF PollEnds
<1>8. CASE TakeKey
  BY <1>8 DEF TakeKey, RingNext
<1>9. CASE UNCHANGED vars
  BY <1>9 DEF vars
<1> QED BY <1>2, <1>3, <1>4, <1>5, <1>6, <1>7, <1>8, <1>9 DEF Next, Read

LEMMA DeliverType ==
  ASSUME KeyTypeOK, NEW event \in Events, Deliver(event)
  PROVE  /\ pending' \in Seq(Events) /\ lost' \in BOOLEAN
         /\ UNCHANGED <<shift_down, refused, returned>>
<1>1. <<event, Event(EV_SYN, 0, 0)>> \in Seq(Events)
  <2>1. Event(EV_SYN, 0, 0) \in Events
    BY EventsOf
  <2> HIDE DEF Events
  <2> QED BY <2>1
<1>2. pending \o <<event, Event(EV_SYN, 0, 0)>> \in Seq(Events)
  BY <1>1 DEF KeyTypeOK
<1> QED BY <1>2 DEF Deliver, KeyTypeOK

LEMMA KeyTypeStep ==
  ASSUME KeyTypeOK, [Next]_vars
  PROVE  KeyTypeOK'
<1>0. RingTypeOK'
  BY KeyboardRings, RingTypeStep DEF KeyTypeOK
<1>1. ASSUME NEW code \in Shifts, HoldShift(code) PROVE KeyTypeOK'
  <2>1. Event(EV_KEY, code, KEY_PRESS) \in Events
    BY EventsOf
  <2>2. held' \subseteq Shifts /\ typed' = typed
    BY <1>1 DEF HoldShift, KeyTypeOK
  <2> QED BY <1>0, <1>1, <2>1, <2>2, DeliverType DEF HoldShift, KeyTypeOK
<1>2. ASSUME NEW code \in Shifts, ReleaseShift(code) PROVE KeyTypeOK'
  <2>1. Event(EV_KEY, code, KEY_RELEASE) \in Events
    BY EventsOf
  <2>2. held' \subseteq Shifts /\ typed' = typed
    BY <1>2 DEF ReleaseShift, KeyTypeOK
  <2> QED BY <1>0, <1>2, <2>1, <2>2, DeliverType DEF ReleaseShift, KeyTypeOK
<1>3. ASSUME NEW code \in Codes, NEW value \in {KEY_PRESS, KEY_REPEAT}, HitKey(code, value)
      PROVE  KeyTypeOK'
  <2> DEFINE byte == map_keycode(code, held # {})
  <2>1. Event(EV_KEY, code, value) \in Events
    BY EventsOf
  <2>2. byte \in Keys \cup {NoByte}
    <3>1. (held # {}) \in BOOLEAN
      OBVIOUS
    <3> QED BY <3>1, KeyboardAssumption
  <2>3. typed' = (IF byte = NoByte THEN typed ELSE Append(typed, byte)) /\ held' = held
    BY <1>3 DEF HitKey
  <2> HIDE DEF byte
  <2>4. typed' \in Seq(Keys \cup {0})
    BY <2>2, <2>3 DEF KeyTypeOK
  <2> QED BY <1>0, <1>3, <2>1, <2>3, <2>4, DeliverType DEF HitKey, KeyTypeOK
<1>4. ASSUME NEW code \in Codes, LetGo(code) PROVE KeyTypeOK'
  <2>1. Event(EV_KEY, code, KEY_RELEASE) \in Events
    BY EventsOf
  <2> QED BY <1>0, <1>4, <2>1, DeliverType DEF LetGo, KeyTypeOK
<1>5. CASE AskForKey
  BY <1>0, <1>5 DEF AskForKey, KeyTypeOK, user
<1>6. CASE PollEvent
  <2>1. pending' \in Seq(Events)
    <3> HIDE DEF Events
    <3> QED BY <1>6 DEF PollEvent, KeyTypeOK
  <2>2. shift_down' \in BOOLEAN
    BY <1>6 DEF PollEvent, process_event, ShiftAfter, KeyTypeOK
  <2>3. refused' \in BOOLEAN
    BY <1>6 DEF PollEvent, process_event, KeyTypeOK
  <2> QED BY <1>0, <1>6, <2>1, <2>2, <2>3 DEF PollEvent, KeyTypeOK, user
<1>7. CASE PollEnds
  BY <1>0, <1>7 DEF PollEnds, KeyTypeOK, user
<1>8. CASE TakeKey
  <2>1. taken' \in Seq(Keys \cup {0})
    <3>1. PICK S : S = Keys \cup {0}
      OBVIOUS
    <3>2. \A key \in S : <<key>> \in Seq(S)
      OBVIOUS
    <3>3. <<>> \in Seq(S)
      OBVIOUS
    <3>4. keybuf[key_head] \in S
      BY <3>1 DEF KeyTypeOK, RingTypeOK
    <3>5. taken' = <<>> \/ taken' = <<keybuf[key_head]>>
      BY <1>8 DEF TakeKey, dequeue_key
    <3>6. taken' \in Seq(S)
      BY <3>2, <3>3, <3>4, <3>5
    <3> QED BY <3>1, <3>6
  <2>2. returned' \in Seq(Keys \cup {0})
    BY <1>8, <2>1 DEF TakeKey, KeyTypeOK
  <2> QED BY <1>0, <1>8, <2>2 DEF TakeKey, KeyTypeOK, user
<1>9. CASE UNCHANGED vars
  BY <1>0, <1>9 DEF vars, KeyTypeOK, user
<1> QED
  BY <1>1, <1>2, <1>3, <1>4, <1>5, <1>6, <1>7, <1>8, <1>9 DEF Next, Read

\* Every variable of the keyboard keeps its type: the user's keys, the device's
\* queue, the flag and the bytes (process_event, poll_input,
\* read_byte_blocking).
THEOREM KeyboardTypeCorrect == Spec => []KeyTypeOK
<1>1. Init => KeyTypeOK
  <2>1. RingInit => RingTypeOK
    BY RingAssumption DEF RingInit, RingTypeOK, Slots
  <2>2. <<>> \in Seq(Events) /\ <<>> \in Seq(Keys \cup {0})
    <3> HIDE DEF Events
    <3> QED OBVIOUS
  <2> QED BY <2>1, <2>2 DEF Init, KeyTypeOK
<1>2. KeyTypeOK /\ [Next]_vars => KeyTypeOK'
  BY KeyTypeStep
<1> QED BY <1>1, <1>2, PTL DEF Spec

\* Behind the device and the poll loop the ring is the ring: it implements
\* the bounded queue here too.
THEOREM KeyboardQueue == Spec => ImplementsQueue
<1>1. Init => RingInit
  BY DEF Init
<1>2. KeyTypeOK /\ [Next]_vars => [RingNext]_rvars
  BY KeyboardRings
<1>3. Spec => RingSpec
  BY <1>1, <1>2, KeyboardTypeCorrect, PTL DEF Spec, RingSpec
<1> QED BY <1>3, RingIsQueue, PTL
-----------------------------------------------------------------------------
(* The flag and the bytes behind the queue.                                *)

\* What shift_down will be when the queue has been read.
Flag == Translation(pending, shift_down).shift

\* The flag is a flag and the bytes are keys, whatever is in the queue.
LEMMA TranslationType ==
  ASSUME NEW events \in Seq(Events), NEW shift \in BOOLEAN
  PROVE  /\ Translation(events, shift)
              = Acc(Translation(events, shift).shift, Translation(events, shift).bytes)
         /\ Translation(events, shift).shift \in BOOLEAN
         /\ Translation(events, shift).bytes \in Seq(Keys)
<1> DEFINE N == Len(events)
<1>1. N \in Nat /\ \A n \in 1 .. N : events[n] \in Events
  <2> HIDE DEF Events
  <2> QED OBVIOUS
<1>2. PICK f : Translates(f, shift, events)
  BY <1>1, TranslationIs DEF HasTrace
<1>3. Hears(f, N, shift, events) /\ Translation(events, shift) = f[N]
  BY <1>2 DEF Translates
<1> HIDE DEF N
<1> DEFINE Shape(n) == /\ f[n] = Acc(f[n].shift, f[n].bytes)
                       /\ f[n].shift \in BOOLEAN /\ f[n].bytes \in Seq(Keys)
           T == {n \in 0 .. N : Shape(n)}
<1>4. 0 \in T
  <2>1. f[0] = Acc(shift, <<>>)
    BY <1>3 DEF Hears, Starts
  <2>2. f[0].shift = shift /\ f[0].bytes = <<>>
    BY <2>1 DEF Acc
  <2>3. <<>> \in Seq(Keys) /\ 0 \in 0 .. N
    BY <1>1
  <2> QED BY <2>1, <2>2, <2>3
<1>5. ASSUME NEW n \in 0 .. N - 1, n \in T PROVE n + 1 \in T
  <2> DEFINE sh == f[n].shift
             bs == f[n].bytes
             e == events[n + 1]
  <2>1. f[n] = Acc(sh, bs) /\ sh \in BOOLEAN /\ bs \in Seq(Keys)
    BY <1>5
  <2>2. f[n + 1] = Heard(f[n], e)
    BY <1>3 DEF Hears
  <2>3. e \in Events /\ n + 1 \in 0 .. N
    BY <1>1
  <2> HIDE DEF sh, bs, e
  <2>4. Heard(Acc(sh, bs), e) = Acc(FlagAfter(sh, e), bs \o Made(sh, e))
    BY <2>1, <2>3, HeardAdds
  <2>5. FlagAfter(sh, e) \in BOOLEAN /\ Made(sh, e) \in Seq(Keys)
    BY <2>1, <2>3, HeardAdds
  <2>6. bs \o Made(sh, e) \in Seq(Keys)
    BY <2>1, <2>5
  <2>7. f[n + 1] = Acc(FlagAfter(sh, e), bs \o Made(sh, e))
    BY <2>1, <2>2, <2>4
  <2>8. f[n + 1].shift = FlagAfter(sh, e) /\ f[n + 1].bytes = bs \o Made(sh, e)
    BY <2>7 DEF Acc
  <2>9. Shape(n + 1)
    BY <2>5, <2>6, <2>7, <2>8
  <2> HIDE DEF Shape
  <2> QED BY <2>3, <2>9
<1>6. Shape(N)
  <2> HIDE DEF Shape
  <2>1. 0 .. N \subseteq T
    <3> HIDE DEF T
    <3> QED BY <1>1, <1>4, <1>5, UpTo
  <2> QED BY <1>1, <2>1
<1> QED BY <1>3, <1>6

LEMMA FlagType ==
  ASSUME KeyTypeOK
  PROVE  /\ Translation(pending, shift_down) = Acc(Flag, Translated)
         /\ Flag \in BOOLEAN /\ Translated \in Seq(Keys)
  BY TranslationType DEF KeyTypeOK, Flag, Translated

\* What one event does: a shift key sets the flag, a stroke makes its byte.
LEMMA ShiftEvent ==
  ASSUME NEW code \in {KEY_LEFTSHIFT, KEY_RIGHTSHIFT}, NEW value, NEW shift
  PROVE  /\ FlagAfter(shift, Event(EV_KEY, code, value)) = (value # KEY_RELEASE)
         /\ Made(shift, Event(EV_KEY, code, value)) = <<>>
  BY DEF FlagAfter, Made, Heard, Acc, Event, IsShift, IsStroke, EV_KEY

LEMMA StrokeEvent ==
  ASSUME NEW code \in Codes, NEW value \in {KEY_PRESS, KEY_REPEAT}, NEW shift
  PROVE  /\ FlagAfter(shift, Event(EV_KEY, code, value)) = shift
         /\ Made(shift, Event(EV_KEY, code, value))
              = IF map_keycode(code, shift) = NoByte THEN <<>>
                ELSE Append(<<>>, map_keycode(code, shift))
  BY KeyboardAssumption DEF FlagAfter, Made, Heard, Acc, Event, IsShift, IsStroke, EV_KEY

LEMMA ReleaseEvent ==
  ASSUME NEW code \in Codes, NEW shift
  PROVE  /\ FlagAfter(shift, Event(EV_KEY, code, KEY_RELEASE)) = shift
         /\ Made(shift, Event(EV_KEY, code, KEY_RELEASE)) = <<>>
  BY KeyboardAssumption
     DEF FlagAfter, Made, Heard, Acc, Event, IsShift, IsStroke, EV_KEY,
         KEY_RELEASE, KEY_PRESS, KEY_REPEAT

LEMMA MarkEvent ==
  ASSUME NEW shift
  PROVE  /\ FlagAfter(shift, Event(EV_SYN, 0, 0)) = shift
         /\ Made(shift, Event(EV_SYN, 0, 0)) = <<>>
  BY DEF FlagAfter, Made, Heard, Acc, Event, IsStroke, EV_KEY, EV_SYN

\* An event the device has room for is heard after those before it; one it
\* drops changes nothing behind the queue.
Heeded(event) ==
  /\ lost' = lost
  /\ Flag' = FlagAfter(Flag, event)
  /\ Translated' = Translated \o Made(Flag, event)

Dropped == lost' = TRUE /\ Flag' = Flag /\ Translated' = Translated

LEMMA DeliverHeard ==
  ASSUME KeyTypeOK, NEW event \in Events, Deliver(event)
  PROVE  Heeded(event) \/ Dropped
<1>1. CASE Len(pending) + 2 <= DeviceRoom
  <2> DEFINE mark == Event(EV_SYN, 0, 0)
             one == Append(pending, event)
             two == Append(one, mark)
             t0 == Translation(pending, shift_down)
             t1 == Translation(one, shift_down)
             t2 == Translation(two, shift_down)
  <2>1. mark \in Events
    BY EventsOf
  <2> HIDE DEF mark
  <2>2. one \in Seq(Events)
    <3> HIDE DEF Events
    <3> QED BY DEF KeyTypeOK
  <2>3. pending' = two /\ lost' = lost /\ shift_down' = shift_down
    <3>1. pending \o <<event, mark>> = two
      <4> HIDE DEF Events
      <4> QED BY <2>1 DEF KeyTypeOK
    <3> QED BY <1>1, <3>1 DEF Deliver, mark
  <2>4. t0 = Acc(Flag, Translated) /\ Flag \in BOOLEAN /\ Translated \in Seq(Keys)
    BY FlagType
  <2>5. t1 = Heard(t0, event)
    <3> HIDE DEF Events
    <3> QED BY TranslationAppend DEF KeyTypeOK
  <2>6. t1 = Acc(FlagAfter(Flag, event), Translated \o Made(Flag, event))
        /\ FlagAfter(Flag, event) \in BOOLEAN
        /\ Translated \o Made(Flag, event) \in Seq(Keys)
    <3> HIDE DEF t0, t1
    <3>1. Made(Flag, event) \in Seq(Keys) /\ FlagAfter(Flag, event) \in BOOLEAN
      BY <2>4, HeardAdds
    <3>2. Translated \o Made(Flag, event) \in Seq(Keys)
      BY <2>4, <3>1
    <3>3. Heard(Acc(Flag, Translated), event)
            = Acc(FlagAfter(Flag, event), Translated \o Made(Flag, event))
      BY <2>4, HeardAdds
    <3> QED BY <2>4, <2>5, <3>1, <3>2, <3>3
  <2> DEFINE sh == FlagAfter(Flag, event)
             bs == Translated \o Made(Flag, event)
  <2>7. t2 = Heard(t1, mark)
    <3> HIDE DEF Events, one
    <3> QED BY <2>1, <2>2, TranslationAppend
  <2> HIDE DEF one, t0, t1
  <2>8. t2 = Acc(sh, bs)
    <3>1. sh \in BOOLEAN /\ bs \in Seq(Keys) /\ t1 = Acc(sh, bs)
      BY <2>6
    <3> HIDE DEF sh, bs
    <3>2. Heard(Acc(sh, bs), mark) = Acc(FlagAfter(sh, mark), bs \o Made(sh, mark))
      BY <2>1, <3>1, HeardAdds
    <3>3. FlagAfter(sh, mark) = sh /\ Made(sh, mark) = <<>>
      BY MarkEvent DEF mark
    <3>4. bs \o <<>> = bs
      BY <3>1
    <3>5. t1 = Acc(sh, bs)
      BY <3>1
    <3>6. t2 = Acc(sh, bs \o <<>>)
      <4> HIDE DEF t2
      <4> QED BY <2>7, <3>2, <3>3, <3>5
    <3> HIDE DEF t2
    <3> QED BY <3>4, <3>6
  <2>9. Flag' = t2.shift /\ Translated' = t2.bytes
    BY <2>3 DEF Flag, Translated
  <2>10. t2.shift = sh /\ t2.bytes = bs
    <3> HIDE DEF t2, sh, bs
    <3> QED BY <2>8 DEF Acc
  <2> QED BY <2>3, <2>9, <2>10 DEF Heeded
<1>2. CASE ~(Len(pending) + 2 <= DeviceRoom)
  BY <1>2 DEF Deliver, Dropped, Flag, Translated
<1> QED BY <1>1, <1>2
\* The keys the console has read and not handed out, oldest first.
LEMMA ContentsType ==
  ASSUME RingTypeOK
  PROVE  Contents \in Seq(Keys \cup {0})
<1>1. Waiting \in Nat
  BY FullMeans
<1>2. ASSUME NEW n \in 1 .. Waiting PROVE keybuf[SlotAfter(key_head, n - 1)] \in Keys \cup {0}
  <2>1. SlotAfter(key_head, n - 1) \in Slots
    BY RingAssumption DEF RingTypeOK, Slots, SlotAfter, Waiting
  <2> QED BY <2>1 DEF RingTypeOK
<1> QED BY <1>1, <1>2 DEF Contents

LEMMA ContentsKept ==
  ASSUME UNCHANGED <<keybuf, key_head, key_tail>>
  PROVE  Contents' = Contents
  BY DEF Contents, Waiting

LEMMA TranslatedKept ==
  ASSUME UNCHANGED <<pending, shift_down>>
  PROVE  Translated' = Translated /\ Flag' = Flag
  BY DEF Translated, Flag

Regroups(u, v, b, w) == (u \o Append(v, b)) \o w = (u \o v) \o (<<b>> \o w)

LEMMA Regroup ==
  ASSUME NEW S, NEW u \in Seq(S), NEW v \in Seq(S), NEW b \in S, NEW w \in Seq(S)
  PROVE  Regroups(u, v, b, w)
<1> DEFINE left == (u \o Append(v, b)) \o w
           right == (u \o v) \o (<<b>> \o w)
           N == Len(u) + Len(v) + 1 + Len(w)
<1>1. left \in Seq(S) /\ Len(left) = N
  OBVIOUS
<1>2. right \in Seq(S) /\ Len(right) = N
  OBVIOUS
<1>3. ASSUME NEW n \in 1 .. N PROVE left[n] = right[n]
  <2>1. CASE n <= Len(u) + Len(v)
    BY <2>1
  <2>2. CASE n = Len(u) + Len(v) + 1
    BY <2>2
  <2>3. CASE n > Len(u) + Len(v) + 1
    BY <2>3
  <2> QED BY <2>1, <2>2, <2>3
<1> HIDE DEF left, right, N
<1>4. left = right
  BY <1>1, <1>2, <1>3, SeqEqual
<1> QED BY <1>4 DEF left, right, Regroups

\* s is t without one element.
Lacks(s, t) ==
  \E u, v \in Seq(Keys \cup {0}) : \E b \in Keys :
    t = u \o (<<b>> \o v) /\ s = u \o v

\* Reading an event moves its byte from the queue to the ring; a full ring
\* leaves it out.
LEMMA PollWay ==
  ASSUME KeyTypeOK, PollEvent
  PROVE  /\ Flag' = Flag
         /\ \/ OnTheWay' = OnTheWay /\ refused' = refused
            \/ Lacks(OnTheWay', OnTheWay) /\ refused' = TRUE
<1> DEFINE event == Head(pending)
           byte == map_keycode(event.code, shift_down)
           stroke == IsStroke(event) /\ byte # NoByte
           next == Translation(Tail(pending), FlagAfter(shift_down, event))
<1>1. /\ pending # <<>> /\ pending' = Tail(pending)
      /\ shift_down' = FlagAfter(shift_down, event)
      /\ returned' = returned
      /\ IF stroke THEN enqueue_key(byte) /\ refused' = (refused \/ Full)
         ELSE UNCHANGED <<rvars, refused>>
  BY DEF PollEvent, process_event, FlagAfter, Heard, Acc, ShiftAfter
<1>2. event \in Events
  <2> HIDE DEF Events
  <2> QED BY <1>1 DEF KeyTypeOK
<1>3. Made(shift_down, event) = IF stroke THEN Append(<<>>, byte) ELSE <<>>
  BY DEF Made, Heard, Acc
<1>4. /\ Flag = next.shift
      /\ Translated = Made(shift_down, event) \o next.bytes
      /\ next.bytes \in Seq(Keys)
  <2> HIDE DEF event, Events
  <2>1. pending \in Seq(Events) /\ shift_down \in BOOLEAN
    BY DEF KeyTypeOK
  <2> QED BY <1>1, <2>1, TranslationHead DEF Flag, Translated, event
<1>5. Flag' = next.shift /\ Translated' = next.bytes
  BY <1>1 DEF Flag, Translated
<1>6. stroke => byte \in Keys
  BY <1>2, StrokeByte DEF KeyTypeOK
<1>7. Contents \in Seq(Keys \cup {0}) /\ returned \in Seq(Keys \cup {0})
  BY ContentsType DEF KeyTypeOK
<1>8. next.bytes \in Seq(Keys \cup {0})
  BY <1>4
<1> HIDE DEF event, byte, next
<1>9. CASE ~stroke
  <2>1. Contents' = Contents
    BY <1>1, <1>9, ContentsKept DEF rvars
  <2>2. Translated = next.bytes
    <3> HIDE DEF stroke
    <3>1. Translated = <<>> \o next.bytes
      BY <1>3, <1>4, <1>9
    <3>2. <<>> \o next.bytes = next.bytes
      BY <1>4
    <3> QED BY <3>1, <3>2
  <2> QED BY <1>1, <1>4, <1>5, <1>9, <2>1, <2>2 DEF OnTheWay
<1>10. CASE stroke /\ Full
  <2>1. Contents' = Contents
    BY <1>1, <1>10, ContentsKept DEF enqueue_key
  <2>2. Translated = <<byte>> \o next.bytes
    BY <1>3, <1>4, <1>6, <1>10
  <2>3. returned \o Contents \in Seq(Keys \cup {0})
    BY <1>7
  <2>4. OnTheWay = (returned \o Contents) \o (<<byte>> \o next.bytes)
    BY <2>2 DEF OnTheWay
  <2>5. OnTheWay' = (returned \o Contents) \o next.bytes
    BY <1>1, <1>5, <2>1 DEF OnTheWay
  <2>6. Lacks(OnTheWay', OnTheWay)
    BY <1>6, <1>8, <1>10, <2>3, <2>4, <2>5 DEF Lacks
  <2> QED BY <1>1, <1>4, <1>5, <1>10, <2>6
<1>11. CASE stroke /\ ~Full
  <2>1. Contents' = Append(Contents, byte)
    BY <1>1, <1>6, <1>11, EnqueueAppends DEF KeyTypeOK
  <2>2. Translated = <<byte>> \o next.bytes
    BY <1>3, <1>4, <1>6, <1>11
  <2>3. (returned \o Append(Contents, byte)) \o next.bytes
          = (returned \o Contents) \o (<<byte>> \o next.bytes)
    <3> HIDE DEF stroke
    <3>1. byte \in Keys \cup {0}
      BY <1>6, <1>11
    <3> DEFINE S == Keys \cup {0}
               rest == next.bytes
    <3>2. returned \in Seq(S) /\ Contents \in Seq(S) /\ byte \in S /\ rest \in Seq(S)
      BY <1>7, <1>8, <3>1
    <3> HIDE DEF S, rest
    <3>3. (returned \o Append(Contents, byte)) \o rest
            = (returned \o Contents) \o (<<byte>> \o rest)
      <4>1. Regroups(returned, Contents, byte, rest)
        BY <3>2, Regroup
      <4> QED BY <4>1 DEF Regroups
    <3> QED BY <3>3 DEF rest
  <2>4. OnTheWay' = OnTheWay
    BY <1>1, <1>5, <2>1, <2>2, <2>3 DEF OnTheWay
  <2>5. refused' = refused
    BY <1>1, <1>11 DEF KeyTypeOK
  <2> QED BY <1>4, <1>5, <2>4, <2>5
<1> QED BY <1>9, <1>10, <1>11

\* Handing out a key moves it from the ring to the game.
LEMMA TakeWay ==
  ASSUME KeyTypeOK, TakeKey
  PROVE  Flag' = Flag /\ OnTheWay' = OnTheWay /\ refused' = refused
<1>1. Flag' = Flag /\ Translated' = Translated
  BY TranslatedKept DEF TakeKey
<1>2. returned' \o Contents' = returned \o Contents
  <2>1. Contents \in Seq(Keys \cup {0}) /\ returned \in Seq(Keys \cup {0})
    BY ContentsType DEF KeyTypeOK
  <2>2. CASE key_head = key_tail
    <3>1. taken' = <<>> /\ UNCHANGED <<keybuf, key_head, key_tail>>
      BY <2>2 DEF TakeKey, dequeue_key
    <3>2. Contents' = Contents
      BY <3>1, ContentsKept
    <3>3. returned' = returned
      BY <2>1, <3>1 DEF TakeKey
    <3> QED BY <3>2, <3>3
  <2>3. CASE key_head # key_tail
    <3>1. Contents # <<>> /\ taken' = <<Head(Contents)>> /\ Contents' = Tail(Contents)
      BY <2>3, DequeueTails DEF KeyTypeOK, TakeKey
    <3>2. returned' = returned \o <<Head(Contents)>>
      BY <3>1 DEF TakeKey
    <3>3. (returned \o <<Head(Contents)>>) \o Tail(Contents) = returned \o Contents
      BY <2>1, <3>1
    <3> QED BY <3>1, <3>2, <3>3
  <2> QED BY <2>2, <2>3
<1> QED BY <1>1, <1>2 DEF OnTheWay, TakeKey
-----------------------------------------------------------------------------
(* Shift, order and loss.                                                  *)

\* A step reads (and may find the ring full), or the user does something that
\* the device heeds or drops, or nothing of this changes.
Reads ==
  /\ UNCHANGED <<held, lost, typed>>
  /\ Flag' = Flag
  /\ \/ OnTheWay' = OnTheWay /\ refused' = refused
     \/ Lacks(OnTheWay', OnTheWay) /\ refused' = TRUE

Does(event) ==
  /\ refused' = refused
  /\ \/ /\ lost' = lost
        /\ Flag' = FlagAfter(Flag, event)
        /\ OnTheWay' = OnTheWay \o Made(Flag, event)
     \/ lost' = TRUE /\ OnTheWay' = OnTheWay

LEMMA WayType ==
  ASSUME KeyTypeOK
  PROVE  OnTheWay \in Seq(Keys \cup {0})
<1>1. Contents \in Seq(Keys \cup {0}) /\ returned \in Seq(Keys \cup {0})
  BY ContentsType DEF KeyTypeOK
<1>2. Translated \in Seq(Keys \cup {0})
  BY FlagType
<1> QED BY <1>1, <1>2 DEF OnTheWay

LEMMA DeliverDoes ==
  ASSUME KeyTypeOK, NEW event \in Events, Deliver(event)
  PROVE  Does(event)
<1>1. Contents' = Contents /\ returned' = returned /\ refused' = refused
  BY ContentsKept DEF Deliver, rvars
<1>2. CASE Heeded(event)
  <2>1. Contents \in Seq(Keys \cup {0}) /\ returned \in Seq(Keys \cup {0})
    BY ContentsType DEF KeyTypeOK
  <2>2. Flag \in BOOLEAN /\ Translated \in Seq(Keys)
    BY FlagType
  <2>3. Made(Flag, event) \in Seq(Keys)
    BY <2>2, HeardAdds
  <2> DEFINE made == Made(Flag, event)
             before == returned \o Contents
  <2>4. before \in Seq(Keys \cup {0}) /\ Translated \in Seq(Keys \cup {0})
        /\ made \in Seq(Keys \cup {0})
    BY <2>1, <2>2, <2>3
  <2> HIDE DEF made, before
  <2>5. before \o (Translated \o made) = (before \o Translated) \o made
    BY <2>4
  <2>6. Translated' = Translated \o made
    BY <1>2 DEF Heeded, made
  <2>7. OnTheWay = before \o Translated /\ OnTheWay' = before \o Translated'
    BY <1>1 DEF OnTheWay, before
  <2> QED BY <1>1, <1>2, <2>5, <2>6, <2>7 DEF Does, Heeded, made
<1>3. CASE Dropped
  BY <1>1, <1>3 DEF Does, Dropped, OnTheWay
<1> QED BY <1>2, <1>3, DeliverHeard

\* What a step can do.
LEMMA StepKinds ==
  ASSUME KeyTypeOK, [Next]_vars
  PROVE  \/ Reads
         \/ /\ typed' = typed
            /\ \E code \in Shifts :
                 \/ held' # {} /\ held # held' /\ held' = held \cup {code}
                    /\ Does(Event(EV_KEY, code, KEY_PRESS))
                 \/ code \in held /\ held' = held \ {code}
                    /\ Does(Event(EV_KEY, code, KEY_RELEASE))
         \/ /\ held' = held
            /\ \E code \in Codes : \E value \in {KEY_PRESS, KEY_REPEAT} :
                 /\ typed' = (IF map_keycode(code, held # {}) = NoByte THEN typed
                              ELSE Append(typed, map_keycode(code, held # {})))
                 /\ Does(Event(EV_KEY, code, value))
         \/ /\ UNCHANGED <<held, typed>>
            /\ \E code \in Codes : Does(Event(EV_KEY, code, KEY_RELEASE))
<1>1. ASSUME UNCHANGED <<held, lost, typed, pending, shift_down, refused, returned>>,
             UNCHANGED rvars
      PROVE  Reads
  <2>1. Contents' = Contents /\ Translated' = Translated /\ Flag' = Flag
    BY <1>1, ContentsKept, TranslatedKept DEF rvars
  <2> QED BY <1>1, <2>1 DEF Reads, OnTheWay
<1>2. CASE AskForKey \/ PollEnds \/ UNCHANGED vars
  BY <1>1, <1>2 DEF AskForKey, PollEnds, vars, user
<1>3. CASE PollEvent
  BY <1>3, PollWay DEF Reads, PollEvent, user
<1>4. CASE TakeKey
  BY <1>4, TakeWay DEF Reads, TakeKey, user
<1>5. ASSUME NEW code \in Shifts, HoldShift(code)
      PROVE  /\ typed' = typed /\ held' # {} /\ held # held' /\ held' = held \cup {code}
             /\ Does(Event(EV_KEY, code, KEY_PRESS))
  <2>1. Event(EV_KEY, code, KEY_PRESS) \in Events
    BY EventsOf
  <2>2. Does(Event(EV_KEY, code, KEY_PRESS))
    BY <1>5, <2>1, DeliverDoes DEF HoldShift
  <2> QED BY <1>5, <2>2 DEF HoldShift
<1>6. ASSUME NEW code \in Shifts, ReleaseShift(code)
      PROVE  /\ typed' = typed /\ code \in held /\ held' = held \ {code}
             /\ Does(Event(EV_KEY, code, KEY_RELEASE))
  <2>1. Event(EV_KEY, code, KEY_RELEASE) \in Events
    BY EventsOf
  <2>2. Does(Event(EV_KEY, code, KEY_RELEASE))
    BY <1>6, <2>1, DeliverDoes DEF ReleaseShift
  <2> QED BY <1>6, <2>2 DEF ReleaseShift
<1>7. ASSUME NEW code \in Codes, NEW value \in {KEY_PRESS, KEY_REPEAT}, HitKey(code, value)
      PROVE  /\ held' = held
             /\ typed' = (IF map_keycode(code, held # {}) = NoByte THEN typed
                          ELSE Append(typed, map_keycode(code, held # {})))
             /\ Does(Event(EV_KEY, code, value))
  <2>1. Event(EV_KEY, code, value) \in Events
    BY EventsOf
  <2>2. Does(Event(EV_KEY, code, value))
    BY <1>7, <2>1, DeliverDoes DEF HitKey
  <2> QED BY <1>7, <2>2 DEF HitKey
<1>8. ASSUME NEW code \in Codes, LetGo(code)
      PROVE  UNCHANGED <<held, typed>> /\ Does(Event(EV_KEY, code, KEY_RELEASE))
  <2>1. Event(EV_KEY, code, KEY_RELEASE) \in Events
    BY EventsOf
  <2>2. Does(Event(EV_KEY, code, KEY_RELEASE))
    BY <1>8, <2>1, DeliverDoes DEF LetGo
  <2> QED BY <1>8, <2>2 DEF LetGo
<1> QED BY <1>2, <1>3, <1>4, <1>5, <1>6, <1>7, <1>8 DEF Next, Read

\* ShiftReleased is about an empty queue only.  Inductive is the flag behind
\* the queue: once no shift key is held it will be off.
ReleaseInv == ~lost /\ held = {} => ~Flag

\* The console's flag follows the user's shift keys: when none is held and all
\* events have been read, it is off, unless the device dropped the release.
THEOREM ShiftAlwaysReleased == Spec => []ShiftReleased
<1>1. Init => ReleaseInv
  BY TranslationEmpty DEF Init, ReleaseInv, Flag, Acc
<1>2. KeyTypeOK /\ ReleaseInv /\ [Next]_vars => ReleaseInv'
  <2> SUFFICES ASSUME KeyTypeOK, ReleaseInv, [Next]_vars, lost' = FALSE, held' = {}
               PROVE  ~Flag'
    <3>1. KeyTypeOK /\ [Next]_vars => lost' \in BOOLEAN
      BY KeyTypeStep DEF KeyTypeOK
    <3> QED BY <3>1 DEF ReleaseInv
  <2>1. CASE Reads
    BY <2>1 DEF Reads, ReleaseInv
  <2>2. ASSUME NEW event, Does(event)
        PROVE  lost = FALSE /\ Flag' = FlagAfter(Flag, event)
    BY <2>2 DEF Does
  <2>3. ASSUME NEW code \in Shifts, Does(Event(EV_KEY, code, KEY_RELEASE))
        PROVE  ~Flag'
    <3>1. code \in {KEY_LEFTSHIFT, KEY_RIGHTSHIFT}
      BY KeyboardAssumption
    <3> QED BY <2>2, <2>3, <3>1, ShiftEvent
  <2>4. ASSUME NEW code \in Codes, NEW value \in {KEY_PRESS, KEY_REPEAT},
               held' = held, Does(Event(EV_KEY, code, value))
        PROVE  ~Flag'
    <3>1. FlagAfter(Flag, Event(EV_KEY, code, value)) = Flag
      BY StrokeEvent
    <3>2. Flag' = FlagAfter(Flag, Event(EV_KEY, code, value)) /\ ~lost
      BY <2>2, <2>4
    <3>3. ~Flag
      BY <2>4, <3>2 DEF ReleaseInv
    <3> QED BY <3>1, <3>2, <3>3
  <2>5. ASSUME NEW code \in Codes, held' = held, Does(Event(EV_KEY, code, KEY_RELEASE))
        PROVE  ~Flag'
    <3>1. FlagAfter(Flag, Event(EV_KEY, code, KEY_RELEASE)) = Flag
      BY ReleaseEvent
    <3>2. Flag' = FlagAfter(Flag, Event(EV_KEY, code, KEY_RELEASE)) /\ ~lost
      BY <2>2, <2>5
    <3>3. ~Flag
      BY <2>5, <3>2 DEF ReleaseInv
    <3> QED BY <3>1, <3>2, <3>3
  <2> QED BY <2>1, <2>3, <2>4, <2>5, StepKinds
<1>3. ReleaseInv => ShiftReleased
  BY TranslationEmpty DEF ReleaseInv, ShiftReleased, Flag, Acc
<1> QED BY <1>1, <1>2, <1>3, KeyboardTypeCorrect, PTL DEF Spec
LEMMA Appending ==
  ASSUME NEW S, NEW s \in Seq(S), NEW b \in S
  PROVE  /\ s \o <<>> = s
         /\ s \o Append(<<>>, b) = Append(s, b)
OBVIOUS

LEMMA PickedEmpty ==
  ASSUME NEW exactly
  PROVE  Picked(<<>>, <<>>, exactly)
<1> DEFINE none == <<>>
<1>1. DOMAIN none = {}
  OBVIOUS
<1> HIDE DEF none
<1>2. Picks([i \in {} |-> i], none, none, exactly)
  BY <1>1 DEF Picks
<1>3. Picked(none, none, exactly)
  BY <1>2 DEF Picked
<1> QED BY <1>3 DEF none

LEMMA LacksPicked ==
  ASSUME NEW s, NEW t, NEW w \in Seq(Keys \cup {0}), NEW exactly \in BOOLEAN,
         Lacks(s, t), Picked(t, w, exactly)
  PROVE  Picked(s, w, exactly)
<1> DEFINE S == Keys \cup {0}
<1>1. PICK u \in Seq(S), v \in Seq(S), b \in Keys : t = u \o (<<b>> \o v) /\ s = u \o v
  BY DEF Lacks
<1>2. b \in S /\ w \in Seq(S)
  OBVIOUS
<1> HIDE DEF S
<1>3. Picked(u \o v, w, exactly)
  BY <1>1, <1>2, PickedWithout
<1> QED BY <1>1, <1>3

\* The tables have a byte for a key with the shift key or for neither case.
LEMMA EitherCase ==
  ASSUME NEW code, NEW s \in BOOLEAN, NEW t \in BOOLEAN, map_keycode(code, s) = NoByte
  PROVE  map_keycode(code, t) = NoByte
<1>1. CASE code \in 2 .. 11
  <2>1. code - 1 \in 1 .. 10
    BY <1>1
  <2>2. \A i \in 1 .. 10 : SymbolRow[i] # NoByte /\ DigitRow[i] # NoByte
    BY DEF SymbolRow, DigitRow, NoByte
  <2> QED BY <1>1, <2>1, <2>2 DEF map_keycode
<1>2. CASE code \in (16 .. 25) \cup (30 .. 38) \cup (44 .. 50)
  <2>1. \A i \in 1 .. 10 : TopRow[i] \in 97 .. 122
    BY DEF TopRow
  <2>2. \A i \in 1 .. 9 : HomeRow[i] \in 97 .. 122
    BY DEF HomeRow
  <2>3. \A i \in 1 .. 7 : BottomRow[i] \in 97 .. 122
    BY DEF BottomRow
  <2>4. \A shift \in BOOLEAN : map_keycode(code, shift) = LetterOf(code, shift)
    BY <1>2 DEF map_keycode
  <2>5. \A shift \in BOOLEAN : LetterOf(code, shift) \in Nat
    <3>1. CASE code \in 16 .. 25
      <4>1. code - 15 \in 1 .. 10
        BY <3>1
      <4>2. TopRow[code - 15] \in 97 .. 122
        BY <2>1, <4>1
      <4> QED BY <3>1, <4>2 DEF LetterOf
    <3>2. CASE code \in 30 .. 38
      <4>1. code - 29 \in 1 .. 9
        BY <3>2
      <4>2. HomeRow[code - 29] \in 97 .. 122
        BY <2>2, <4>1
      <4> QED BY <3>2, <4>2 DEF LetterOf
    <3>3. CASE code \in 44 .. 50
      <4>1. code - 43 \in 1 .. 7
        BY <3>3
      <4>2. BottomRow[code - 43] \in 97 .. 122
        BY <2>3, <4>1
      <4> QED BY <3>3, <4>2 DEF LetterOf
    <3> QED BY <1>2, <3>1, <3>2, <3>3
  <2> QED BY <2>4, <2>5 DEF NoByte
<1>3. CASE ~(code \in 2 .. 11) /\ ~(code \in (16 .. 25) \cup (30 .. 38) \cup (44 .. 50))
  BY <1>3 DEF map_keycode
<1> QED BY <1>1, <1>2, <1>3

\* With one shift key the flag behind the queue is the user's key; what is on
\* the way is what was typed, or that with bytes left out.
OneShift == \A a, b \in Shifts : a = b

OrderInv ==
  OneShift /\ ~lost =>
    /\ Flag = (held # {})
    /\ Picked(OnTheWay, typed, TRUE)
    /\ ~refused => OnTheWay = typed

LossInv == Picked(OnTheWay, typed, FALSE)

\* One stroke adds its byte to what was typed and to what is on the way, or to
\* neither; the device may drop the latter.
LEMMA StrokeOrder ==
  ASSUME KeyTypeOK, NEW code \in Codes, NEW value \in {KEY_PRESS, KEY_REPEAT},
         Does(Event(EV_KEY, code, value)),
         typed' = (IF map_keycode(code, held # {}) = NoByte THEN typed
                   ELSE Append(typed, map_keycode(code, held # {})))
  PROVE  /\ LossInv => LossInv'
         /\ lost' = FALSE /\ Flag = (held # {}) /\ Picked(OnTheWay, typed, TRUE)
              => Picked(OnTheWay', typed', TRUE)
         /\ lost' = FALSE /\ Flag = (held # {}) /\ OnTheWay = typed => OnTheWay' = typed'
<1> DEFINE S == Keys \cup {0}
           meant == map_keycode(code, held # {})
           heard == map_keycode(code, Flag)
<1>1. OnTheWay \in Seq(S) /\ typed \in Seq(S) /\ Flag \in BOOLEAN
  BY WayType, FlagType DEF KeyTypeOK
<1>2. meant \in Keys \cup {NoByte} /\ heard \in Keys \cup {NoByte}
  <2>1. (held # {}) \in BOOLEAN
    OBVIOUS
  <2> QED BY <1>1, <2>1, KeyboardAssumption
<1>3. meant = NoByte <=> heard = NoByte
  <2>1. (held # {}) \in BOOLEAN
    OBVIOUS
  <2> QED BY <1>1, <2>1, EitherCase
<1>4. Agree(heard, meant, FALSE)
  <2>1. (held # {}) \in BOOLEAN
    OBVIOUS
  <2>2. {heard, meant} \subseteq {map_keycode(code, s) : s \in BOOLEAN}
    BY <1>1, <2>1
  <2>3. SameKey(heard, meant)
    BY <2>2 DEF SameKey
  <2> QED BY <2>3 DEF Agree
<1>5. Flag = (held # {}) => heard = meant
  OBVIOUS
<1>6. \/ lost' = lost /\ OnTheWay' = OnTheWay \o Made(Flag, Event(EV_KEY, code, value))
      \/ lost' = TRUE /\ OnTheWay' = OnTheWay
  BY DEF Does
<1>7. Made(Flag, Event(EV_KEY, code, value))
        = IF heard = NoByte THEN <<>> ELSE Append(<<>>, heard)
  BY StrokeEvent
<1>8. typed' = IF meant = NoByte THEN typed ELSE Append(typed, meant)
  OBVIOUS
<1> HIDE DEF meant, heard
<1>9. CASE meant = NoByte
  <2>1. OnTheWay' = OnTheWay /\ typed' = typed
    BY <1>1, <1>3, <1>6, <1>7, <1>8, <1>9
  <2> QED BY <2>1 DEF LossInv
<1>10. CASE meant # NoByte
  <2>1. meant \in S /\ heard \in S
    BY <1>2, <1>3, <1>10
  <2> HIDE DEF S
  <2>2. typed' = Append(typed, meant)
    BY <1>8, <1>10
  <2>3. CASE lost' = TRUE /\ OnTheWay' = OnTheWay
    <3>1. Picked(OnTheWay, typed, FALSE) => Picked(OnTheWay, Append(typed, meant), FALSE)
      BY <1>1, <2>1, PickedAppend
    <3> QED BY <2>2, <2>3, <3>1 DEF LossInv
  <2>4. CASE OnTheWay' = Append(OnTheWay, heard)
    <3>1. Picked(OnTheWay, typed, FALSE)
            => Picked(Append(OnTheWay, heard), Append(typed, meant), FALSE)
      BY <1>1, <1>4, <2>1, PickedAppend
    <3>2. Picked(OnTheWay, typed, TRUE) /\ heard = meant
            => Picked(Append(OnTheWay, heard), Append(typed, meant), TRUE)
      <4>1. heard = meant => Agree(heard, meant, TRUE)
        BY DEF Agree
      <4> QED BY <1>1, <2>1, <4>1, PickedAppend
    <3> QED BY <1>5, <2>2, <2>4, <3>1, <3>2 DEF LossInv
  <2>5. OnTheWay \o Append(<<>>, heard) = Append(OnTheWay, heard)
    BY <1>1, <2>1, Appending
  <2> QED BY <1>3, <1>6, <1>7, <1>10, <2>3, <2>4, <2>5
<1> QED BY <1>9, <1>10
LEMMA NothingYet ==
  ASSUME Init
  PROVE  OnTheWay = <<>> /\ typed = <<>>
<1>1. Waiting = 0
  BY DEF Init, RingInit, Waiting
<1>2. Contents = <<>>
  BY <1>1 DEF Contents
<1>3. Translated = <<>>
  BY TranslationEmpty DEF Init, Translated, Acc
<1> QED BY <1>2, <1>3 DEF Init, OnTheWay

LEMMA LossStep ==
  ASSUME KeyTypeOK, LossInv, [Next]_vars
  PROVE  LossInv'
<1>1. OnTheWay \in Seq(Keys \cup {0}) /\ typed \in Seq(Keys \cup {0})
  BY WayType DEF KeyTypeOK
<1>2. CASE Reads
  <2>1. CASE OnTheWay' = OnTheWay
    BY <1>2, <2>1 DEF Reads, LossInv
  <2>2. CASE Lacks(OnTheWay', OnTheWay)
    <3>1. Picked(OnTheWay', typed, FALSE)
      BY <1>1, <2>2, LacksPicked DEF LossInv
    <3> QED BY <1>2, <3>1 DEF Reads, LossInv
  <2> QED BY <1>2, <2>1, <2>2 DEF Reads
<1>3. ASSUME NEW event, Does(event), Made(Flag, event) = <<>>
      PROVE  OnTheWay' = OnTheWay
  BY <1>1, <1>3, Appending DEF Does
<1>4. ASSUME NEW code \in Shifts, NEW value, Does(Event(EV_KEY, code, value)), typed' = typed
      PROVE  LossInv'
  <2>1. code \in {KEY_LEFTSHIFT, KEY_RIGHTSHIFT}
    BY KeyboardAssumption
  <2>2. OnTheWay' = OnTheWay
    BY <1>3, <1>4, <2>1, ShiftEvent
  <2> QED BY <1>4, <2>2 DEF LossInv
<1>5. ASSUME NEW code \in Codes, Does(Event(EV_KEY, code, KEY_RELEASE)), typed' = typed
      PROVE  LossInv'
  <2>1. OnTheWay' = OnTheWay
    BY <1>3, <1>5, ReleaseEvent
  <2> QED BY <1>5, <2>1 DEF LossInv
<1>6. ASSUME NEW code \in Codes, NEW value \in {KEY_PRESS, KEY_REPEAT},
             Does(Event(EV_KEY, code, value)),
             typed' = (IF map_keycode(code, held # {}) = NoByte THEN typed
                       ELSE Append(typed, map_keycode(code, held # {})))
      PROVE  LossInv'
  BY <1>6, StrokeOrder
<1> QED BY <1>2, <1>4, <1>5, <1>6, StepKinds

\* Whatever the device drops and the ring refuses: the game gets keys that were
\* hit, in their order, none twice and none made up.
THEOREM LossOnlyCostsKeys == Spec => []LossOnlyCosts
<1>1. Init => LossInv
  <2> SUFFICES ASSUME Init PROVE LossInv
    OBVIOUS
  <2>1. OnTheWay = <<>> /\ typed = <<>>
    BY NothingYet
  <2> QED BY <2>1, PickedEmpty DEF LossInv
<1>2. KeyTypeOK /\ LossInv /\ [Next]_vars => LossInv'
  BY LossStep
<1>3. LossInv => LossOnlyCosts
  BY PickedMeans DEF LossInv, LossOnlyCosts
<1> QED BY <1>1, <1>2, <1>3, KeyboardTypeCorrect, PTL DEF Spec

LEMMA OrderStep ==
  ASSUME KeyTypeOK, OrderInv, [Next]_vars
  PROVE  OrderInv'
<1> SUFFICES ASSUME OneShift, lost' = FALSE
             PROVE  /\ Flag' = (held' # {})
                    /\ Picked(OnTheWay', typed', TRUE)
                    /\ ~refused' => OnTheWay' = typed'
  <2>1. lost' \in BOOLEAN
    BY KeyTypeStep DEF KeyTypeOK
  <2> QED BY <2>1 DEF OrderInv, OneShift
<1>1. OnTheWay \in Seq(Keys \cup {0}) /\ typed \in Seq(Keys \cup {0}) /\ lost \in BOOLEAN
  BY WayType DEF KeyTypeOK
<1>2. lost = FALSE =>
        /\ Flag = (held # {})
        /\ Picked(OnTheWay, typed, TRUE)
        /\ ~refused => OnTheWay = typed
  BY DEF OrderInv
<1>3. CASE Reads
  <2>1. lost = FALSE /\ Flag' = Flag /\ held' = held /\ typed' = typed
    BY <1>3 DEF Reads
  <2>2. CASE OnTheWay' = OnTheWay /\ refused' = refused
    BY <1>2, <2>1, <2>2
  <2>3. CASE Lacks(OnTheWay', OnTheWay) /\ refused' = TRUE
    <3>1. Picked(OnTheWay', typed, TRUE)
      BY <1>1, <1>2, <2>1, <2>3, LacksPicked
    <3> QED BY <1>2, <2>1, <2>3, <3>1
  <2> QED BY <1>3, <2>2, <2>3 DEF Reads
<1>4. ASSUME NEW event, Does(event)
      PROVE  /\ lost = FALSE /\ refused' = refused
             /\ Flag' = FlagAfter(Flag, event)
             /\ Made(Flag, event) = <<>> => OnTheWay' = OnTheWay
  <2>1. lost' = lost => OnTheWay' = OnTheWay \o Made(Flag, event)
    BY <1>4 DEF Does
  <2> QED BY <1>1, <1>4, Appending DEF Does
<1>5. ASSUME NEW code \in Shifts, Does(Event(EV_KEY, code, KEY_PRESS)),
             typed' = typed, held' # {}
      PROVE  /\ Flag' = (held' # {})
             /\ Picked(OnTheWay', typed', TRUE)
             /\ ~refused' => OnTheWay' = typed'
  <2>1. code \in {KEY_LEFTSHIFT, KEY_RIGHTSHIFT}
    BY KeyboardAssumption
  <2>2. OnTheWay' = OnTheWay /\ Flag' = (KEY_PRESS # KEY_RELEASE) /\ refused' = refused
    BY <1>4, <1>5, <2>1, ShiftEvent
  <2>3. Flag' = TRUE
    <3>1. (KEY_PRESS # KEY_RELEASE) = TRUE
      BY DEF KEY_PRESS, KEY_RELEASE
    <3> QED BY <2>2, <3>1
  <2> QED BY <1>2, <1>4, <1>5, <2>2, <2>3
<1>6. ASSUME NEW code \in Shifts, Does(Event(EV_KEY, code, KEY_RELEASE)),
             typed' = typed, code \in held, held' = held \ {code}
      PROVE  /\ Flag' = (held' # {})
             /\ Picked(OnTheWay', typed', TRUE)
             /\ ~refused' => OnTheWay' = typed'
  <2>1. code \in {KEY_LEFTSHIFT, KEY_RIGHTSHIFT}
    BY KeyboardAssumption
  <2>2. OnTheWay' = OnTheWay /\ Flag' = FALSE /\ refused' = refused
    BY <1>4, <1>6, <2>1, ShiftEvent
  <2>3. held' = {}
    BY <1>6 DEF KeyTypeOK, OneShift
  <2> QED BY <1>2, <1>4, <1>6, <2>2, <2>3
<1>7. ASSUME NEW code \in Codes, Does(Event(EV_KEY, code, KEY_RELEASE)),
             typed' = typed, held' = held
      PROVE  /\ Flag' = (held' # {})
             /\ Picked(OnTheWay', typed', TRUE)
             /\ ~refused' => OnTheWay' = typed'
  <2>1. OnTheWay' = OnTheWay /\ Flag' = Flag /\ refused' = refused
    BY <1>4, <1>7, ReleaseEvent
  <2> QED BY <1>2, <1>4, <1>7, <2>1
<1>8. ASSUME NEW code \in Codes, NEW value \in {KEY_PRESS, KEY_REPEAT},
             Does(Event(EV_KEY, code, value)), held' = held,
             typed' = (IF map_keycode(code, held # {}) = NoByte THEN typed
                       ELSE Append(typed, map_keycode(code, held # {})))
      PROVE  /\ Flag' = (held' # {})
             /\ Picked(OnTheWay', typed', TRUE)
             /\ ~refused' => OnTheWay' = typed'
  <2>1. Flag' = Flag /\ refused' = refused /\ lost = FALSE
    <3>1. FlagAfter(Flag, Event(EV_KEY, code, value)) = Flag
      BY StrokeEvent
    <3> QED BY <1>4, <1>8, <3>1
  <2>2. /\ lost' = FALSE /\ Flag = (held # {}) /\ Picked(OnTheWay, typed, TRUE)
             => Picked(OnTheWay', typed', TRUE)
        /\ lost' = FALSE /\ Flag = (held # {}) /\ OnTheWay = typed => OnTheWay' = typed'
    BY <1>8, StrokeOrder
  <2> QED BY <1>2, <1>8, <2>1, <2>2
<1> QED BY <1>3, <1>5, <1>6, <1>7, <1>8, StepKinds

\* With one shift key (the code keeps one flag for two): as long as the device
\* drops nothing, the game gets exactly what the user meant, letter case
\* included, in order and once each; a full ring only leaves bytes out.
THEOREM KeysAlwaysInOrder == OneShift => (Spec => []KeysInOrder)
<1> SUFFICES ASSUME OneShift PROVE Spec => []KeysInOrder
  OBVIOUS
<1>1. Init => OrderInv
  <2> SUFFICES ASSUME Init PROVE OrderInv
    OBVIOUS
  <2>1. OnTheWay = <<>> /\ typed = <<>>
    BY NothingYet
  <2>2. Flag = FALSE /\ held = {}
    BY TranslationEmpty DEF Init, Flag, Acc
  <2> QED BY <2>1, <2>2, PickedEmpty DEF OrderInv
<1>2. KeyTypeOK /\ OrderInv /\ [Next]_vars => OrderInv'
  BY OrderStep
<1>3. KeyTypeOK /\ OrderInv => KeysInOrder
  <2> SUFFICES ASSUME KeyTypeOK, OrderInv, ~lost
               PROVE  IF refused
                      THEN LeavesOutOf(OnTheWay, typed, LAMBDA a, b : a = b)
                      ELSE OnTheWay = typed
    BY DEF KeysInOrder
  <2>1. Picked(OnTheWay, typed, TRUE) /\ (~refused => OnTheWay = typed)
    BY DEF OrderInv
  <2>2. LeavesOutOf(OnTheWay, typed, LAMBDA a, b : a = b)
    BY <2>1, PickedMeans
  <2> QED BY <2>1, <2>2
<1> QED BY <1>1, <1>2, <1>3, KeyboardTypeCorrect, PTL DEF Spec
=============================================================================
