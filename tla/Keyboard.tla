------------------------------ MODULE Keyboard ------------------------------
(***************************************************************************)
(* From the keys the user hits to the bytes the game reads.  Three parties *)
(* take turns: the user, whose events the virtio device puts into its      *)
(* queue at any moment; the game, which computes, prints and asks for a    *)
(* key; and read_byte_blocking, which polls the device, keeps the keys in  *)
(* the ring and hands out one of them.  There are no interrupts: the queue *)
(* is only looked at while the game is asking.                             *)
(***************************************************************************)
EXTENDS Keymap, KeyRing

CONSTANTS
  Codes,       \* the ordinary keys the user hits
  Shifts,      \* the shift keys the user has
  DeviceRoom,  \* events the device can queue before it must drop
  MaxEvents    \* how many times the user hits or lets go of a key

EV_SYN == 0
EV_KEY == 1
KEY_RELEASE == 0
KEY_PRESS   == 1
KEY_REPEAT  == 2
KEY_LEFTSHIFT  == 42
KEY_RIGHTSHIFT == 54

ASSUME KeyboardAssumption ==
  /\ Shifts \subseteq {KEY_LEFTSHIFT, KEY_RIGHTSHIFT}
  /\ Codes \cap {KEY_LEFTSHIFT, KEY_RIGHTSHIFT} = {}
  /\ \A code \in Codes, shift \in BOOLEAN :
       map_keycode(code, shift) \in Keys \cup {NoByte}

VARIABLES
  held,        \* the shift keys the user is holding
  hits,        \* events so far, at most MaxEvents
  pending,     \* the device's queue
  lost,        \* the device has dropped an event
  shift_down,
  pc,          \* "busy": not asking; "poll": in poll_input; "take"
  typed,       \* the bytes the user means, in order
  refused,     \* the ring has refused a key
  returned     \* the bytes the game has been given

user == <<held, hits, lost, typed>>
vars == <<user, pending, rvars, shift_down, pc, refused, returned>>

Event(type, code, value) == [type |-> type, code |-> code, value |-> value]

Init ==
  /\ held = {}
  /\ hits = 0
  /\ pending = <<>>
  /\ lost = FALSE
  /\ RingInit
  /\ shift_down = FALSE
  /\ pc = "busy"
  /\ typed = <<>>
  /\ refused = FALSE
  /\ returned = <<>>

-----------------------------------------------------------------------------
(* The user and the device.                                                *)

\* The device queues a key event and the report mark behind it, or drops
\* both when it has no room.
Deliver(event) ==
  /\ hits < MaxEvents
  /\ hits' = hits + 1
  /\ IF Len(pending) + 2 <= DeviceRoom
     THEN /\ pending' = pending \o <<event, Event(EV_SYN, 0, 0)>>
          /\ UNCHANGED lost
     ELSE lost' = TRUE /\ UNCHANGED pending
  /\ UNCHANGED <<rvars, shift_down, pc, refused, returned>>

HoldShift(code) ==
  /\ code \notin held
  /\ held' = held \cup {code}
  /\ Deliver(Event(EV_KEY, code, KEY_PRESS))
  /\ UNCHANGED typed

ReleaseShift(code) ==
  /\ code \in held
  /\ held' = held \ {code}
  /\ Deliver(Event(EV_KEY, code, KEY_RELEASE))
  /\ UNCHANGED typed

\* A press, or a key kept down until it repeats; the user means the letter
\* the shift keys make of it now.
HitKey(code, value) ==
  /\ Deliver(Event(EV_KEY, code, value))
  /\ LET byte == map_keycode(code, held # {})
     IN  typed' = IF byte = NoByte THEN typed ELSE Append(typed, byte)
  /\ UNCHANGED held

LetGo(code) ==
  /\ Deliver(Event(EV_KEY, code, KEY_RELEASE))
  /\ UNCHANGED <<held, typed>>

-----------------------------------------------------------------------------
(* The console.                                                            *)

\* The game is done drawing and calls read_byte_blocking.
AskForKey ==
  /\ pc = "busy"
  /\ pc' = "poll"
  /\ UNCHANGED <<user, pending, rvars, shift_down, refused, returned>>

IsShift(event) == event.code \in {KEY_LEFTSHIFT, KEY_RIGHTSHIFT}

\* Mutant: a shift key counts as down as soon as it is heard of.
ShiftLatches(event) == TRUE

ShiftAfter(event) == event.value # KEY_RELEASE

\* Mutant: every event of a key is a stroke, its release too.
StrokeOrRelease(event) == event.type = EV_KEY /\ ~IsShift(event)

IsStroke(event) ==
  /\ event.type = EV_KEY
  /\ ~IsShift(event)
  /\ event.value \in {KEY_PRESS, KEY_REPEAT}

\* process_event: shift keys are remembered, strokes of mapped keys buffered,
\* all else ignored.
process_event(event) ==
  /\ shift_down' = IF event.type = EV_KEY /\ IsShift(event)
                     THEN ShiftAfter(event) ELSE shift_down
  /\ LET byte == map_keycode(event.code, shift_down)
     IN  IF IsStroke(event) /\ byte # NoByte
         THEN enqueue_key(byte) /\ refused' = (refused \/ Full)
         ELSE UNCHANGED <<rvars, refused>>

\* One turn of poll_input's loop; it ends at the first empty queue it sees.
PollEvent ==
  /\ pc = "poll"
  /\ pending # <<>>
  /\ process_event(Head(pending))
  /\ pending' = Tail(pending)
  /\ UNCHANGED <<user, pc, returned>>

PollEnds ==
  /\ pc = "poll"
  /\ pending = <<>>
  /\ pc' = "take"
  /\ UNCHANGED <<user, pending, rvars, shift_down, refused, returned>>

\* Mutant: the poll stands before the loop and not in it.
TakeAgain == "take"

PollAgain == "poll"

\* Hand out a key, or poll again.
TakeKey ==
  /\ pc = "take"
  /\ dequeue_key
  /\ returned' = returned \o taken'
  /\ pc' = IF taken' = <<>> THEN PollAgain ELSE "busy"
  /\ UNCHANGED <<user, pending, shift_down, refused>>

Read == PollEvent \/ PollEnds \/ TakeKey

Next ==
  \/ \E code \in Shifts : HoldShift(code) \/ ReleaseShift(code)
  \/ \E code \in Codes : \E value \in {KEY_PRESS, KEY_REPEAT} : HitKey(code, value)
  \/ \E code \in Codes : LetGo(code)
  \/ AskForKey
  \/ Read

\* The console spins while it waits; the user and the game owe nothing.
Spec == Init /\ [][Next]_vars /\ WF_vars(Read)

-----------------------------------------------------------------------------

\* The shift flag and the bytes so far, after one more event.
Heard(acc, event) ==
  LET byte == map_keycode(event.code, acc.shift)
  IN  [shift |-> IF event.type = EV_KEY /\ IsShift(event)
                   THEN event.value # KEY_RELEASE ELSE acc.shift,
       bytes |-> IF IsStroke(event) /\ byte # NoByte
                   THEN Append(acc.bytes, byte) ELSE acc.bytes]

\* What the events make of the flag, and the bytes they make.
Translation(events, shift) ==
  LET after[n \in 0 .. Len(events)] ==
        IF n = 0 THEN [shift |-> shift, bytes |-> <<>>]
        ELSE Heard(after[n - 1], events[n])
  IN  after[Len(events)]

\* The bytes the events still in the device's queue will make.
Translated == Translation(pending, shift_down).bytes

\* s is t with elements left out, up to Same.
LeavesOutOf(s, t, Same(_, _)) ==
  \E f \in [DOMAIN s -> DOMAIN t] :
    /\ \A i, j \in DOMAIN s : i < j => f[i] < f[j]
    /\ \A i \in DOMAIN s : Same(s[i], t[f[i]])

\* What the game has, will take from the ring and will make of the queue.
OnTheWay == returned \o Contents \o Translated

\* As long as the device drops nothing, the game is given the bytes the user
\* meant, in order and once each: those it has, those in the ring and those
\* still in the queue together are what was typed.  A full ring leaves bytes
\* out and changes nothing else (process_event, enqueue_key, dequeue_key).
\* This is claimed for a user with one shift key: shift_down is one flag, and
\* releasing one of two shift keys clears it while the other is held.
KeysInOrder ==
  ~lost => IF refused
           THEN LeavesOutOf(OnTheWay, typed, LAMBDA a, b : a = b)
           ELSE OnTheWay = typed

SameKey(a, b) ==
  \E code \in Codes : {a, b} \subseteq {map_keycode(code, s) : s \in BOOLEAN}

\* Whatever the device drops, a release of shift included, and whatever the
\* full ring refuses, the game only ever gets keys that were hit, in their
\* order and no more often than they were hit: a loss costs keys and at worst
\* their case, it never makes up a move (process_event).
LossOnlyCosts == LeavesOutOf(OnTheWay, typed, SameKey)

\* Once everything the device queued has been seen and no shift key is held,
\* the console does not believe that one is (unless the device dropped the
\* release).
ShiftReleased == ~lost /\ pending = <<>> /\ held = {} => ~shift_down

\* A game that asks gets an answer if a key is waiting anywhere: the poll
\* loop empties the queue of a user who stops typing and takes a key from
\* the ring.
Answered ==
  (pc # "busy" /\ Contents \o Translated # <<>>) ~> (pc = "busy")
=============================================================================
