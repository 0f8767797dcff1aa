-------------------------------- MODULE Boot --------------------------------
(***************************************************************************)
(* From kmain to the end of the machine: the probe of the VirtIO slots,    *)
(* the drivers of the GPU and the keyboard with the DMA memory they take,  *)
(* the choice between the framebuffer and the serial console, the game,    *)
(* and the shutdown that both its end and a panic lead to.                 *)
(***************************************************************************)
EXTENDS Integers, FiniteSets

CONSTANTS
  MMIO_COUNT,      \* slots: 8 as shipped
  Machines,        \* what may sit in the slots
  DMA_POOL_SIZE,   \* in pages: 512 as shipped
  Requests         \* the sizes in which drivers take memory

Slots == 0 .. MMIO_COUNT - 1

\* A slot without the magic number, with the device of another driver, with a
\* device that works, or with a GPU or input device whose transport does not
\* open.
SlotKind == {"absent", "other", "gpu", "keyboard", "mouse", "broken"}

\* DeviceType::Input: a keyboard and a mouse have one device number.
Input == {"keyboard", "mouse"}

ASSUME BootAssumption ==
  /\ MMIO_COUNT \in Nat
  /\ Machines \subseteq [Slots -> SlotKind]
  /\ DMA_POOL_SIZE \in Nat
  /\ Requests \subseteq Nat \ {0}

NoSlot == -1

VARIABLES
  pc,          \* where kmain is
  machine,     \* the slots' contents
  index,       \* of the probe's loop
  gpu, input,  \* the slots chosen, or NoSlot
  error,       \* GraphicsInitError, "none" so far
  dma_next,    \* DMA_NEXT
  blocks,      \* the memory handed out, as <<first page, pages>>
  console      \* the one the game runs on

found == <<gpu, input>>
dma == <<dma_next, blocks>>
bvars == <<pc, machine, index, found, error, dma, console>>

Init ==
  /\ pc = "probe"
  /\ machine \in Machines
  /\ index = 0
  /\ gpu = NoSlot
  /\ input = NoSlot
  /\ error = "none"
  /\ dma_next = 0
  /\ blocks = {}
  /\ console = "none"

-----------------------------------------------------------------------------
(* FramebufferConsole::new.                                                *)

\* Any error ends it, and kmain goes on with the serial console.
Fail(kind) == error' = kind /\ pc' = "chosen"

Probing == pc = "probe" /\ index \in Slots /\ (gpu = NoSlot \/ input = NoSlot)

\* Mutant: an empty slot is looked at again.
after_empty == index

after_slot == index + 1

\* Nothing there for the probe.
SkipSlot ==
  /\ Probing
  /\ machine[index] \in {"absent", "other"}
  /\ index' = after_slot
  /\ UNCHANGED <<pc, machine, found, error, dma, console>>

BrokenSlot ==
  /\ Probing
  /\ machine[index] = "broken"
  /\ Fail("Transport")
  /\ UNCHANGED <<machine, index, found, dma, console>>

\* Mutant: the last device of a kind is taken.
kept_last(slot) == index

\* The first device of a kind is taken, a further one is dropped.
kept(slot) == IF slot = NoSlot THEN index ELSE slot

WorkingSlot ==
  /\ Probing
  /\ machine[index] \in {"gpu"} \cup Input
  /\ IF machine[index] = "gpu"
     THEN gpu' = kept(gpu) /\ UNCHANGED input
     ELSE input' = kept(input) /\ UNCHANGED gpu
  /\ index' = index + 1
  /\ UNCHANGED <<pc, machine, error, dma, console>>

ProbeEnds ==
  /\ pc = "probe"
  /\ ~Probing
  /\ \/ gpu = NoSlot /\ Fail("MissingGpu")
     \/ gpu # NoSlot /\ input = NoSlot /\ Fail("MissingKeyboard")
     \/ gpu # NoSlot /\ input # NoSlot /\ pc' = "new gpu" /\ UNCHANGED error
  /\ UNCHANGED <<machine, index, found, dma, console>>

\* The drivers' three calls, in order, and where kmain is after them.
Driving == {"new gpu", "new input", "change resolution"}
AfterDriver ==
  CASE pc = "new gpu" -> "new input"
    [] pc = "new input" -> "change resolution"
    [] pc = "change resolution" -> "chosen"

\* Mutant: a block of memory is not counted.
taken_none(pages) == 0

taken(pages) == pages

\* A driver takes memory, which it never gives back: the pool's counter only
\* grows, and the assertion that stands behind it panics.
dma_alloc(pages) ==
  /\ pc \in Driving
  /\ dma_next' = dma_next + taken(pages)
  /\ IF dma_next' <= DMA_POOL_SIZE
     THEN blocks' = blocks \cup {<<dma_next, pages>>} /\ UNCHANGED pc
     ELSE pc' = "panic" /\ UNCHANGED blocks
  /\ UNCHANGED <<machine, index, found, error, console>>

DriverDone ==
  /\ pc \in Driving
  /\ pc' = AfterDriver
  /\ UNCHANGED <<machine, index, found, error, dma, console>>

DriverRefuses ==
  /\ pc \in Driving
  /\ Fail("Driver")
  /\ UNCHANGED <<machine, index, found, dma, console>>

-----------------------------------------------------------------------------
(* kmain and the ends of the machine.                                      *)

StartGame ==
  /\ pc = "chosen"
  /\ pc' = "game"
  /\ console' = IF error = "none" THEN "framebuffer" ELSE "serial"
  /\ UNCHANGED <<machine, index, found, error, dma>>

\* main_loop returns when the player quits.
GameReturns ==
  /\ pc = "game"
  /\ pc' = "shutdown"
  /\ UNCHANGED <<machine, index, found, error, dma, console>>

\* Mutant: the panic handler spins where it is.
spins == "panic"

shuts_down == "shutdown"

on_panic ==
  /\ pc = "panic"
  /\ pc' = shuts_down
  /\ UNCHANGED <<machine, index, found, error, dma, console>>

\* The firmware switches the machine off, or refuses and the kernel spins.
shutdown ==
  /\ pc = "shutdown"
  /\ pc' \in {"off", "spin"}
  /\ UNCHANGED <<machine, index, found, error, dma, console>>

Spin == pc = "spin" /\ UNCHANGED bvars

\* What the kernel and its drivers do by themselves.
Kernel ==
  \/ SkipSlot \/ BrokenSlot \/ WorkingSlot \/ ProbeEnds
  \/ \E pages \in Requests : dma_alloc(pages)
  \/ DriverDone \/ DriverRefuses
  \/ StartGame \/ on_panic \/ shutdown

Next == Kernel \/ GameReturns \/ Spin

\* A single hart runs nothing else; the player need not quit.
Spec == Init /\ [][Next]_bvars /\ WF_bvars(Kernel)

-----------------------------------------------------------------------------

SlotsOf(kinds) == {i \in Slots : machine[i] \in kinds}
IsFirst(i, kinds) == i \in SlotsOf(kinds) /\ \A j \in SlotsOf(kinds) : i <= j

\* The slots up to the one that completes the pair; all of them if none does.
SlotsNeeded ==
  {i \in Slots : \/ \A j \in SlotsOf({"gpu"}) : i <= j
                 \/ \A j \in SlotsOf(Input) : i <= j}

\* Some keyboard sits in a slot before every mouse.
KeyboardFirst ==
  \E i \in SlotsOf({"keyboard"}) : \A j \in SlotsOf({"mouse"}) : i < j

\* The drivers get the first GPU and, where no mouse sits before it, the first
\* keyboard; a keyboard is reported missing only where there is none; and the
\* game runs on the serial console only because a kind is missing, a broken
\* transport came before the pair was complete, or a driver refused
\* (find_virtio_mmio_devices, FramebufferConsole::new, kmain).
PairOrCause ==
  /\ pc \in Driving \/ console = "framebuffer" =>
       IsFirst(gpu, {"gpu"}) /\ (KeyboardFirst => IsFirst(input, {"keyboard"}))
  /\ pc \notin {"probe"} =>
       /\ error = "Transport" <=> SlotsOf({"broken"}) \cap SlotsNeeded # {}
       /\ error = "MissingGpu" => SlotsOf({"gpu"}) = {}
       /\ error = "MissingKeyboard" =>
            SlotsOf({"gpu"}) # {} /\ SlotsOf({"keyboard"}) = {}
  /\ console # "none" => (console = "serial" <=> error # "none")

\* The game on the framebuffer reads a keyboard: a machine without one is
\* reported as "virtio-keyboard device not found" and played on the serial
\* line, as the README and the text of MissingKeyboard promise
\* (find_virtio_mmio_devices, GraphicsInitError).
KeyboardFound ==
  console = "framebuffer" => machine[input] = "keyboard"

Pages(block) == block[1] .. block[1] + block[2] - 1

\* However the drivers take their memory, no page is handed out twice and none
\* beyond the pool, also on the way into the panic (KernelHal::dma_alloc).
BlocksApart ==
  \A b, c \in blocks :
    /\ Pages(b) \subseteq 0 .. DMA_POOL_SIZE - 1
    /\ b # c => Pages(b) \cap Pages(c) = {}

\* The boot always comes to an end: a game on one console or the other, or a
\* panic, never an endless probe.
BootEnds == <>(pc \in {"game", "panic"})

\* A game that returns and a panic both leave the machine off, or spinning
\* where the firmware refused.
PowersDown == pc \in {"shutdown", "panic"} ~> pc \in {"off", "spin"}
=============================================================================
