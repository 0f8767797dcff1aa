----------------------------- MODULE BootProofs -----------------------------
(***************************************************************************)
(* The probe and the DMA pool of Boot for any number of slots, any machine *)
(* and any pool.                                                           *)
(***************************************************************************)
EXTENDS Boot, TLAPS

-----------------------------------------------------------------------------
(* The DMA pool.                                                           *)

\* What has been handed out lies in the pool and below the counter.
PoolInv ==
  /\ dma_next \in Nat
  /\ \A b \in blocks :
       /\ b \in Nat \X Nat
       /\ b[1] + b[2] <= dma_next
       /\ b[1] + b[2] <= DMA_POOL_SIZE
  /\ BlocksApart

\* The pool stays in order when a driver takes memory (KernelHal::dma_alloc).
LEMMA AllocKeepsApart ==
  ASSUME PoolInv, NEW pages \in Requests, dma_alloc(pages)
  PROVE  PoolInv'
<1>1. pages \in Nat \ {0} /\ DMA_POOL_SIZE \in Nat
  BY BootAssumption
<1>2. dma_next \in Nat /\ dma_next' = dma_next + pages
  BY DEF PoolInv, dma_alloc, taken
<1>3. CASE dma_next' <= DMA_POOL_SIZE
  <2> DEFINE new == <<dma_next, pages>>
  <2>1. blocks' = blocks \cup {new}
    BY <1>3 DEF dma_alloc
  <2>2. \A b \in blocks' :
          /\ b \in Nat \X Nat
          /\ b[1] + b[2] <= dma_next'
          /\ b[1] + b[2] <= DMA_POOL_SIZE
    BY <1>1, <1>2, <1>3, <2>1 DEF PoolInv
  <2>3. \A b \in blocks : Pages(b) \cap Pages(new) = {}
    <3> SUFFICES ASSUME NEW b \in blocks, NEW p \in Pages(b), p \in Pages(new)
                 PROVE  FALSE
      OBVIOUS
    <3>1. b[1] \in Nat /\ b[2] \in Nat /\ b[1] + b[2] <= dma_next
      BY DEF PoolInv
    <3> QED
      BY <1>1, <1>2, <3>1 DEF Pages
  <2>4. ASSUME NEW b \in blocks' PROVE Pages(b) \subseteq 0 .. DMA_POOL_SIZE - 1
    <3>1. b[1] \in Nat /\ b[2] \in Nat /\ b[1] + b[2] <= DMA_POOL_SIZE
      BY <2>2
    <3> QED
      BY <1>1, <3>1 DEF Pages
  <2>5. ASSUME NEW b \in blocks', NEW c \in blocks', b # c
        PROVE  Pages(b) \cap Pages(c) = {}
    BY <2>1, <2>3, <2>5 DEF PoolInv, BlocksApart
  <2>6. BlocksApart'
    BY <2>4, <2>5 DEF BlocksApart, Pages
  <2> QED
    BY <1>1, <1>2, <2>2, <2>6 DEF PoolInv
<1>4. CASE ~(dma_next' <= DMA_POOL_SIZE)
  <2>1. blocks' = blocks
    BY <1>4 DEF dma_alloc
  <2>2. BlocksApart'
    BY <2>1 DEF PoolInv, BlocksApart, Pages
  <2> QED
    BY <1>1, <1>2, <2>1, <2>2 DEF PoolInv
<1> QED
  BY <1>3, <1>4

\* Nothing else touches the pool.
LEMMA OthersLeavePool ==
  ASSUME PoolInv, UNCHANGED dma
  PROVE  PoolInv'
BY DEF PoolInv, BlocksApart, Pages, dma

\* No page of DMA memory is handed out twice or lies beyond the pool, whatever
\* the drivers ask for (KernelHal::dma_alloc).
THEOREM PagesApart == Spec => []BlocksApart
<1>1. Init => PoolInv
  BY DEF Init, PoolInv, BlocksApart
<1>2. PoolInv /\ [Next]_bvars => PoolInv'
  <2> SUFFICES ASSUME PoolInv, [Next]_bvars PROVE PoolInv'
    OBVIOUS
  <2>1. CASE \E pages \in Requests : dma_alloc(pages)
    BY <2>1, AllocKeepsApart
  <2>2. CASE SkipSlot \/ BrokenSlot \/ WorkingSlot \/ ProbeEnds
    BY <2>2, OthersLeavePool
       DEF SkipSlot, BrokenSlot, WorkingSlot, ProbeEnds
  <2>3. CASE DriverDone \/ DriverRefuses \/ StartGame \/ on_panic \/ shutdown
    BY <2>3, OthersLeavePool
       DEF DriverDone, DriverRefuses, StartGame, on_panic, shutdown
  <2>4. CASE GameReturns \/ Spin \/ UNCHANGED bvars
    BY <2>4, OthersLeavePool DEF GameReturns, Spin, bvars
  <2> QED
    BY <2>1, <2>2, <2>3, <2>4 DEF Next, Kernel
<1>3. PoolInv => BlocksApart
  BY DEF PoolInv
<1> QED
  BY <1>1, <1>2, <1>3, PTL DEF Spec
-----------------------------------------------------------------------------
(* The probe.                                                              *)

Errors == {"none", "Transport", "MissingGpu", "MissingKeyboard", "Driver"}

ProbeTypes ==
  /\ machine \in [Slots -> SlotKind]
  /\ index \in 0 .. MMIO_COUNT
  /\ gpu \in Slots \cup {NoSlot}
  /\ input \in Slots \cup {NoSlot}
  /\ error \in Errors

\* A variable of the probe holds the first device of a kind among the slots
\* looked at.
HoldsFirst(slot, kinds) ==
  /\ slot # NoSlot => slot < index /\ machine[slot] \in kinds
  /\ \A j \in Slots : j < index /\ machine[j] \in kinds => slot # NoSlot /\ slot <= j

\* The probe found nothing broken so far.
Scanned ==
  /\ HoldsFirst(gpu, {"gpu"})
  /\ HoldsFirst(input, Input)
  /\ \A j \in Slots : j < index => machine[j] # "broken"

\* What kmain's position and the error say of the probe.
ProbeOutcome ==
  /\ pc = "probe" => error = "none"
  /\ pc # "probe" /\ error # "Transport" =>
       index \notin Slots \/ (gpu # NoSlot /\ input # NoSlot)
  /\ pc # "probe" /\ error = "none" => gpu # NoSlot /\ input # NoSlot
  /\ pc \in Driving => error = "none"
  /\ error = "Transport" =>
       /\ index \in Slots /\ machine[index] = "broken"
       /\ gpu = NoSlot \/ input = NoSlot
  /\ error = "MissingGpu" => gpu = NoSlot
  /\ error = "MissingKeyboard" => gpu # NoSlot /\ input = NoSlot
  /\ pc \in {"probe", "chosen"} \cup Driving => console = "none"
  /\ console # "none" => pc # "probe" /\ (console = "serial" <=> error # "none")

ProbeInv == ProbeTypes /\ Scanned /\ ProbeOutcome

USE DEF NoSlot

\* The invariant says what PairOrCause asks for: the first input device is the
\* first keyboard where no mouse comes before it, and a broken slot before the
\* pair is complete is the one the probe stopped at.
LEMMA ProbeInvPair == ProbeInv => PairOrCause
<1> SUFFICES ASSUME ProbeInv PROVE PairOrCause
  OBVIOUS
<1>1. MMIO_COUNT \in Nat
  BY BootAssumption
<1>2. ASSUME pc \in Driving \/ console = "framebuffer"
      PROVE  IsFirst(gpu, {"gpu"}) /\ (KeyboardFirst => IsFirst(input, {"keyboard"}))
  <2>1. gpu # NoSlot /\ input # NoSlot
    BY <1>2 DEF ProbeInv, ProbeOutcome, ProbeTypes, Driving
  <2>2. IsFirst(gpu, {"gpu"}) /\ IsFirst(input, Input)
    BY <1>1, <2>1
       DEF ProbeInv, ProbeTypes, Scanned, HoldsFirst, IsFirst, SlotsOf, Slots
  <2>3. ASSUME KeyboardFirst PROVE IsFirst(input, {"keyboard"})
    <3>1. PICK i \in SlotsOf({"keyboard"}) : \A j \in SlotsOf({"mouse"}) : i < j
      BY <2>3 DEF KeyboardFirst
    <3>2. /\ i \in SlotsOf(Input) /\ SlotsOf({"keyboard"}) \subseteq SlotsOf(Input)
          /\ i \in Int /\ input \in Int
      BY <1>1, <2>2, <3>1 DEF SlotsOf, Input, Slots, IsFirst
    <3>3. input <= i
      BY <2>2, <3>2 DEF IsFirst
    <3>4. input \notin SlotsOf({"mouse"})
      BY <3>1, <3>2, <3>3
    <3>5. input \in SlotsOf({"keyboard"})
      BY <2>2, <3>4 DEF IsFirst, SlotsOf, Input
    <3> QED BY <2>2, <3>2, <3>5 DEF IsFirst
  <2> QED BY <2>2, <2>3
<1>3. ASSUME error = "Transport"
      PROVE  SlotsOf({"broken"}) \cap SlotsNeeded # {}
  <2>1. index \in Slots /\ machine[index] = "broken"
    BY <1>3 DEF ProbeInv, ProbeOutcome
  <2>2. index \in SlotsNeeded
    <3>1. CASE gpu = NoSlot
      <4>1. \A j \in SlotsOf({"gpu"}) : index <= j
        BY <1>1, <3>1 DEF ProbeInv, ProbeTypes, Scanned, HoldsFirst, SlotsOf, Slots
      <4> QED
        BY <2>1, <4>1 DEF SlotsNeeded
    <3>2. CASE input = NoSlot
      <4>1. \A j \in SlotsOf(Input) : index <= j
        BY <1>1, <3>2 DEF ProbeInv, ProbeTypes, Scanned, HoldsFirst, SlotsOf, Slots
      <4> QED
        BY <2>1, <4>1 DEF SlotsNeeded
    <3> QED
      BY <1>3, <3>1, <3>2 DEF ProbeInv, ProbeOutcome
  <2> QED
    BY <2>1, <2>2 DEF SlotsOf
<1>4. ASSUME pc # "probe", error # "Transport",
             NEW b \in SlotsOf({"broken"}), b \in SlotsNeeded
      PROVE  FALSE
  <2>1. b \in Slots /\ index <= b
    BY <1>1 DEF ProbeInv, ProbeTypes, Scanned, SlotsOf, Slots
  <2>2. gpu # NoSlot /\ input # NoSlot
    BY <1>1, <1>4, <2>1 DEF ProbeInv, ProbeTypes, ProbeOutcome, Slots
  <2>3. gpu \in SlotsOf({"gpu"}) /\ gpu < index
    BY <2>2 DEF ProbeInv, ProbeTypes, Scanned, HoldsFirst, SlotsOf
  <2>4. input \in SlotsOf(Input) /\ input < index
    BY <2>2 DEF ProbeInv, ProbeTypes, Scanned, HoldsFirst, SlotsOf
  <2>5. b <= gpu \/ b <= input
    BY <1>4, <2>3, <2>4 DEF SlotsNeeded
  <2> QED
    BY <1>1, <2>1, <2>3, <2>4, <2>5 DEF ProbeInv, ProbeTypes, SlotsOf, Slots
<1>5. ASSUME pc # "probe", error = "MissingGpu" PROVE SlotsOf({"gpu"}) = {}
  BY <1>1, <1>5
     DEF ProbeInv, ProbeTypes, ProbeOutcome, Scanned, HoldsFirst, SlotsOf, Slots
<1>6. ASSUME pc # "probe", error = "MissingKeyboard"
      PROVE  SlotsOf({"gpu"}) # {} /\ SlotsOf({"keyboard"}) = {}
  <2>1. gpu \in SlotsOf({"gpu"})
    BY <1>6 DEF ProbeInv, ProbeTypes, ProbeOutcome, Scanned, HoldsFirst, SlotsOf
  <2>2. SlotsOf(Input) = {}
    BY <1>1, <1>6
       DEF ProbeInv, ProbeTypes, ProbeOutcome, Scanned, HoldsFirst, SlotsOf, Slots
  <2> QED
    BY <2>1, <2>2 DEF SlotsOf, Input
<1>7. console # "none" => (console = "serial" <=> error # "none")
  BY DEF ProbeInv, ProbeOutcome
<1> QED
  BY <1>2, <1>3, <1>4, <1>5, <1>6, <1>7 DEF PairOrCause

\* A turn of the probe's loop keeps what the turns before it established
\* (find_virtio_mmio_devices).
LEMMA TurnKeepsProbe ==
  ASSUME ProbeInv, SkipSlot \/ WorkingSlot
  PROVE  ProbeInv'
<1>1. MMIO_COUNT \in Nat
  BY BootAssumption
<1>2. /\ pc = "probe" /\ index \in Slots /\ index' = index + 1
      /\ UNCHANGED <<pc, machine, error, console>>
  BY DEF SkipSlot, WorkingSlot, Probing, after_slot
<1>3. index' \in 0 .. MMIO_COUNT
  BY <1>1, <1>2 DEF Slots
<1>4. machine[index] # "broken"
  BY DEF SkipSlot, WorkingSlot, Input
<1>5. CASE SkipSlot
  <2>1. gpu' = gpu /\ input' = input
    BY <1>5 DEF SkipSlot, found
  <2>2. ProbeTypes'
    BY <1>2, <1>3, <2>1 DEF ProbeInv, ProbeTypes
  <2>3. machine[index] \notin {"gpu"} \cup Input
    BY <1>5 DEF SkipSlot, Input
  <2>4. Scanned'
    BY <1>1, <1>2, <1>4, <2>1, <2>3
       DEF ProbeInv, ProbeTypes, Scanned, HoldsFirst, Slots
  <2>5. ProbeOutcome'
    BY <1>2, <2>1 DEF ProbeInv, ProbeOutcome, Driving
  <2> QED
    BY <2>2, <2>4, <2>5 DEF ProbeInv
<1>6. CASE WorkingSlot /\ machine[index] = "gpu"
  <2>1. gpu' = IF gpu = NoSlot THEN index ELSE gpu
    BY <1>6 DEF WorkingSlot, kept
  <2>2. input' = input
    BY <1>6 DEF WorkingSlot
  <2>3. ProbeTypes'
    BY <1>2, <1>3, <2>1, <2>2 DEF ProbeInv, ProbeTypes
  <2>4. Scanned'
    BY <1>1, <1>2, <1>4, <1>6, <2>1, <2>2
       DEF ProbeInv, ProbeTypes, Scanned, HoldsFirst, Slots, Input
  <2>5. ProbeOutcome'
    BY <1>2 DEF ProbeInv, ProbeOutcome, Driving
  <2> QED
    BY <2>3, <2>4, <2>5 DEF ProbeInv
<1>7. CASE WorkingSlot /\ machine[index] \in Input
  <2>1. input' = IF input = NoSlot THEN index ELSE input
    BY <1>7 DEF WorkingSlot, kept, Input
  <2>2. gpu' = gpu
    BY <1>7 DEF WorkingSlot, Input
  <2>3. ProbeTypes'
    BY <1>2, <1>3, <2>1, <2>2 DEF ProbeInv, ProbeTypes
  <2>4. Scanned'
    BY <1>1, <1>2, <1>4, <1>7, <2>1, <2>2
       DEF ProbeInv, ProbeTypes, Scanned, HoldsFirst, Slots, Input
  <2>5. ProbeOutcome'
    BY <1>2 DEF ProbeInv, ProbeOutcome, Driving
  <2> QED
    BY <2>3, <2>4, <2>5 DEF ProbeInv
<1> QED
  BY <1>5, <1>6, <1>7 DEF WorkingSlot

\* What leaves the slots alone keeps what the probe knows of them.
LEMMA SlotsKept ==
  ASSUME ProbeInv, UNCHANGED <<machine, index, gpu, input>>, error' \in Errors
  PROVE  ProbeTypes' /\ Scanned'
BY DEF ProbeInv, ProbeTypes, Scanned, HoldsFirst

\* The drivers get the first GPU and, if no mouse sits before it, the first
\* keyboard, and the game runs on the serial console only for one of the reasons
\* PairOrCause lists, for any number of slots and whatever is in them
\* (find_virtio_mmio_devices, FramebufferConsole::new, kmain).
THEOREM ProbeRight == Spec => []PairOrCause
<1> USE DEF found
<1>1. Init => ProbeInv
  <2> SUFFICES ASSUME Init PROVE ProbeInv
    OBVIOUS
  <2>1. MMIO_COUNT \in Nat /\ machine \in [Slots -> SlotKind]
    BY BootAssumption DEF Init
  <2>2. ProbeTypes /\ Scanned
    BY <2>1 DEF Init, ProbeTypes, Scanned, HoldsFirst, Slots, Errors
  <2>3. ProbeOutcome
    BY DEF Init, ProbeOutcome, Driving
  <2> QED
    BY <2>2, <2>3 DEF ProbeInv
<1>2. ProbeInv /\ [Next]_bvars => ProbeInv'
  <2> SUFFICES ASSUME ProbeInv, [Next]_bvars PROVE ProbeInv'
    OBVIOUS
  <2> USE DEF ProbeInv
  <2>1. CASE SkipSlot \/ WorkingSlot
    BY <2>1, TurnKeepsProbe
  <2>2. CASE BrokenSlot
    <3>1. ProbeTypes' /\ Scanned'
      BY <2>2, SlotsKept DEF BrokenSlot, Fail, Errors
    <3>2. ProbeOutcome'
      BY <2>2 DEF BrokenSlot, Probing, Fail, ProbeOutcome, Driving
    <3> QED
      BY <3>1, <3>2
  <2>3. CASE ProbeEnds
    <3>1. ProbeTypes' /\ Scanned'
      BY <2>3, SlotsKept DEF ProbeEnds, Fail, Errors, ProbeTypes
    <3>2. ProbeOutcome'
      BY <2>3 DEF ProbeEnds, Probing, Fail, ProbeOutcome, Driving
    <3> QED
      BY <3>1, <3>2
  <2>4. CASE \E pages \in Requests : dma_alloc(pages)
    <3>1. ProbeTypes' /\ Scanned'
      BY <2>4, SlotsKept DEF dma_alloc, ProbeTypes
    <3>2. ProbeOutcome'
      BY <2>4 DEF dma_alloc, ProbeOutcome, Driving
    <3> QED
      BY <3>1, <3>2
  <2>5. CASE DriverDone
    <3>1. ProbeTypes' /\ Scanned'
      BY <2>5, SlotsKept DEF DriverDone, ProbeTypes
    <3>2. ProbeOutcome'
      BY <2>5 DEF DriverDone, AfterDriver, ProbeOutcome, Driving
    <3> QED
      BY <3>1, <3>2
  <2>6. CASE DriverRefuses
    <3>1. ProbeTypes' /\ Scanned'
      BY <2>6, SlotsKept DEF DriverRefuses, Fail, Errors
    <3>2. ProbeOutcome'
      BY <2>6 DEF DriverRefuses, Fail, ProbeOutcome, Driving
    <3> QED
      BY <3>1, <3>2
  <2>7. CASE StartGame \/ GameReturns \/ on_panic \/ shutdown
    <3>1. ProbeTypes' /\ Scanned'
      BY <2>7, SlotsKept
         DEF StartGame, GameReturns, on_panic, shutdown, ProbeTypes
    <3>2. ProbeOutcome'
      BY <2>7
         DEF StartGame, GameReturns, on_panic, shuts_down, shutdown,
             ProbeOutcome, Driving
    <3> QED
      BY <3>1, <3>2
  <2>8. CASE Spin \/ UNCHANGED bvars
    <3>1. UNCHANGED bvars
      BY <2>8 DEF Spin
    <3>2. ProbeTypes' /\ Scanned'
      BY <3>1, SlotsKept DEF bvars, ProbeTypes
    <3>3. ProbeOutcome'
      BY <3>1 DEF bvars, ProbeOutcome
    <3> QED
      BY <3>2, <3>3
  <2> QED
    BY <2>1, <2>2, <2>3, <2>4, <2>5, <2>6, <2>7, <2>8 DEF Next, Kernel
<1>3. ProbeInv => PairOrCause
  BY ProbeInvPair
<1> QED
  BY <1>1, <1>2, <1>3, PTL DEF Spec
=============================================================================
