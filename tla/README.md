# A formal model of riscvrogue

riscvrogue is a bare-metal RISC-V program: a small kernel with a console
(virtio framebuffer and keyboard, or a serial line) and a roguelike game that
talks to it through one narrow interface, "print bytes, block for a byte".
There is one hart, no interrupt, no thread, no allocator that frees and no
persistent state. What is hard in it is therefore not parallelism but *order*:
the order in which a generator's loops overwrite one tile map, the order in
which keys meet menus, monsters and a death screen, and the order in which a
user's key events, the device's queue and a polling console take turns.

This directory holds TLA+ modules translated from the source, TLC
configurations that check them on small instances, and proofs that TLAPS
checks. All paths below are relative to the repository (`src/`).

- [Inventory](#inventory)
- [Modules and the code they stand for](#modules-and-the-code-they-stand-for)
- [Runs](#runs)
- [Fairness](#fairness)
- [Theorems](#theorems)
- [What the checks found](#what-the-checks-found)
- [What is not modelled](#what-is-not-modelled)
- [Plan](#plan)

## Inventory

### Components, their state, their operations

| component | source | state | operations |
|---|---|---|---|
| game session | `game/src/dungeon.rs` (`DungeonState`), `game/src/engine.rs` | map, player, hit points, xp, monsters, explored and visible flags, display options, `font_dirty` | one `tick` per key: send font, render, block for a key, act on it |
| sight | `game/src/dungeon.rs` (`bresenham_line`, `has_line_of_sight`, `compute_visibility`) | none (pure) | line, line of sight, visible set |
| dungeon generator | `game/src/dungeon.rs` (`new_with_seed` and the functions it calls) | map, rooms, grid slots, edges, links, union-find | a pipeline of loops over one map |
| union-find | `game/src/dungeon.rs` (`UnionFind`) | parent, rank | `find` with path compression, `union` by rank |
| key decoding | `game/src/input.rs` | none (pure) | byte to `Key` |
| keyboard | `kernel/src/gfx_console.rs` | `shift_down`, `keybuf`, `key_head`, `key_tail`; the device's event queue | `poll_input`, `process_event`, `enqueue_key`, `dequeue_key`, `read_byte_blocking` |
| terminal | `kernel/src/gfx_console.rs` | cursor, colours, font, ANSI parser state, `dirty`, pixels | `write_byte`, escapes, scroll, flush |
| rendering | `game/src/dungeon.rs` (`render`, `render_dead`, `draw_map_tile`, `wall_glyph`), `game/src/engine.rs` | none (prints) | a frame of text and escapes |
| probe, DMA, framebuffer set-up | `kernel/src/gfx_console.rs` | DMA counter, found devices | scan of MMIO slots, three driver calls, allocation |
| boot, fallback, panic, shutdown | `kernel/src/main.rs`, `sbi.rs`, `console.rs` | chosen console | boot sequence, panic handler, shutdown |
| demo map | `game/src/lib.rs`, `map.rs` | player on a fixed map | an older tick that no code calls |
| console trait, print macros | `game/src/io.rs` | none | dispatch, formatting |

### How they interact

```
 user --events--> virtio queue --poll--> shift flag, map_keycode --> key ring
                                                                       |
                          game tick <--decode_key-- read_byte_blocking-+
                             |
                             +--text, ANSI escapes--> terminal --> framebuffer
 generator --map, start, monsters--> game session
```

All arrows are calls except the first: the device fills its queue whenever the
user likes, and the console looks at it only inside `read_byte_blocking`, which
also is the only place where a changed picture is flushed to the screen. The
game's only channel to the terminal is bytes; the one piece of state the two
must keep in step is the font (`options.font` and `font_dirty` in the game, the
console's font mode behind the escape `ESC [ n z`). Before all this, boot decides
which console there is at all, and nothing changes it afterwards.

### What is hard about it

* *Generator.* Ten loops overwrite one map by three rules (`set_room_floor`,
  `set_corridor_floor`, `set_door_tile`), each refusing different cells and
  refusing silently. Random ranges are half open and divide by their span. A
  `while` loop runs until a union-find says all rooms are connected. A unit
  test sees one seed at a time.
* *Game.* Dead monsters stay in the list, monsters may spawn under the player,
  the open menu steals the keys that move and fight, the font is sent one tick
  late, and visibility is computed before the key that uses it.
* *Keyboard.* Events arrive at any moment between and during polls; shift is
  a flag read long after the key was touched; a ring with one free slot wraps
  two indices independently; a full device queue or a full ring drops things.
* *Terminal.* Parser state survives from write to write; a deferred wrap, a
  scroll and a font change move the cursor and the grid together; a failed flush
  is forgotten.
* *Picture.* A frame is a stream of characters that wraps and scrolls: in the
  9x14 font the screen has fewer rows than the frame, with the menu open or
  closed. The tiles, the monsters and the keys are looked up separately.
* *Boot.* A DMA pool that only grows and asserts at its end, a probe that stops at
  a broken transport, three driver calls each of which may fail, and a
  fallback.

### What makes each correct

* game session: the player stays on open floor, and never gets onto a living
  monster it did not begin on; each monster pays once; wounds and experience balance; the menu and the death
  screen freeze the world; the console shows the font chosen; nothing is hit
  that was not drawn.
* generator: rooms keep apart and whole; the links form a tree plus extras,
  none twice; what is dug stays open; what is floor is walled in; the
  generator ends with a map the game can start on; every room can be reached
  (which is *false*, see below).
* union-find: implements labelled classes; no cycle; logarithmic ranks.
* keyboard: keys come out once each, in order, in the case they were typed;
  shift does not stick; what the device or the ring drops costs keys and never
  makes one up; a waiting key is handed out; the ring is a bounded queue.
* terminal: the cursor stays on the grid; the parser knows what was sent; each
  escape of the game does what the game means; no change goes unflushed.
* rendering: the player sees the current state and nothing else, and what it
  sees is what its next key will meet.
* boot: the right devices (that a keyboard is read is *false*, see below), each page
  handed out once, an end in every case.

`PROJECT.json` lists under `hazards` each place in the code where one of these
could go wrong and a test would hardly notice, with the properties that would.

## Modules and the code they stand for

```
 Tiles ----+---- Rooms ---- DungeonGen ---- DungeonGenProofs
           |                    :
           |                    : label
           |                    : promised by
           |                 Labels <==implements== UnionFind ---- UnionFindProofs
           +---- Sight --+
                         +-- Dungeon ---- MCDungeon
 Input ------------------+      |
 Fonts --+----------------------+---- Screen ---- MCScreen, DungeonProofs
         +---- Display ---------+
                  \------ Terminal ---- MCTerminal, TerminalProofs

 BoundedQueue <==implements== KeyRing
                                 |
 Keymap ------------------- Keyboard ---- KeyboardProofs

 Boot ---- MCBoot, BootProofs

 Induction: used by all the proofs but BootProofs; DisplayProofs: lemmas about
 Display, used by TerminalProofs and DungeonProofs
```

(A line is EXTENDS; the three chains are independent because the code's three
parts meet only in a call of one byte.)

**Tiles** is the map both halves share: a function from cells `<<x, y>>` to five
tile kinds, instead of the code's bytes indexed by `y * W + x`. `is_walkable`
and `is_opaque` are the code's; `IsDungeon` is the contract between the
generator, which establishes it (`Playable`), and the game, whose `Init` assumes
it (`DungeonAssumption`).

**Sight** holds `bresenham_line` as a recursive function on the iteration count
(so that it can be used beside proofs), `has_line_of_sight` and
`compute_visibility`.

**Input** is `decode_key` over byte codes.

**Dungeon** is the running game. The code's `tick` blocks once, in `ctx.key()`;
the model splits it exactly there. `Draw` is everything before (apply the font,
death screen or visibility, explored flags, render); a key action is
everything after, up to the end of the tick. The actions `DeathKey`, `MenuKey`,
`QuitGame`, `OpenMenu`, `Attack`, `Walk`, `Ignore` are the arms of the code's
match on the key, in order, with the early returns as guards. `visible` is not
a variable: the code clears and recomputes it in every `Draw` and nothing reads
it afterwards but `render`. `font_mode` is the console's side, as
`apply_font_command` of **Fonts** sets it. `strength` is a constant, because no code assigns
it after `new_with_seed`.

**Rooms** is the geometry (`center`, `intersects_with_gap`, doors) and the
digging rules. A random draw is any member of `Draws`; the code's generator is a
fixed pseudo-random sequence, so the model allows every sequence of those
draws. `rand_range_i32` and the percentages keep the code's remainder
arithmetic, so a small `Draws` exercises both the low end and some interior
point of each range.

**DungeonGen** is `new_with_seed`. One action is one iteration of one loop; `pc`
names the loop, `gx` and `gy` are the counters of the loops over the grid and `k`
is the counter of the others:

| pc | loop | actions |
|---|---|---|
| `rooms` | slots of `generate_nethackish_rooms` | `SkipSlot`, `PlaceRoom`, then `FallbackRoom` or `StartEdges` |
| `collect` | the edges to the right and down of each slot | `CollectEdges` |
| `shuffle` | Fisher-Yates over the edges | `ShuffleEdge`, then `StartSpan` makes the union-find |
| `span` | spanning edges | `SpanEdge` |
| `bridge` | `while !all_rooms_connected` | `Bridge`; a link is spent as in `SpanEdge` (`link_if_split`) |
| `extra` | extra links | `ExtraEdge` |
| `carve` | `carve_room_link` per link | `CarveLink` |
| `walls` | `add_walls_around_open_tiles` | `AddWalls` |
| `spawn` | `spawn_monsters` | `SpawnMonster` |

`LoopEnds` are the tests that leave a loop for the next one.

`links` is history: the doors and the coin of each dug link, so that properties
can speak of the way a link dug. The union-find is kept as labels, which is
justified by the next two modules.

**Labels** is what a union-find promises, **UnionFind** is the code: parent
pointers, rank, `find` with compression of the whole path, `union`. The mapping
labels each item with its root. The generator only ever asks "same class?" and
"merge", so the labels are all it needs.

**BoundedQueue** is what the key ring promises, **KeyRing** is the code, with
the mapping `Contents` from the buffer and the two indices to a sequence.

**Keymap** is `map_keycode`; **Keyboard** composes a typing user, the device's
queue and the blocking read around the ring (it EXTENDS KeyRing, whose
variables are part of its state). The user and the
device are external: they are modelled from how `process_event` and
`poll_input` use them (event triples, a report mark after each key event, an
event queue of finite room). `read_byte_blocking` is split at every point where
an event could arrive: before each event popped (`PollEvent`), at the empty queue
(`PollEnds`) and at the take (`TakeKey`). `typed`, `lost`, `refused` and
`returned` are history.

**Display** is what the framebuffer console draws on: font, cursor, colours, dirty
flag and pixels. The pixels are rows of character cells of the current font's
size (character, foreground, background), since everything the console draws
is a cell or a whole cleared screen. What that leaves out are the strips the
9x14 font does not cover (one column of pixels at the right, eight rows at the
bottom of the shipped 640 x 400): `scroll_up` moves the lower strip into the
new row, which is blank as long as the background is that of the last clear,
as it is in the game, which never sets a background. Its operators are pure,
from a display to a display, each named after the function of the code.

**Terminal** is the console as a stream of bytes. `write_byte` is one turn of
`feed_ansi`: `AnsiAfter` is what it does to the parser, `DisplayAfter` what it
does to the display. `flush` is the start of `read_byte_blocking`, and it may
fail, which the code forgets. `stale` (the screen in front of the user differs
from the display), `failed` and `sequence` (the bytes of an unfinished escape) are
history. The three escapes the game writes (`ClsBytes`, `SgrBytes`, `FontBytes`) are
spelled out from `BTerm`.

**Screen** composes Dungeon with Display: `DrawScreen` is `Draw` plus everything
`apply_options`, `cls` and `render` or `render_dead` write, and the flush that the
following read begins with; `KeyScreen` is a key plus what it prints, which is
the farewell and nothing else. The escapes go to the display directly, doing what
`CommandsUnderstood` of Terminal shows they do. A piece of text, and a number, is
one item of one cell, whatever its length. That is sound for positions because
no line of a frame is as long as the screen is wide, which leaves the number of
lines as the only thing that moves the rest. `wall_glyph` is told through the set
of directions in which there is wall (`WallsAround`) and one table of the four
edges of the map. Two tests in Screen always hold (`e = e` in `Written`, the
singleton sets in `DrawScreen`): they make TLC compute a value once.

**Boot** is `kmain` from the probe to the machine's end. `SkipSlot`, `BrokenSlot` and
`WorkingSlot` are the ways through one turn of `find_virtio_mmio_devices`,
`ProbeEnds` is what follows the loop. The three driver calls are external: each
takes memory any number of times (`dma_alloc`, with the assertion and the panic),
then succeeds or refuses. `on_panic` and a returning game both end in
`shutdown`, which the firmware may refuse.

Operators marked "Mutant" are plausible bugs. They are used by no definition;
each stands next to the definition it would replace, and `PROJECT.json` says
which property of which run then fails. They show that a property depends on
the code it is about.

## Runs

| run | instance | what it shows |
|---|---|---|
| `dungeon` | two linked rooms with one monster, or one room with two, one of them under the player, on 12 x 6; monsters that survive a blow and a player that can die; all keys | `TypeOK`, `PlayerOnFloor`, `KillsPayOnce`, `DamageLedger`, `FontShown`, `OnlyBornUnderfoot`, `NothingBehindMenu`, `NoUnseenFoe` |
| `union_find` | five items | `ImplementsLabels`, `RankBound`, `RanksClimb` |
| `gen_grid` | 2 x 2 slots on 12 x 8, draws 0 and 65 | `TypeOK`, `RoomsApart`, `ShuffleKeepsEdges`, `Forest`, `LinksSpan`, `LinkedOnce`, `LinksStayOpen`, `Enclosed`, `Playable`, `Terminates` |
| `gen_links` | one column of two slots on 20 x 20 | `RoomsWhole`, `UnclippedReachable` |
| `gen_cut_off` | the same | finds a room that cannot be reached |
| `gen_contact` | the same | finds a corridor along a room's wall |
| `keyboard` | a letter and an arrow key, one shift key, a ring of three slots, a device queue for three key events, five events by the user | `KeysInOrder`, `LossOnlyCosts`, `ShiftReleased`, `Answered`, `ImplementsQueue` |
| `terminal` | 18 x 16 pixels: 2 x 2 cells, 2 x 1 in the large font; twelve sample bytes | `DisplayOK`, `SequenceUnderstood`, `CommandsUnderstood`, `CleanMeansShown` |
| `screen` | two linked rooms on 11 x 5, a screen of 104 x 136 pixels: 13 x 17 cells, 11 x 9 in the large font | `DisplayFollows`, `ShowsPicture`, `SeenIsHit` |
| `wall_arms` | the same | finds a wall drawn with an arm that leaves the map |
| `boot` | every machine of four slots with six kinds of content, a pool of five pages, requests of one and three | `PairOrCause`, `BlocksApart`, `BootEnds`, `PowersDown` |
| `boot_keyboard` | the same with three slots | finds a game on the framebuffer that reads a mouse |

**dungeon.** The shipped numbers are strength 10, hence blows of 5, against monsters
of 5 hit points: nothing ever answers (`Invulnerable`, a theorem), and a run with
them would see neither wounds nor death. Strength 4 gives blows of 2, so the monsters
answer twice and go below zero at the third blow. With 7 points the
player outlives one monster and not two: kills, overkill, a subtraction that has
to be clamped and death all occur, in every order of blows at the two. One
monster starts under the player. `SPACE` on the death screen, the menu with its
keys (`f` in both cases) and all three fonts occur too.
`DamageLedger` recomputes hit points from the monsters' wounds alone.
`OnlyBornUnderfoot` and `NothingBehindMenu` speak of a whole sequence of keys by what
it would leave behind: a player who has stepped off a cell, or walked behind the
menu, stands where there is something else to be seen. `LOS_RADIUS` is 2 instead of
10, short enough for that, since each cell of the single room sees about half of the
room and its walls, and the least radius whose disc contains the diagonal neighbours,
which is all that `NoUnseenFoe` concerns. The two rooms make the player look
through doors and round the bend of a corridor.

**gen_grid.** The map is the smallest on which a 2 x 2 grid of minimal rooms
fits. Draw 0 gives the low end of every range and makes each percentage test
succeed; 65 makes each fail (it is over 28, 30 and 60) and lands inside the
ranges. All sixteen occupancy patterns of the slots occur, among them the two
diagonal ones, which have no edge and are joined by `Bridge` alone, and the full
one, whose cycle leaves an edge to `ExtraEdge`. The no-room fallback occurs too.
The shuffle takes every order the two draws can produce.

**gen_links, gen_cut_off, gen_contact.** One column of the shipped grid at the
shipped slot size (20 x 10, rooms of at least 4 x 3), so the rooms have their
real sizes and offsets. Draws 64, 65 and 89 leave every slot occupied, differ in
parity (the coin of the L) and give positions and sizes spread through the
ranges. Rooms are wide enough here for a corridor's L to lead back over the
floor of the room it left, which is where `RoomsWhole` is at stake (on the small
grid no path ever touches a floor). `UnclippedReachable` is the positive half of the finding below: the
border is the *only* thing that cuts a link.

**union_find.** Five items allow a tree of rank 2 and unions of equal and of
different rank in every order, from every partially compressed forest.

**keyboard.** Three slots make both indices wrap, in either order, and fill and
empty the ring from each offset; `KeyboardProofs` covers every other size. The
bounds are one step apart from each other on purpose: five events exceed the
device's room of three, and three strokes exceed the two keys the ring can
hold, so the run contains dropped events and refused keys as well as clean
ones. `KeysInOrder` speaks of the clean ones and of refusals; `LossOnlyCosts`
holds through everything, a lost release of shift included. `MaxEvents` is the
only bound that cuts off behaviour of the code; it bounds how long the user
types, not how the events interleave with the polls.

**terminal.** A grid of 2 x 2 cells has a cell in each position that matters: first
and last row, first and last column. Every string over a sample of the bytes is
tried, in every state, with a flush anywhere, which may fail, the one of
`FramebufferConsole::new` included. The sample has each control character but
carriage return, one that means nothing, one digit, and each final byte that does
something but `f`, which does what `H` does. `ParamMax` is 32 instead of 65535: it lets a
number of digits 2 overflow after two of them and saturate, and makes the saturated
number a valid colour, so that a wrong use of it would show. `MaxSequence` of 6
bytes is enough for a fifth parameter (four separators and one more number). It
bounds nothing but the length of an unfinished escape.

**screen.** The shipped screen shows 50 rows in the 8x8 fonts and 28 in the
9x14 one, and a frame has 36 lines, 42 with the menu. The instance keeps the
order of these numbers: 17 rows, 9 rows, frames of 11 and 17 lines. So a frame
fits, fits exactly with the menu, or scrolls by two lines or by eight, and the
death screen of six lines fits. All option combinations, fonts changed with the
menu open and closed, kills, wounds and death occur. `ShowsPicture` describes the
whole screen from the state of the game, line by line and cell by cell, without
a cursor, a wrap or a scroll; the code gets there by writing a stream.

**boot, boot_keyboard.** Four slots hold every order of a GPU, a keyboard, a mouse and
a broken transport; three are enough for the mouse in the keyboard's place. Requests of one and three pages meet the end of a
pool of five both exactly and with a page left over.

`CHECK_DEADLOCK FALSE` appears where the system stops: the game after `quit`, the
generator when it is done, the machine when it is off. The keyboard and the
terminal must never stop, and deadlock is checked there; a union-find can always
be called again.

## Fairness

* `DungeonGen`: weak fairness of `Next`. The generator is one sequential call
  on the only hart; nothing can preempt it, so it takes its next step until it
  has none. `Terminates` says it ends, whatever is drawn; a bridge that joined nothing
  would be a turn of the `while` loop that changes nothing, for ever.
* `Keyboard`: weak fairness of `Read` only, the console's spinning loop, for the
  same reason. The user and the game owe nothing: the user may stop typing, and
  the game may compute for ever. `Answered` says that a game that does ask gets
  its answer when a key is waiting in the queue or in the ring. Without the bound
  on events it could not hold: `poll_input` loops until the queue is empty, and
  a device that never pauses would keep it there (listed as a hazard).
* `Boot`: weak fairness of `Kernel`, what the one hart does by itself, for the same
  reason again. The drivers' calls are part of it, and their memory is
  bounded by the pool, so `BootEnds` also says that a driver that keeps asking
  runs into the panic. The player's `GameReturns` is not in `Kernel`: nobody has
  to quit, and `PowersDown` speaks only of a game that returned and of a panic.
  The firmware may refuse to switch off for ever; then the kernel spins.
* `Dungeon`, `Screen`, `Terminal`, `UnionFind`, `KeyRing`: none; only safety is
  claimed.

## Theorems

TLC shows each property on an instance (all but `Unhurt`, which is false with the numbers
of the `dungeon` run and is only proved, under its hypothesis). The following hold for every value
of the constants that satisfies the named assumptions.

**DungeonProofs** (from `SizeAssumption`, `RadiusAssumption` and
`DungeonAssumption`: the start maps satisfy `IsDungeon`, combat numbers are
naturals, hit points at the start are positive):

| theorem | statement | argument |
|---|---|---|
| `TypeCorrect` | `Spec => []TypeOK` | one step per action. The lemma `DungeonShape` reads the type of the initial monsters off `IsDungeon`, `DamageType` bounds the blow |
| `NeverInWalls` | `Spec => []PlayerOnFloor` | only `Walk` moves the player, and the map never changes |
| `BornUnderfoot` | `Spec => []OnlyBornUnderfoot` | a step ends where no living monster is, a blow lands beside the player (`TargetElsewhere`: no key has the direction (0, 0)) and a frame adds what is seen from where the player stands |
| `MenuHoldsWorld` | `Spec => []NothingBehindMenu` | opening the menu needs `SeenInv` (below, at `NeverUnseen`): it happens in front of a prompt, where everything visible is explored; from then on nothing moves |
| `PayOnce` | `Spec => []KillsPayOnce` | the set `Dead` grows by exactly the monster that attack kills, because `FoundMonster` only hands out living ones: `Cardinality` grows by one as `xp` grows by ten (`BlowPays`, over `FiniteSetTheorems`) |
| `FontInSync` | `Spec => []FontShown` | `FontShown` is not inductive: it says nothing while a tick runs. The strengthening `FontInv` adds that whenever the fonts differ `font_dirty` is set, in every state |
| `Invulnerable` | `MonsterHp <= Damage => (Spec => []Unhurt)` | a blow takes at least all hit points of an unwounded monster, so each one alive is unwounded. The shipped numbers are an instance: a consequence nobody wrote down is that no monster ever answers, the player's 20 points never change and the death screen is unreachable in the shipped game |
| `NeverUnseen` | `LOS_RADIUS >= 2 => (Spec => NoUnseenFoe)` | `SeenInv`: in front of a prompt everything visible is explored. A key reaches neighbours only, and `NeighbourVisible` shows them visible: the line of sight to a neighbour has no cell in between (`NeighbourLine`), and a diagonal neighbour is within any radius of at least 2, which is where the hypothesis comes from (the code has 10) |
| `LedgerBalances` | `Spec => []DamageLedger` | the sum over the monsters is a function `u` with `u[n + 1] = u[n] + ...` (`IsTally`); a blow changes one summand by one or none (`BlowAnswers`, `OneMoreBlow` on the quotient), which shifts the sum by as much (`TallyShift`), and the clamped subtraction follows. `TallyExists` and `LedgerMeans` connect `u` with the recursive definition |
| `ConsoleFollows` | `ScreenSpec => []DisplayFollows` | `ScreenInv`: the display is `Good` (below) and in the game's `font_mode`. One lemma per thing the game prints (`MapItemsType`, `FrameType`, `DeadFrameType`: sequences of items), and `WrittenGood`: writing items keeps a display good. Also from `PixelAssumption` |
| `FramesShowState` | `W <= WIDTH \div 9 /\ 6 <= WIDTH \div 9 => (ScreenSpec => []ShowsPicture)` | see below |
| `SeenIsWhatIsHit` | the same with `LOS_RADIUS >= 2`, for `SeenIsHit` | `CellShown` reads the cell a key reaches out of the picture; `AlwaysSeen` says it is explored, and `TileItem` that no tile looks like a monster and every free one in sight like floor, corridor or door. `LeastOf` finds the monster `FoundMonster` means |

`FramesShowState` is about a stream of characters that becomes a picture, and goes
through one notion: `Drawn(d, pic, l, x)` says that the display shows the picture
`pic` as far as column `x` of line `l`, which is where the cursor is, and nothing
behind it, lines being counted from the first one written, so that a line keeps its
number when it scrolls away. A character of the picture takes `(l, x)` to `(l, x + 1)`
(`CharDrawn`), a line end on a line with a blank rest to `(l + 1, 0)`, whether or not
the screen scrolls (`LineDrawn`), and a cleared screen is `(0, 0)` of any picture
(`ClearDrawn`). From these come a line of text (`LineTraced`, along the trace of
`Written`), the rows of the map (`MapDrawn`, along `NextOf` on the row and the column
of the n-th item), the parts of a frame and the frame (`FrameDrawn`, `DeadDrawn`,
where `WrittenBoth` cuts what is written in two). The end of the frame is
`LastLine`, `LastColumn`; behind it the picture is blank (`Beyond`), and what has
scrolled away is `Overflow` lines (`PictureShown`). The inductive invariant is
`PictureInv`: in front of a prompt the frame is drawn, and between ticks the style
is the default one, without which `cls` would clear in another colour. Both parts
stop at `q`: the farewell is written under the last frame, and nothing is promised
about the screen after it.

The hypothesis is that the map and the longest line (six pieces, each of which is one
cell in the model) fit the screen in the wider font; the shipped map has 60 columns and
the shipped screen 71. It is needed: on a narrower screen rows wrap. Nothing is assumed
of the height, so frames that scroll, by any number of lines, are covered.

**DungeonGenProofs** (from `SizeAssumption`; `DrawsAssumption`: there is a draw,
and draws are naturals; `GridAssumption`: slots are wide and high enough for the
least room plus its walls, which is what keeps every random range non-empty, and
the map holds the fallback room; the shipped 60 x 30 map with 3 x 3 slots and
rooms of 4 x 3 satisfies it). The results hold for every map, grid, least
room size and sequence of draws, where TLC sees two draws on small maps:

| theorem | statement | argument |
|---|---|---|
| `GenTypeCorrect` | `Spec => []TypeOK` | part of `GenInv`, see below |
| `GenRoomsApart` | `Spec => []RoomsApart` | `RegionSpan` and `RoomsInFit` bound what the ranges can draw; `GapKeepsApart` turns `intersects_with_gap` into cells |
| `GenRoomsWhole` | `Spec => []RoomsWhole` | from `MapInv`, with the room's place from `GenInv` |
| `GenLinksStayOpen` | `Spec => []LinksStayOpen` | from `MapInv` |
| `GenEnclosed` | `Spec => []Enclosed` | from `MapInv` |
| `GenPlayable` | `Spec => []Playable` | from `GenInv`, `MapInv`, `SpawnInv`. It discharges, for the maps of this generator, the part of the game's `DungeonAssumption` that is about maps |
| `GenForest` | `Spec => []Forest` | from `LinkInv` |
| `GenLinkedOnce` | `Spec => []LinkedOnce` | from `LinkInv` |
| `GenLinksSpan` | `Spec => []LinksSpan` | from `LinkInv` |
| `GenShuffleKeepsEdges` | `Spec => []ShuffleKeepsEdges` | from `EdgeInv` |
| `GenUnclippedReachable` | `Spec => []UnclippedReachable` | from `GenInv`, `MapInv`, `SpawnInv` and `WayInv`, see below |

Six invariants are needed, each relative to some before it:

1. `GenInv`: `TypeOK`; `RoomsInv` (each room fits the map, no two are within the
   gap, each is inside its slot's region) and `LoopInv` (what loops that have not
   begun left empty). `TypeOK` alone is not inductive: `SpanEdge` reads labels of
   rooms, which exist only because the loop before made one for each.
   `Bridge` takes a `CHOOSE`n pair, and `BestPairSplits` shows that it is a pair of
   different components: some pair has the least distance and, among those, the
   least indices. This rests on `LeastOf`, a least element for every set of
   naturals, which is obtained from the finite subset ordering of
   `WellFoundedInduction` and needs no induction rule.
2. `MapInv`: the floor is exactly the interiors, the border is closed, each cell of a
   link stays open, and *there is no wall before the walls are added*. The last part
   is why later links cannot stop at a wall. `CarveRoomMap`, `CarveLinkMap` and
   `AddWallsMap` say what each kind of digging does to any map.
3. `SpawnInv`: each monster so far is inside a room before the `k`-th, hence apart
   from the next one; a room exists once the room loop has ended.
4. `LinkInv`: `Forest`, `LinkedOnce` and what makes them inductive. While the tree
   grows, linked rooms have one label (`Joined`) and rooms of one label are linked,
   said without paths: a set of rooms that no link leaves (`NoWayOut`) holds all or
   none of a label's rooms (`ClassesLinked`). So a new link between two labels has
   no earlier one beside it, merging two labels costs exactly one, and when the
   labels are all equal no link-closed set but the empty one and the whole is left
   (`AllLinked`, kept through the extra links). `LinkBridged` shows that the loop of
   bridges is left only then: if labels differ there is a split pair.
5. `EdgeInv`: the edges so far are the neighbouring pairs of the slots the loop has
   passed (`Passed`, by rows), each once; a swap permutes them.
6. `WayInv`: every link runs between doors of the two rooms it was chosen for, facing
   each other, and when all are dug they join all rooms.

The proof of `GenUnclippedReachable` has three parts. (a) `Reached`, a walk of
`W * H` steps, is closed under walking: every step that does not end the walk finds
a new cell (`Thorough`, `Far`, counted by `CellsCounted`), so it has ended. (b)
Geometry: a set of cells closed under walking holds, with one cell of it, a whole
row or column of walkable cells (`IntervalSpreads`), hence a room's floor, each leg of
an L, and both ends of a link; `PathReversed` gives the way back. (c) The rooms
whose floor is reached are a set of rooms that no link leaves (`NoWayOut`), with the
first one in it, so by `WayInv` they are all rooms. Where the border cuts a link off
(b) fails, which is what `gen_cut_off` shows.

**UnionFindProofs** (from `ItemsAssumption`: the items are a finite set):

| theorem | statement | argument |
|---|---|---|
| `ForestInvariant`, `RanksAlwaysClimb` | `Spec => []RanksClimb` | ranks climb along parents, and types; a union hangs a root under one of higher rank, or of equal rank that it raises |
| `LabelsImplemented` | `Spec => ImplementsLabels` | `RootOf` is well defined: a path as long as the number of items meets a root, or some item would come twice with a rank above its own (`WalkMeetsRoot`). `RootLabels`: a labelling that parents share and roots bear is the one by roots. With it, compression moves no item to another root (`CompressKeeps`) and hanging one root under another merges two labels and no others (`HangMerges`), which are the steps of Labels |
| `RanksLogarithmic` | `Spec => []RankBound` | a rank rises only when two trees as large as it asks have been joined (`MergeDoubles`) |

**TerminalProofs** (from `PixelAssumption`: the screen has room for a cell of each
font; `TerminalAssumption`: the bytes are bytes):

| theorem | statement | argument |
|---|---|---|
| `NeverOffScreen` | `Spec => []DisplayOK` | `TerminalInv`: the parser is well-formed, the display is `Good` and `CleanMeansShown` holds. **DisplayProofs** has one lemma per operation of the console: from a good display it makes a good one, and `Marks` what it changes. The loop of `apply_sgr` is a trace (`SgrTrace`) |
| `NothingUnmarked` | `Spec => []CleanMeansShown` | the other half of the same lemmas: `Marks`; a failed flush leaves the mark unset, which the property excepts and the code forgets |
| `EscapesUnderstood` | `Spec => []CommandsUnderstood` | a trace of the parser over the bytes of an escape, one lemma per byte (`FedEscape`, `FedDigit`, `FedFinal`), put together for every sequence with one number of at most two digits (`OneNumber`) |
| `SequencesUnderstood` | `Spec => []SequenceUnderstood` | `SequenceInv`: there is a reading of the bytes since `ESC [` as numbers between separators, of which the parser holds the first four and, up to saturation, the last. A digit extends the last number, a separator begins a new one, anything else ends the sequence; that saturating at each digit is saturating at the end (`accumulate`) is arithmetic |

**KeyboardProofs** (from `RingAssumption`: a size of at least 2; `KeyboardAssumption`):

| theorem | statement | argument |
|---|---|---|
| `RingTypeCorrect` | `RingSpec => []RingTypeOK` | `NextSlot` stays in `Slots` |
| `RingIsQueue` | `RingSpec => ImplementsQueue` | a step of the ring is a step of the queue. The lemmas: `StepOf` (what the remainder does to an index), `FullMeans` (the ring is full exactly when `Size - 1` keys wait), `EnqueueAppends` (writing at the tail appends to `Contents`), `DequeueTails` (advancing the head drops its first element) |
| `KeyboardTypeCorrect`, `KeyboardQueue` | `Spec => ImplementsQueue` | every step of the whole keyboard is one of the ring or leaves it alone (`KeyboardRings`) |
| `ShiftAlwaysReleased` | `Spec => []ShiftReleased` | the property speaks of an empty queue, and is not inductive; `ReleaseInv` speaks of the flag *behind* the queue: what it will be when all that is queued has been read |
| `LossOnlyCostsKeys` | `Spec => []LossOnlyCosts` | `LossInv`: what is on the way (handed out, in the ring, in the queue once translated) is `Picked` from what was typed by an increasing choice of positions. A stroke appends to both or to one; a read moves a byte from the queue to the ring (`PollWay`) or drops it |
| `KeysAlwaysInOrder` | `OneShift => (Spec => []KeysInOrder)` | `OrderInv` ties the flag behind the queue to the user's shift key. The hypothesis, one shift key, is the code's: it keeps one flag for two keys, and with two the property is false (the hazard at `gfx_console.rs:253`) |

The queue's translation is a recursive function in the model. `HearsExists` shows
that its equation has a solution and `HearsUnique` that it has one only;
`TranslationAppend` and `TranslationHead` are the two ends at which the queue changes.

**BootProofs** (from `BootAssumption`: the number of slots and the pool are naturals,
requests are positive):

| theorem | statement | argument |
|---|---|---|
| `PagesApart` | `Spec => []BlocksApart` | `BlocksApart` says nothing of the counter; the strengthening `PoolInv` adds that every block handed out ends below it and in the pool. A failed request moves the counter beyond the pool and hands out nothing |
| `ProbeRight` | `Spec => []PairOrCause` | `ProbeInv` says what the loop knows after `index` turns: each variable holds the first device of its kind so far (`HoldsFirst`), nothing broken was passed, and the error tells why the loop ended. `ProbeInvPair` derives the property: the first input device is the first keyboard where no mouse comes before it, and a broken slot before the pair is complete is the one the loop stopped at |

**Induction** has what these proofs use in place of rules that take an operator as
a parameter: `LeastOf` (a set of naturals has a least member, from the
well-foundedness of finite subsets), `UpTo` and `Onwards` (a *set* that has 0 and,
with each number, the next), `SmallestOf`, and `Recursion` (a recursion that stays
in a set defines a function). What a recursive function of the model computes is
proved by exhibiting such a function (a trace) and showing it is the one the
definition chooses. So an invariant of a recursion can be proved; an equation
between two differently built recursions is much harder to reach this way.

Only model-checked, and why:

* `Terminates`, `Answered`, `BootEnds` and `PowersDown`: liveness under fairness is
  out of the prover's reach.
* The symmetry or exact cells of a long `bresenham_line`; `NeverUnseen` needs it
  for neighbours only.

## What the checks found

**Rooms can be cut off** (`gen_cut_off`, `AllRoomsReachable`). Two rooms one
above the other whose centres are at least as far apart across as down get
doors on their left or right walls. If such a wall is next to the border of the
map, the corridor's cells on and beyond the border are refused by
`set_corridor_floor` one by one and nothing replaces them. The two rooms are
"connected" as far as the union-find knows, and cannot be reached from each
other on foot. The comments at `game/src/dungeon.rs:701` and `710-711` ("Hard
guarantee") say otherwise. `GenUnclippedReachable` proves that nothing else can keep
the player from a room.

**Corridors can run along walls** (`gen_contact`, `SingleContact`). Regions of
neighbouring slots leave one cell between the walls of close rooms, so the
second step outward of a corridor may already lie on the other room's wall line,
and the corridor runs along it. The comment at `game/src/dungeon.rs:775-776`
says "single contact with room" and "avoid wall-hugging runs".

**Walls on the map's edge are drawn with arms that leave it** (`wall_arms`,
`NoArmsOffMap`). `is_wall` counts every cell off the map as wall, and the edge
rules of `wall_glyph` fire only when there is wall inward of the edge. A straight
stretch of wall on the edge, which rooms have on the lower and the right edge
of the map, has none inward; it falls through to the general table with three
neighbours and is drawn as a T-junction whose third arm leaves the map. The
comment at `game/src/dungeon.rs:256-258` says that the edge rules are there to
"collapse only the edge-facing T-junction artifacts to straight lines".

**A mouse may be taken for the keyboard** (`boot_keyboard`, `KeyboardFound`). The probe
goes by `DeviceType::Input` (`kernel/src/gfx_console.rs:655`), which mice and tablets
have too. With one in an earlier slot the keyboard is dropped; with one and no
keyboard `MissingKeyboard` is not raised, and the game waits on the framebuffer for
keys that cannot come, instead of going on with the serial console. `README.md`
(line 92, "probes VirtIO-MMIO for GPU + keyboard"; lines 11 and 174) and the error's
text, "virtio-keyboard device not found" (`kernel/src/gfx_console.rs:95`), speak of a
keyboard. `ProbeRight` proves that a keyboard is found wherever one sits before
every mouse.

## What is not modelled

* The demo map (`DemoState`, `Map`, `game::run`): no code of the repository calls it,
  and its walking rule is the dungeon's.
* The console trait and print macros: dispatch and formatting only. The serial
  console passes bytes through one by one; there is no state in it.
* Clearing `.bss`, setting up the heap and hashing the seed: straight-line start-up
  code. That the heap suffices is not checked.
* Font bitmaps and RGB values: a cell is a character and two colour codes. Message
  texts are single cells in Screen.
* The pseudo-random generator itself: its sequence is replaced by any sequence
  of `Draws`, which includes it as far as the draws of an instance go.
* Virtio queues and descriptors, the drivers' set-up and what a flush transfers: in the
  `virtio-drivers` crate. Boot and Terminal model that they may fail.
* Integer widths: coordinates are `i32` on a 60 x 30 map and hit points change
  by at most the combat numbers; the model's integers stay in the same small
  ranges, so no operation of a modelled component can wrap. The escape
  parameters do saturate, and the model does it (`ParamMax`). `rank` is a
  saturating byte, and `RankBound` is why it never saturates. `xp` is bounded by
  ten times the number of rooms.

Hazards that no property settles, each with its reason in `PROJECT.json`: one flag for
two shift keys, arrow keys on a serial line, a farewell that is never flushed. In each
the code does one definite thing and no document promises another.

## Plan

Done: every component with state of its own, the compositions in which they meet
(generator and union-find, user and console, game and display), and the theorems
above: each safety property that a passing run checks is also the statement of a
theorem. What would come next:

1. Texts of their real lengths in Screen, so that the hypothesis of `FramesShowState`
   speaks of columns of text and not of pieces.
2. The generator's contract and the game in one specification, with `Playable` used to
   discharge `DungeonAssumption` inside TLA+ rather than by the reader.
