# AgnostOS in TLA+

AgnostOS is a small x86-64 kernel in Rust that boots from UEFI and ends in an
interactive shell. This directory holds TLA+ models of the parts of it that keep
state, TLC configurations that check them on small instances, and TLAPS proofs of the
safety of eight of them. Paths below are relative to the repository's `src/`
crate directory unless they start with `scripts/` or `profile-macro/`.

    tlc -workers 2 -config MCScheduler.cfg Scheduler      # one run
    tlapm SchedulerProofs.tla                             # one module of proofs

`PROJECT.json` lists the runs, the lines each definition stands for, the hazards,
the findings, and for each property one mutant of the model (an operator marked
`mutant:` next to the definition it replaces) that breaks it.

## 1. The system

Everything runs on one core. `boot::initialize` takes over memory, builds page
tables and installs interrupt handlers; `shell::init` then loops forever. The only
concurrency is between that loop and the interrupt handlers: the scheduler is
cooperative and task bodies are functions that return an action.

| Component | State | Operations | Talks to | What is hard | What makes it correct |
|---|---|---|---|---|---|
| task scheduler (`task/mod.rs`) | slots, generations, saved contexts, `current`, cursor `next` | spawn, wake, cancel, reap, wake_expired, run_next, run_ready | shell loop calls run_ready with a tick count read earlier | slot reuse, wrapping generations, budgets that cut a round, a stale `now` | old ids are rejected, one Running task, fair rotation, sleeps respected |
| memory map (`memory.rs`) | descriptors in firmware order | initialize, reserve, kind_at | boot, frame allocator, paging | splitting descriptors in a bounded table | a reservation loses nothing |
| frame allocator (`frame.rs`) | free runs, managed runs, count | new, allocate, allocate_contiguous, release | memory map gives it runs; heap and paging take frames | lists not in address order, full table | one owner per frame |
| heap set-up (`allocator/mod.rs`, `boot.rs`) | heap range | initialize_heap | memory map, frame allocator | two views of free memory | exclusive heap, agreement |
| paging (`paging.rs`) | four levels of tables in the image, the arena, CR3 | initialize, map_page, map_device_page, unmap_page | memory map says what is device memory | shared tables, an arena that runs out half-way, two stack windows, a call that asks for no memory kind | an address space: one call changes one run of new pages, rights as requested; devices uncached |
| custom heap (`allocator/mod.rs`) | linked list of free chunks | init, alloc, dealloc | every `String` and `Vec` | splitting and merging in every order, alignment | no byte has two owners |
| shell loop, input drivers, PIC (`shell/mod.rs`, `keyboard/mod.rs`, `mouse/mod.rs`, `interrupts/`) | queues, drop counters, `CTRL_HELD`, IRQ masks, IF | loop steps, three IRQ handlers, enable_runtime, enable_mouse | handlers and loop share queues and counters | an interrupt between check and `hlt`; full queues | no lost wake-up, all bytes accounted for |
| console and line editor (`console/mod.rs`, `commands/`) | the line (shell), `current_line`, cursor, history and its index (writer) | every key, commands, output in between | shell owns one copy of the text, the writer the other | two copies, an index into a list rebuilt from the screen | what is shown is what Enter runs |
| screen (`console/mod.rs`, `graphics/`, `mouse/mod.rs`, `main.rs`) | pixels, row and column, glyph cells, font, pixels under the mouse | print, scroll, redraw, zoom, history, mouse cursor, emergency_print, panic | the editor's text, the shell's keys and mouse events | wrapping, scrolling by pixels, stale cells and saved pixels, failures at any moment | input readable, mouse leaves no trace, failures visible |
| mouse path (`mouse/mod.rs`, `interrupts/`) | place in the command sequence, IRQ masks, byte queue, packet under assembly | initialize_controller, drain, enable_runtime, enable_mouse, two handlers, poll | controller, mouse and keyboard act at their own pace; both handlers read one port | timeouts between two commands, keys among the answers, remembered requests, lost and stray bytes | keyboard keeps working, boot goes on, packets and keys genuine, port served |
| timer (`timer/mod.rs`, `interrupts/pit.rs`, `interrupts/pic.rs`) | `TICKS`, the mask of IRQ0 | sleep_ms, sleep_block, conversions, enable_mouse | PIT interrupt | tick between check and `hlt`, rounding, a timer that is masked | sleeps are long enough, and end once the timer is unmasked |
| profiling (`profiling.rs`, `profile-macro/`) | call tree, current node, guards; the token trees of a module | enter, drop, suspend_recording, dump; transform_scope | the macro puts calls of enter into functions; interrupt handlers call it too | handlers nest guards anywhere; a full tree; braces and attributes that mislead the scan | hooks exact, node = call path, calls counted |
| IDT/GDT, colours, firmware calls, smoke tests, scripts | written once or output only | | | | not modelled, section 6 |

## 2. Modules

Each module has one action per operation; an operation that returns an error and
changes nothing takes no step. Variables keep the source's names. Variables marked
*history* in a module record what happened and influence nothing.

**Scheduler** (`task/mod.rs`). `state`, `until`, `generations`, `current`, `next`
are the fields of `Scheduler`; `framed[i]` says that slot i's context has been
written. `run_ready` is split where other code can run: `RunReady` takes the
lock with the `now` read before, `Dispatch` is `run_next` up to the call of
`entry()`, `EntryReturn` the rest, `ReturnIdle` and `ReturnSpent` its two ends.
`Tick` may come at any point, the other operations only between calls, because
`run_ready` holds the spin lock throughout. `GEN_MAX` stands for 2^32 - 1.
A handle is any id `spawn` ever returned.

**SchedulerProofs**, **FrameAllocatorProofs**, **HeapAllocatorProofs**,
**ShellLoopProofs**, **TimerProofs**, **LineEditorProofs**, **MouseDriverProofs**,
**BootProofs**: the theorems about the module each extends, section 5.

**FrameAllocator** (`frame.rs`). Addresses are frame numbers. `owned`, `granted`
and `lost` are the handles that exist: frames held singly, frames in a contiguous
grant (never returned), and frames whose handle a failed `release` consumed.

**MemoryMap** (`memory.rs`): operators on descriptor lists, used by Boot.

**Paging** (`paging.rs`): the page tables as operators. The storage in the image is
a sequence of tables, the root first; an entry of the upper levels names a table by
its place there. `NextTable` goes down one level and takes a table from the arena if
it must, `MapPage` and `MapRange` are built from it, `Path` and `Translation` are the
processor's page walk. Addresses are pages; the canonical halves and the overflow of
the address space are kept.

**AddressSpace**: what paging promises, without tables. Abstract, implemented by Boot.

**Boot** (`boot.rs`, `allocator::initialize_heap`, `paging::initialize`) composes
MemoryMap, FrameAllocator and Paging. One action per call of the sequence; an error
ends it in `stage = "halted"`, as `fatal()` does. Afterwards drivers may call
`map_device_page`, `unmap_page`, and `map_page` with any frame, device memory too, and
any flags. The machine (firmware map, image, framebuffer, the stack page seen by each
of the two functions, pages and frames drivers use) is the environment; the two stack
pages may be any distance apart. **MCBoot** enumerates the machines.

**ShellLoop** (`shell/mod.rs`, `keyboard/mod.rs`, `interrupts/handlers.rs`,
`interrupts/pic.rs`, `platform/mod.rs`). `pc` names the next operation of the loop;
a handler is one step, possible whenever IF and the mask allow. The 8042 has one
output buffer that both devices fill. The keyboard has two Ctrl keys, the driver one
flag. `mouseBuild` selects the feature. Tasks are
the number of dispatches they still need.

**HeapAllocator** (`AgnostOSAllocator`, feature `custom-allocator`). The heap is
bytes `0 .. HEAP_SIZE - 1`; `free` is the linked list. `Alloc` and `Dealloc` hold
the mutex and are one step. `layouts` is what a kernel asks for.

**LineEditor** (`shell/mod.rs` key match, `console/mod.rs`, `commands/`). One action
per key with all console calls it makes; `Background` is a line printed by a task or
a report between two keys. A command's reply is nothing, a line, or a line that
begins with the prompt (`echo`).

**Screen** (`console/mod.rs`, `graphics/`, the mouse cursor, exception and panic
handlers) EXTENDS LineEditor: each key action is conjoined with what the console
draws for it. The framebuffer is linear memory, as a set of dots <<pixel, ink>>.
`writer` is the KWriter's geometry; the drawing operators take and return it. `clean`
is the framebuffer had there been no mouse. `mode` says how the kernel stopped: by an
exception with a message, silently (double fault, machine check), by a panic, or
waiting for the console lock it holds itself.

**Ps2Handshake** (`initialize_controller` and its caller): `Steps` is the command
sequence; `Write`, `Read`, `Poll`, `Timeout` execute it. The controller (`Obey`) is
external: it acts at any time or never. The PIC may remember the request of a byte
that was read by polling. A byte at the port has a source: the firmware's time, the
controller, the keyboard or the mouse; `misread` (history) says that one from elsewhere
was taken for the controller's configuration.

**MousePackets** (`mouse/mod.rs`): `PushMouseByte` is the handler's part, `Poll` the
driver's; a byte is the set of its bits and decoding is arithmetic on them. Each byte
carries the movement it came from as history.

**MouseDriver** EXTENDS Ps2Handshake and INSTANCEs MousePackets: boot, the two
unmaskings, the two handlers on one data port, and the shell's polls, against a mouse
that moves and keys that are pressed at any time, during the handshake too: the sequence
never turns the keyboard's port off. `misled` (history) says that the mouse's handler has
taken a byte of no movement that looks like a header.

**Timer** (`timer/mod.rs`): an oscillator, `TICKS`, the PIC's mask, which only
`EnableMouse` of the mouse build opens, and the two sleeps with the gap between check and
`hlt`. While IRQ0 is masked the counter runs out in vain.

**Profiling** (`profiling.rs`): calls and interrupt handlers share one stack of
guards. `enter` changes the tree with interrupts off, so it is one step.

**ProfileMacro** (`profile-macro/src/lib.rs`): `transform_scope` and its scans over
token trees. `Rendered` is the reference: the tokens of a source, with or without
hooks, from its grammar.

**ProfiledKernel** composes the two: a source is rewritten, and the functions that
got a hook run.

## 3. Runs

| Run | Configuration | Distinct states | Shows |
|---|---|---|---|
| scheduler | 3 slots, budgets 1 and 2, generations 1..2, 3 spawns, ticks 0..1 | 138,645 | types; one Running task and it is `current`; stale ids rejected; no slot passes a Ready task twice; sleeps not cut short; Ready tasks served; sleepers wake |
| frames | 7 lists of up to 3 runs in and out of address order, table of 3 | 6,269 | one owner per frame and an exact count; the owner may release; with sorted descriptors the list stays sorted and merged and a double free is refused |
| boot_memory | 10,369 machines: all orders of 4 blocks, a hole, listed both ways, stack markers up to two pages apart, framebuffer near or far; drivers on some | 112,405 | heap exclusive, in the way of the stack window only with markers more than a page apart; guard pages unmapped with markers on one page; map and allocator agree; reservations keep neighbours; rights as requested; the kernel's device mappings uncached; the tables implement AddressSpace |
| shell_loop | both builds, queues of 1, 4 keyboard and 2 mouse bytes, 3 task dispatches | 440,088 | no sleep on queued input; bytes accounted for; Ctrl state right unless a byte was dropped; input read; tasks finish |
| heap | 24 bytes, header 4 aligned to 2, two workloads | 228,743 | no shared byte; list sorted, merged, headers fit; header-sized requests do not leak and keep headers aligned |
| heap_leak | the same | violation | other requests leak |
| editor | 3 characters, limit 2, history of 2 lines | 286,135 | cursor inside the line and history index valid, shown = run |
| screen | displays of 5x21 and 4x20 pixels (with and without padding), two fonts, 4 events after the first prompt, on a fresh or a scrolled screen | 171,695 | input readable; mouse leaves no trace; failures visible; nothing drawn beside the rows |
| profile_tree | 649 sources of one to four functions; one of them run with 2 functions, 4 nodes, depth 3, 6 calls | 86,238 | hooks exact; path = stack, one node per path, calls counted |
| mouse_path | 2 polls per wait, 2 drained bytes, queue of 1, 2 firmware configurations, with and without a stale byte, two kinds of mouse, the key A | 695,527 | keyboard interrupt lost only to a misread configuration, and `Ok` earned; packets genuine; no phantom keys; boot continues; port served |
| mouse_key | the same, no stale byte | violation | a key pressed during the handshake costs the keyboard its interrupt |
| timer_sleep | both builds, 7 pulses and 3 ms per second, divisor 2, 12 ticks | 5,188 | sleeps long enough; with the timer unmasked, sleeps end |

**Why the bounds are enough.** *scheduler*: with three slots a budget of one or two
ends a round early, all three slots can be Ready together, and slot 0 can be reused
twice, which takes its generation through the wrap 1, 2, 1; the safety properties
are also proved for all bounds. *frames*: with three table entries the table is
full, and is full exactly when an isolated frame comes back; runs touch, split and
join on both sides. *boot*: the blocks are as small as the stack window, so the
image, the stack and both usable blocks meet on all sides. Tables of 4 entries make
the small address space have all four levels, both halves and tables shared between
the mappings; the arena of 10 tables is exhausted during the boot on some machines,
by a driver on others, and suffices on others. Markers two pages apart are as far as
half the reserved window: the heap then reaches the mapped window. The drivers' frames
are one of the framebuffer and one of ordinary memory, the flags of `map_page` a
read-only page's and a cached, executable user page's.
*shell_loop*: a queue of one is full after one byte, so every drop and every Ctrl
loss occurs within three bytes, and a fourth allows both Ctrl keys; a longer queue delays
the same events. *heap*: room for six chunks, so a freed chunk has no, one or two free neighbours. *editor*: the
limit is reached after two characters, a recalled line exceeds it, and the index can
be first, middle or past the last line. *profiling*: the fourth new path meets a full
tree, with callers above and below. *screen*: four events
suffice to complete an input of three rows, cancel it in the middle, scroll, and
redraw it, with the mouse over it; the widths and heights leave a remainder for one of
the fonts. *profile macro*: all combinations of attribute, const, const arguments
before and after the arrow, body and nested function, in each kind of scope and after
each kind of neighbour. *mouse path*: each of the eight steps can time out with the
controller before, at or after its answer; packets are longer than the queue, so bytes
of each position are lost (with a queue of two, and one poll per wait, TLC has checked the
three invariants on 3,604,731 states). The key sends 0x1e, which as a configuration lacks the
keyboard's bit and as a mouse byte is a header, so it does what a key can do to either.
*timer*: 7/6 ticks per ms do not come out
even.

Deadlock checking is off for Boot (the sequence ends), for the screen (an exception or
a panic ends it) and for the frame allocator (all memory granted and nothing owned is a
legitimate end).

**Fairness.** *Scheduler*: weak fairness of `RunReady`, `Dispatch`, `EntryReturn`,
of the return from run_ready, and of `Tick`: the shell loop calls run_ready on each
pass, the task bodies of the repository are short functions that return, the PIT
is periodic. The first and the last hold in the default build, with the mouse: there the
timer is unmasked and brings the loop back; without it `ReadyIsServed` depends on keys
and `SleepersWake` fails, as time stands still. *ShellLoop*: weak fairness of the loop's steps and
of the PIT, strong fairness of the three handlers: IF is off only between
`disable_interrupts` and `sti`, again and again, and a pending unmasked interrupt is
taken at the first chance. `TasksFinish` is stated for the mouse build, see
section 4. *MouseDriver*: weak fairness of the boot code, of the two unmaskings, and
of the two handlers (a request that is unmasked stays until it is served); nothing is
asked of the controller, the mouse or the user. *Timer*: the oscillator runs and the loops
execute; not that the timer is ever unmasked, hence the premise of `SleepsEnd`.

## 4. Where the code and its comments disagree

Two disagreements have a run of their own.

* **heap_leak** (`allocator/mod.rs:269-281`). A remainder too small for a header
  and the gap before an aligned start belong to no chunk after `dealloc`, which
  rebuilds the chunk from `layout.size`. `WholeRequestsAreSafe` shows that
  header-sized requests are unaffected.
* **mouse_key** (`mouse/mod.rs:430`). `initialize_controller` takes the next byte at the
  data port for the configuration, adjusts two bits ("Bit 1 enables IRQ12; bit 5 enables
  the auxiliary device clock", `:431`) and writes it back. A key pressed before the
  answer comes is that byte: after 0x1e the keyboard's interrupt is off, until the next
  reset. A byte left over from firmware, which `interrupts/mod.rs:75` expects and drains
  only afterwards, has the same effect. `HandshakeIsHonest` says that this is the only way
  to lose the interrupt, and that `initialize_controller` does not return `Ok` then.

The following are preconditions the checked properties carry, or behaviour the
models contain and no property forbids:

* `paging.rs:432`: "Leave one unmapped guard page on either side of the bootstrap stack
  window". The image, mapped first, may lie there. And the heap may: initialize_heap
  reserves 64 pages around *its* `stack_marker`, paging::initialize maps 62 around another
  one, and when the two lie on different pages the margin on one side is gone.
  `GuardPagesAreUnmapped` excepts these cases; without either exception TLC finds a
  mapped guard page.
* `allocator/mod.rs:52`: the region initialize_heap returns "is available for exclusive use
  by the allocator". Nothing bounds the distance of the two markers, and two pages apart
  the heap reaches into the window that is mapped as the stack; the boot then ends in
  `fatal()`. `HeapIsExclusive` says what remains: the heap has no frame of the *reserved*
  window however far the markers are apart, and with markers at most a page apart
  (`NearMarkers`) it is never in the way of the mapped one. Without the exception
  TLC finds the halt.
* `memory.rs:29` says of Device memory that "paging refuses to map these as cacheable
  RAM". `map_device_page` asks for the kind, `map_page` (`paging.rs:276`) does not and
  accepts a device frame with any flags. The second half of `RightsAreAsRequested` says
  that nothing else in the kernel does that, and excepts that call.
* `timer/mod.rs:54`: `sleep_ms` "Requires interrupts to be enabled", and both sleeps check
  IF. They need IRQ0 unmasked too, which `enable_runtime` leaves masked (`pic.rs:98`)
  and only `enable_mouse` opens (`pic.rs:109`): before that, and for ever without the
  `mouse` feature, a sleep does not end. `SleepsEnd` has the premise; as
  `[]<>(pc = "awake")` TLC refutes it.
* `frame.rs:149` says release answers InvalidAddress for a frame "already free".
  The scan assumes address order, which `new` does not establish:
  `FreeListIsSound` needs `InOrder(managed)`, and without it TLC finds
  a free frame that is accepted again, for `<<4..6, 1..2>>` for instance. Handles
  are consumed by release, so no caller in the repository can do that.
* `allocator/mod.rs:234`: "so dealloc can always write a valid header". A request
  of 17 bytes leaves the next header misaligned; a release build on x86 performs the
  access, a debug build panics. `WholeRequestsAreSafe` carries the precondition. The
  comment at `allocator/mod.rs:163` says a freed chunk goes to the head of the list;
  the code inserts in address order.
* `interrupts/pic.rs:96` announces that the timer IRQ is enabled later; only
  `enable_mouse` does it. Without the `mouse` feature `TICKS` stays 0 and a
  halted loop resumes on keystrokes only, hence the premises of `TasksFinish` and
  `SleepsEnd`.
* `mouse/mod.rs:275`: the parser recognises a header by bit 3 alone. A data byte
  with that bit is taken for one after a loss; `PacketsAreGenuine` needs movements
  without it. A stray byte that itself has a header's bits, such as the scancode 0x1e
  read again by a remembered IRQ12, does start a packet: the property excepts it
  (`misled`).
* mouse path: after a misread configuration without the keyboard's bit the next key stays
  at the port and blocks both devices; `PortIsServed` excepts it.
* mouse path: a remembered IRQ12 pushes the byte read last once more, and the drain may
  swallow the first header of a movement, since the mouse reports from its ACK on. A
  remembered IRQ1 re-reads the last byte too; after a handshake that succeeded that is
  the 0xfa `handlers.rs:143` filters. `NoPhantomKeys` says when this is enough: after a
  failed handshake, or if the mouse moves before it is unmasked, the keyboard's handler
  can take a byte of the mouse for a key.
* keyboard: one flag for two Ctrl keys, hence `bothDown` in
  `CtrlIsTrackedUnlessDropped`.
* paging: a mapping that fails leaves the tables it made; `map_page` also accepts
  pages of the recursive window, which would rewrite the tables themselves.
  `AddressAssumption` excludes them, no caller uses them.
* console: `command_history` is documented as excluding empty and `^C` lines
  (`console/mod.rs:435`) but compares the whole row, which still has the prompt;
  a recalled row may exceed `MAX_INPUT_CHARS` (`globals.rs:14`); Enter keeps
  `history_index` although `None` should mean not browsing (`console/mod.rs:51`);
  `reset` keeps the history it is said to wipe (`console/mod.rs:274`); and after a
  background line an arrow key draws a bare prompt while the shell keeps the text
  (`console/mod.rs:600`). LineEditor reproduces all five.
* screen: `redraw_input_line` says it erases "all rows the input may occupy"
  (`console/mod.rs:530`) and erases the rows of the new text, so a shorter text leaves
  the old one's last rows, and none at all when they do not fit the display
  (`draw_rec` rejects such a rectangle). `zoom_in`, `zoom_out` keep the glyph cells
  of the old size; `history` and `font` can leave the prompt over other text or
  below the screen: hence `jumped` in `InputIsReadable`. When the height is no multiple
  of the line height, scrolling moves text off the grid of rows. Wrapping never
  scrolls, so an input of more than three rows may be invisible. A line printed while
  the cursor stands inside the input is drawn over it, a task's line over the block
  cursor. `draw_text` clips the last glyph where redraws wrap by pixels.
* mouse cursor: `saved_under` is restored whatever the console drew or scrolled there
  since (`mouse/mod.rs:85`), hence `smudged` in `MouseLeavesNoTrace`.
* `main.rs:3` says panics print through the console after ExitBootServices; one raised
  inside a console operation waits for the lock that operation holds.
* profile macro: attributes are searched as text, doc comments included, so one that
  mentions "naked" or "not_profiled" excludes its function; functions inside
  parentheses are not hooked; `impl Trait for fn()` loses its context. The sources
  of the run have none of these.

## 5. Proofs

Eight modules of proofs, each about the module it extends, each built in the same
way: an inductive invariant, a lemma that the initial states satisfy it, one lemma per
action (or per call several actions share) that a step keeps it, and theorems that
follow from it. All are statements about every value of the constants. TLC has checked
each inductive invariant on the instance of the module's run, except Boot's, which
quantifies over all integers and over shapes of trees; there TLC has checked the
properties themselves.

| Theorem | States |
|---|---|
| *SchedulerProofs* | |
| TypeCorrectness | `TypeOK`; the cursor always indexes the slot array |
| CurrentCorrectness | `CurrentIsTheRunningTask`, so run_next's error exits after `entry()` are unreachable |
| StaleIdRejection | `StaleIdsAreInvalid`: an old id is rejected until GEN_MAX more tasks have used the slot |
| RoundRobin | `BoundedBypass` |
| ContextFreshness | `FreshTaskHasFreshContext`, which has no run of its own |
| SleepRespected | `SleepIsNotCutShort`, an action property |
| *FrameAllocatorProofs* | |
| FramesHaveOneOwner | `EveryFrameHasOneOwner`, and the count of free frames is exact |
| HoldersMayRelease | `OwnerMayRelease`: release accepts every frame a handle holds |
| FreeListStaysSound | `FreeListIsSound`: in address order and merged, double frees refused |
| *HeapAllocatorProofs* | |
| BlocksAreExclusive | `AllocationsAreExclusive` |
| FreeListStaysCoalesced | `FreeListIsCoalesced` |
| WholeRequestsStaySafe | `WholeRequestsAreSafe`: no leak, headers aligned |
| *ShellLoopProofs* | |
| ShellNeverSleepsOnInput | `NeverSleepsOnInput`, no lost wake-up |
| ShellAccountsForEveryByte | `EveryByteIsAccounted` |
| ShellTracksCtrl | `CtrlIsTrackedUnlessDropped` |
| *TimerProofs* | |
| SleepsLastLongEnough | `SleepsAreLongEnough` |
| *LineEditorProofs* | |
| IndicesStayValid | `IndicesAreValid` |
| ShownTextIsRun | `ShownIsRun` |
| *MouseDriverProofs* | |
| HandshakeHonesty | `HandshakeIsHonest` |
| HandshakeTypesNothing | `NoPhantomKeys` |
| PacketsStayGenuine | `PacketsAreGenuine` |
| *BootProofs* | |
| MapAndAllocatorAgree | `MapAgreesWithAllocator` |
| NeighboursKeepTheirKind | `ReservationsKeepNeighbours` |
| HeapIsOwned | `HeapIsExclusive` |
| PagesHaveTheirRights | `RightsAreAsRequested`, an action property |
| TablesRefineAddressSpace | `TablesImplementAddressSpace`, the refinement of AddressSpace |

**Scheduler.** The constants are natural numbers, slots and generations at least one.
`IndInv` is the conjunction of `TypeOK`, `CurrentIsTheRunningTask` and

* `NowIsPast` (`now <= clock`): what makes a stale `now` harmless;
* `Rotation`: a slot that passed a Ready task i lies behind i in the scan that
  starts at `next`. `bypass <= 1` alone is not inductive: a second pass is excluded
  only because the scan reaches i first;
* `RunningIsFirst`: while a body runs, no Ready task is ahead of it in the scan;
  `next` moves only when the body returns, so the fact has to survive in between;
* `GenerationTrail`: a slot's generation is its n-th issued one moved on by the
  spawns since. It makes old and new generations differ below GEN_MAX spawns;
* `ContextTrail`: a written context belongs to a task that ran.

The lemmas on the cursor's arithmetic tie the closed form `Offset` to the code's
`(next + offset) % MAX_TASKS`.

**FrameAllocator.** `AllocatorInv` is `TypeOK`, `EveryFrameHasOneOwner` and
`FreeListIsOrdered` (if `managed` is in address order so is the free list, and two runs
touch only where two descriptors did). Each operation is reduced to which frames the
list holds afterwards: `TakeFrontIs` for the two allocations, `ReleasedIs` for the four
ways of putting a frame back. Exactness of the count needs the cardinality theorems.
That the owner may release needs no order: whatever run the scan stops at, a frame in
somebody's hands is in no free run.

**HeapAllocator.** `HeapInv` speaks of bytes, not of chunks: every byte has at most one
owner (`BytesHaveOneOwner`), the list is sorted with gaps (`FreeListIsSorted`), and for
workloads of whole headers every byte has an owner and every boundary is a multiple of
the header (`HeapIsTiled`). With that splitting and merging are statements about which
bytes a list holds, and the single chunk at the end follows since two neighbouring
chunks would leave a byte between them without an owner. Assumed: the heap is whole
headers (it is whole pages) and an alignment up to the header's size divides it, as
both are powers of two (`PowersOfTwoAssumption`).

**ShellLoop.** `LoopInv` adds two facts to the accounting. `SleepIsDecidedInPeace`:
from the check of the queues to `hlt` interrupts are off, and once decided the queues
are empty. `CtrlTrail`: from `CTRL_HELD` through the queue and the output buffer to the
key itself, each scancode finds the Ctrl state its predecessor left.

**Timer.** `TimerInv` says that `TICKS` is the quotient of the pulses, that it stands
still while IRQ0 is masked, and that the target of a sleep is its start plus the duration rounded up. The theorem is then the
arithmetic of one conversion that rounds up and one that rounds down, for numbers below
the saturation of `u64` products (`UptimeAssumption`).

**LineEditor.** `EditorInv` is `IndicesAreValid` and `ShownIsRun` with types; each
needs the other: the cursor is moved over what the row shows, and it shows no more than
the line because of the second. That the index survives printed lines rests on
`CommandHistoryGrows`: a line more is never a command less. `command_history` is a
recursive function; that it exists for each history and what it computes is derived by
taking a least counterexample (`LeastElement`).

**MouseDriver.** `PortInv` says at which place of the command sequence kernel and
controller are. `PendingIsExpected`: a write not yet taken finds the target the write
before it has chosen, also if the kernel has given up since; so a late controller never
takes the mouse's command for a configuration. `AnswersAreTheirs`: an acknowledgement in
the buffer is the firmware's before the configuration is read and the mouse's
afterwards, with nothing behind it; and when another byte, a key's for instance, was read
as the configuration, the true answer is still in the buffer, so that the last read meets
it and the result is not `Ok`. `PortIsQuiet`: after a success the port shows 0xfa or a
key until the mouse is unmasked, and from then on only a key requests the keyboard's
handler. Assumed: the firmware's configuration lets the keyboard interrupt, at most one
byte is in the controller's buffer, which holds no more, and it may be any
(`FirmwareAssumption`); no key sends 0xfa or 0xfe, the keyboard's answers to commands
(`KeyAssumption`).

`PacketInv`, on top of it, follows a byte of a movement from the port to the shell. The
bytes the parser holds and the queue behind them are one `Stream`. `QueueIsFed`: once a
byte of a movement is in the stream the PIC remembers a request only for the byte that is
at the port, which is a movement's or a key's, so none is taken elsewhere and none is
read twice. Hence `Chain`: each byte of a movement in the stream is followed by the next
one the mouse sent (`InOrder`), and if nothing stray came the stream starts with a
header (`Whole`). poll takes nothing, one byte that is no header, or three
(`PollIs`, `ShiftedIs`), and `DecodedIs` is the arithmetic: decode_packet undoes the
encoding for all nine bits of each direction. Assumed: movements have nine bits
(`MouseAssumption`). What the firmware leaves and what keys send may look like a header;
the property's premise `~misled` excepts the case that the mouse's handler takes one.

**Boot.** Two invariants, the second on top of the first. `MemoryInv` says what each
call of the sequence has made of the firmware's map. `ReservedIs` reduces a reservation,
however it cuts the descriptors, to its effect on `KindAt`; then `Trail` (frames
reserved so far are Kernel or outside the map, the framebuffer's are Device or outside,
the others are as the firmware gave them) passes from stage to stage, and `FreeTrail`
relates it to the free list: between the grant of the heap and its reservation, and only
then, the map calls frames usable that are not free. `HeapApart` follows at the grant,
since what is free was usable and unreserved.

`PagingInv` is about the tables. `Tree` says that there are a level for each table and a
page it was made for (`Shape`), so that a walk is in a table only with the indices of
that page above it: two pages share a table exactly as far as their indices agree, and
no entry is on the way of a page it does not belong to. `Sound` says that the levels
above a mapped page are as wide as its entry (`Wide`).
Neither follows from the other properties: without `Shape` one could not exclude that
`map_to` widens, or `unmap` clears, an entry that another page's walk goes through.
`WidenedIs`, `ExtendedIs`, `AddLeaf` and `UnmapPageIs` are the four things a call does
to the storage; `NextTableWalks` puts them together level by level, `MapRangeIs` page by
page, for a call that succeeds and for one that stops half-way. `MappedTrail` records
which runs have been mapped at each stage and gives the second half of
`HeapIsExclusive`: a page that is found mapped is where two runs overlap, and the heap
overlaps only a stack window around a marker more than a page away.
`NextMapsUncached` goes through the calls: what the map calls Device is outside
image, heap and the reserved window by `Trail`, so only `DeviceFlags` reach it. Every step is a `Change` (one run of pages more, or one page less),
which `ChangeIsStep` turns into a step of AddressSpace under the refinement mapping
`mapping`; `MappedIs` and `TranslationIs` say what that mapping is. That pages with the
same four indices are the same page (`SamePage`) is the arithmetic of `Digits` and of the
two canonical halves.

Assumed: the firmware describes no frame twice (`FirmwareAssumption`); the flags given to
`map_page` are among the five that decide an access and contain PRESENT, without which
the mappers panic on a new table (`FlagsAssumption`); no frame that is identity-mapped and no page of
a driver is in the recursive window (`AddressAssumption`); a table has at least two
entries and the address space is a multiple of what four levels tell apart
(`PagingAssumption`).

Only model-checked:

* liveness (`ReadyIsServed`, `InputIsRead`, `BootContinues` and the others): temporal
  reasoning with fairness is outside the prover's reach. With `RoundRobin` the step from
  bounded bypass to `ReadyIsServed` for more slots is an informal one: each dispatch uses
  up one of finitely many passes;
* `GuardPagesAreUnmapped`;
* the Screen properties (sets of dots computed by folds), the Profiling tree, and the
  macro, whose scans are `RECURSIVE` operators.

## 6. Abstractions and what is left out

* Memory is counted in frames; image, framebuffer and heap are page aligned.
* The layout tables of the keyboard are the pc-keyboard crate's.
* The mappers are the x86_64 crate's, modelled from how paging.rs uses them; the TLB is
  flushed after each change and left out. The higher-half windows of
  `VirtualMemoryLayout` are reservations nothing uses yet.
* The prompt is one symbol. In Screen glyphs are a few pixels, a glyph fills its cell,
  and colours and blending are left out; a command's reply is nothing or one line that
  wraps; a panic prints three lines for its eight. Displays have at least five lines of
  the largest font and room for the mouse's clamp, as the usual GOP modes have.
* The heap model leaves out the guards against address overflow. The
  linked_list_allocator crate, used without the feature, is third-party.
* Profiling: a handler between enter's first look at `RECORDING` and `cli` is a
  handler before enter. Guards older than the dump stay, as the dump does not return.
* Timer frequencies are scaled down; the ratio still does not divide evenly.
* A task body that calls `with_scheduler` would spin on the lock run_ready holds; no body
  in the repository does.
* The macro's text is tokens without the words no scan looks at; making paths absolute
  and writing the generated file are left out.
* Not modelled: register values and the unused assembly of the context switch; IDT
  and GDT (written once at boot); colours, `draw_line` and `draw_circle` (no caller);
  firmware calls before ExitBootServices (they only return errors); the macro's file
  handling; smoke tests (instrumentation) and scripts (host-side). None of them has
  state another part reads or an order of steps to get wrong.

## 7. Plan

Done: the modules above, in the order scheduler, frames and memory map, boot, shell
loop, heap, line editor, timer and profiling, then paging with its refinement, the
mouse path, the screen and the macro. The proofs of section 5
followed in the order scheduler, shell loop, timer, frames, heap, line editor, mouse
path, memory map, paging. `RECURSIVE` occurs only in ProfileMacro and ProfiledKernel,
about which no proof is planned.
