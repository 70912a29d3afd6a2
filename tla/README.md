# A verification project for operating-system-x86

TLA+ modules about the hobby operating system in this repository, TLC
configurations that check them on small instances, and proofs that TLAPS checks.
Paths below are relative to the repository; `includes/` stands for
`src/kernel_loader/includes/`.

## 1. The system

| part | code | state | operations | talks to |
|---|---|---|---|---|
| image builder | `build/add_file.py`, `build/Makefile` | the pickled next cluster, root directory, FAT, data (files between calls) | `-init`, add a file, `-package` | boot loader and kernel, through the image |
| boot loader, stage 1 | `src/bootcode/bootloader.asm` | geometry in the boot sector | loads rest of loader, FAT and root directory | BIOS |
| boot loader, file lookup | `src/bootcode/_FAT16.asm` | registers `si`, `di` | find a name, load a chain of sectors | BIOS, FAT and directory in memory |
| boot loader, stage 2 | `src/bootcode/load_kernel.asm` | memory map, video mode | memory map loop, mode search, kernel load, protected mode | BIOS |
| kernel entry | `src/kernel_loader/kernel_loader.c` | none | initialises disk, FAT, screen, PIC, IDT, keyboard in this order, draws one image, halts | everything below |
| disk driver | `includes/drive.c` | copy of the geometry (the drive number) | read and write sectors, polling | ATA drive |
| FAT16 reader | `includes/FAT16.c` | copies of root directory and FAT | `find_entry`, `read_all_to` | disk driver |
| interrupt controller | `includes/pic.c` | vector bases, mask registers | init, mask, unmask, end of interrupt | 8259, IDT |
| descriptor table | `includes/idt.c` | 256 gates | install a gate, load the table | CPU |
| exceptions | `includes/exceptions.c` | none | recolour, print and stop; one returns | screen, IDT |
| keyboard | `includes/ps2.c` | key map, shift, control, callback | controller set-up, interrupt handler | 8042, PIC, IDT |
| timer | `includes/pit.c` | none | start a counter | PIT, PIC |
| physical memory manager | `includes/physical_memory_manager.c` | bitmap, counter | region calls, allocate, free | memory map |
| paging | `includes/virtual_memory_manager.c` 1-114 | directory, tables | map, unmap, allocate, free a page, set up | physical memory manager, CPU |
| heap | the same, 116-216 | list of blocks | init, allocate, split, free, defragment | paging |
| screen | `includes/vbe_driver.c` | mode, font, colours | print, line, fill, box, image | frame buffer, FAT16 reader |
| memory functions | `includes/stddef.c` | none | set, copy, move, compare | |

The kernel is one thread. What runs concurrently with it are the keyboard
interrupt handler, which may come between any two instructions once interrupts
are on and line 1 is unmasked, and the devices: the keyboard controller, the
keyboard, the interrupt controllers, the drive, the CPU's translation cache. Hard
to test are therefore the orders in which devices answer (the keyboard set-up,
nested and spurious interrupts), everything that builds up over a long sequence
of calls (allocator, page tables, heap list, FAT, modifier keys), the limits (a full
directory, a run of 256 sectors, a memory map longer than its table), arithmetic
at the edges (screen, timer, heap sizes), and the endless waits. Nothing is
persisted by the running system but whole sectors, so there is no recovery after
a crash; the image builder can die between its files. `PROJECT.json` lists the
hazards line by line with the properties about them.

What makes each part correct:

- physical memory manager: no block handed out twice, none lost, block 0 never
  handed out, but for what a region call releases past its end; the search finds
  what it promises; the counter follows the bitmap;
- paging and heap: a frame has one owner, allocations do not overlap, freed
  memory is found again, translations are never stale;
- interrupts: through an unfinished gate only if its line was unmasked too early,
  every interrupt ended, the set-up ends, each key handled once and in order;
- image and readers: chains exact and disjoint, a reader gets the bytes the
  builder was given, searches end;
- screen and memory functions: what is written stays in the frame buffer, equals
  a reference definition.

## 2. Modules

| module | models | state and actions |
|---|---|---|
| `BlockAllocator` | abstract: what a block allocator promises | `pool`, `owned`; Release, Reserve, Grant, GiveBack |
| `PhysicalMemoryManager` | `physical_memory_manager.c` | bitmap (as the set of used blocks), counter, the locals of the search; an action per region call and free, a step per bitmap byte skipped and per bit looked at |
| `VirtualMemoryManager` | `virtual_memory_manager.c` 1-114 | directory, tables, the translations the CPU holds, the pool, and as histories what bit 31 leads astray; an action per function, the callers' allocate-then-map as two steps, the flush, and the CPU's table walk |
| `Heap` | `virtual_memory_manager.c` 116-216 | the headers by address, number of pages; search, cut and grow, free and defragmentation with a step per merged or visited block |
| `Interrupts` | `idt.c`, `pic.c`, `exceptions.c`, end of `pit.c` | gates, one of them perhaps half stored, flag, mask, request and service registers, the stack of handlers and which of them has words left on it; set-up and mask calls, an install in two steps, acknowledge, spurious, exceptions, handler steps |
| `Timer` | `pit.c` | the three counters and their half-written values; `pit_start_counter` |
| `Scancodes` | `scancodes.h`, how `kbh` takes them | operators that both keyboard modules use |
| `Ps2Hardware` | external: 8042, keyboard, line 1 of the 8259 | configuration byte, input and output buffer, keyboard queue, mask, request, service |
| `Ps2` | `ps2.c` with what it uses of `pic.c`, `idt.c` and `entry()` | `at` is the step of the straight-line boot code (the table `Program`, one row per port access), `handler` the position in the interrupt handler |
| `KeyEvents` | `ps2.c` 86-140 | key map, flags, callback, last event; a byte handled, register, unregister |
| `ImageBuilder` | `add_file.py` | `clust`, `filetable`, `clustertable`, `data`; AddFile, Package |
| `FileSystem` | `_FAT16.asm`, `FAT16.c`, `drive.c` over `ImageBuilder` | the loader's `di`, the locals of `find_entry`, `read_all_to` and `disk_read_from`; an action per loop iteration |
| `Drive` | `drive.c` over an external ATA drive | platter, registers, the driver's position; a step per command and per sector |
| `SecondStage` | `load_kernel.asm`, with what it needs of `_FAT16.asm` and `load_lba_sector` | memory map and its count, mode list, mode information, the kernel's chain of links and the sectors loaded; a step per label or BIOS call |
| `Screen` | `vbe_driver.c` | the frame buffer as the pixels written, colours, cursor; an action per drawing call, a step per character |
| `MemoryFunctions` | `stddef.c` | memory, the locals of a call; a step per byte |
| `Services` | | the memory functions, `Screen`, `Drive`, `Timer`, `KeyEvents` and `Heap` side by side |
| `PhysicalMemoryManagerProofs`, `VirtualMemoryManagerProofs`, `InterruptsProofs`, `Ps2Proofs`, `HeapProofs`, `ScreenProofs`, `ServicesProofs`, `BootProofs` | | the theorems about the module of that name (`ServicesProofs`: `MemoryFunctions`, `Timer`, `KeyEvents`, `Drive`, and `Heap` and `Screen` by citing the proofs about them; `BootProofs`: `ImageBuilder`, `FileSystem` and `SecondStage`) |
| other `MC*` | | values of the constants for TLC |

`FileSystem` EXTENDS `ImageBuilder`: both readers work on the image that was
built, whatever it is. `Ps2` EXTENDS `Ps2Hardware`. `SecondStage` calls its parts
`StageInit`, `StageNext` and `StageSpec`, so that one module can prove about it and
the image. `PhysicalMemoryManager`
implements `BlockAllocator` with the free blocks as the pool and the runs that
callers hold as `owned`, up to the releases of line 29 (section 3).
`VirtualMemoryManager` takes `BlockAllocator`'s two variables as its own `pool` and
`owned`; its steps are steps of `BlockAllocator` unless bit 31 led a page to another
frame (`AllocatorUsedRight`). Where neither defect strikes, the two fit: paging keeps
to what the physical memory manager assumes of its callers. `Heap` is again an
implementation of it, over bytes. `Ps2` has the keyboard's line with every port
access, `Interrupts` all lines with whole calls, but for the stores of a gate; they
agree on `pic_eoi`, masks and the order of `entry()`.

External parts, modelled from how the code drives them: the 8042, the keyboard,
both 8259, the 8253, the ATA drive, the BIOS calls, and of the CPU its gates,
interrupt flag and translation cache.

The eighteen exception handlers that stop the machine have the same body but for
the message, so `FatalColors` and `FatalReport` stand for all of them.

Definitions whose body only appears in mutation checks (for instance
`RunNotReset`, `ProgramUnmaskFirst`) stand right before the definition they are
a faulty variant of. They show that a property notices the fault.

## 3. What the runs show

Twelve runs, eight that must pass. Where a run checks a property that is a
conjunction of named parts, the parts are given after it in parentheses; each is
stated and commented in its module.

### Physical memory manager

`MCPhysicalMemoryManager.cfg`: blocks of 2 bytes, bitmap bytes of 3 bits, 11
blocks, so three bitmap bytes and two blocks in no whole byte; three regions,
aligned or not, the last up to the end of memory, the loop for each of the other two
reaching into the next one; requests of 1, 2 and 4 blocks, three region calls.
Requests above and below a bitmap byte, runs across one and two byte borders,
exhaustion, a counter that region calls moved out of range, and a held block that a
call for the region before it releases all occur. Properties: `TypeOK`; the search is
first-fit and complete below a byte (`SmallRequestsFirstFit`), never misses a
run that starts at a byte (`AlignedRunsFound`; others it does miss, line 57);
`SearchInvariant`; `Conservation` and `CounterKeepsPace` for allocations and
frees; the writes the region loops make one block too far stay at bit
`pmm_max_memory_blocks` (`StrayWritesBounded`: for regions that lie in memory
and a memory of whole blocks, as here); `CallsReturn`; and the two about
exclusiveness. The loops of lines 29 and 40 include the end block, so a call for a
region releases the block behind it too, whoever holds it. `overrun` is the history
of those blocks: two callers share no block outside it, and what they hold outside it is
marked used (`AllocationsExclusive`). As a refinement (`AllocatorSpec`): a step that
leaves all allocations exclusive is a step of `BlockAllocator`, and a step after which
they no longer are is such a release and nothing else.

Assumed of the callers: the blocks that a region has bytes in are held by nobody (the one
behind it may be), and a caller frees exactly what it was given (the source has no check
for either). Fairness: a call once begun keeps running. In this commit `entry()` does
not yet call the memory managers; the model takes the interface as the callers in
`virtual_memory_manager.c` use it (requests of 1 and 3).

### Keyboard

`MCPs2Any.cfg`: devices of any speed, any of four BIOS configurations, keys
typed at any time, one with a prefix. No interrupt goes through an empty or
half-written gate (`NeverLost`), none is left in service (`ServiceEnds`), the
controller test never mistakes a byte for its result (`NeverPanics`), the
set-up gets to the unmasking (`InitReachesUnmask`).

`MCPs2Quiet.cfg`: the machine the driver works on, as QEMU behaves: devices answer at
once, the BIOS left the keyboard interrupt off, nobody types during boot, keys
without prefix. Then every byte is handled once, in order (`HandledInOrder`), the
set-up ends and no byte stays behind (`QuietBootServesAll`). Outside these
assumptions they fail: with the interrupt bit left on by the BIOS the handler
can take the reply that `ps2.c:58` waits for, which then waits for ever; the
second byte of a prefixed key raises an interrupt for a byte already taken.

`MCPs2Comment36.cfg` and `MCPs2Comment57.cfg` each show the code in
disagreement with a comment: interrupts are not disabled by `ps2.c:36`, and
what `ps2.c:58` reads need not be the configuration byte.

Fairness: weak fairness of the boot code, the handler, interrupt delivery, the
controller and the keyboard (they all run by themselves); none of typing. The bound is the
number of keys typed (three or four): enough for a press, a release, a
prefix and a second key between, and for a late reset answer to meet any of them.

### Paging

Blocks, devices and frames go up to 4 GB, `TopBit` is bit 31 of an address as a frame
number. `VMM_SET_FRAME` cannot clear that bit (`virtual_memory_manager.h:14`), so a page
once given a frame with it keeps it, and leads 2 GB past a lower frame that it
is given later. Freeing such a page clears the bit of a block somebody else holds, or one
behind the bitmap: `pmm_free_blocks` has no check, and its action has none. Histories
record which pages were given such a frame (`high`), which frames were led to by
mistake (`shadowed`) and what was freed behind the bitmap (`stray`).

`MCVirtualMemoryManager.cfg`: ten blocks in the identity map, bit 4 of the frame
number for bit 31, so block 23 is block 7 with the bit. Five states of the memory at
boot (too little for the directory, for the tables; a directory out of reach of the identity
map, the first use of which faults; a next table out of reach; and one with both 7 and 23),
three pages (two behind one directory entry, two with one table index), one device
with the bit. A page that was given the device and then block 7 leads to block 23, and one
that was given block 10 leads behind the bitmap. Two bounds are state constraints of the
run: the CPU holds one translation at a time, which loses nothing, as no action and no
property relates the translations of two pages; and one page is never given a frame with
the bit, so that a page that leads astray meets others of both kinds.

`PagesRight`: a page leads to the frame it was given, but for bit 31
(`MappedAsAsked`), and a block is never under two pages, a page and a table, or free and
still reachable, but for frames that were led to by mistake, all above 2 GB and none of
them a page table (`FramesExclusive`). What the CPU holds of a page is what the tables say
unless the page was freed or unmapped and not flushed since: allocating and mapping, which
never flush, leave nothing stale (`StaleOnlyUnflushed`). Paging takes from the physical
memory manager only free runs and gives back only what it got, unless the page led
elsewhere (`AllocatorUsedRight`).

The physical memory manager may refuse at any time (its counter may be anything), and a
flush may come at any time or never. Assumed of the callers: they allocate and then
map, free the pages they use as memory and unmap those they use for devices, leave the first
4 MB alone, and device memory is not free at boot; nothing in the source checks
these. Addresses wrap at 4 GB, where an end of memory of 4 GB or more becomes a
small one: a hazard in the list, outside this model.

### Interrupts

`MCInterrupts.cfg`: lines 0, 7 and 8, two exceptions (one fatal, the single step), three
requests or exceptions in all, two handlers deep, interrupts spurious or real, any
masks left by the BIOS. Two on top of each other is as deep as it gets with
interrupt gates, short of an exception in a handler of an exception; three events are
enough for an interrupt left in service with one held back by it and an exception
between, and for a trap in a handler that interrupted code with words left on its stack.

A gate is stored field by field with interrupts on (`idt.c:28-32`): after the first
store it is "torn", unless both handlers share that half of the address, and an
interrupt through it leads to an address of nobody's (`boot` is "lost"). `single_step` is an ordinary
function (`exceptions.c:45`): its `ret` takes the address and leaves segment and
flags on the stack, so the interrupted code goes on with interrupts off and two words too
many (`skewed`). It goes astray at its own next return (`ReturnAstray`), and a handler at
its `iret`.

`HandlersRight`: a device interrupt meets a handler, unless the gate that is
being stored is that of its own line, unmasked too early, or of line 7 or 15, where
spurious interrupts arrive (`InterruptsFindHandlers`; the handler of line 7 that
`pic.c:50` installs is lost, the default one is in its place); the unspecific end of
interrupt ends the right line (`EoiEndsOwnLine`); nothing gets past a fatal
exception, but for a trap that strikes while the message is still being printed
(`FatalStays`). `LinesAccounted`: what is in service is accounted for
(`InServiceAccounted`), one line at a time (`OneLineAtATime`). Every request is
served (`LinesServed`) with the exceptions named in `Excused`: masked, behind a line
whose handler sent no end of interrupt, after a fatal exception, after `single_step` in
main, which leaves the flag cleared, and once the machine was reset or lost. Fairness:
handlers run on, and the CPU answers while its flag is set.

### Image and file access

`MCFileSystem.cfg`: sectors of two bytes, runs of four sectors for 256, a FAT of 18
clusters, a directory of four entries, up to four files from ten (two names, each
usable repeatedly; empty, part of a sector, a full sector, one more byte, a
run of exactly the limit, one more, two and a bit, too long). Chains are exact and disjoint even
after a failed call (`ChainsExact`); a cluster number is the sector of its data
(`ClusterIsSector`); the loader gets the first kernel file whole (`KernelLoaded`);
`find_entry` returns the first match and leaves its array only when
it is full (`FindsFirst`); `read_all_to` puts each sector at its place, but skips
every full run of 256 sectors, whose count is 0 as a byte (`FilesExact`:
`ReadWhole`, `ReadInPlace`); accesses end (`AccessEnds`), the loader's when the
kernel is there (`LoaderEnds`), the kernel's unless the drive reports an error,
which the driver does not look at (`FileAccessEnds`). A file of 128 KB or more is thus read
with holes; no comment or document of the repository says otherwise, so it is stated in
the property as the code's behaviour.

`MCFileSystemEmpty.cfg`: `README.md:18` gives an empty file starting cluster 0,
`add_file.py` a real one.

Names are members of a small set: the cut to eight letters has
happened, so different files with one directory name occur as repeated names.
Fairness: make, the CPU and the drive go on.

### Second stage

`MCSecondStage.cfg`: a BIOS that reports up to five entries, each with a number of its
own, empty or not, in one of the two customary ways to end; room for two where the
table has 21; all lists of up to two of five modes and one of three. Behind the table
come a FAT of six words and the root directory; the kernel is not on the disk, or has
one of two chains of two links. The third and the fourth entry therefore reach the FAT,
below a chain and into it, and the fifth the directory. Any sector may fail to read.

`MapRight`: the stored map is what was reported, in order (`MapExact`), runs into the
FAT exactly when it is too long (`FatIntact`), and a BIOS that ends its list by the
carry never gets past it (`CarryNeverEnds`). The kernel that is entered is whole,
loaded along links that the map has not touched; the search for its name
goes on for ever (`_FAT16.asm:19-31`), or the loader follows words the map has written,
only without a kernel on the disk or behind a map long enough to reach what is read
(`LoadRight`). `ModeRight`: the kernel gets the first wanted mode
(`FirstWantedMode`), and the search fails rightly (`SearchFailsRightly`). With a BIOS that
ends its list by a zero the stage ends, in the kernel, at a message (of a read error, too)
or at a divide error, with the two exceptions that `LoadRight` names (`StageEnds`).
Line 189 overwrites the result of the call that sets the mode, so the kernel starts
whether it was set or not. Fairness: the CPU runs.

What happens after the loader went astray is not followed further. The walk
through directory and FAT entry by entry is in `FileSystem`, over an image as the
builder made it.

### Services of the running kernel

`MCServices.cfg` checks `Services`, which puts six modules that share no state under
one next-state relation: a behaviour calls one of them, `subject`, and leaves the others as they
were set up. What holds of each on its own holds however calls alternate, since no
step of one reads or writes what another has. The bounds, and what they let happen:

- memory functions (`CallsExact`): four bytes of two values more than 127 apart, all
  regions with all overlaps, so that the direction of a copy matters and a
  difference does not fit in a signed byte. `MoveExact`, `CopyExact` (overlap only with the target
  above), `SetExact`, `CompareExact` (the sign may be wrong from a difference of 128 on).
- screen: 8 by 9 with rows of 9 and glyphs of 2 by 3, so that text wraps, ends at the
  lower edge and leaves a rest, as with 1280 by 720; every drawing function from
  seven corners, in all directions, with boxes of four thicknesses. `TextRight`:
  `StaysInside` (all drawing but of a box whose border does not fit), `TextReadable`, `DumpReadable` (with the one digit that is lost where a
  byte straddles the edge). `ShapesRight`: `RectanglesExact`, `LineStraight` (within
  half a pixel, or nothing at all to the left and up), `ImagesUpright`, `BlendBetween`.
- drive (`DiskRight`): address bytes and the top nibble of one bit each, up to two
  sectors, two calls (a write, then one that overwrites or reads it), two drive
  numbers, a drive that answers late or with an error. Reads and writes agree (`RunsAgree`, `DiskAsWritten`) until an
  address needs bits 24 to 27, where `drive.c:51` has the drive number; a call
  returns unless the drive reports an error, the limited wait of `drive.c:62`
  included (`CallsReturn`). Fairness: the driver runs and the drive answers.
- timer (`CountersMisloaded`): all counters and frequencies on both sides of each
  special case. The swapped arguments of `pit.c:33` mean that only selectors are
  ever loaded (`OnlySelectorsLoaded`) and that the counter asked for stands still
  but for a few divisors (`AskedStandsStill`). No document promises otherwise; the properties state what
  the code does.
- key events (`KeysRight`): left control, both shifts, s, c, the backslash and a plain
  key, in every order of presses and releases. The flags say what is held except
  where a key whose code contains their bits, or a second shift key, was touched
  last (`FlagsAsHeld`); c, v and the backslash only arrive shifted (`NeverLowerCase`).
- heap: pages of 6, headers of 2, requests of 1, 4, 8 and 17, up to four pages, a page
  counter of 3 values: exact fits, remainders larger, equal and smaller than a
  header, growth by one and several pages, an endless growth. `HeapIntact`: as long
  as the list is whole it tiles the mapped pages (`HeapTiled`), what callers hold
  is in it in full and only the last block is ever lost (`OnlyLastLeaks`), free
  neighbours are merged at once (`NoFreeNeighbours`). `HeapSteps`: the heap is an
  allocator of bytes (`KeepsContract`, a refinement of `BlockAllocator`). The paths
  of the code that break the list end the behaviour in a named `state`; when they
  are taken is stated for the double grant (`TwiceOnlyFromLast`) and the null
  pointer (`NullOnlyAtTheEnd`).

`MCServicesHeap155.cfg`: the block that is enlarged need not be the last one, as
line 155 of `virtual_memory_manager.c` says.

### Deadlock

`CHECK_DEADLOCK FALSE` where the program or the bounded history may end (halt, panic,
a failed build, a fault, the last call); it is checked for the physical memory
manager, which always goes on.

## 4. What is proved

Every safety invariant and every action property that a passing run checks is also
proved; liveness is not. All theorems hold for every value of the constants that
satisfies the ASSUME of the module (TLC evaluates each in a run); the further
assumptions are named below. In every module one formula is shown inductive, with a step per action and under it a
step per conjunct that the action disturbs, and the properties follow from it. These
formulas were invariants of a TLC run before they were proved.

**Physical memory** (`TypeCorrect`, `ExclusiveAllocations`, `FirstFit`,
`AlignedComplete`, `SearchCorrect`, `BlocksConserved`, `CounterExact`,
`ImplementsAllocator`, `StrayBounded`). Types, allocations exclusive up to `overrun`, and
`SearchInvariant` are inductive. The last is needed because a claim is safe only by
what the search has seen: between two steps `size - run` blocks just before the
position are free, no sufficient run lies behind it, and nobody else moves the
bitmap. Once a held block was released and goes out again, two holders may have the
same run: holders are told apart by a number, and that one is always left
(`HolderIsNew`) is the pigeonhole principle over the finite set of
those in use. `ImplementsAllocator` says that every step that leaves the allocations exclusive
is one of `BlockAllocator`, and that only `ReleaseUnderHolder`, line 29 over a held block,
takes them from exclusive to not. `StrayBounded` assumes `RegionsInMemory`: regions that
lie in a memory of whole blocks; for others the region loops do write further.

**Paging** (`PagesAreRight`, `OnlyUnflushedStale`, `AllocatorUse`). To
`PagesRight` the invariant adds what the code keeps in mind without a variable: a
table is a block that was given out, within reach of the identity map, and the table of
one directory entry (`PlacesRight`), a page in use is mapped and one not in use is not
(`UseRight`), and a block between `vmm_allocate_page` and `vmm_map_page` is under no
page and no table (`PendingRight`). Without the last, mapping could put one frame in two
places. Each of these holds but for the frames in `shadowed`. That those are all above
2 GB (`ShadowedHigh`) keeps them apart from the page tables, and follows from
`HighKept` (an entry has the bit only if its page was once given a frame with it) and
`AstrayNoted` (a page that leads elsewhere leads to a frame in `shadowed`). `StrayNoted`:
only these are ever freed behind the bitmap. Any memory up to 4 GB.
Assumed of `Pages`: callers map none of the first 4 MB, which the set-up maps itself.
`OnlyUnflushedStale` rests on the same invariant: a page that is not in use has no
translation the CPU could hold, so giving it one leaves nothing stale. `AllocatorUse`
is an action property; with `ImplementsAllocator` it says that paging and allocator
fit wherever neither line 29 nor bit 31 has struck.

**Interrupts** (`LinesAreAccounted`, `HandlersAreRight`). Handlers lie on top of each
other as a sequence; `ContextsRight` says that only the outermost serves a line or
has interrupted code with the flag set, `ServiceRight` that what is in service is
what it serves, which has the highest priority, plus lines known to be left
behind. That is why the unspecific end of interrupt ends the right line. `GatesOfLines`
says which gates can be torn: that of the line main is storing, one at a time
(`BootRight`), and none of an exception, so an exception is never lost in a gate. Where
words are left on a stack, the return of that code is the step that loses the machine, and
what is claimed of it afterwards is nothing. Any set of lines and exceptions, any depth.

**Image and readers** (`ChainsAreExact`, `ClustersAreSectors`, `KernelIsLoaded`,
`FirstIsFound`, `FilesAreExact`). `ImageRight`: files lie in a row behind the
reserved sectors, each with its chain and its data at the same places; it implies
the disjoint chains, and is kept by failed calls. `LoaderRight`, `SearchRight`,
`ReadRight`: what each reader has passed so far. Assumed: no file has the name
of the volume label, FAT entries are distinct from the end mark (`TableEntries`
below `Reserved`), a run counter of at least two values.

**Second stage** (`ModeIsRight`, `MapIsRight`). `SearchInv`: no mode before the
current one is wanted, and `info` is the current one's. Assumed of the wanted mode:
its lines divided by 9 fit a byte, as 720 do; other modes may overflow, which
then ends the search. `MapInv`: the slots below `bp` hold the reported entries with
memory, in order. Only an error of the first call leaves `bp` at 0 without
that, and then there was at most one report. `LoadInv`: the links followed so far are
those on the disk, since a word in the map's reach ends the walk (`LinksKept`), and the
map covers no more than the entries with memory and one (`OverwrittenReaches`). Any
chain of FAT entries, a table and a FAT of any size.

**Memory functions** (`CallsAreExact`). The loop invariants of the four functions,
byte by byte: what is copied, from which end, and that no byte is read after it
was overwritten. For `memcpy` the last holds if the regions are disjoint or the
target is above; for `memmove` always. `memcmp` compares the difference cut to an
`int8_t`, and the property says when its sign is right.

**Keyboard** (`TypeCorrect`, `GateIsWhole`, `ServiceIsEnded`, `TestSucceeds`,
`KeysInOrder`). The first four for devices of any speed, any configuration the
BIOS leaves, any bytes typed at any time. The invariant goes by line of the boot program:
which of mask, gate and flag are set (`InterruptsRight`), and what can be in the
controller's buffers (`ControllerRight`): the port is disabled before the flush, so
nothing but answers can come between the flush and the test. `KeysInOrder`
assumes `QuietMachine`, the conditions under which the driver works at all, listed
under *Keyboard* in section 3. Its invariant says after boot that what was typed
is what `kbh` has got, then the buffer, then what the keyboard has to send
(`Serving`), and before, line by line, that no answer is left over to be
taken for a key (`QuietBootRight`). What was typed is a recursive function, of
which the proof uses the defining equation only.

**Heap** (`HeapIsIntact`, `HeapStepsAreRight`). That each block ends where the next
one starts is not inductive: links could lead backwards, or two chains interleave.
`Whole` adds that blocks lie in order, each ending before every block with a
higher address (`Ordered`). From that follow the facts the code relies on without
checking them: one block at most leads to another, only the highest one ends the list,
the search passes every block before the one it finds. `Held`: what callers hold is in
use with its full size. `Apart`: free neighbours exist only around the block that a
loop is at. In the states after a path that breaks the list, nothing is claimed.
`HeapSteps` refines `BlockAllocator` step by step: merging and walking leave pool and
runs as they are, growing is a release, a cut a grant, a free the return of a run.
`HeapProofs` proves both of `Heap` alone; `ServicesProofs` instantiates it, shows that the
operators it speaks of are those of `Services`, and cites its theorems. Assumed:
the sizes that `vmm_malloc_init` gets fit the bound `MaxPages`.

**Screen** (`TextIsRight`, `ShapesAreRight`). A finished text is readable because of
what holds after each character: all that was put can be read (`Reads`: no pixel of it
was drawn over), it stands in columns and before the cursor in reading order
(`InColumns`, `Clear`), and it is exactly the visible characters among the first n of
the text, for some n (`Progress`). What is put next is then below or to the right
of it. In a dump the cursor may wrap on its own right after a byte that has
wrapped already, and the next digit goes over the last: `Legible` and `Ending` say
that this is the only one lost. Text may leave the screen at the bottom, and stays in
the buffer as `sc_putch` looks at its end before every pixel but the first, which lies
above the last line (`TextRuns`). Shapes are drawn by one call on an empty frame: that
lines are straight follows along the loop of `sc_line` from the range of its error
term, and that each bit of a mask decides on its own pixel along the walk through the
words. These loops are recursive functions; that they exist and what they satisfy at
each number is proved from the well-foundedness of the naturals (`Iterated`,
`ByInduction`). The invariant is `ScreenInv`. Assumed: screens no wider than a row is
long, coordinates that fit a word, opaque images, a font with the digits and the space.
`ScreenProofs` proves all this of `Screen` alone, for `ServicesProofs` to instantiate
like the heap's.

**Services** (`TimerMisloads`, `KeysAreRight`, `DiskIsSafe`; also `CallsAreExact` and those
of heap and screen). Each is proved of its module alone, then of `Services`: every step of the composition is one of the
module's or leaves its variables. `TimerInv`: a counter holds a selector, or two.
`KeyInv`: `KeysRight` is itself inductive, for any keys with codes up to 95. `DriveInv`: the
registers hold the address as its bytes make it up, and the sectors before the
current one are done. `DiskIsSafe` is the safety half of `DiskRight`.

What the proofs showed of the models: `LookAlikes` of `KeyEvents` had only
the keys of the checked instance; for `KeysRight` over all keys caps lock, F1,
menu and sleep belong in it, whose codes contain the bits of a modifier
(`ps2.c:101-115` tests with `&`). `MapExact` and `FatIntact` now count entries by
the recursive function `WithMemory`. `TextReadable` now says which letter stands where, not
only that the visible letters are there in order, and `DumpReadable` allows for a
digit gone over by one that looks the same in the part of it that is in the buffer.
`TwiceOnlyFromLast` names the block that is handed out twice: the last one of the list, and
only if no free block is large enough.

Only model-checked:

- liveness, which is out of the prover's reach: `CallsReturn`, `InitReachesUnmask`,
  `QuietBootServesAll`, `LinesServed`, `AccessEnds`, `StageEnds`, and the
  liveness in `DiskRight`;
- the four disagreements with comments and documents: each is a run that ends in a
  violation.

## 5. Not modelled

Not modelled, and why:

- the BIOS probing and messages of the first stage, the listing of video modes, the switch to
  protected mode: straight-line, one call after the other, each with a halt on failure;
- the picture that `entry()` draws: a fixed sequence of calls whose
  functions are in `Screen`; and its buffer at the address that memory at
  `__bss_end` happens to hold;
- an allocation before `vmm_malloc_init`, what stands behind the end of the ASCII
  tables: memory whose contents the source does not determine;
- a character whose code is past the end of the ASCII tables goes to a callback that
  nothing registers; a call that does not set the video mode changes nothing the code reads
  (`load_kernel.asm:189`); an allocation of 256 pages or more at once never ends
  (`virtual_memory_manager.c:163`), which the heap has as a state that ends the behaviour;
- CPU helpers and register reads without callers: one instruction each;
- fonts and image conversion, linker scripts, emulator settings: data and configuration.
