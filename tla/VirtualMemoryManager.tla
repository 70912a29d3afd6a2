------------------------- MODULE VirtualMemoryManager -------------------------
(***************************************************************************)
(* Paging (virtual_memory_manager.c, the part before the heap): the page   *)
(* directory, its tables, and the translations the CPU keeps of them.      *)
(*                                                                         *)
(* A virtual page is <<directory index, table index>>.  Only the pages     *)
(* behind directory entries other than 0 are state: entry 0 is the         *)
(* identity map of the first 4 MB, which callers leave alone and which     *)
(* decides which tables the code can write to.  The read/write bit has no  *)
(* effect on a kernel that runs with CR0.WP clear and is left out.         *)
(*                                                                         *)
(* The callers do what the heap does (allocate a page, then map what was   *)
(* allocated), give pages back, and map device memory.  The CPU may walk   *)
(* the tables for any page at any time.                                    *)
(*                                                                         *)
(* Of the physical memory manager there is what a call answers and which   *)
(* bits it changes.  Its counter of used blocks decides only when it       *)
(* refuses (line 74), and here it may refuse at any time.                  *)
(***************************************************************************)
EXTENDS Integers

CONSTANTS
  Blocks,          \* the blocks with a bit in the bitmap, reserved ones too
  FreeAtBoot,      \* the sets of blocks that may be free at boot
  IdentityBlocks,  \* blocks below this one are in the first 4 MB
  TopBit,          \* the bit of a frame number VMM_SET_FRAME leaves alone
  Pages,           \* the pages in use, outside directory entry 0
  Devices          \* frames of device memory, never free at boot

ASSUME ConstantsAssumption ==
  /\ TopBit \in Nat /\ IdentityBlocks \in 1 .. TopBit
  /\ Pages \subseteq (Nat \ {0}) \X Nat
  /\ Blocks \subseteq 1 .. (2 * TopBit - 1)
  /\ Devices \subseteq 1 .. (2 * TopBit - 1)
  /\ FreeAtBoot \subseteq SUBSET (Blocks \ Devices)

VARIABLES
  pool, owned,   \* what the physical memory manager has free and has given out
  boot,          \* what is set up; "on", "failed", or "fault" after a page fault
  directory,     \* the directory entries: the block of the table, 0 for not present
  tables,        \* per block what it holds as a table; 0 is low memory
  tlb,           \* the translations the CPU holds, NoFrame for none
  allocated,     \* <<page, block>> between vmm_allocate_page and vmm_map_page
  use,           \* history: what the callers have at a page
  asked,         \* history: the frame a page was last given, 0 when it was taken away
  unflushed,     \* history: pages freed or unmapped since they were last flushed
  high,          \* history: pages that were given a frame with the top bit
  shadowed,      \* history: frames a page led to that was given another
  stray          \* history: frames freed that have no bit in the bitmap

memoryVars == <<pool, owned, boot, directory, tables>>
callerVars == <<allocated, use>>
historyVars == <<asked, unflushed, high, shadowed, stray>>
vars == <<memoryVars, tlb, callerVars, historyVars>>

Directories == {v[1] : v \in Pages}
Indexes == {v[2] : v \in Pages}

Zero == [present |-> FALSE, frame |-> 0]
NoFrame == -1
NoPage == <<>>

Run(first, n) == first .. (first + n - 1)

------------------------------------------------------------------------------
\* What pmm_allocate_blocks may answer: 0, or the lowest run (see FirstFit of
\* PhysicalMemoryManager).
FreeRuns(free, n) == {b \in free : Run(b, n) \subseteq free}

pmm_allocate_blocks(free, n) ==
  {0} \cup {b \in FreeRuns(free, n) : \A c \in FreeRuns(free, n) : b <= c}

FreeOneMore(block) ==
  /\ pool' = pool \cup (Run(block, 2) \cap Blocks)
  /\ owned' = owned \ {<<block, 1>>}
  /\ stray' = stray \cup (Run(block, 2) \ Blocks)

\* The bit is cleared whoever holds the block, and behind the bitmap as well.
pmm_free_blocks(block) ==
  /\ pool' = pool \cup ({block} \cap Blocks)
  /\ owned' = owned \ {<<block, 1>>}
  /\ stray' = stray \cup ({block} \ Blocks)

Take(runs) ==
  /\ pool' = pool \ UNION {Run(r[1], r[2]) : r \in runs}
  /\ owned' = owned \cup runs

Init ==
  /\ pool \in FreeAtBoot /\ owned = {}
  /\ boot = "off"
  /\ directory = [d \in Directories |-> 0]
  /\ tables = [b \in Blocks \cup {0} |-> [x \in Indexes |-> Zero]]
  /\ tlb = [v \in Pages |-> NoFrame]
  /\ allocated = NoPage
  /\ use = [v \in Pages |-> "none"]
  /\ asked = [v \in Pages |-> 0]
  /\ unflushed = {} /\ high = {} /\ shadowed = {} /\ stray = {}

\* One of the three allocations of the set-up, n blocks; what was taken before
\* a refusal stays taken.
Obtain(at, n, next) ==
  /\ boot = at
  /\ \E block \in pmm_allocate_blocks(pool, n) :
       \/ block = 0 /\ boot' = "failed" /\ UNCHANGED <<pool, owned>>
       \/ block # 0 /\ boot' = next /\ Take({<<block, n>>})
  /\ UNCHANGED <<directory, tables, tlb, callerVars, historyVars>>

\* The identity map reaches the directory; if not, the first use of it faults.
DirectoryInReach == \E r \in owned : r[2] = 3 /\ r[1] < IdentityBlocks

\* Three blocks for the directory, then two tables, of which only the second
\* is used, for the identity map.
initialize_virtual_memory_manager ==
  \/ Obtain("off", 3, "directory")
  \/ Obtain("directory", 1, "table")
  \/ Obtain("table", 1, IF DirectoryInReach THEN "on" ELSE "fault")

------------------------------------------------------------------------------
\* The entry of page v, as <<block, index>>.  A directory entry that is not
\* present has frame 0, and the code takes low memory for the table.
vmm_get_page(v) == <<directory[v[1]], v[2]>>

Entry(v) == tables[vmm_get_page(v)[1]][v[2]]

SetEntry(v, e) == tables' = [tables EXCEPT ![vmm_get_page(v)[1]][v[2]] = e]

SetFrameOnce(e, frame) == IF e.frame = 0 THEN [e EXCEPT !.frame = frame] ELSE e

\* VMM_SET_FRAME: the mask 0x7FFFF000 is one bit short, the top bit stays.
SetFrame(e, frame) ==
  [e EXCEPT !.frame = IF @ >= TopBit /\ frame < TopBit THEN frame + TopBit ELSE frame]

Present(e) == [e EXCEPT !.present = TRUE]
StillPresent(e) == e
NotPresent(e) == [e EXCEPT !.present = FALSE]

\* What the tables say of page v.
Translation(v) ==
  IF directory[v[1]] # 0 /\ Entry(v).present THEN Entry(v).frame ELSE NoFrame

\* vmm_get_page, then vmm_allocate_page on the entry it returned.
vmm_allocate_page(v, block) ==
  /\ block \in pmm_allocate_blocks(pool, 1)
  /\ \/ block = 0 /\ UNCHANGED <<pool, owned, tables>>
     \/ /\ block # 0 /\ Take({<<block, 1>>})
        /\ SetEntry(v, Present(SetFrame(Entry(v), block)))
  /\ UNCHANGED <<boot, directory, stray>>

\* vmm_get_page, then vmm_free_page: the frame stays in the entry.
vmm_free_page(v) ==
  /\ IF Entry(v).frame # 0 THEN pmm_free_blocks(Entry(v).frame)
                           ELSE UNCHANGED <<pool, owned, stray>>
  /\ SetEntry(v, NotPresent(Entry(v)))
  /\ UNCHANGED <<boot, directory>>

vmm_unmap_page(v) ==
  /\ SetEntry(v, NotPresent(SetFrame(Entry(v), 0)))
  /\ UNCHANGED <<pool, owned, boot, directory, stray>>

\* vmm_map_page where it has to make the table first: no block, a block the
\* identity map does not reach (memset faults), or a zeroed table.
MapInNewTable(frame, v) ==
  \E table \in pmm_allocate_blocks(pool, 1) :
    \/ table = 0 /\ UNCHANGED memoryVars
    \/ /\ table >= IdentityBlocks
       /\ Take({<<table, 1>>})
       /\ boot' = "fault"
       /\ UNCHANGED <<directory, tables>>
    \/ /\ table \in 1 .. (IdentityBlocks - 1)
       /\ Take({<<table, 1>>})
       /\ directory' = [directory EXCEPT ![v[1]] = table]
       /\ tables' = [tables EXCEPT ![table] =
            [x \in Indexes |-> IF x = v[2] THEN Present(SetFrame(Zero, frame)) ELSE Zero]]
       /\ UNCHANGED boot

vmm_map_page(frame, v) ==
  /\ \/ directory[v[1]] = 0 /\ MapInNewTable(frame, v)
     \/ /\ directory[v[1]] # 0
        /\ SetEntry(v, SetFrame(Present(Entry(v)), frame))
        /\ UNCHANGED <<pool, owned, boot, directory>>
  /\ UNCHANGED stray

------------------------------------------------------------------------------
\* The callers.

Calling == boot = "on" /\ UNCHANGED tlb

\* Page v is given a frame, or 0 when it is taken away.
Give(v, frame) ==
  /\ asked' = [asked EXCEPT ![v] = frame]
  /\ high' = IF frame >= TopBit THEN high \cup {v} ELSE high
  /\ shadowed' = shadowed \cup ({Translation(v)'} \ {NoFrame, frame})

AllocatePage(v, block) ==
  /\ Calling /\ allocated = NoPage /\ use[v] = "none"
  /\ vmm_allocate_page(v, block)
  /\ allocated' = <<v, block>>
  /\ Give(v, block) /\ UNCHANGED <<use, unflushed>>

\* vmm_map_page(paddr, ...), with whatever was allocated, 0 included, and with
\* its result ignored.
MapAllocated(v, block) ==
  /\ Calling /\ allocated = <<v, block>>
  /\ vmm_map_page(block, v)
  /\ use' = [use EXCEPT ![v] = CASE Translation(v)' = NoFrame -> "lost"
                                 [] block = 0 -> "null"
                                 [] OTHER -> "memory"]
  /\ allocated' = NoPage
  /\ Give(v, block) /\ UNCHANGED unflushed

TakeAway(v) ==
  /\ use' = [use EXCEPT ![v] = "none"]
  /\ unflushed' = unflushed \cup {v}
  /\ Give(v, 0) /\ UNCHANGED allocated

FreePage(v) ==
  /\ Calling /\ allocated = NoPage /\ use[v] = "memory"
  /\ vmm_free_page(v)
  /\ TakeAway(v)

MapDevice(frame, v) ==
  /\ Calling /\ allocated = NoPage /\ use[v] = "none"
  /\ vmm_map_page(frame, v)
  /\ use' = [use EXCEPT ![v] = IF Translation(v)' = NoFrame THEN "none" ELSE "device"]
  /\ Give(v, frame) /\ UNCHANGED <<allocated, unflushed>>

Unmap(v) ==
  /\ Calling /\ allocated = NoPage /\ use[v] \in {"device", "null"}
  /\ vmm_unmap_page(v)
  /\ TakeAway(v)

Invalidate(v) == tlb' = [tlb EXCEPT ![v] = NoFrame]

vmm_flush_table_entry(v) ==
  /\ boot = "on"
  /\ Invalidate(v)
  /\ unflushed' = unflushed \ {v}
  /\ UNCHANGED <<memoryVars, callerVars, asked, high, shadowed, stray>>

\* The CPU caches a translation, for an access or on its own account.
Walk(v) ==
  /\ boot = "on" /\ tlb[v] = NoFrame
  /\ tlb' = [tlb EXCEPT ![v] = Translation(v)]
  /\ UNCHANGED <<memoryVars, callerVars, historyVars>>

Next ==
  \/ initialize_virtual_memory_manager
  \/ \E v \in Pages :
       \/ FreePage(v) \/ Unmap(v)
       \/ vmm_flush_table_entry(v) \/ Walk(v)
       \/ \E frame \in Devices : MapDevice(frame, v)
       \/ \E block \in Blocks \cup {0} : AllocatePage(v, block) \/ MapAllocated(v, block)

Spec == Init /\ [][Next]_vars

------------------------------------------------------------------------------
Frames == Nat \cup {NoFrame}

TypeOK ==
  /\ pool \subseteq Blocks
  /\ owned \subseteq Blocks \X {1, 3}
  /\ boot \in {"off", "directory", "table", "on", "failed", "fault"}
  /\ directory \in [Directories -> Blocks \cup {0}]
  /\ tables \in [Blocks \cup {0} -> [Indexes -> [present : BOOLEAN, frame : Nat]]]
  /\ tlb \in [Pages -> Frames]
  /\ allocated = NoPage \/ allocated \in Pages \X (Blocks \cup {0})
  /\ use \in [Pages -> {"none", "memory", "device", "null", "lost"}]
  /\ asked \in [Pages -> Nat]
  /\ unflushed \subseteq Pages /\ high \subseteq Pages
  /\ shadowed \subseteq Nat /\ stray \subseteq Nat

\* A mapped page leads to the frame it was last given, but for bit 31 of the
\* address: once a page was given a frame above 2 GB the bit stays (the mask of
\* virtual_memory_manager.h:14), and with a frame below 2 GB the page leads
\* 2 GB past it.
MappedAsAsked ==
  \A v \in Pages :
    \/ Translation(v) \in {NoFrame, asked[v]}
    \/ /\ v \in high /\ asked[v] < TopBit
       /\ Translation(v) = asked[v] + TopBit

\* A block of memory is in one place: under one page, or a table of one
\* directory entry, or free; never free and still reachable, and never both
\* data and page table, whatever allocations failed on the way
\* (virtual_memory_manager.c:18-62).  What bit 31 can undo of this is bounded:
\* it concerns the frames some page led to by mistake, all above 2 GB, of which
\* one may be freed under its owner or have its bit cleared behind the bitmap
\* (physical_memory_manager.c:86-90), and never a page table.
FramesExclusive ==
  LET mapped == {v \in Pages : Translation(v) \in Blocks \ (Devices \cup shadowed)}
      inUse  == {d \in Directories : directory[d] # 0}
  IN  /\ \A v \in mapped : <<Translation(v), 1>> \in owned
      /\ \A v, w \in mapped : Translation(v) = Translation(w) => v = w
      /\ \A d, e \in inUse : directory[d] = directory[e] => d = e
      /\ \A d \in inUse, v \in Pages : directory[d] # Translation(v)
      /\ \A r \in owned : Run(r[1], r[2]) \cap pool \subseteq shadowed
      /\ stray \subseteq shadowed
      /\ \A frame \in shadowed : frame >= TopBit

\* The tables lead each page to its own frame (virtual_memory_manager.c:13-62),
\* through refused allocations, missing tables and frames left in entries.
PagesRight == TypeOK /\ MappedAsAsked /\ FramesExclusive

\* A translation the CPU holds is the one in the tables, unless the page was
\* freed or unmapped and not flushed since: allocating and mapping a page, in a
\* new table or an old one, through low memory or twice over, needs no flush
\* (virtual_memory_manager.c:18-62 never flush on their own).
StaleOnlyUnflushed ==
  \A v \in Pages \ unflushed : tlb[v] # NoFrame => tlb[v] = Translation(v)

\* The allocator's contract, as its users see it: a run that was free, and a
\* run they were given.
Allocator == INSTANCE BlockAllocator WITH Requests <- {1, 3}

\* Page v is given back: its own block, or whatever the page led to by mistake.
Returned(v) ==
  /\ FreePage(v)
  /\ \/ Translation(v) \in shadowed
     \/ /\ <<Translation(v), 1>> \in owned
        /\ Allocator!GiveBack(<<Translation(v), 1>>)

\* Paging takes only runs that are free, and gives back only what it was given
\* (virtual_memory_manager.c:18-30), unless bit 31 led the page elsewhere.
AllocatorUsedRight ==
  [][(\E n \in {1, 3} : Allocator!Grant(n)) \/ (\E v \in Pages : Returned(v))]_<<pool, owned>>
==============================================================================
