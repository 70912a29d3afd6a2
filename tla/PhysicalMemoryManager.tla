------------------------ MODULE PhysicalMemoryManager ------------------------
(***************************************************************************)
(* The physical memory manager (physical_memory_manager.c): one bit per    *)
(* block of memory, 1 for "in use", and a counter of the blocks in use.    *)
(*                                                                         *)
(* The boot code reports the memory map with the two region calls; then    *)
(* the virtual memory manager allocates and frees runs of blocks.  A       *)
(* region call and a free are one action each.  An allocation is the loop  *)
(* the code runs: a step per bitmap byte that is skipped and a step per    *)
(* bit that is examined, so that the search itself, its early returns and  *)
(* its "run" bookkeeping are what is checked.                              *)
(*                                                                         *)
(* The state of the bitmap is the set of the blocks whose bit is 1.  Bits  *)
(* the region calls write behind the last bitmap byte are kept apart, in   *)
(* "stray": the search never reads them.                                   *)
(***************************************************************************)
EXTENDS Integers, FiniteSets

CONSTANTS
  PMM_BLOCK_SIZE,        \* bytes in a block: 4096 in the code
  PMM_BLOCKS_PER_BYTE,   \* bits in a byte of the bitmap: 8 in the code
  TotalMemory,           \* bytes of memory the manager is initialised with
  Regions,               \* <<start, size>>, the byte ranges of the memory map
  Requests,              \* numbers of blocks callers ask for: 1 and 3 in the code
  MaxRegionCalls         \* bound: how many region calls a behaviour makes

pmm_max_memory_blocks == TotalMemory \div PMM_BLOCK_SIZE

\* Only whole bytes are set by memset and visited by the search.
BitmapBytes == pmm_max_memory_blocks \div PMM_BLOCKS_PER_BYTE

ASSUME ConstantsAssumption ==
  /\ PMM_BLOCK_SIZE \in Nat \ {0}
  /\ PMM_BLOCKS_PER_BYTE \in Nat \ {0}
  /\ TotalMemory \in Nat
  /\ BitmapBytes > 0
  /\ Regions \subseteq Nat \X Nat
  /\ Requests \subseteq Nat \ {0}
  /\ MaxRegionCalls \in Nat

VARIABLES
  pmm_memory_blocks,       \* the blocks whose bit in the bitmap is 1
  pmm_used_memory_blocks,  \* the counter; an Int stands for its uint64_t
  pc,                      \* where pmm_allocate_blocks is
  size,                    \* its argument
  i, j, run,               \* the locals of pmm_find_first_free_run
  start,                   \* the block found, 0 for none
  live,                    \* history: what callers hold, <<start, size, holder>>
  stray,                   \* history: bits written behind the bitmap
  overrun,                 \* history: held blocks a region call released
  regionCalls              \* history: region calls made so far

scanVars == <<pc, size, i, j, run, start>>
historyVars == <<live, stray, overrun, regionCalls>>
vars == <<pmm_memory_blocks, pmm_used_memory_blocks, scanVars, historyVars>>

------------------------------------------------------------------------------
Block(byte, bit) == byte * PMM_BLOCKS_PER_BYTE + bit

Bitmap == 0 .. (Block(BitmapBytes, 0) - 1)

ByteBlocks(byte) == Block(byte, 0) .. (Block(byte + 1, 0) - 1)

Run(first, n) == first .. (first + n - 1)

FreeBlocks == Bitmap \ pmm_memory_blocks

Held(runs) == UNION {Run(a[1], a[2]) : a \in runs}

LiveBlocks == Held(live)

FirstBlock(region) == region[1] \div PMM_BLOCK_SIZE

\* The end of the region in blocks, rounded up.
EndBlock(region) ==
  LET end == region[1] + region[2]
  IN  IF end % PMM_BLOCK_SIZE # 0 THEN end \div PMM_BLOCK_SIZE + 1
                                  ELSE end \div PMM_BLOCK_SIZE

RegionBlocksTwoTooMany(region) == FirstBlock(region) .. EndBlock(region) + 1

\* The blocks the region has bytes in.
NamedBlocks(region) == FirstBlock(region) .. EndBlock(region) - 1

\* Both region loops run while block_address <= end, the end included: one
\* block behind those the region names.
RegionBlocks(region) == FirstBlock(region) .. EndBlock(region)

RegionCount(region) == EndBlock(region) - FirstBlock(region) + 1

------------------------------------------------------------------------------
\* The state initialize_physical_memory_manager leaves: every bit is 1.
Init ==
  /\ pmm_memory_blocks = Bitmap
  /\ pmm_used_memory_blocks = pmm_max_memory_blocks
  /\ pc = "idle" /\ size = 0 /\ i = 0 /\ j = 0 /\ run = 0 /\ start = 0
  /\ live = {} /\ stray = {} /\ overrun = {} /\ regionCalls = 0

\* A region call is made between other calls and does not name memory that
\* somebody holds. Nothing keeps the block behind the region from being held.
RegionCall(region) ==
  /\ pc = "idle"
  /\ regionCalls < MaxRegionCalls
  /\ NamedBlocks(region) \cap LiveBlocks = {}
  /\ regionCalls' = regionCalls + 1
  /\ stray' = stray \cup (RegionBlocks(region) \ Bitmap)
  /\ UNCHANGED <<scanVars, live>>

ReleaseWithBlockZero(region) ==
  /\ RegionCall(region)
  /\ pmm_memory_blocks' = pmm_memory_blocks \ RegionBlocks(region)
  /\ pmm_used_memory_blocks' = pmm_used_memory_blocks - RegionCount(region)
  /\ overrun' = overrun \cup ({EndBlock(region)} \cap LiveBlocks)

pmm_intialize_memory_region(region) ==
  /\ RegionCall(region)
  /\ pmm_memory_blocks' = (pmm_memory_blocks \ RegionBlocks(region)) \cup {0}
  /\ pmm_used_memory_blocks' = pmm_used_memory_blocks - RegionCount(region)
  /\ overrun' = overrun \cup ({EndBlock(region)} \cap LiveBlocks)

pmm_deintialize_memory_region(region) ==
  /\ RegionCall(region)
  /\ pmm_memory_blocks' =
       pmm_memory_blocks \cup (RegionBlocks(region) \cap Bitmap)
  /\ pmm_used_memory_blocks' = pmm_used_memory_blocks + RegionCount(region)
  /\ UNCHANGED overrun

\* The unsigned difference max - used is below n.  A counter above max makes
\* it wrap to a huge number, and the test lets the request through.
TooFewLeft(n) == pmm_max_memory_blocks - pmm_used_memory_blocks \in 0 .. (n - 1)

\* pmm_allocate_blocks up to its call of pmm_find_first_free_run.
pmm_allocate_blocks(n) ==
  /\ pc = "idle"
  /\ size' = n
  /\ IF TooFewLeft(n) THEN pc' = "return" /\ UNCHANGED run
                      ELSE pc' = "byte" /\ run' = n
  /\ UNCHANGED <<pmm_memory_blocks, pmm_used_memory_blocks, i, j, start,
                 historyVars>>

SkipByteInUse(byte) == ByteBlocks(byte) \cap pmm_memory_blocks # {}

\* The search skips a byte that is full and, while it still needs a whole byte
\* or more, a byte that is not empty.
SkipByte(byte) ==
  \/ run >= PMM_BLOCKS_PER_BYTE /\ ByteBlocks(byte) \cap pmm_memory_blocks # {}
  \/ ByteBlocks(byte) \subseteq pmm_memory_blocks

FindByteForever ==
  /\ pc = "byte"
  /\ i < BitmapBytes
  /\ IF SkipByte(i)
     THEN run' = size /\ UNCHANGED <<pc, i>>
     ELSE pc' = "bit" /\ UNCHANGED <<run, i>>
  /\ UNCHANGED <<pmm_memory_blocks, pmm_used_memory_blocks, size, j, start,
                 historyVars>>

FindByte ==
  /\ pc = "byte"
  /\ i < BitmapBytes
  /\ IF SkipByte(i)
     THEN run' = size /\ i' = i + 1 /\ UNCHANGED pc
     ELSE pc' = "bit" /\ UNCHANGED <<run, i>>
  /\ UNCHANGED <<pmm_memory_blocks, pmm_used_memory_blocks, size, j, start,
                 historyVars>>

RunNotReset == IF Block(i, j) \in pmm_memory_blocks THEN run ELSE run - 1

RunAfterBit == IF Block(i, j) \in pmm_memory_blocks THEN size ELSE run - 1

RunEnd == Block(i, j)

\* The first block of the run that ends at the bit just examined.
RunStart == Block(i, j) - (size - 1)

FindBit ==
  /\ pc = "bit"
  /\ run' = RunAfterBit
  /\ \/ /\ RunAfterBit = 0
        /\ start' = RunStart
        /\ pc' = "claim"
        /\ UNCHANGED <<i, j>>
     \/ /\ RunAfterBit # 0
        /\ j + 1 < PMM_BLOCKS_PER_BYTE
        /\ j' = j + 1
        /\ UNCHANGED <<pc, i, start>>
     \/ /\ RunAfterBit # 0
        /\ j + 1 = PMM_BLOCKS_PER_BYTE
        /\ j' = 0 /\ i' = i + 1 /\ pc' = "byte"
        /\ UNCHANGED start
  /\ UNCHANGED <<pmm_memory_blocks, pmm_used_memory_blocks, size, historyVars>>

\* The bitmap ends without a run: pmm_find_first_free_run returns 0.
FindNothing ==
  /\ pc = "byte"
  /\ i = BitmapBytes
  /\ pc' = "return"
  /\ UNCHANGED <<pmm_memory_blocks, pmm_used_memory_blocks, size, i, j, run,
                 start, historyVars>>

OneTooMany == Run(start, size + 1)

\* The blocks pmm_allocate_blocks marks.
Claimed == Run(start, size)

\* A number that tells this caller from others that were handed the same run.
NewHolder ==
  CHOOSE holder \in 0 .. Cardinality(live) : <<start, size, holder>> \notin live

\* pmm_allocate_blocks after the search: block 0 means failure.
Claim ==
  /\ pc = "claim"
  /\ pc' = "return"
  /\ IF start = 0
     THEN UNCHANGED <<pmm_memory_blocks, pmm_used_memory_blocks, live>>
     ELSE /\ pmm_memory_blocks' = pmm_memory_blocks \cup Claimed
          /\ pmm_used_memory_blocks' = pmm_used_memory_blocks + size
          /\ live' = live \cup {<<start, size, NewHolder>>}
  /\ UNCHANGED <<size, i, j, run, start, stray, overrun, regionCalls>>

\* The caller has the result; the locals are gone.
Return ==
  /\ pc = "return"
  /\ pc' = "idle"
  /\ size' = 0 /\ i' = 0 /\ j' = 0 /\ run' = 0 /\ start' = 0
  /\ UNCHANGED <<pmm_memory_blocks, pmm_used_memory_blocks, historyVars>>

\* Callers free what they were given, whole.
pmm_free_blocks(a) ==
  /\ pc = "idle"
  /\ pmm_memory_blocks' = pmm_memory_blocks \ Run(a[1], a[2])
  /\ pmm_used_memory_blocks' = pmm_used_memory_blocks - a[2]
  /\ live' = live \ {a}
  /\ UNCHANGED <<scanVars, stray, overrun, regionCalls>>

Search == FindByte \/ FindBit \/ FindNothing \/ Claim \/ Return

Next ==
  \/ \E region \in Regions : pmm_intialize_memory_region(region)
  \/ \E region \in Regions : pmm_deintialize_memory_region(region)
  \/ \E n \in Requests : pmm_allocate_blocks(n)
  \/ \E a \in live : pmm_free_blocks(a)
  \/ Search

Spec == Init /\ [][Next]_vars

\* The code that is inside a call keeps running until the call returns.
FairSpec == Spec /\ WF_vars(Search)

------------------------------------------------------------------------------
TypeOK ==
  /\ pmm_memory_blocks \subseteq Bitmap
  /\ pmm_used_memory_blocks \in Int
  /\ pc \in {"idle", "byte", "bit", "claim", "return"}
  /\ size \in Requests \cup {0}
  /\ i \in 0 .. BitmapBytes
  /\ j \in 0 .. (PMM_BLOCKS_PER_BYTE - 1)
  /\ run \in Nat
  /\ start \in Nat
  /\ live \subseteq Nat \X Requests \X Nat
  /\ IsFiniteSet(live)
  /\ overrun \subseteq Nat
  /\ regionCalls \in Nat

\* A block is held by two callers, or is free in the bitmap under its holder,
\* only if a region call for the memory before it released it (line 29 counts
\* to the end block inclusive); held blocks are in the bitmap, and block 0 is
\* never held. Everything else the search, the claim bit by bit (lines 76-80) and the frees keep apart, also
\* while such blocks go round.
AllocationsExclusive ==
  /\ \A a, b \in live : a # b => Run(a[1], a[2]) \cap Run(b[1], b[2]) \subseteq overrun
  /\ LiveBlocks \ overrun \subseteq pmm_memory_blocks
  /\ LiveBlocks \subseteq Bitmap \ {0}

\* An allocation or a free only moves blocks between the free blocks and the
\* callers: none is lost on the way and none appears that no region released.
Conservation ==
  [][live' # live => FreeBlocks' \cup LiveBlocks' = FreeBlocks \cup LiveBlocks]_vars

\* How many blocks the counter hides: the blocks that are really free minus
\* those the counter believes are left (lines 29, 40: the region loops count
\* blocks that already had the bit, and line 32 takes block 0 back uncounted).
Hidden == Cardinality(FreeBlocks)
            - (pmm_max_memory_blocks - pmm_used_memory_blocks)

\* An allocation and a free adjust the counter by exactly the bits they change,
\* whatever the region calls made of the counter. The exception are blocks that
\* were released under their holder: the free counts them once more (line 89).
CounterKeepsPace ==
  [][live' # live =>
       Hidden' = Hidden - Cardinality(FreeBlocks \cap Held(live \ live'))]_vars

\* The block numbers at which n free blocks in a row start.
FreeRuns(n) == {first \in Bitmap : Run(first, n) \subseteq FreeBlocks}

SearchFailed == pc = "return" /\ start = 0 /\ i = BitmapBytes

\* A request smaller than a bitmap byte is first-fit and complete: the search
\* returns the lowest run there is and fails only if there is none, although it
\* looks at whole bytes first (line 57) and carries "run" across bytes.
SmallRequestsFirstFit ==
  (size # 0 /\ size < PMM_BLOCKS_PER_BYTE) =>
    /\ pc = "claim" => start \in FreeRuns(size)
                       /\ \A first \in FreeRuns(size) : start <= first
    /\ SearchFailed => FreeRuns(size) = {}

\* For larger requests line 57 skips a byte in whose middle a run starts, so
\* the search can miss a run; it never misses one that starts at a byte.
AlignedRunsFound ==
  SearchFailed =>
    \A byte \in 0 .. (BitmapBytes - 1) : Block(byte, 0) \notin FreeRuns(size)

------------------------------------------------------------------------------
\* What the search keeps true between two steps, which makes the properties
\* above inductive.

Searching == pc \in {"byte", "bit"}

\* The next bit the search examines; the blocks before it are behind it.
Position == Block(i, j)

\* The free blocks right before Position that the search counts on.
Counted == (Position - (size - run)) .. (Position - 1)

Located ==
  /\ 0 \in pmm_memory_blocks
  /\ pc = "idle" => i = 0 /\ j = 0 /\ start = 0 /\ size = 0
  /\ pc # "idle" => size # 0
  /\ pc = "byte" => j = 0
  /\ pc = "bit" => i < BitmapBytes
  /\ Searching => start = 0
  /\ pc = "claim" => start \in FreeRuns(size)

RunIsFree ==
  Searching => /\ run \in 1 .. size
               /\ size - run <= Position
               /\ Counted \cap pmm_memory_blocks = {}

\* For a request below a byte: no run ends behind the search, and the counted
\* blocks are all the free ones before Position.
NoRunBehind ==
  (Searching /\ size < PMM_BLOCKS_PER_BYTE) =>
    /\ \A first \in FreeRuns(size) : first + size > Position
    /\ \/ size - run = Position
       \/ Position - (size - run) - 1 \in pmm_memory_blocks

\* For any request: the same of the runs that start with a byte.
NoAlignedRunBehind ==
  Searching =>
    \A byte \in 0 .. (BitmapBytes - 1) :
      /\ Block(byte, 0) \in FreeRuns(size) => Block(byte, 0) + size > Position
      /\ /\ Block(byte, 0) <= Position
         /\ (Block(byte, 0) .. (Position - 1)) \cap pmm_memory_blocks = {}
         => Position - Block(byte, 0) <= size - run

\* What line 57's "run" means at every step of the search (lines 55-68): "run"
\* blocks are missing from a run whose other blocks were seen free just before
\* the current bit, and no run that counts was left behind.
SearchInvariant ==
  Located /\ RunIsFree /\ NoRunBehind /\ NoAlignedRunBehind

------------------------------------------------------------------------------
\* The region loops include the end block (lines 29 and 40) and so write past
\* the bitmap, but for regions inside memory never past the bit of block
\* pmm_max_memory_blocks.
StrayWritesBounded == \A b \in stray : b <= pmm_max_memory_blocks

\* Every allocation call comes back to its caller.
CallsReturn == (pc # "idle") ~> (pc = "idle")

\* No held block is free in the bitmap or held twice.
Exclusive ==
  /\ \A a, b \in live : a # b => Run(a[1], a[2]) \cap Run(b[1], b[2]) = {}
  /\ LiveBlocks \subseteq pmm_memory_blocks \ {0}

HeldRuns == {<<a[1], a[2]>> : a \in live}

Allocator == INSTANCE BlockAllocator
  WITH Blocks <- Bitmap, pool <- FreeBlocks, owned <- HeldRuns

\* The only step that breaks the promise: a region call whose loop goes one
\* block too far and releases a held block.
ReleaseUnderHolder ==
  \E region \in Regions :
    pmm_intialize_memory_region(region) /\ EndBlock(region) \in LiveBlocks

\* The bitmap, the counter and the search are a block allocator: a step that
\* leaves every allocation exclusive is a step of BlockAllocator, whatever came
\* before, and exclusiveness is lost by nothing but line 29.
AllocatorSpec ==
  /\ Allocator!Init
  /\ [][IF Exclusive' THEN Allocator!Next
                      ELSE Exclusive => ReleaseUnderHolder]_<<FreeBlocks, HeldRuns>>
==============================================================================
