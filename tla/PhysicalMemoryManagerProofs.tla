--------------------- MODULE PhysicalMemoryManagerProofs ---------------------
(***************************************************************************)
(* Proofs about the physical memory manager, for every block size, bitmap  *)
(* size, memory map and request.  The inductive invariant is Inv: the type *)
(* invariant, the exclusiveness of allocations up to the blocks a region   *)
(* call released under their holder, and SearchInvariant, which says what  *)
(* the local "run" of the search stands for.                               *)
(***************************************************************************)
EXTENDS PhysicalMemoryManager, TLAPS, FiniteSetTheorems

\* The tuple of the histories is written out wherever a step leaves them alone.
USE DEF historyVars

Inv ==
  /\ TypeOK
  /\ AllocationsExclusive
  /\ SearchInvariant
  /\ SmallRequestsFirstFit
  /\ AlignedRunsFound

------------------------------------------------------------------------------
(***************************************************************************)
(* Block numbers.  These lemmas are all that the rest uses of Block.       *)
(***************************************************************************)

\* The constants of the bitmap (lines 18-20) are natural numbers.
LEMMA ConstantTypes ==
  /\ PMM_BLOCKS_PER_BYTE \in Nat \ {0}
  /\ PMM_BLOCK_SIZE \in Nat \ {0}
  /\ pmm_max_memory_blocks \in Nat
  /\ BitmapBytes \in Nat \ {0}
<1>1. pmm_max_memory_blocks \in Nat
  BY ConstantsAssumption DEF pmm_max_memory_blocks
<1>2. BitmapBytes \in Nat
  BY <1>1, ConstantsAssumption DEF BitmapBytes
<1>3. QED
  BY <1>1, <1>2, ConstantsAssumption

\* Block numbers are natural and follow each other bit by bit (line 65).
LEMMA BlockStep ==
  ASSUME NEW byte \in Nat, NEW bit \in Nat
  PROVE  /\ Block(byte, bit) \in Nat
         /\ Block(byte, bit) = Block(byte, 0) + bit
         /\ Block(byte, bit + 1) = Block(byte, bit) + 1
         /\ Block(byte + 1, 0) = Block(byte, 0) + PMM_BLOCKS_PER_BYTE
         /\ Block(0, 0) = 0
<1>1. (byte + 1) * PMM_BLOCKS_PER_BYTE
        = byte * PMM_BLOCKS_PER_BYTE + PMM_BLOCKS_PER_BYTE
  BY ConstantTypes
<1>2. byte * PMM_BLOCKS_PER_BYTE \in Nat
  BY ConstantTypes
<1>3. QED
  BY <1>1, <1>2, ConstantTypes DEF Block

\* Later bytes hold later blocks.
LEMMA BlockMonotone ==
  ASSUME NEW a \in Nat, NEW b \in Nat, a <= b
  PROVE  Block(a, 0) <= Block(b, 0)
<1>1. a * PMM_BLOCKS_PER_BYTE <= b * PMM_BLOCKS_PER_BYTE
  BY ConstantTypes
<1>2. a * PMM_BLOCKS_PER_BYTE \in Nat /\ b * PMM_BLOCKS_PER_BYTE \in Nat
  BY ConstantTypes
<1>3. QED
  BY <1>1, <1>2 DEF Block

\* Every bit of a byte of the bitmap belongs to a block of the bitmap, and the
\* bitmap holds block 0.
LEMMA BitInBitmap ==
  /\ Block(BitmapBytes, 0) \in Nat
  /\ 0 \in Bitmap
  /\ Bitmap \subseteq Nat
  /\ \A byte \in 0 .. (BitmapBytes - 1), bit \in 0 .. (PMM_BLOCKS_PER_BYTE - 1) :
       Block(byte, bit) \in Bitmap
<1>1. Block(BitmapBytes, 0) \in Nat
  BY BlockStep, ConstantTypes
<1>2. ASSUME NEW byte \in 0 .. (BitmapBytes - 1),
             NEW bit \in 0 .. (PMM_BLOCKS_PER_BYTE - 1)
      PROVE  Block(byte, bit) \in Bitmap
  <2>1. Block(byte + 1, 0) <= Block(BitmapBytes, 0)
    BY BlockMonotone, ConstantTypes
  <2>2. byte \in Nat /\ bit \in Nat /\ bit < PMM_BLOCKS_PER_BYTE
    BY ConstantTypes
  <2>3. /\ Block(byte, bit) \in Nat
        /\ Block(byte, bit) = Block(byte, 0) + bit
        /\ Block(byte + 1, 0) = Block(byte, 0) + PMM_BLOCKS_PER_BYTE
        /\ Block(byte, 0) \in Nat
    BY <2>2, BlockStep
  <2>4. QED
    BY <2>1, <2>2, <2>3, <1>1, ConstantTypes DEF Bitmap
<1>3. Block(0, 0) \in Bitmap
  BY <1>2, ConstantTypes
<1>4. QED
  BY <1>1, <1>2, <1>3, BlockStep DEF Bitmap

\* The bounds of a region are block numbers.
LEMMA RegionTypes ==
  ASSUME NEW region \in Regions
  PROVE  /\ FirstBlock(region) \in Nat
         /\ EndBlock(region) \in Nat
         /\ RegionCount(region) \in Int
<1>1. region[1] \in Nat /\ region[2] \in Nat
  BY ConstantsAssumption
<1>2. FirstBlock(region) \in Nat
  BY <1>1, ConstantTypes DEF FirstBlock
<1>3. EndBlock(region) \in Nat
  BY <1>1, ConstantTypes DEF EndBlock
<1>4. QED
  BY <1>2, <1>3 DEF RegionCount

\* A run that was handed out consists of held blocks.
LEMMA RunInLive == \A a \in live : Run(a[1], a[2]) \subseteq LiveBlocks
BY DEF LiveBlocks, Held

\* What callers hold has a first block, a length and a holder.
LEMMA LiveTypes ==
  ASSUME TypeOK, NEW a \in live
  PROVE  a[1] \in Nat /\ a[2] \in Requests /\ a[2] \in Nat \ {0}
<1>1. a \in Nat \X Requests \X Nat
  BY DEF TypeOK
<1>2. a[1] \in Nat /\ a[2] \in Requests
  BY <1>1
<1>3. QED
  BY <1>2, ConstantsAssumption

\* The new caller of a run differs from all that were handed the same run: live
\* has too few elements to use up every number.
LEMMA HolderIsNew ==
  ASSUME TypeOK
  PROVE  NewHolder \in Nat /\ <<start, size, NewHolder>> \notin live
<1> DEFINE Numbers == 0 .. Cardinality(live)
           given == [holder \in Numbers |-> <<start, size, holder>>]
<1>1. IsFiniteSet(live) /\ Cardinality(live) \in Nat
  BY FS_CardinalityType DEF TypeOK
<1>2. IsFiniteSet(Numbers) /\ Cardinality(Numbers) = Cardinality(live) + 1
  BY <1>1, FS_Interval
<1>3. \E holder \in Numbers : <<start, size, holder>> \notin live
  <2> SUFFICES ASSUME \A holder \in Numbers : <<start, size, holder>> \in live
               PROVE  FALSE
    OBVIOUS
  <2>1. given \in [Numbers -> live]
    OBVIOUS
  <2>2. ASSUME NEW p \in Numbers, NEW q \in Numbers, given[p] = given[q]
        PROVE  p = q
    <3>1. <<start, size, p>> = <<start, size, q>>
      BY <2>2
    <3>2. QED
      BY <3>1
  <2>3. given \in Injection(Numbers, live)
    BY <2>1, <2>2 DEF Injection, IsInjective
  <2>4. Cardinality(Numbers) <= Cardinality(live)
    BY <1>1, <2>3, FS_Injection
  <2>5. QED
    BY <1>1, <1>2, <2>4
<1>4. NewHolder \in Numbers /\ <<start, size, NewHolder>> \notin live
  BY <1>3 DEF NewHolder
<1>5. QED
  BY <1>1, <1>4

\* Handing out a run adds its blocks to the held ones.
LEMMA LiveGrows ==
  ASSUME NEW holder, live' = live \cup {<<start, size, holder>>}
  PROVE  LiveBlocks' = LiveBlocks \cup Run(start, size)
<1>1. ASSUME NEW x
      PROVE  x \in LiveBlocks' <=> x \in LiveBlocks \cup Run(start, size)
  <2>1. x \in LiveBlocks <=> \E a \in live : x \in Run(a[1], a[2])
    BY DEF LiveBlocks, Held
  <2>2. x \in LiveBlocks' <=> \E a \in live' : x \in Run(a[1], a[2])
    BY DEF LiveBlocks, Held
  <2>3. ASSUME NEW a \in live', x \in Run(a[1], a[2]), a \notin live
        PROVE  x \in Run(start, size)
    <3>1. a = <<start, size, holder>>
      BY <2>3
    <3>2. a[1] = start /\ a[2] = size
      BY <3>1
    <3>3. QED
      BY <2>3, <3>2
  <2>4. ASSUME x \in Run(start, size)
        PROVE  \E a \in live' : x \in Run(a[1], a[2])
    <3>1. x \in Run(<<start, size, holder>>[1], <<start, size, holder>>[2])
      BY <2>4
    <3>2. QED
      BY <3>1
  <2>5. QED
    BY <2>1, <2>2, <2>3, <2>4
<1>2. QED
  BY <1>1

------------------------------------------------------------------------------
(***************************************************************************)
(* The two kinds of step of the search, in terms of Position.              *)
(***************************************************************************)

\* The search stands at a block number.
LEMMA PositionType == TypeOK => Position \in Nat
BY BlockStep, ConstantTypes DEF TypeOK, Position

\* Examining a bit (lines 61-65) either completes the run or moves the search
\* one block on.
LEMMA BitStep ==
  ASSUME TypeOK, Located, RunIsFree, FindBit
  PROVE  /\ Position \in Bitmap
         /\ pc = "bit"
         /\ UNCHANGED <<pmm_memory_blocks, pmm_used_memory_blocks, size, live>>
         /\ \/ /\ RunAfterBit = 0
               /\ pc' = "claim"
               /\ start' = Position - (size - 1)
               /\ UNCHANGED <<i, j>>
            \/ /\ RunAfterBit # 0
               /\ pc' \in {"byte", "bit"}
               /\ Position' = Position + 1
               /\ start' = start
               /\ pc' = "byte" => j' = 0
               /\ pc' = "bit" => i' < BitmapBytes
               /\ i' \in 0 .. BitmapBytes
               /\ j' \in 0 .. (PMM_BLOCKS_PER_BYTE - 1)
<1>. /\ i \in Nat /\ i < BitmapBytes /\ i + 1 <= BitmapBytes
     /\ j \in Nat /\ j < PMM_BLOCKS_PER_BYTE
  BY ConstantTypes DEF TypeOK, Located, FindBit
<1>1. Position \in Bitmap
  BY BitInBitmap, ConstantTypes DEF Position
<1>2. /\ Block(i, j + 1) = Block(i, j) + 1
      /\ Block(i, j) = Block(i, 0) + j
      /\ Block(i, 0) \in Nat
      /\ Block(i + 1, 0) = Block(i, 0) + PMM_BLOCKS_PER_BYTE
  BY BlockStep
<1>3. CASE RunAfterBit = 0
  BY <1>1, <1>3 DEF FindBit, RunStart, Position
<1>4. CASE RunAfterBit # 0 /\ j + 1 < PMM_BLOCKS_PER_BYTE
  <2>1. i' = i /\ j' = j + 1 /\ pc' = "bit" /\ start' = start
    BY <1>4 DEF FindBit
  <2>2. Position' = Position + 1
    BY <2>1, <1>2 DEF Position
  <2>3. QED
    BY <1>1, <1>4, <2>1, <2>2, ConstantTypes DEF FindBit
<1>5. CASE RunAfterBit # 0 /\ j + 1 = PMM_BLOCKS_PER_BYTE
  <2>1. i' = i + 1 /\ j' = 0 /\ pc' = "byte" /\ start' = start
    BY <1>5, ConstantTypes DEF FindBit
  <2>2. Position' = Position + 1
    BY <2>1, <1>2, <1>5, ConstantTypes DEF Position
  <2>3. QED
    BY <1>1, <1>5, <2>1, <2>2, ConstantTypes DEF FindBit
<1>6. QED
  BY <1>3, <1>4, <1>5, ConstantTypes DEF FindBit

\* Looking at a byte (lines 56-59) either skips it, and then it holds a used
\* block, or turns to its first bit.
LEMMA ByteStep ==
  ASSUME TypeOK, Located, RunIsFree, FindByte
  PROVE  /\ pc = "byte"
         /\ i \in 0 .. (BitmapBytes - 1)
         /\ j = 0
         /\ Position = Block(i, 0)
         /\ UNCHANGED <<pmm_memory_blocks, pmm_used_memory_blocks, size, live,
                        start, j>>
         /\ \/ /\ SkipByte(i)
               /\ pc' = "byte"
               /\ run' = size
               /\ i' = i + 1
               /\ Position' = Position + PMM_BLOCKS_PER_BYTE
               /\ \E used \in pmm_memory_blocks :
                    Position <= used /\ used < Position'
            \/ /\ pc' = "bit"
               /\ Position' = Position
               /\ UNCHANGED <<i, run>>
<1>1. /\ i \in Nat /\ i \in 0 .. (BitmapBytes - 1) /\ j = 0 /\ pc = "byte"
      /\ Position = Block(i, 0)
      /\ UNCHANGED <<pmm_memory_blocks, pmm_used_memory_blocks, size, live,
                     start, j>>
  BY ConstantTypes DEF TypeOK, Located, FindByte, Position
<1>2. /\ Block(i, 0) \in Nat
      /\ Block(i + 1, 0) = Block(i, 0) + PMM_BLOCKS_PER_BYTE
  BY <1>1, BlockStep
<1>3. CASE SkipByte(i)
  <2>1. pc' = "byte" /\ run' = size /\ i' = i + 1
    BY <1>1, <1>3 DEF FindByte
  <2>2. Position' = Block(i + 1, 0)
    BY <1>1, <2>1 DEF Position
  <2>3. \E used \in pmm_memory_blocks : used \in ByteBlocks(i)
    <3>1. Block(i, 0) \in ByteBlocks(i)
      BY <1>2, ConstantTypes DEF ByteBlocks
    <3>2. QED
      BY <3>1, <1>3 DEF SkipByte
  <2>4. QED
    BY <1>1, <1>2, <1>3, <2>1, <2>2, <2>3, ConstantTypes DEF ByteBlocks
<1>4. CASE ~SkipByte(i)
  BY <1>1, <1>4 DEF FindByte, Position
<1>5. QED
  BY <1>1, <1>3, <1>4

\* A completed run (line 65) consists of free blocks of the bitmap.
LEMMA RunCompleted ==
  ASSUME TypeOK, Located, RunIsFree, FindBit, RunAfterBit = 0
  PROVE  /\ run = 1
         /\ Position \notin pmm_memory_blocks
         /\ start' = Position - (size - 1)
         /\ start' \in FreeRuns(size)
<1>1. /\ Position \in Bitmap
      /\ pc = "bit"
      /\ start' = Position - (size - 1)
  BY BitStep
<1>2. /\ size \in Nat \ {0}
      /\ run \in 1 .. size
      /\ size - run <= Position
      /\ Counted \cap pmm_memory_blocks = {}
  BY <1>1, ConstantsAssumption DEF TypeOK, Located, RunIsFree, Searching
<1>3. run = 1 /\ Position \notin pmm_memory_blocks
  BY <1>2 DEF RunAfterBit, Position
<1>4. /\ Position \in Nat /\ Position <= Block(BitmapBytes, 0) - 1
      /\ Block(BitmapBytes, 0) \in Nat
  BY <1>1, BitInBitmap DEF Bitmap
<1>5. start' \in Nat /\ start' <= Position
  BY <1>1, <1>2, <1>3, <1>4
<1>6. ASSUME NEW b \in Run(start', size)
      PROVE  b \in FreeBlocks
  <2>1. b \in Nat /\ b <= Position /\ b >= Position - (size - 1)
    BY <1>1, <1>2, <1>4, <1>5 DEF Run
  <2>2. b \in Bitmap
    BY <2>1, <1>4 DEF Bitmap
  <2>3. b = Position \/ b \in Counted
    BY <2>1, <1>2, <1>3, <1>4 DEF Counted
  <2>4. QED
    BY <2>2, <2>3, <1>2, <1>3 DEF FreeBlocks
<1>7. start' \in Bitmap
  BY <1>4, <1>5 DEF Bitmap
<1>8. QED
  BY <1>1, <1>3, <1>6, <1>7 DEF FreeRuns

------------------------------------------------------------------------------
(***************************************************************************)
(* The parts of Inv, one lemma each: a step keeps them.                    *)
(***************************************************************************)

\* Every step keeps the variables in their types, the bitmap inside its bounds.
LEMMA TypeStep ==
  ASSUME TypeOK, Located, RunIsFree, Next
  PROVE  TypeOK'
<1>. USE ConstantTypes
<1>1. ASSUME NEW region \in Regions, pmm_intialize_memory_region(region)
      PROVE  TypeOK'
  <2>1. pmm_memory_blocks' \subseteq Bitmap
    BY <1>1, BitInBitmap DEF TypeOK, pmm_intialize_memory_region
  <2>2. pmm_used_memory_blocks' \in Int
    BY <1>1, RegionTypes DEF TypeOK, pmm_intialize_memory_region
  <2>3. overrun' \subseteq Nat
    BY <1>1, RegionTypes DEF TypeOK, pmm_intialize_memory_region
  <2>4. QED
    BY <1>1, <2>1, <2>2, <2>3
       DEF TypeOK, pmm_intialize_memory_region, RegionCall, scanVars
<1>2. ASSUME NEW region \in Regions, pmm_deintialize_memory_region(region)
      PROVE  TypeOK'
  BY <1>2, RegionTypes
     DEF TypeOK, pmm_deintialize_memory_region, RegionCall, scanVars
<1>3. ASSUME NEW n \in Requests, pmm_allocate_blocks(n)
      PROVE  TypeOK'
  BY <1>3, ConstantsAssumption DEF TypeOK, pmm_allocate_blocks
<1>4. ASSUME NEW a \in live, pmm_free_blocks(a)
      PROVE  TypeOK'
  <2>1. IsFiniteSet(live \ {a})
    BY FS_RemoveElement DEF TypeOK
  <2>2. a[2] \in Int
    BY LiveTypes
  <2>3. QED
    BY <1>4, <2>1, <2>2 DEF TypeOK, pmm_free_blocks, scanVars
<1>5. CASE FindByte
  <2>1. size \in Nat
    BY ConstantsAssumption DEF TypeOK
  <2>2. QED
    BY <1>5, <2>1, ByteStep DEF TypeOK, FindByte
<1>6. CASE FindBit
  <2>1. /\ size \in Nat \ {0} /\ run \in 1 .. size
    BY <1>6, ConstantsAssumption
       DEF TypeOK, Located, RunIsFree, Searching, FindBit
  <2>2. run' \in Nat
    BY <1>6, <2>1 DEF FindBit, RunAfterBit
  <2>3. i' \in 0 .. BitmapBytes /\ j' \in 0 .. (PMM_BLOCKS_PER_BYTE - 1)
    BY <1>6, BitStep DEF TypeOK
  <2>4. start' \in Nat
    <3>1. CASE RunAfterBit = 0
      BY <3>1, <1>6, RunCompleted, BitInBitmap DEF FreeRuns
    <3>2. CASE RunAfterBit # 0
      BY <3>2, <1>6, BitStep DEF TypeOK
    <3>3. QED
      BY <3>1, <3>2
  <2>5. pc' \in {"claim", "byte", "bit"}
    BY <1>6, BitStep
  <2>6. QED
    BY <1>6, <2>2, <2>3, <2>4, <2>5 DEF TypeOK, FindBit
<1>7. CASE FindNothing
  BY <1>7 DEF TypeOK, FindNothing
<1>8. CASE Claim
  <2>1. Claimed \subseteq Bitmap /\ size \in Requests /\ start \in Nat
    BY <1>8 DEF Claim, Claimed, Located, FreeRuns, FreeBlocks, TypeOK
  <2>2. size \in Int
    BY <2>1, ConstantsAssumption
  <2>3. CASE start = 0
    BY <1>8, <2>3 DEF TypeOK, Claim
  <2>4. CASE start # 0
    <3>1. IsFiniteSet(live \cup {<<start, size, NewHolder>>})
      BY FS_AddElement DEF TypeOK
    <3>2. NewHolder \in Nat
      BY HolderIsNew
    <3> HIDE DEF NewHolder
    <3>3. <<start, size, NewHolder>> \in Nat \X Requests \X Nat
      BY <2>1, <3>2
    <3>4. live' \subseteq Nat \X Requests \X Nat /\ IsFiniteSet(live')
      BY <1>8, <2>4, <3>1, <3>3 DEF TypeOK, Claim
    <3>5. pmm_used_memory_blocks' \in Int /\ pmm_memory_blocks' \subseteq Bitmap
      BY <1>8, <2>1, <2>2, <2>4 DEF TypeOK, Claim
    <3>6. QED
      BY <1>8, <3>4, <3>5 DEF TypeOK, Claim
  <2>5. QED
    BY <2>3, <2>4
<1>9. CASE Return
  BY <1>9 DEF TypeOK, Return
<1>10. QED
  BY <1>1, <1>2, <1>3, <1>4, <1>5, <1>6, <1>7, <1>8, <1>9 DEF Next, Search

\* Only the region call that releases a held block lets that block be free
\* under its holder or be handed out again.
LEMMA ExclusiveStep ==
  ASSUME TypeOK, Located, AllocationsExclusive, Next
  PROVE  AllocationsExclusive'
<1>1. /\ \A a, b \in live :
           a # b => Run(a[1], a[2]) \cap Run(b[1], b[2]) \subseteq overrun
      /\ LiveBlocks \ overrun \subseteq pmm_memory_blocks
      /\ LiveBlocks \subseteq Bitmap \ {0}
      /\ 0 \in pmm_memory_blocks
  BY DEF AllocationsExclusive, Located
<1>2. CASE /\ live' = live
           /\ overrun \subseteq overrun'
           /\ LiveBlocks \ overrun' \subseteq pmm_memory_blocks'
  <2>1. LiveBlocks' = LiveBlocks
    BY <1>2 DEF LiveBlocks, Held
  <2>2. QED
    BY <1>1, <1>2, <2>1 DEF AllocationsExclusive
<1>3. ASSUME NEW region \in Regions, pmm_intialize_memory_region(region)
      PROVE  AllocationsExclusive'
  <2>1. /\ live' = live
        /\ overrun' = overrun \cup ({EndBlock(region)} \cap LiveBlocks)
        /\ pmm_memory_blocks' = (pmm_memory_blocks \ RegionBlocks(region)) \cup {0}
        /\ NamedBlocks(region) \cap LiveBlocks = {}
    BY <1>3 DEF pmm_intialize_memory_region, RegionCall
  <2>2. RegionBlocks(region) \subseteq NamedBlocks(region) \cup {EndBlock(region)}
    BY RegionTypes DEF RegionBlocks, NamedBlocks
  <2>3. QED
    BY <1>1, <1>2, <2>1, <2>2
<1>4. ASSUME NEW region \in Regions, pmm_deintialize_memory_region(region)
      PROVE  AllocationsExclusive'
  BY <1>1, <1>2, <1>4 DEF pmm_deintialize_memory_region, RegionCall
<1>5. ASSUME NEW n \in Requests, pmm_allocate_blocks(n)
      PROVE  AllocationsExclusive'
  BY <1>1, <1>2, <1>5 DEF pmm_allocate_blocks
<1>6. ASSUME NEW a \in live, pmm_free_blocks(a)
      PROVE  AllocationsExclusive'
  <2>1. /\ live' = live \ {a}
        /\ overrun' = overrun
        /\ pmm_memory_blocks' = pmm_memory_blocks \ Run(a[1], a[2])
    BY <1>6 DEF pmm_free_blocks
  <2>2. ASSUME NEW b \in live', NEW x \in Run(b[1], b[2]), x \notin overrun
        PROVE  x \in pmm_memory_blocks'
    <3>1. b \in live /\ b # a
      BY <2>1
    <3>2. x \notin Run(a[1], a[2])
      BY <1>1, <2>2, <3>1
    <3>3. x \in pmm_memory_blocks
      BY <1>1, <2>2, <3>1, RunInLive
    <3>4. QED
      BY <2>1, <3>2, <3>3
  <2>3. LiveBlocks' \ overrun' \subseteq pmm_memory_blocks'
    BY <2>1, <2>2 DEF LiveBlocks, Held
  <2>4. LiveBlocks' \subseteq LiveBlocks
    BY <2>1 DEF LiveBlocks, Held
  <2>5. QED
    BY <1>1, <2>1, <2>3, <2>4 DEF AllocationsExclusive
<1>7. CASE FindByte \/ FindBit \/ FindNothing \/ Return
  BY <1>1, <1>2, <1>7 DEF FindByte, FindBit, FindNothing, Return
<1>8. CASE Claim
  <2>1. CASE start = 0
    BY <1>1, <1>2, <1>8, <2>1 DEF Claim
  <2>2. CASE start # 0
    <3>1. /\ live' = live \cup {<<start, size, NewHolder>>}
          /\ overrun' = overrun
          /\ pmm_memory_blocks' = pmm_memory_blocks \cup Run(start, size)
      BY <1>8, <2>2 DEF Claim, Claimed
    <3> HIDE DEF NewHolder
    <3>2. Run(start, size) \cap pmm_memory_blocks = {}
      BY <1>8 DEF Claim, Located, FreeRuns, FreeBlocks
    <3>3. LiveBlocks' = LiveBlocks \cup Run(start, size)
      BY <3>1, LiveGrows
    <3>4. /\ LiveBlocks' \ overrun' \subseteq pmm_memory_blocks'
          /\ LiveBlocks' \subseteq Bitmap \ {0}
      <4>1. Run(start, size) \subseteq Bitmap
        BY <1>8 DEF Claim, Located, FreeRuns, FreeBlocks
      <4>2. QED
        BY <1>1, <3>1, <3>2, <3>3, <4>1
    <3>5. ASSUME NEW a \in live
          PROVE  Run(a[1], a[2]) \cap Run(start, size) \subseteq overrun
      BY <1>1, <3>2, RunInLive
    <3>6. ASSUME NEW a \in live', NEW b \in live', a # b
          PROVE  Run(a[1], a[2]) \cap Run(b[1], b[2]) \subseteq overrun'
      <4> DEFINE new == <<start, size, NewHolder>>
      <4>1. new[1] = start /\ new[2] = size
        OBVIOUS
      <4>2. CASE a \in live /\ b \in live
        BY <1>1, <3>1, <3>6, <4>2
      <4>3. CASE a = new /\ b \in live
        BY <3>1, <3>5, <4>1, <4>3
      <4>4. CASE a \in live /\ b = new
        BY <3>1, <3>5, <4>1, <4>4
      <4>5. QED
        BY <3>1, <3>6, <4>2, <4>3, <4>4
    <3>7. QED
      BY <3>4, <3>6 DEF AllocationsExclusive
  <2>3. QED
    BY <2>1, <2>2
<1>9. QED
  BY <1>3, <1>4, <1>5, <1>6, <1>7, <1>8 DEF Next, Search

\* Every step leaves the search where its locals say, with "run" right.
LEMMA SearchStep ==
  ASSUME TypeOK, Located, RunIsFree, AllocationsExclusive, Next
  PROVE  Located' /\ RunIsFree'
<1>. USE ConstantTypes
<1>1. CASE pc = "idle" /\ pc' = "idle" /\ UNCHANGED scanVars
           /\ 0 \in pmm_memory_blocks'
  BY <1>1 DEF Located, RunIsFree, Searching, scanVars
<1>2. ASSUME NEW region \in Regions, pmm_intialize_memory_region(region)
      PROVE  Located' /\ RunIsFree'
  BY <1>1, <1>2 DEF pmm_intialize_memory_region, RegionCall, scanVars
<1>3. ASSUME NEW region \in Regions, pmm_deintialize_memory_region(region)
      PROVE  Located' /\ RunIsFree'
  BY <1>1, <1>3
     DEF pmm_deintialize_memory_region, RegionCall, scanVars, Located
<1>4. ASSUME NEW a \in live, pmm_free_blocks(a)
      PROVE  Located' /\ RunIsFree'
  <2>1. 0 \notin Run(a[1], a[2])
    BY RunInLive DEF AllocationsExclusive
  <2>2. QED
    BY <1>1, <1>4, <2>1 DEF pmm_free_blocks, scanVars, Located
<1>5. ASSUME NEW n \in Requests, pmm_allocate_blocks(n)
      PROVE  Located' /\ RunIsFree'
  <2>1. n \in Nat \ {0}
    BY ConstantsAssumption
  <2>2. Position' = 0
    BY <1>5, BlockStep DEF pmm_allocate_blocks, Located, Position
  <2>3. Located'
    BY <1>5, <2>1 DEF pmm_allocate_blocks, Located, Searching
  <2>4. RunIsFree'
    BY <1>5, <2>1, <2>2
       DEF pmm_allocate_blocks, RunIsFree, Searching, Counted
  <2>5. QED
    BY <2>3, <2>4
<1>6. CASE FindByte
  <2>1. /\ size \in Nat \ {0} /\ Position \in Nat
        /\ run \in 1 .. size /\ size - run <= Position
        /\ Counted \cap pmm_memory_blocks = {}
    BY <1>6, ByteStep, PositionType, ConstantsAssumption
       DEF TypeOK, Located, RunIsFree, Searching
  <2>2. Located'
    BY <1>6, ByteStep DEF Located, Searching
  <2>3. CASE run' = size /\ Position' = Position + PMM_BLOCKS_PER_BYTE
    <3>1. Counted' = {}
      BY <1>6, <2>1, <2>3, ByteStep DEF Counted
    <3>2. QED
      BY <1>6, <2>1, <2>2, <2>3, <3>1, ByteStep DEF RunIsFree
  <2>4. CASE run' = run /\ Position' = Position
    BY <1>6, <2>1, <2>2, <2>4, ByteStep DEF RunIsFree, Counted
  <2>5. QED
    BY <1>6, <2>3, <2>4, ByteStep
<1>7. CASE FindBit
  <2>1. /\ size \in Nat \ {0} /\ Position \in Nat
        /\ run \in 1 .. size /\ size - run <= Position
        /\ Counted \cap pmm_memory_blocks = {}
    BY <1>7, BitStep, PositionType, ConstantsAssumption
       DEF TypeOK, Located, RunIsFree, Searching
  <2>2. CASE RunAfterBit = 0
    <3>1. start' \in FreeRuns(size)
      BY <1>7, <2>2, RunCompleted
    <3>2. pc' = "claim" /\ UNCHANGED <<pmm_memory_blocks, size>>
      BY <1>7, <2>2, BitStep
    <3>3. start' \in FreeRuns(size)'
      BY <3>1, <3>2 DEF FreeRuns, FreeBlocks
    <3>4. QED
      BY <3>2, <3>3, <2>1 DEF Located, RunIsFree, Searching
  <2>3. CASE RunAfterBit # 0
    <3>1. /\ pc' \in {"byte", "bit"}
          /\ Position' = Position + 1
          /\ start' = start
          /\ pc' = "byte" => j' = 0
          /\ pc' = "bit" => i' < BitmapBytes
          /\ UNCHANGED <<pmm_memory_blocks, size>>
          /\ run' = RunAfterBit
          /\ pc = "bit"
      BY <1>7, <2>3, BitStep DEF FindBit
    <3>2. Located'
      BY <2>1, <3>1 DEF Located, Searching
    <3>3. CASE Position \in pmm_memory_blocks
      <4>1. run' = size
        BY <3>1, <3>3 DEF RunAfterBit, Position
      <4>2. Counted' = {}
        BY <2>1, <3>1, <4>1 DEF Counted
      <4>3. QED
        BY <2>1, <3>1, <3>2, <4>1, <4>2 DEF RunIsFree
    <3>4. CASE Position \notin pmm_memory_blocks
      <4>1. run' = run - 1 /\ run' # 0
        BY <2>3, <3>1, <3>4 DEF RunAfterBit, Position
      <4>2. Counted' = Counted \cup {Position}
        BY <2>1, <3>1, <4>1 DEF Counted
      <4>3. QED
        BY <2>1, <3>1, <3>2, <3>4, <4>1, <4>2 DEF RunIsFree
    <3>5. QED
      BY <3>3, <3>4
  <2>4. QED
    BY <2>2, <2>3
<1>8. CASE FindNothing
  BY <1>8 DEF FindNothing, Located, RunIsFree, Searching
<1>9. CASE Claim
  BY <1>9 DEF Claim, Located, RunIsFree, Searching
<1>10. CASE Return
  BY <1>10 DEF Return, Located, RunIsFree, Searching
<1>11. QED
  BY <1>2, <1>3, <1>4, <1>5, <1>6, <1>7, <1>8, <1>9, <1>10 DEF Next, Search

\* A free run lies in the bitmap and holds no used block.
LEMMA FreeRunFacts ==
  ASSUME NEW n \in Nat \ {0}, NEW first \in FreeRuns(n)
  PROVE  /\ first \in Nat
         /\ first + n <= Block(BitmapBytes, 0)
         /\ \A used \in pmm_memory_blocks : used < first \/ used >= first + n
                                            \/ used \notin Int
<1>1. first \in Nat /\ Run(first, n) \subseteq FreeBlocks
  BY BitInBitmap DEF FreeRuns
<1>2. first + n - 1 \in Bitmap
  BY <1>1 DEF Run, FreeBlocks
<1>3. first + n <= Block(BitmapBytes, 0)
  BY <1>1, <1>2, BitInBitmap DEF Bitmap
<1>4. QED
  BY <1>1, <1>3 DEF Run, FreeBlocks

\* For small requests no step leaves a free run behind.
LEMMA FirstFitStep ==
  ASSUME TypeOK, Located, RunIsFree, NoRunBehind, SmallRequestsFirstFit, Next
  PROVE  NoRunBehind' /\ SmallRequestsFirstFit'
<1>. USE ConstantTypes
<1>1. CASE pc' = "idle" /\ size' = 0
  BY <1>1 DEF NoRunBehind, Searching, SmallRequestsFirstFit
<1>2. ASSUME NEW region \in Regions, pmm_intialize_memory_region(region)
      PROVE  NoRunBehind' /\ SmallRequestsFirstFit'
  BY <1>1, <1>2 DEF pmm_intialize_memory_region, RegionCall, scanVars, Located
<1>3. ASSUME NEW region \in Regions, pmm_deintialize_memory_region(region)
      PROVE  NoRunBehind' /\ SmallRequestsFirstFit'
  BY <1>1, <1>3 DEF pmm_deintialize_memory_region, RegionCall, scanVars, Located
<1>4. ASSUME NEW a \in live, pmm_free_blocks(a)
      PROVE  NoRunBehind' /\ SmallRequestsFirstFit'
  BY <1>1, <1>4 DEF pmm_free_blocks, scanVars, Located
<1>5. ASSUME NEW n \in Requests, pmm_allocate_blocks(n)
      PROVE  NoRunBehind' /\ SmallRequestsFirstFit'
  <2>1. n \in Nat \ {0}
    BY ConstantsAssumption
  <2>2. /\ Position' = 0 /\ size' = n /\ i' = 0
        /\ pc' \in {"byte", "return"} /\ (pc' = "byte" => run' = n)
    BY <1>5, BlockStep DEF pmm_allocate_blocks, Located, Position
  <2>3. \A first \in FreeRuns(n)' : first \in Nat
    BY BitInBitmap DEF FreeRuns
  <2>4. QED
    BY <2>1, <2>2, <2>3
       DEF NoRunBehind, Searching, SmallRequestsFirstFit, SearchFailed
<1>6. ASSUME UNCHANGED <<pmm_memory_blocks, size>>
      PROVE  FreeRuns(size)' = FreeRuns(size)
  BY <1>6 DEF FreeRuns, FreeBlocks
<1>7. CASE FindByte
  <2>1. /\ size \in Nat \ {0} /\ Position \in Nat
        /\ run \in 1 .. size /\ size - run <= Position
    BY <1>7, ByteStep, PositionType, ConstantsAssumption
       DEF TypeOK, Located, RunIsFree, Searching
  <2>2. SmallRequestsFirstFit'
    BY <1>7, ByteStep DEF SmallRequestsFirstFit, SearchFailed
  <2>3. SUFFICES ASSUME size < PMM_BLOCKS_PER_BYTE
                 PROVE  NoRunBehind'
    BY <1>7, <2>2, ByteStep DEF NoRunBehind
  <2>4. /\ \A first \in FreeRuns(size) : first + size > Position
        /\ \/ size - run = Position
           \/ Position - (size - run) - 1 \in pmm_memory_blocks
    BY <1>7, <2>3, ByteStep DEF NoRunBehind, Searching
  <2>5. CASE Position' = Position /\ run' = run
    BY <1>6, <1>7, <2>4, <2>5, ByteStep DEF NoRunBehind
  <2>6. CASE SkipByte(i) /\ run' = size
             /\ Position' = Position + PMM_BLOCKS_PER_BYTE
    <3>1. ByteBlocks(i) \subseteq pmm_memory_blocks
      BY <2>1, <2>3, <2>6 DEF SkipByte
    <3>2. ByteBlocks(i) = Position .. (Position' - 1)
      BY <1>7, <2>6, ByteStep, BlockStep DEF ByteBlocks
    <3>3. ASSUME NEW first \in FreeRuns(size)
          PROVE  first + size > Position'
      <4>1. first \in Nat /\ first + size > Position
        BY <2>1, <2>4, FreeRunFacts
      <4>2. first + size - 1 \notin pmm_memory_blocks
        BY <2>1, <4>1, FreeRunFacts
      <4>3. first + size - 1 \notin Position .. (Position' - 1)
        BY <3>1, <3>2, <4>2
      <4>4. QED
        BY <2>1, <2>6, <4>1, <4>3
    <3>4. Position' - (size - run') - 1 \in pmm_memory_blocks
      BY <2>1, <2>6, <3>1, <3>2
    <3>5. QED
      BY <1>6, <1>7, <3>3, <3>4, ByteStep DEF NoRunBehind
  <2>7. QED
    BY <1>7, <2>5, <2>6, ByteStep
<1>8. CASE FindBit
  <2>1. /\ size \in Nat \ {0} /\ Position \in Nat
        /\ run \in 1 .. size /\ size - run <= Position
        /\ UNCHANGED <<pmm_memory_blocks, size>>
    BY <1>8, BitStep, PositionType, ConstantsAssumption
       DEF TypeOK, Located, RunIsFree, Searching
  <2>2. CASE size >= PMM_BLOCKS_PER_BYTE
    BY <2>1, <2>2 DEF NoRunBehind, SmallRequestsFirstFit, TypeOK
  <2>3. CASE size < PMM_BLOCKS_PER_BYTE
    <3>1. /\ \A first \in FreeRuns(size) : first + size > Position
          /\ \/ size - run = Position
             \/ Position - (size - run) - 1 \in pmm_memory_blocks
      BY <1>8, <2>3, BitStep DEF NoRunBehind, Searching
    <3>2. CASE RunAfterBit = 0
      <4>1. /\ start' = Position - (size - 1)
            /\ start' \in FreeRuns(size)
            /\ pc' = "claim"
        BY <1>8, <3>2, RunCompleted, BitStep
      <4>2. \A first \in FreeRuns(size) : start' <= first
        BY <2>1, <3>1, <4>1, FreeRunFacts
      <4>3. QED
        BY <1>6, <2>1, <4>1, <4>2
           DEF NoRunBehind, Searching, SmallRequestsFirstFit, SearchFailed
    <3>3. CASE RunAfterBit # 0
      <4>1. /\ pc' \in {"byte", "bit"}
            /\ Position' = Position + 1
            /\ run' = RunAfterBit
        BY <1>8, <3>3, BitStep DEF FindBit
      <4>2. SmallRequestsFirstFit'
        BY <4>1 DEF SmallRequestsFirstFit, SearchFailed
      <4>3. CASE Position \in pmm_memory_blocks
        <5>1. run' = size
          BY <4>1, <4>3 DEF RunAfterBit, Position
        <5>2. \A first \in FreeRuns(size) : first + size > Position'
          BY <2>1, <3>1, <4>1, <4>3, FreeRunFacts
        <5>3. Position' - (size - run') - 1 = Position
          BY <2>1, <4>1, <5>1
        <5>4. QED
          BY <1>6, <2>1, <4>2, <4>3, <5>2, <5>3 DEF NoRunBehind
      <4>4. CASE Position \notin pmm_memory_blocks
        <5>1. run' = run - 1 /\ run' # 0
          BY <3>3, <4>1, <4>4 DEF RunAfterBit, Position
        <5>2. \A first \in FreeRuns(size) : first + size > Position'
          BY <2>1, <3>1, <4>1, <5>1, FreeRunFacts
        <5>3. /\ size - run = Position => size - run' = Position'
              /\ Position' - (size - run') - 1 = Position - (size - run) - 1
          BY <2>1, <4>1, <5>1
        <5>4. QED
          BY <1>6, <2>1, <3>1, <4>2, <5>2, <5>3 DEF NoRunBehind
      <4>5. QED
        BY <4>3, <4>4
    <3>4. QED
      BY <3>2, <3>3
  <2>4. QED
    BY <2>1, <2>2, <2>3
<1>9. CASE FindNothing
  <2>1. /\ size \in Nat \ {0} /\ Position = Block(BitmapBytes, 0)
        /\ pc = "byte" /\ pc' = "return"
        /\ UNCHANGED <<pmm_memory_blocks, size>>
    BY <1>9, ConstantsAssumption DEF FindNothing, Located, TypeOK, Position
  <2>2. SUFFICES ASSUME size < PMM_BLOCKS_PER_BYTE
                 PROVE  FreeRuns(size)' = {}
    BY <2>1 DEF NoRunBehind, Searching, SmallRequestsFirstFit
  <2>3. ASSUME NEW first \in FreeRuns(size)
        PROVE  FALSE
    <3>1. first + size > Position
      BY <2>1, <2>2 DEF NoRunBehind, Searching
    <3>2. QED
      BY <2>1, <3>1, FreeRunFacts, BitInBitmap
  <2>4. QED
    BY <1>6, <2>1, <2>3
<1>10. CASE Claim
  <2>1. size \in Nat \ {0} /\ start \in FreeRuns(size)
    BY <1>10, ConstantsAssumption DEF Claim, Located, TypeOK
  <2>2. start # 0
    BY <2>1, FreeRunFacts DEF Located
  <2>3. pc' = "return" /\ start' # 0
    BY <1>10, <2>2 DEF Claim
  <2>4. QED
    BY <2>3 DEF NoRunBehind, Searching, SmallRequestsFirstFit, SearchFailed
<1>11. CASE Return
  BY <1>1, <1>11 DEF Return
<1>12. QED
  BY <1>2, <1>3, <1>4, <1>5, <1>7, <1>8, <1>9, <1>10, <1>11 DEF Next, Search

\* For any request no step leaves a free run behind that starts with a byte.
LEMMA AlignedStep ==
  ASSUME TypeOK, Located, RunIsFree, NoAlignedRunBehind, AlignedRunsFound, Next
  PROVE  NoAlignedRunBehind' /\ AlignedRunsFound'
<1>. USE ConstantTypes
<1>1. CASE pc' = "idle"
  BY <1>1 DEF NoAlignedRunBehind, Searching, AlignedRunsFound, SearchFailed
<1>2. ASSUME NEW region \in Regions, \/ pmm_intialize_memory_region(region)
                                    \/ pmm_deintialize_memory_region(region)
      PROVE  NoAlignedRunBehind' /\ AlignedRunsFound'
  BY <1>1, <1>2 DEF pmm_intialize_memory_region, pmm_deintialize_memory_region,
                    RegionCall, scanVars
<1>3. ASSUME NEW a \in live, pmm_free_blocks(a)
      PROVE  NoAlignedRunBehind' /\ AlignedRunsFound'
  BY <1>1, <1>3 DEF pmm_free_blocks, scanVars
<1>4. \A byte \in 0 .. (BitmapBytes - 1) : byte \in Nat /\ Block(byte, 0) \in Nat
  BY BlockStep
<1>5. ASSUME NEW n \in Requests, pmm_allocate_blocks(n)
      PROVE  NoAlignedRunBehind' /\ AlignedRunsFound'
  <2>1. n \in Nat \ {0}
    BY ConstantsAssumption
  <2>2. /\ Position' = 0 /\ size' = n /\ i' = 0
        /\ pc' \in {"byte", "return"} /\ (pc' = "byte" => run' = n)
    BY <1>5, BlockStep DEF pmm_allocate_blocks, Located, Position
  <2>3. QED
    BY <1>4, <2>1, <2>2
       DEF NoAlignedRunBehind, Searching, AlignedRunsFound, SearchFailed
<1>6. ASSUME UNCHANGED <<pmm_memory_blocks, size>>
      PROVE  FreeRuns(size)' = FreeRuns(size)
  BY <1>6 DEF FreeRuns, FreeBlocks
<1>7. CASE FindByte
  <2>1. /\ size \in Nat \ {0} /\ Position \in Nat
        /\ run \in 1 .. size /\ size - run <= Position
    BY <1>7, ByteStep, PositionType, ConstantsAssumption
       DEF TypeOK, Located, RunIsFree, Searching
  <2>2. AlignedRunsFound'
    BY <1>7, ByteStep DEF AlignedRunsFound, SearchFailed
  <2>3. CASE Position' = Position /\ run' = run
    BY <1>6, <1>7, <2>2, <2>3, ByteStep DEF NoAlignedRunBehind, Searching
  <2>4. CASE SkipByte(i) /\ run' = size
             /\ Position' = Position + PMM_BLOCKS_PER_BYTE
    <3>1. PICK used \in pmm_memory_blocks : Position <= used /\ used < Position'
      BY <1>7, <2>1, <2>4, ByteStep
    <3>2. used \in Nat
      BY BitInBitmap DEF TypeOK
    <3>3. SUFFICES ASSUME NEW byte \in 0 .. (BitmapBytes - 1)
                   PROVE
          /\ Block(byte, 0) \in FreeRuns(size) => Block(byte, 0) + size > Position'
          /\ /\ Block(byte, 0) <= Position'
             /\ (Block(byte, 0) .. (Position' - 1)) \cap pmm_memory_blocks = {}
             => Position' - Block(byte, 0) <= size - run'
      BY <1>6, <1>7, <2>2, ByteStep DEF NoAlignedRunBehind
    <3>4. Block(byte, 0) \in Nat
      BY <1>4
    <3>5. CASE byte <= i
      <4>1. Block(byte, 0) <= Position
        BY <1>4, <1>7, <3>5, BlockMonotone, ByteStep
      <4>2. used \in Block(byte, 0) .. (Position' - 1)
        BY <2>1, <2>4, <3>1, <3>2, <3>4, <4>1
      <4>3. ASSUME Block(byte, 0) \in FreeRuns(size)
            PROVE  Block(byte, 0) + size > Position'
        <5>1. /\ Block(byte, 0) + size > Position
              /\ /\ (Block(byte, 0) .. (Position - 1)) \cap pmm_memory_blocks = {}
                 => Position - Block(byte, 0) <= size - run
          BY <1>7, <4>1, <4>3, ByteStep DEF NoAlignedRunBehind, Searching
        <5>2. \A b \in Block(byte, 0) .. (Block(byte, 0) + size - 1) :
                b \notin pmm_memory_blocks
          BY <2>1, <3>4, <4>3 DEF FreeRuns, Run, FreeBlocks
        <5>3. CASE run >= PMM_BLOCKS_PER_BYTE
          <6>1. Position - Block(byte, 0) <= size - run
            BY <2>1, <3>4, <5>1, <5>2
          <6>2. Block(byte, 0) + size >= Position'
            BY <2>1, <2>4, <3>4, <5>3, <6>1
          <6>3. QED
            BY <2>1, <2>4, <3>1, <3>2, <3>4, <4>1, <5>2, <6>2
        <5>4. CASE ByteBlocks(i) \subseteq pmm_memory_blocks
          <6>1. ByteBlocks(i) = Position .. (Position' - 1)
            BY <1>7, <2>4, ByteStep, BlockStep DEF ByteBlocks
          <6>2. Block(byte, 0) + size - 1 \notin Position .. (Position' - 1)
            BY <2>1, <3>4, <5>2, <5>4, <6>1
          <6>3. QED
            BY <2>1, <2>4, <3>4, <5>1, <6>2
        <5>5. QED
          BY <2>1, <2>4, <5>3, <5>4 DEF SkipByte
      <4>4. QED
        BY <3>1, <4>2, <4>3
    <3>6. CASE byte > i
      <4>1. Block(i + 1, 0) <= Block(byte, 0)
        BY <1>7, <3>6, BlockMonotone, ByteStep
      <4>2. Position' <= Block(byte, 0)
        BY <1>7, <2>4, <4>1, ByteStep, BlockStep
      <4>3. QED
        BY <2>1, <2>4, <3>4, <4>2
    <3>7. QED
      BY <1>7, <3>5, <3>6, ByteStep
  <2>5. QED
    BY <1>7, <2>3, <2>4, ByteStep
<1>8. CASE FindBit
  <2>1. /\ size \in Nat \ {0} /\ Position \in Nat
        /\ run \in 1 .. size /\ size - run <= Position
        /\ UNCHANGED <<pmm_memory_blocks, size>>
        /\ pc = "bit"
    BY <1>8, BitStep, PositionType, ConstantsAssumption
       DEF TypeOK, Located, RunIsFree, Searching
  <2>2. CASE RunAfterBit = 0
    BY <1>8, <2>2, BitStep
       DEF NoAlignedRunBehind, Searching, AlignedRunsFound, SearchFailed
  <2>3. CASE RunAfterBit # 0
    <3>1. /\ pc' \in {"byte", "bit"}
          /\ Position' = Position + 1
          /\ run' = RunAfterBit
      BY <1>8, <2>3, BitStep DEF FindBit
    <3>2. AlignedRunsFound'
      BY <3>1 DEF AlignedRunsFound, SearchFailed
    <3>3. SUFFICES ASSUME NEW byte \in 0 .. (BitmapBytes - 1)
                   PROVE
          /\ Block(byte, 0) \in FreeRuns(size) => Block(byte, 0) + size > Position'
          /\ /\ Block(byte, 0) <= Position'
             /\ (Block(byte, 0) .. (Position' - 1)) \cap pmm_memory_blocks = {}
             => Position' - Block(byte, 0) <= size - run'
      BY <1>6, <2>1, <3>2 DEF NoAlignedRunBehind
    <3>4. /\ Block(byte, 0) \in Nat
          /\ Block(byte, 0) \in FreeRuns(size) => Block(byte, 0) + size > Position
          /\ /\ Block(byte, 0) <= Position
             /\ (Block(byte, 0) .. (Position - 1)) \cap pmm_memory_blocks = {}
             => Position - Block(byte, 0) <= size - run
      BY <1>4, <2>1 DEF NoAlignedRunBehind, Searching
    <3>5. CASE Position \in pmm_memory_blocks
      <4>1. run' = size
        BY <3>1, <3>5 DEF RunAfterBit, Position
      <4>2. Block(byte, 0) \in FreeRuns(size) => Block(byte, 0) + size > Position'
        BY <2>1, <3>1, <3>4, <3>5, FreeRunFacts
      <4>3. QED
        BY <2>1, <3>1, <3>4, <3>5, <4>1, <4>2
    <3>6. CASE Position \notin pmm_memory_blocks
      <4>1. run' = run - 1 /\ run' # 0
        BY <2>3, <3>1, <3>6 DEF RunAfterBit, Position
      <4>2. ASSUME Block(byte, 0) \in FreeRuns(size)
            PROVE  Block(byte, 0) + size > Position'
        <5>1. \A b \in Block(byte, 0) .. (Block(byte, 0) + size - 1) :
                b \notin pmm_memory_blocks
          BY <2>1, <3>4, <4>2 DEF FreeRuns, Run, FreeBlocks
        <5>2. QED
          BY <2>1, <3>1, <3>4, <4>1, <4>2, <5>1
      <4>3. ASSUME Block(byte, 0) <= Position',
                   (Block(byte, 0) .. (Position' - 1)) \cap pmm_memory_blocks = {}
            PROVE  Position' - Block(byte, 0) <= size - run'
        <5>1. (Block(byte, 0) .. (Position - 1)) \cap pmm_memory_blocks = {}
          BY <2>1, <3>1, <3>4, <4>3
        <5>2. CASE Block(byte, 0) <= Position
          BY <2>1, <3>1, <3>4, <4>1, <5>1, <5>2
        <5>3. CASE Block(byte, 0) = Position'
          BY <2>1, <3>1, <4>1, <5>3
        <5>4. QED
          BY <2>1, <3>1, <3>4, <4>3, <5>2, <5>3
      <4>4. QED
        BY <4>2, <4>3
    <3>7. QED
      BY <3>5, <3>6
  <2>4. QED
    BY <2>2, <2>3
<1>9. CASE FindNothing
  <2>1. /\ size \in Nat \ {0} /\ Position = Block(BitmapBytes, 0)
        /\ pc = "byte" /\ pc' = "return"
        /\ UNCHANGED <<pmm_memory_blocks, size>>
    BY <1>9, ConstantsAssumption DEF FindNothing, Located, TypeOK, Position
  <2>2. ASSUME NEW byte \in 0 .. (BitmapBytes - 1),
               Block(byte, 0) \in FreeRuns(size)
        PROVE  FALSE
    <3>1. Block(byte, 0) + size > Position
      BY <2>1, <2>2 DEF NoAlignedRunBehind, Searching
    <3>2. QED
      BY <2>1, <2>2, <3>1, FreeRunFacts, BitInBitmap
  <2>3. QED
    BY <1>6, <2>1, <2>2 DEF NoAlignedRunBehind, Searching, AlignedRunsFound
<1>10. CASE Claim
  <2>1. size \in Nat \ {0} /\ start \in FreeRuns(size)
    BY <1>10, ConstantsAssumption DEF Claim, Located, TypeOK
  <2>2. start # 0
    BY <2>1, FreeRunFacts DEF Located
  <2>3. pc' = "return" /\ start' # 0
    BY <1>10, <2>2 DEF Claim
  <2>4. QED
    BY <2>3 DEF NoAlignedRunBehind, Searching, AlignedRunsFound, SearchFailed
<1>11. CASE Return
  BY <1>1, <1>11 DEF Return
<1>12. QED
  BY <1>2, <1>3, <1>5, <1>7, <1>8, <1>9, <1>10, <1>11 DEF Next, Search

------------------------------------------------------------------------------
(***************************************************************************)
(* The invariant and what follows from it.                                 *)
(***************************************************************************)

\* The manager starts with every block reserved and nothing handed out.
LEMMA InitInv == Init => Inv
<1>. SUFFICES ASSUME Init PROVE Inv
  OBVIOUS
<1>1. TypeOK
  <2>1. 0 \in 0 .. (PMM_BLOCKS_PER_BYTE - 1) /\ 0 \in 0 .. BitmapBytes
    BY ConstantTypes
  <2>2. IsFiniteSet(live)
    BY FS_EmptySet DEF Init
  <2>3. QED
    BY <2>1, <2>2, ConstantTypes DEF Init, TypeOK
<1>2. LiveBlocks = {} /\ AllocationsExclusive
  BY DEF Init, LiveBlocks, Held, AllocationsExclusive
<1>3. SearchInvariant
  BY BitInBitmap DEF Init, SearchInvariant, Located, RunIsFree, NoRunBehind,
                     NoAlignedRunBehind, Searching
<1>4. SmallRequestsFirstFit /\ AlignedRunsFound
  BY DEF Init, SmallRequestsFirstFit, AlignedRunsFound, SearchFailed
<1>5. QED
  BY <1>1, <1>2, <1>3, <1>4 DEF Inv

\* Every step of the manager keeps the invariant.
LEMMA StepInv == Inv /\ [Next]_vars => Inv'
<1>. SUFFICES ASSUME Inv, [Next]_vars PROVE Inv'
  OBVIOUS
<1>1. CASE Next
  <2>1. /\ TypeOK /\ AllocationsExclusive
        /\ Located /\ RunIsFree /\ NoRunBehind /\ NoAlignedRunBehind
        /\ SmallRequestsFirstFit /\ AlignedRunsFound
    BY DEF Inv, SearchInvariant
  <2>2. TypeOK'
    BY <1>1, <2>1, TypeStep
  <2>3. AllocationsExclusive'
    BY <1>1, <2>1, ExclusiveStep
  <2>4. Located' /\ RunIsFree'
    BY <1>1, <2>1, SearchStep
  <2>5. NoRunBehind' /\ SmallRequestsFirstFit'
    BY <1>1, <2>1, FirstFitStep
  <2>6. NoAlignedRunBehind' /\ AlignedRunsFound'
    BY <1>1, <2>1, AlignedStep
  <2>7. QED
    BY <2>2, <2>3, <2>4, <2>5, <2>6 DEF Inv, SearchInvariant
<1>2. CASE UNCHANGED vars
  BY <1>2 DEF Inv, vars, scanVars, TypeOK, AllocationsExclusive, LiveBlocks, Held,
              SearchInvariant, Located, RunIsFree, NoRunBehind,
              NoAlignedRunBehind, Searching, Position, Counted, FreeRuns,
              FreeBlocks, SmallRequestsFirstFit, AlignedRunsFound, SearchFailed
<1>3. QED
  BY <1>1, <1>2

\* The invariant holds in every reachable state, whatever the constants.
THEOREM Invariance == Spec => []Inv
BY InitInv, StepInv, PTL DEF Spec

\* Every variable keeps its type: in particular the bitmap is never written
\* past its last byte by an allocation (lines 79-80) and the search never
\* indexes past it (line 56).
THEOREM TypeCorrect == Spec => []TypeOK
<1>1. Inv => TypeOK
  BY DEF Inv
<1>2. QED
  BY <1>1, Invariance, PTL

\* pmm_allocate_blocks never hands out block 0 nor a block that is marked, and
\* two callers share a block only if a region call released it (lines 29, 76-80).
THEOREM ExclusiveAllocations == Spec => []AllocationsExclusive
<1>1. Inv => AllocationsExclusive
  BY DEF Inv
<1>2. QED
  BY <1>1, Invariance, PTL

\* For requests below a bitmap byte the search of lines 54-70 is first-fit and
\* fails only when no run exists.
THEOREM FirstFit == Spec => []SmallRequestsFirstFit
<1>1. Inv => SmallRequestsFirstFit
  BY DEF Inv
<1>2. QED
  BY <1>1, Invariance, PTL

\* For every request a search that fails (line 69) leaves no free run that
\* starts at a bitmap byte, in spite of the bytes line 57 skips.
THEOREM AlignedComplete == Spec => []AlignedRunsFound
<1>1. Inv => AlignedRunsFound
  BY DEF Inv
<1>2. QED
  BY <1>1, Invariance, PTL

\* The local "run" of the search (lines 55-68) always counts what it should.
THEOREM SearchCorrect == Spec => []SearchInvariant
<1>1. Inv => SearchInvariant
  BY DEF Inv
<1>2. QED
  BY <1>1, Invariance, PTL

------------------------------------------------------------------------------
(***************************************************************************)
(* What an allocation and a free do to the pool of free blocks.            *)
(***************************************************************************)

\* Only a claim and a free change what callers hold, and each moves one run.
LEMMA LiveSteps ==
  ASSUME Inv, Next, live' # live
  PROVE  \/ /\ start \in FreeRuns(size) /\ size \in Nat \ {0}
            /\ FreeBlocks' = FreeBlocks \ Run(start, size)
            /\ \E holder : live' = live \cup {<<start, size, holder>>}
            /\ pmm_used_memory_blocks' = pmm_used_memory_blocks + size
         \/ \E a \in live :
            /\ Run(a[1], a[2]) \cap FreeBlocks \subseteq overrun
            /\ FreeBlocks' = FreeBlocks \cup (Run(a[1], a[2]) \cap Bitmap)
            /\ live' = live \ {a}
            /\ pmm_used_memory_blocks' = pmm_used_memory_blocks - a[2]
<1>1. CASE Claim
  <2>1. /\ start # 0 /\ start \in FreeRuns(size) /\ size \in Requests
        /\ pmm_memory_blocks' = pmm_memory_blocks \cup Run(start, size)
        /\ pmm_used_memory_blocks' = pmm_used_memory_blocks + size
        /\ live' = live \cup {<<start, size, NewHolder>>}
    BY <1>1 DEF Claim, Claimed, Inv, SearchInvariant, Located, TypeOK
  <2> HIDE DEF NewHolder
  <2>2. FreeBlocks' = FreeBlocks \ Run(start, size)
    BY <2>1 DEF FreeBlocks
  <2>3. QED
    BY <2>1, <2>2, ConstantsAssumption
<1>2. ASSUME NEW a \in live, pmm_free_blocks(a)
      PROVE  /\ Run(a[1], a[2]) \cap FreeBlocks \subseteq overrun
             /\ FreeBlocks' = FreeBlocks \cup (Run(a[1], a[2]) \cap Bitmap)
             /\ live' = live \ {a}
             /\ pmm_used_memory_blocks' = pmm_used_memory_blocks - a[2]
  <2>1. Run(a[1], a[2]) \ overrun \subseteq pmm_memory_blocks
    BY RunInLive DEF Inv, AllocationsExclusive
  <2>2. QED
    BY <1>2, <2>1 DEF pmm_free_blocks, FreeBlocks
<1>3. CASE FindByte \/ FindBit \/ FindNothing \/ Return
  BY <1>3 DEF FindByte, FindBit, FindNothing, Return
<1>4. QED
  BY <1>1, <1>2, <1>3
     DEF Next, Search, pmm_allocate_blocks, pmm_intialize_memory_region,
         pmm_deintialize_memory_region, RegionCall

\* Lines 79-80 and 87-88 take from the pool what they give and give what they
\* took: no block is lost or invented by an allocation or a free.
THEOREM BlocksConserved == Spec => Conservation
<1>1. ASSUME Inv, Next, live' # live
      PROVE  FreeBlocks' \cup LiveBlocks' = FreeBlocks \cup LiveBlocks
  <2>1. ASSUME start \in FreeRuns(size),
               FreeBlocks' = FreeBlocks \ Run(start, size),
               NEW holder, live' = live \cup {<<start, size, holder>>}
        PROVE  FreeBlocks' \cup LiveBlocks' = FreeBlocks \cup LiveBlocks
    <3>1. LiveBlocks' = LiveBlocks \cup Run(start, size)
      BY <2>1, LiveGrows
    <3>2. QED
      BY <2>1, <3>1 DEF FreeRuns
  <2>2. ASSUME NEW a \in live,
               FreeBlocks' = FreeBlocks \cup (Run(a[1], a[2]) \cap Bitmap),
               live' = live \ {a}
        PROVE  FreeBlocks' \cup LiveBlocks' = FreeBlocks \cup LiveBlocks
    <3>1. LiveBlocks = LiveBlocks' \cup Run(a[1], a[2])
      BY <2>2 DEF LiveBlocks, Held
    <3>2. LiveBlocks \subseteq Bitmap
      BY <1>1 DEF Inv, AllocationsExclusive
    <3>3. QED
      BY <2>2, <3>1, <3>2
  <2>3. QED
    BY <1>1, <2>1, <2>2, LiveSteps
<1>2. Inv /\ [Next]_vars
        => [live' # live => FreeBlocks' \cup LiveBlocks' = FreeBlocks \cup LiveBlocks]_vars
  BY <1>1
<1>3. QED
  BY <1>2, Invariance, PTL DEF Spec, Conservation

\* Lines 82 and 89 keep the counter in step with the bits that lines 80 and 88
\* change: an allocation adds nothing to the blocks the counter hides, and a
\* free counts again exactly the blocks that were released under their holder.
THEOREM CounterExact == Spec => CounterKeepsPace
<1>1. IsFiniteSet(Bitmap) /\ IsFiniteSet(FreeBlocks)
  <2>1. IsFiniteSet(Bitmap)
    BY BitInBitmap, FS_Interval DEF Bitmap
  <2>2. QED
    BY <2>1, FS_Subset DEF FreeBlocks
<1>2. ASSUME NEW first \in Nat, NEW n \in Nat
      PROVE  IsFiniteSet(Run(first, n)) /\ Cardinality(Run(first, n)) = n
  BY FS_Interval DEF Run
<1>3. Cardinality(FreeBlocks) \in Nat
  BY <1>1, FS_CardinalityType
<1> DEFINE again == Cardinality(FreeBlocks \cap Held(live \ live'))
<1>4. ASSUME Inv, Next, live' # live
      PROVE  Hidden' = Hidden - again
  <2>1. pmm_used_memory_blocks \in Int
    BY <1>4 DEF Inv, TypeOK
  <2>2. ASSUME start \in FreeRuns(size), size \in Nat \ {0},
               FreeBlocks' = FreeBlocks \ Run(start, size),
               NEW holder, live' = live \cup {<<start, size, holder>>},
               pmm_used_memory_blocks' = pmm_used_memory_blocks + size
        PROVE  Hidden' = Hidden - again
    <3>1. start \in Nat /\ FreeBlocks \cap Run(start, size) = Run(start, size)
      BY <2>2, BitInBitmap DEF FreeRuns
    <3>2. Cardinality(FreeBlocks \ Run(start, size))
            = Cardinality(FreeBlocks) - Cardinality(FreeBlocks \cap Run(start, size))
      BY <1>1, FS_Difference
    <3>3. Cardinality(FreeBlocks') = Cardinality(FreeBlocks) - size
      BY <1>2, <2>2, <3>1, <3>2
    <3>4. again = 0
      <4>1. live \ live' = {}
        BY <2>2
      <4>2. FreeBlocks \cap Held(live \ live') = {}
        BY <4>1 DEF Held
      <4>3. QED
        BY <4>2, FS_EmptySet
    <3> HIDE DEF again
    <3>5. QED
      BY <1>3, <2>1, <2>2, <3>3, <3>4, ConstantTypes DEF Hidden
  <2>3. ASSUME NEW a \in live,
               FreeBlocks' = FreeBlocks \cup (Run(a[1], a[2]) \cap Bitmap),
               live' = live \ {a},
               pmm_used_memory_blocks' = pmm_used_memory_blocks - a[2]
        PROVE  Hidden' = Hidden - again
    <3>1. a[1] \in Nat /\ a[2] \in Nat
      BY <1>4, LiveTypes DEF Inv
    <3>2. Run(a[1], a[2]) \subseteq Bitmap
      BY <1>4, RunInLive DEF Inv, AllocationsExclusive
    <3>3. Held(live \ live') = Run(a[1], a[2])
      <4>1. live \ live' = {a}
        BY <2>3
      <4>2. QED
        BY <4>1 DEF Held
    <3>4. again = Cardinality(FreeBlocks \cap Run(a[1], a[2]))
      BY <3>3
    <3>5. IsFiniteSet(Run(a[1], a[2])) /\ Cardinality(Run(a[1], a[2])) = a[2]
      BY <1>2, <3>1
    <3>6. Cardinality(FreeBlocks \cup Run(a[1], a[2]))
            = Cardinality(FreeBlocks) + Cardinality(Run(a[1], a[2]))
                - Cardinality(FreeBlocks \cap Run(a[1], a[2]))
      BY <1>1, <3>5, FS_Union
    <3>7. FreeBlocks' = FreeBlocks \cup Run(a[1], a[2])
      BY <2>3, <3>2
    <3>8. again \in Nat
      <4>1. IsFiniteSet(FreeBlocks \cap Run(a[1], a[2]))
        BY <1>1, FS_Intersection
      <4>2. QED
        BY <3>4, <4>1, FS_CardinalityType
    <3> HIDE DEF again
    <3>9. Cardinality(FreeBlocks') = Cardinality(FreeBlocks) + a[2] - again
      BY <3>4, <3>5, <3>6, <3>7
    <3>10. QED
      BY <1>3, <2>1, <2>3, <3>1, <3>8, <3>9, ConstantTypes DEF Hidden
  <2>4. QED
    BY <1>4, <2>2, <2>3, LiveSteps
<1>5. Inv /\ [Next]_vars => [live' # live => Hidden' = Hidden - again]_vars
  BY <1>4
<1>6. QED
  BY <1>5, Invariance, PTL DEF Spec, CounterKeepsPace

------------------------------------------------------------------------------
(***************************************************************************)
(* The manager implements the block allocator, and only the region call    *)
(* that releases a held block breaks its promise.                          *)
(***************************************************************************)

\* The blocks of the runs that are held, with the holder or without.
LEMMA OwnedIsLive == Allocator!OwnedBlocks = LiveBlocks
<1>1. ASSUME NEW x
      PROVE  x \in Allocator!OwnedBlocks <=> \E r \in HeldRuns : x \in Run(r[1], r[2])
  BY DEF Allocator!OwnedBlocks, Run, Allocator!Run
<1>2. ASSUME NEW x
      PROVE  (\E r \in HeldRuns : x \in Run(r[1], r[2]))
               <=> \E a \in live : x \in Run(a[1], a[2])
  <2>1. \A a \in live : <<a[1], a[2]>>[1] = a[1] /\ <<a[1], a[2]>>[2] = a[2]
    OBVIOUS
  <2>2. QED
    BY <2>1 DEF HeldRuns
<1>3. ASSUME NEW x
      PROVE  x \in LiveBlocks <=> \E a \in live : x \in Run(a[1], a[2])
  BY DEF LiveBlocks, Held
<1>4. QED
  BY <1>1, <1>2, <1>3

\* A step that leaves every allocation exclusive is a step of the abstract
\* allocator or changes nothing it can see.
LEMMA StepRefines ==
  ASSUME Inv, Next, Exclusive'
  PROVE  Allocator!Next \/ UNCHANGED <<FreeBlocks, HeldRuns>>
<1>1. /\ LiveBlocks \subseteq Bitmap \ {0}
      /\ 0 \in pmm_memory_blocks
      /\ pmm_memory_blocks \subseteq Bitmap
      /\ LiveBlocks' \cap FreeBlocks' = {}
  BY DEF Inv, AllocationsExclusive, SearchInvariant, Located, TypeOK, Exclusive,
         FreeBlocks
<1>2. ASSUME live' = live
      PROVE  HeldRuns' = HeldRuns /\ LiveBlocks' = LiveBlocks
  BY <1>2 DEF HeldRuns, LiveBlocks, Held
<1>3. ASSUME NEW region \in Regions, pmm_intialize_memory_region(region)
      PROVE  Allocator!Release
  <2>1. live' = live
    BY <1>3 DEF pmm_intialize_memory_region, RegionCall
  <2>2. FreeBlocks \subseteq FreeBlocks' /\ FreeBlocks' \subseteq Bitmap \ {0}
    BY <1>1, <1>3 DEF pmm_intialize_memory_region, FreeBlocks
  <2>3. FreeBlocks' \cap LiveBlocks = {}
    BY <1>1, <1>2, <2>1
  <2>4. QED
    BY <1>2, <2>1, <2>2, <2>3, OwnedIsLive DEF Allocator!Release
<1>4. ASSUME NEW region \in Regions, pmm_deintialize_memory_region(region)
      PROVE  Allocator!Reserve
  BY <1>2, <1>4 DEF pmm_deintialize_memory_region, RegionCall, FreeBlocks,
                    Allocator!Reserve
<1>5. ASSUME NEW a \in live, pmm_free_blocks(a)
      PROVE  \E r \in HeldRuns : Allocator!GiveBack(r)
  <2>1. /\ live' = live \ {a}
        /\ FreeBlocks' = FreeBlocks \cup (Run(a[1], a[2]) \cap Bitmap)
    BY <1>5 DEF pmm_free_blocks, FreeBlocks
  <2>2. Run(a[1], a[2]) \subseteq Bitmap
    BY <1>1, RunInLive
  <2>3. a[1] \in Run(a[1], a[2])
    BY LiveTypes DEF Inv, Run
  <2> DEFINE r == <<a[1], a[2]>>
  <2>4. r[1] = a[1] /\ r[2] = a[2] /\ r \in HeldRuns
    BY DEF HeldRuns
  <2>5. ASSUME NEW b \in live'
        PROVE  <<b[1], b[2]>> # r
    <3>1. a[1] \notin Run(b[1], b[2])
      <4>1. Run(b[1], b[2]) \subseteq LiveBlocks'
        BY DEF LiveBlocks, Held
      <4>2. a[1] \in FreeBlocks'
        BY <2>1, <2>2, <2>3
      <4>3. QED
        BY <1>1, <4>1, <4>2
    <3>2. ASSUME <<b[1], b[2]>> = r
          PROVE  b[1] = a[1] /\ b[2] = a[2]
      BY <3>2
    <3>3. QED
      BY <2>3, <3>1, <3>2
  <2>6. HeldRuns' = HeldRuns \ {r}
    <3>1. HeldRuns' \subseteq HeldRuns \ {r}
      BY <2>1, <2>5 DEF HeldRuns
    <3>2. HeldRuns \ {r} \subseteq HeldRuns'
      BY <2>1 DEF HeldRuns
    <3>3. QED
      BY <3>1, <3>2
  <2>7. Allocator!GiveBack(r)
    BY <2>1, <2>2, <2>4, <2>6 DEF Allocator!GiveBack, Run, Allocator!Run
  <2>8. QED
    BY <2>4, <2>7
<1>6. ASSUME Claim, start # 0
      PROVE  \E n \in Requests : Allocator!Grant(n)
  <2>1. /\ size \in Requests
        /\ Run(start, size) \subseteq FreeBlocks
        /\ pmm_memory_blocks' = pmm_memory_blocks \cup Run(start, size)
        /\ live' = live \cup {<<start, size, NewHolder>>}
    BY <1>6 DEF Claim, Claimed, Inv, SearchInvariant, Located, TypeOK, FreeRuns
  <2> HIDE DEF NewHolder
  <2>2. FreeBlocks' = FreeBlocks \ Run(start, size)
    BY <2>1 DEF FreeBlocks
  <2>3. HeldRuns' = HeldRuns \cup {<<start, size>>}
    <3> DEFINE new == <<start, size, NewHolder>>
    <3>1. <<new[1], new[2]>> = <<start, size>>
      OBVIOUS
    <3>2. live' = live \cup {new}
      BY <2>1
    <3> HIDE DEF new
    <3>3. QED
      BY <3>1, <3>2 DEF HeldRuns
  <2>4. size \in Nat \ {0} /\ start \in Nat
    BY <2>1, ConstantsAssumption DEF Inv, TypeOK
  <2>5. start \in FreeBlocks
    BY <2>1, <2>4 DEF Run
  <2>6. Allocator!Grant(size)
    BY <2>1, <2>2, <2>3, <2>5 DEF Allocator!Grant, Run, Allocator!Run
  <2>7. QED
    BY <2>1, <2>6
<1>7. CASE FindByte \/ FindBit \/ FindNothing \/ Return \/ (Claim /\ start = 0)
  BY <1>2, <1>7 DEF FindByte, FindBit, FindNothing, Return, Claim, FreeBlocks
<1>8. ASSUME NEW n \in Requests, pmm_allocate_blocks(n)
      PROVE  UNCHANGED <<FreeBlocks, HeldRuns>>
  BY <1>2, <1>8 DEF pmm_allocate_blocks, FreeBlocks
<1>9. QED
  BY <1>3, <1>4, <1>5, <1>6, <1>7, <1>8 DEF Next, Search, Allocator!Next

\* Exclusiveness is lost by no other step than the region call that releases a
\* held block.
LEMMA OnlyRegionCallBreaks ==
  ASSUME Inv, Next, Exclusive, ~Exclusive'
  PROVE  ReleaseUnderHolder
<1>1. /\ \A a, b \in live : a # b => Run(a[1], a[2]) \cap Run(b[1], b[2]) = {}
      /\ LiveBlocks \subseteq pmm_memory_blocks \ {0}
  BY DEF Exclusive
<1>2. ASSUME live' = live, LiveBlocks \subseteq pmm_memory_blocks'
      PROVE  FALSE
  <2>1. LiveBlocks' = LiveBlocks
    BY <1>2 DEF LiveBlocks, Held
  <2>2. QED
    BY <1>1, <1>2, <2>1 DEF Exclusive
<1>3. ASSUME NEW region \in Regions, pmm_intialize_memory_region(region)
      PROVE  ReleaseUnderHolder
  <2>1. /\ live' = live
        /\ pmm_memory_blocks' = (pmm_memory_blocks \ RegionBlocks(region)) \cup {0}
        /\ NamedBlocks(region) \cap LiveBlocks = {}
    BY <1>3 DEF pmm_intialize_memory_region, RegionCall
  <2>2. RegionBlocks(region) \subseteq NamedBlocks(region) \cup {EndBlock(region)}
    BY RegionTypes DEF RegionBlocks, NamedBlocks
  <2>3. EndBlock(region) \in LiveBlocks
    BY <1>1, <1>2, <2>1, <2>2
  <2>4. QED
    BY <1>3, <2>3 DEF ReleaseUnderHolder
<1>4. ASSUME NEW region \in Regions, pmm_deintialize_memory_region(region)
      PROVE  FALSE
  BY <1>1, <1>2, <1>4 DEF pmm_deintialize_memory_region, RegionCall
<1>5. ASSUME NEW n \in Requests, pmm_allocate_blocks(n)
      PROVE  FALSE
  BY <1>1, <1>2, <1>5 DEF pmm_allocate_blocks
<1>6. CASE FindByte \/ FindBit \/ FindNothing \/ Return \/ (Claim /\ start = 0)
  BY <1>1, <1>2, <1>6 DEF FindByte, FindBit, FindNothing, Return, Claim
<1>7. ASSUME NEW a \in live, pmm_free_blocks(a)
      PROVE  FALSE
  <2>1. /\ live' = live \ {a}
        /\ pmm_memory_blocks' = pmm_memory_blocks \ Run(a[1], a[2])
    BY <1>7 DEF pmm_free_blocks
  <2>2. ASSUME NEW b \in live', NEW x \in Run(b[1], b[2])
        PROVE  x \in pmm_memory_blocks' \ {0}
    <3>1. b \in live /\ b # a
      BY <2>1
    <3>2. x \notin Run(a[1], a[2])
      BY <1>1, <2>2, <3>1
    <3>3. x \in pmm_memory_blocks \ {0}
      BY <1>1, <2>2, <3>1, RunInLive
    <3>4. QED
      BY <2>1, <3>2, <3>3
  <2>3. LiveBlocks' \subseteq pmm_memory_blocks' \ {0}
    BY <2>2 DEF LiveBlocks, Held
  <2>4. QED
    BY <1>1, <2>1, <2>3 DEF Exclusive
<1>8. ASSUME Claim, start # 0
      PROVE  FALSE
  <2>1. /\ Run(start, size) \subseteq FreeBlocks
        /\ pmm_memory_blocks' = pmm_memory_blocks \cup Run(start, size)
        /\ live' = live \cup {<<start, size, NewHolder>>}
        /\ 0 \in pmm_memory_blocks
    BY <1>8 DEF Claim, Claimed, Inv, SearchInvariant, Located, TypeOK, FreeRuns
  <2> HIDE DEF NewHolder
  <2>2. LiveBlocks' = LiveBlocks \cup Run(start, size)
    BY <2>1, LiveGrows
  <2>3. LiveBlocks' \subseteq pmm_memory_blocks' \ {0}
    BY <1>1, <2>1, <2>2 DEF FreeBlocks
  <2>4. ASSUME NEW a \in live
        PROVE  Run(a[1], a[2]) \cap Run(start, size) = {}
    BY <1>1, <2>1, RunInLive DEF FreeBlocks
  <2>5. ASSUME NEW a \in live', NEW b \in live', a # b
        PROVE  Run(a[1], a[2]) \cap Run(b[1], b[2]) = {}
    <3> DEFINE new == <<start, size, NewHolder>>
    <3>1. new[1] = start /\ new[2] = size
      OBVIOUS
    <3>2. CASE a \in live /\ b \in live
      BY <1>1, <2>5, <3>2
    <3>3. CASE a = new /\ b \in live
      BY <2>4, <3>1, <3>3
    <3>4. CASE a \in live /\ b = new
      BY <2>4, <3>1, <3>4
    <3>5. QED
      BY <2>1, <2>5, <3>2, <3>3, <3>4
  <2>6. QED
    BY <2>3, <2>5 DEF Exclusive
<1>9. QED
  BY <1>3, <1>4, <1>5, <1>6, <1>7, <1>8 DEF Next, Search

\* The physical memory manager implements the block allocator, from which runs
\* are granted and to which they are given back (lines 71-90), as long as and as
\* soon as allocations are exclusive; a region call that releases a held block
\* behind its region (line 29) is all that ever ends that.
THEOREM ImplementsAllocator == Spec => AllocatorSpec
<1> DEFINE Step == IF Exclusive' THEN Allocator!Next
                                 ELSE Exclusive => ReleaseUnderHolder
<1>1. Init => Allocator!Init
  BY DEF Init, FreeBlocks, HeldRuns, Allocator!Init
<1>2. Inv /\ [Next]_vars => [Step]_<<FreeBlocks, HeldRuns>>
  <2>1. ASSUME Inv, Next
        PROVE  Step \/ UNCHANGED <<FreeBlocks, HeldRuns>>
    BY <2>1, StepRefines, OnlyRegionCallBreaks
  <2>2. CASE UNCHANGED vars
    BY <2>2 DEF vars, FreeBlocks, HeldRuns
  <2>3. QED
    BY <2>1, <2>2
<1>3. QED
  BY <1>1, <1>2, Invariance, PTL DEF Spec, AllocatorSpec

------------------------------------------------------------------------------
(***************************************************************************)
(* Writes behind the bitmap.                                               *)
(***************************************************************************)

\* The regions of the memory map lie inside the memory the manager was told
\* of, which is a whole number of blocks.
RegionsInMemory ==
  /\ TotalMemory % PMM_BLOCK_SIZE = 0
  /\ \A region \in Regions : region[1] + region[2] <= TotalMemory

\* Such a region ends at the last block or before (lines 24-27).
LEMMA RegionEnd ==
  ASSUME RegionsInMemory, NEW region \in Regions
  PROVE  EndBlock(region) <= pmm_max_memory_blocks
<1> DEFINE end == region[1] + region[2]
           q == end \div PMM_BLOCK_SIZE
           m == TotalMemory \div PMM_BLOCK_SIZE
<1>1. /\ PMM_BLOCK_SIZE \in Nat \ {0} /\ TotalMemory \in Nat
      /\ end \in Nat /\ end <= TotalMemory
  BY ConstantsAssumption DEF RegionsInMemory
<1> HIDE DEF end
<1>2. /\ q \in Nat /\ m \in Nat /\ q <= m
      /\ TotalMemory = PMM_BLOCK_SIZE * m
      /\ end = PMM_BLOCK_SIZE * q + (end % PMM_BLOCK_SIZE)
  BY <1>1 DEF RegionsInMemory
<1> HIDE DEF q, m
<1>3. ASSUME end % PMM_BLOCK_SIZE # 0
      PROVE  q + 1 <= m
  <2>1. q # m
    BY <1>1, <1>2, <1>3
  <2>2. QED
    BY <1>2, <2>1
<1>4. QED
  BY <1>2, <1>3 DEF EndBlock, pmm_max_memory_blocks, end, q, m

\* The region loops write behind the bitmap, but never past the bit of the
\* first block after the memory (lines 29 and 40).
THEOREM StrayBounded == RegionsInMemory => (Spec => []StrayWritesBounded)
<1> SUFFICES ASSUME RegionsInMemory
             PROVE  Spec => []StrayWritesBounded
  OBVIOUS
<1>1. Init => StrayWritesBounded
  BY DEF Init, StrayWritesBounded
<1>2. StrayWritesBounded /\ [Next]_vars => StrayWritesBounded'
  <2> SUFFICES ASSUME StrayWritesBounded, [Next]_vars
               PROVE  StrayWritesBounded'
    OBVIOUS
  <2>1. ASSUME NEW region \in Regions, RegionCall(region)
        PROVE  StrayWritesBounded'
    <3>1. \A b \in RegionBlocks(region) : b <= pmm_max_memory_blocks
      <4>1. /\ EndBlock(region) <= pmm_max_memory_blocks
            /\ EndBlock(region) \in Nat /\ FirstBlock(region) \in Nat
        BY RegionEnd, RegionTypes
      <4>2. QED
        BY <4>1, ConstantTypes DEF RegionBlocks
    <3>2. QED
      BY <2>1, <3>1 DEF RegionCall, StrayWritesBounded
  <2>2. CASE UNCHANGED stray
    BY <2>2 DEF StrayWritesBounded
  <2>3. QED
    BY <2>1, <2>2 DEF Next, vars, pmm_intialize_memory_region,
      pmm_deintialize_memory_region, pmm_allocate_blocks, pmm_free_blocks, Search,
      FindByte, FindBit, FindNothing, Claim, Return
<1>3. QED
  BY <1>1, <1>2, PTL DEF Spec
=============================================================================
