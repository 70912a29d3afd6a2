---------------------------------- MODULE Heap ----------------------------------
(***************************************************************************)
(* The kernel heap (virtual_memory_manager.c:116-216): a list of blocks    *)
(* with a header each, in pages mapped one after the other.                *)
(*                                                                         *)
(* "block" is what the headers in memory say, by address.  A free and a    *)
(* defragmentation are their loops, one step per merged or visited block;  *)
(* an allocation that needs more pages is two steps, mapping and cutting.  *)
(*                                                                         *)
(* The allocator leaves its list intact only on some of its paths.  What a *)
(* call does on the other paths is recorded in "state" and the behaviour   *)
(* ends there: from then on blocks overlap or are unknown to the list, and *)
(* the headers are at the mercy of what callers write.                     *)
(***************************************************************************)
EXTENDS Integers, FiniteSetsExt

CONSTANTS
  VMM_PAGE_SIZE,   \* the pages the heap grows by; mapping them succeeds
  HeaderSize,      \* sizeof(MallocBlock_t)
  ByteModulus,     \* 256: the page counter of line 163 is a byte
  malloc_vaddr,    \* where the heap starts: 0xF00000
  InitSizes,       \* the sizes vmm_malloc_init is called with
  Sizes,           \* the sizes callers ask for
  MaxPages         \* bound: pages of a heap that is asked for more

PagesFor(size) == (size + VMM_PAGE_SIZE - 1) \div VMM_PAGE_SIZE

ConstantsAssumption ==
  /\ HeaderSize \in Nat \ {0} /\ VMM_PAGE_SIZE \in Nat /\ HeaderSize < VMM_PAGE_SIZE
  /\ ByteModulus \in Nat \ {0} /\ malloc_vaddr \in Nat \ {0}
  /\ InitSizes \subseteq Nat \ {0} /\ Sizes \subseteq Nat \ {0}
  /\ MaxPages \in Nat /\ \A size \in InitSizes : PagesFor(size) <= MaxPages

VARIABLES
  block,               \* address -> header
  total_malloc_pages,
  pc,                  \* "off", "idle", or the loop the code is in
  cur,                 \* its block
  request,             \* the size asked for last
  state,               \* "ok", or what went wrong
  live                 \* history: <<address of the header, size>> handed out

vars == <<block, total_malloc_pages, pc, cur, request, state, live>>

malloc_head == malloc_vaddr
End == malloc_vaddr + total_malloc_pages * VMM_PAGE_SIZE

Header(size, free, next) == [size |-> size, free |-> free, next |-> next]

\* A header written to memory.
Put(blocks, at, header) ==
  [a \in DOMAIN blocks \cup {at} |-> IF a = at THEN header ELSE blocks[a]]

------------------------------------------------------------------------------
Init ==
  /\ block = <<>>
  /\ total_malloc_pages = 0
  /\ pc = "off" /\ cur = 0 /\ request = 0 /\ state = "ok" /\ live = {}

\* Callers have to do this first: malloc_head is null until then.
vmm_malloc_init(size) ==
  /\ pc = "off"
  /\ total_malloc_pages' = PagesFor(size)
  /\ block' = Put(block, malloc_head,
                  Header(PagesFor(size) * VMM_PAGE_SIZE - HeaderSize, TRUE, 0))
  /\ pc' = "idle"
  /\ UNCHANGED <<cur, request, state, live>>

SplitForgetsHeader(blocks, before, size) ==
  LET after == before + HeaderSize + size
  IN  Put([blocks EXCEPT ![before] = Header(size, FALSE, after)],
          after, Header(blocks[before].size - size, TRUE, blocks[before].next))

vmm_malloc_split(blocks, before, size) ==
  LET after == before + HeaderSize + size
  IN  Put([blocks EXCEPT ![before] = Header(size, FALSE, after)],
          after, Header(blocks[before].size - size - HeaderSize, TRUE, blocks[before].next))

FoundInUse(size) ==
  LET walk[a \in DOMAIN block] ==
        IF block[a].size < size /\ block[a].next # 0 THEN walk[block[a].next] ELSE a
  IN  walk[malloc_head]

\* The walk of line 150 skips what is in use or too small, but not the last block.
Found(size) ==
  LET walk[a \in DOMAIN block] ==
        IF (block[a].size < size \/ ~block[a].free) /\ block[a].next # 0
        THEN walk[block[a].next] ELSE a
  IN  walk[malloc_head]

\* Lines 156-161: the pages to add so that block a can hold size.
AdditionalPages(a, size) ==
  LET need == IF block[a].free THEN size ELSE size + HeaderSize
  IN  Min({n \in 1 .. (1 + PagesFor(need)) : block[a].size + n * VMM_PAGE_SIZE >= need})

At(p) == pc = p /\ state = "ok"

Idle == pc' = "idle" /\ cur' = 0 /\ request' = 0

\* Lines 151-154: the block found fits.  It may be the last one and in use.
TakeBlock(size) ==
  LET a == Found(size)
  IN  /\ At("idle")
      /\ \/ block[a].size = size /\ block' = [block EXCEPT ![a].free = FALSE]
         \/ /\ block[a].size > size + HeaderSize
            /\ block' = vmm_malloc_split(block, a, size)
      /\ state' = IF block[a].free THEN "ok" ELSE "handed_out_twice"
      /\ live' = live \cup {<<a, size>>}
      /\ UNCHANGED <<total_malloc_pages, pc, cur, request>>

\* Lines 162-169: map pages behind the heap; with 256 or more the loop over a
\* byte never ends.
GrowHeap(size) ==
  LET a == Found(size)
      n == AdditionalPages(a, size)
  IN  /\ At("idle") /\ request' = size
      /\ total_malloc_pages + n <= MaxPages
      /\ block[a].size # size /\ block[a].size <= size + HeaderSize
      /\ total_malloc_pages' = total_malloc_pages + n
      /\ cur' = a
      /\ IF n >= ByteModulus
         THEN state' = "endless" /\ UNCHANGED <<block, pc>>
         ELSE /\ UNCHANGED state
              /\ \/ /\ block[a].free
                    /\ block' = [block EXCEPT ![a].size = @ + n * VMM_PAGE_SIZE]
                    /\ pc' = "cut"
                 \/ /\ ~block[a].free
                    /\ block' = Put(block, End, Header(n * VMM_PAGE_SIZE, TRUE, 0))
                    /\ pc' = "cut_new"
      /\ UNCHANGED live

\* Line 172: cut the block that was made larger.
CutGrown ==
  /\ At("cut")
  /\ block' = vmm_malloc_split(block, cur, request)
  /\ state' = CASE block[cur].next # 0 -> "grown_into_the_next_block"
                [] block[cur].size < request + HeaderSize -> "negative_remainder"
                [] OTHER -> "ok"
  /\ live' = live \cup {<<cur, request>>}
  /\ Idle
  /\ UNCHANGED total_malloc_pages

\* Lines 174-179: a new block behind the last one, which is in use; nothing
\* links it to the list.
CutNew ==
  /\ At("cut_new")
  /\ block' = vmm_malloc_split(block, Max(DOMAIN block), request)
  /\ state' = "not_in_the_list"
  /\ live' = live \cup {<<Max(DOMAIN block), request>>}
  /\ Idle
  /\ UNCHANGED total_malloc_pages

------------------------------------------------------------------------------

\* Block a takes over the block after it.
Absorb(blocks, a) ==
  LET next == blocks[a].next
  IN  [x \in DOMAIN blocks \ {next} |->
        IF x = a THEN Header(blocks[a].size + blocks[next].size + HeaderSize,
                             blocks[a].free, blocks[next].next)
                 ELSE blocks[x]]

Before(a) == {p \in DOMAIN block : block[p].next = a}

\* vmm_malloc_free up to the merge with the block before.  The loop ends before
\* it looks at the last block: freeing that one does nothing.
vmm_malloc_free(a, size) ==
  /\ At("idle")
  /\ live' = live \ {<<a, size>>}
  /\ LET freed == [block EXCEPT ![a].free = TRUE]
         left  == {p \in Before(a) : block[p].free}
     IN  IF block[a].next = 0
         THEN UNCHANGED <<block, pc, cur>>
         ELSE /\ pc' = "merge"
              /\ IF left = {} THEN block' = freed /\ cur' = a
                              ELSE block' = Absorb(freed, Min(left)) /\ cur' = Min(left)
  /\ UNCHANGED <<total_malloc_pages, request, state>>

Mergeable(next) == block[next].free

\* Its inner loop: one more free block behind, or done.  After the last block
\* was merged the outer loop goes on from a null pointer.
MergeNext ==
  /\ At("merge")
  /\ LET next == block[cur].next
     IN  \/ /\ next = 0
            /\ state' = "null_pointer"
            /\ UNCHANGED <<block, pc, cur>>
         \/ /\ next # 0 /\ Mergeable(next)
            /\ block' = Absorb(block, cur)
            /\ UNCHANGED <<pc, cur, state>>
         \/ /\ next # 0 /\ ~Mergeable(next)
            /\ pc' = "idle" /\ cur' = 0
            /\ UNCHANGED <<block, state>>
  /\ UNCHANGED <<total_malloc_pages, request, live>>

vmm_malloc_defrag ==
  /\ At("idle")
  /\ pc' = "defrag" /\ cur' = malloc_head
  /\ UNCHANGED <<block, total_malloc_pages, request, state, live>>

\* One block of the loop, or one merge at a free block.
DefragStep ==
  /\ At("defrag") \/ At("defrag_merged")
  /\ LET next    == block[cur].next
         absorbs == next # 0 /\ block[cur].free /\ block[next].free
     IN  /\ block' = IF absorbs THEN Absorb(block, cur) ELSE block
         /\ pc' = CASE absorbs   -> "defrag_merged"
                    [] next = 0  -> "idle"
                    [] OTHER     -> "defrag"
         /\ cur' = IF absorbs THEN cur ELSE next
         /\ state' = IF next = 0 /\ pc = "defrag_merged" THEN "null_pointer" ELSE "ok"
  /\ UNCHANGED <<total_malloc_pages, request, live>>

Next ==
  \/ \E size \in InitSizes : vmm_malloc_init(size)
  \/ \E size \in Sizes : TakeBlock(size) \/ GrowHeap(size)
  \/ CutGrown \/ CutNew
  \/ \E l \in live : vmm_malloc_free(l[1], l[2])
  \/ MergeNext \/ vmm_malloc_defrag \/ DefragStep

Spec == Init /\ [][Next]_vars

------------------------------------------------------------------------------
Extent(a) == a .. (a + HeaderSize + block[a].size - 1)
Used == {a \in DOMAIN block : ~block[a].free}

TypeOK ==
  /\ \A a \in DOMAIN block : a \in Nat /\ block[a].free \in BOOLEAN
       /\ block[a].next \in DOMAIN block \cup {0}
  /\ total_malloc_pages \in 0 .. MaxPages
  /\ pc \in {"off", "idle", "cut", "cut_new", "merge", "defrag", "defrag_merged"}
  /\ cur \in DOMAIN block \cup {0}
  /\ state \in {"ok", "handed_out_twice", "endless", "grown_into_the_next_block",
                "negative_remainder", "not_in_the_list", "null_pointer"}

InOrder == state = "ok" /\ pc \notin {"off", "cut", "cut_new"}

\* However blocks are taken, cut and merged, the list covers the mapped pages
\* exactly: each block ends where the next one starts, no byte is lost and
\* none counted twice (lines 136-145, 201-211).
HeapTiled ==
  InOrder =>
    \A a \in DOMAIN block :
      LET after == a + HeaderSize + block[a].size
      IN  IF block[a].next = 0 THEN after = End ELSE after = block[a].next

\* What callers hold is in use in the list with its full size, so nobody else
\* can be given it; and what is in use is held by somebody, but for the last
\* block, which vmm_malloc_free never reaches (line 197).
OnlyLastLeaks ==
  InOrder =>
    /\ \A l \in live : l[1] \in Used /\ block[l[1]].size = l[2]
    /\ \A a \in Used : block[a].next = 0 \/ \E l \in live : l[1] = a

\* A free merges at once and completely: two free blocks are never neighbours
\* between calls, so vmm_malloc_defrag finds nothing to do.
NoFreeNeighbours ==
  state = "ok" /\ pc \in {"idle", "defrag", "defrag_merged"} =>
    \A a \in DOMAIN block :
      block[a].free /\ block[a].next # 0 => ~block[block[a].next].free

\* A free runs into the null pointer exactly when only free memory was left
\* behind the block; a defragmentation never does (lines 186, 197).
NullOnlyAtTheEnd ==
  state = "null_pointer" => pc = "merge" /\ block[cur].next = 0 /\ block[cur].free
                              /\ \A l \in live : l[1] < cur

\* Memory in use is handed out a second time only where nothing else could be:
\* it is that of the last block, and every free block is smaller (line 150).
TwiceOnlyFromLast ==
  [][state' = "handed_out_twice" =>
       \E last \in Used : /\ block[last].next = 0
                          /\ \A b \in Used \ {last} : block'[b] = block[b]
                          /\ \A f \in DOMAIN block \ Used : block[f].size < block[last].size]_vars

\* While the list is intact the heap keeps the contract of an allocator of
\* header and payload bytes: growing adds fresh bytes, a request is granted
\* from free ones, a free returns what was granted.
HeapAllocator == INSTANCE BlockAllocator WITH
  Blocks   <- malloc_vaddr .. (malloc_vaddr + MaxPages * VMM_PAGE_SIZE - 1),
  Requests <- {size + HeaderSize : size \in Sizes},
  pool     <- UNION {Extent(a) : a \in DOMAIN block \ Used},
  owned    <- {<<a, HeaderSize + block[a].size>> : a \in Used}

IntactStep == state' = "ok" /\ pc' # "cut_new" /\ (pc' = "cut" => block'[cur'].next = 0)

KeepsContract == [][IntactStep => HeapAllocator!Next]_block

\* virtual_memory_manager.c:155, where no block was big enough: "should be last
\* element since it couldnt find a big enough block".
GrownIsLast == pc = "cut" => block[cur].next = 0

\* The list is intact between the paths that break it (lines 121-216): it tiles
\* the heap, knows what callers hold, and keeps free memory together.
HeapIntact == TypeOK /\ HeapTiled /\ OnlyLastLeaks /\ NoFreeNeighbours /\ NullOnlyAtTheEnd

\* No step hands out what is in use, but that of the last block as line 150
\* leaves it, and all others are those of an allocator.
HeapSteps == TwiceOnlyFromLast /\ KeepsContract
==============================================================================
