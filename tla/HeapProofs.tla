------------------------------ MODULE HeapProofs ------------------------------
(***************************************************************************)
(* The kernel heap for all values of its constants: its list of blocks is  *)
(* whole between the paths that break it, and each step on the others is   *)
(* one of an allocator of bytes.                                           *)
(*                                                                         *)
(* That each block ends where the next one starts does not follow from     *)
(* itself: links could lead backwards, and two chains could interleave.    *)
(* What holds step by step is that blocks are also in order, each ending   *)
(* before every block with a higher address (Ordered).  Everything else    *)
(* follows: at most one block leads to another, only the highest one ends  *)
(* the list, a walk from the head passes every block.                      *)
(***************************************************************************)
EXTENDS Heap, WellFoundedInduction, TLAPS

------------------------------------------------------------------------------
\* The list "blocks", a value of "block", in a heap that ends at "end".

After(blocks, a) == a + HeaderSize + blocks[a].size

Typed(blocks) ==
  \A a \in DOMAIN blocks :
    /\ a \in Nat
    /\ blocks[a] \in [size : Nat, free : BOOLEAN, next : DOMAIN blocks \cup {0}]

Tiled(blocks, end) ==
  \A a \in DOMAIN blocks :
    After(blocks, a) = IF blocks[a].next = 0 THEN end ELSE blocks[a].next

Ordered(blocks, end) ==
  \A a \in DOMAIN blocks :
    /\ malloc_head <= a /\ After(blocks, a) <= end
    /\ \A b \in DOMAIN blocks : a < b => After(blocks, a) <= b

Whole(blocks, end) ==
  /\ malloc_head \in DOMAIN blocks
  /\ Typed(blocks) /\ Tiled(blocks, end) /\ Ordered(blocks, end)

\* What callers hold is in use, and what is in use is held, but for the last.
Held(blocks, handed) ==
  /\ \A l \in handed : /\ l \in (DOMAIN blocks) \X Nat
                       /\ ~blocks[l[1]].free /\ blocks[l[1]].size = l[2]
  /\ \A a \in DOMAIN blocks :
       ~blocks[a].free => blocks[a].next = 0 \/ \E l \in handed : l[1] = a

\* No free block leads to a free one; "but" excepted.
Apart(blocks, but) ==
  \A a \in DOMAIN blocks \ but :
    blocks[a].free /\ blocks[a].next # 0 => ~blocks[blocks[a].next].free

\* Between the steps of a call.  A block that was made larger overlaps the next
\* one, if there is one, until the call ends the behaviour.
InvOff == pc = "off" => DOMAIN block = {} /\ live = {} /\ total_malloc_pages = 0

InvList ==
  pc \in {"idle", "merge", "defrag"} =>
    /\ Whole(block, End) /\ Held(block, live)
    /\ Apart(block, IF pc = "merge" THEN {cur} ELSE {})

InvCur ==
  /\ pc \in {"cut", "merge", "defrag"} => cur \in DOMAIN block
  /\ pc \in {"cut", "merge"} => block[cur].free

InvCut ==
  pc = "cut" =>
    /\ request \in Sizes /\ Typed(block)
    /\ block[cur].next = 0 => Whole(block, End) /\ Held(block, live) /\ Apart(block, {})

InvNew ==
  pc = "cut_new" =>
    /\ request \in Sizes /\ Typed(block)
    /\ \E last \in DOMAIN block : \A a \in DOMAIN block : a <= last

Intact == pc # "defrag_merged" /\ InvOff /\ InvList /\ InvCur /\ InvCut /\ InvNew

Inv ==
  /\ TypeOK /\ NullOnlyAtTheEnd
  /\ pc = "off" => state = "ok"
  /\ state = "ok" => Intact

------------------------------------------------------------------------------
\* Arithmetic.

\* A set of natural numbers that is not empty has a least element, and Min is
\* that element.
LEMMA LeastElement ==
  ASSUME NEW S \in SUBSET Nat, S # {}
  PROVE  /\ Min(S) \in S
         /\ \A y \in S : Min(S) <= y
<1>1. PICK x \in S : \A y \in S : ~(<<y, x>> \in OpToRel(<, Nat))
  BY NatLessThanWellFounded, WFMin
<1>2. ASSUME NEW y \in S
      PROVE  x <= y
  <2>1. ~(<<y, x>> \in OpToRel(<, Nat)) /\ <<y, x>> \in Nat \X Nat
    BY <1>1
  <2>2. ~(y < x)
    BY <2>1 DEF OpToRel
  <2> QED BY <2>2
<1> QED BY <1>2 DEF Min

\* The pages for a size hold it, and one page less does not (lines 123-124).
LEMMA PagesHold ==
  ASSUME ConstantsAssumption, NEW size \in Nat
  PROVE  /\ PagesFor(size) \in Nat
         /\ PagesFor(size) * VMM_PAGE_SIZE >= size
         /\ size # 0 => PagesFor(size) # 0
<1> DEFINE s == size + VMM_PAGE_SIZE - 1
           q == s \div VMM_PAGE_SIZE
           r == s % VMM_PAGE_SIZE
<1>1. VMM_PAGE_SIZE \in Nat \ {0} /\ s \in Nat
  BY DEF ConstantsAssumption
<1>2. q \in Nat /\ r \in 0 .. (VMM_PAGE_SIZE - 1) /\ s = (q * VMM_PAGE_SIZE) + r
  <2> HIDE DEF s
  <2> QED BY <1>1
<1>3. PagesFor(size) = q
  BY DEF PagesFor
<1> HIDE DEF q, r
<1>4. PICK product \in Int : product = q * VMM_PAGE_SIZE
  BY <1>1, <1>2
<1>5. product >= size
  BY <1>1, <1>2, <1>4
<1>6. size # 0 => q # 0
  BY <1>1, <1>4, <1>5
<1> QED BY <1>2, <1>3, <1>4, <1>5, <1>6

\* More pages are more bytes.
LEMMA PagesAdd ==
  ASSUME ConstantsAssumption, NEW m \in Nat, NEW n \in Nat
  PROVE  /\ n * VMM_PAGE_SIZE \in Nat
         /\ (m + n) * VMM_PAGE_SIZE = m * VMM_PAGE_SIZE + n * VMM_PAGE_SIZE
         /\ m <= n => m * VMM_PAGE_SIZE <= n * VMM_PAGE_SIZE
         /\ n # 0 => n * VMM_PAGE_SIZE >= VMM_PAGE_SIZE
<1>1. VMM_PAGE_SIZE \in Nat \ {0}
  BY DEF ConstantsAssumption
<1>2. ASSUME NEW p \in Nat, NEW k \in Nat
      PROVE  p * k \in Nat
  BY SMT
<1>3. (m + n) * VMM_PAGE_SIZE = m * VMM_PAGE_SIZE + n * VMM_PAGE_SIZE
  BY <1>1, SMT
<1>4. ASSUME m <= n PROVE m * VMM_PAGE_SIZE <= n * VMM_PAGE_SIZE
  <2>1. PICK d \in Nat : n = m + d
    <3>1. n - m \in Nat /\ n = m + (n - m)
      BY <1>4
    <3> QED BY <3>1
  <2>2. n * VMM_PAGE_SIZE = m * VMM_PAGE_SIZE + d * VMM_PAGE_SIZE
    BY <1>1, <2>1, SMT
  <2>3. m * VMM_PAGE_SIZE \in Nat /\ d * VMM_PAGE_SIZE \in Nat
    BY <1>1, <1>2
  <2> QED BY <2>2, <2>3
<1>5. ASSUME n # 0 PROVE n * VMM_PAGE_SIZE >= VMM_PAGE_SIZE
  <2>1. PICK d \in Nat : n = 1 + d
    <3>1. n - 1 \in Nat /\ n = 1 + (n - 1)
      BY <1>5
    <3> QED BY <3>1
  <2>2. n * VMM_PAGE_SIZE = VMM_PAGE_SIZE + d * VMM_PAGE_SIZE
    BY <1>1, <2>1, SMT
  <2>3. d * VMM_PAGE_SIZE \in Nat
    BY <1>1, <1>2
  <2> QED BY <1>1, <2>2, <2>3
<1> QED BY <1>1, <1>2, <1>3, <1>4, <1>5

\* Lines 156-161 end with pages enough for the size, or for size and header.
LEMMA PagesSuffice ==
  ASSUME ConstantsAssumption, NEW a \in DOMAIN block, block[a].size \in Nat, NEW size \in Nat
  PROVE  /\ AdditionalPages(a, size) \in Nat \ {0}
         /\ block[a].size + AdditionalPages(a, size) * VMM_PAGE_SIZE >=
              IF block[a].free THEN size ELSE size + HeaderSize
<1> DEFINE need == IF block[a].free THEN size ELSE size + HeaderSize
           Enough == {n \in 1 .. (1 + PagesFor(need)) :
                        block[a].size + n * VMM_PAGE_SIZE >= need}
<1>1. need \in Nat
  BY DEF ConstantsAssumption
<1>2. AdditionalPages(a, size) = Min(Enough)
  BY DEF AdditionalPages
<1> HIDE DEF need
<1>3. /\ PagesFor(need) \in Nat /\ PagesFor(need) * VMM_PAGE_SIZE >= need
      /\ PagesFor(need) * VMM_PAGE_SIZE \in Nat
  BY <1>1, PagesHold, PagesAdd
<1>4. (1 + PagesFor(need)) * VMM_PAGE_SIZE >= PagesFor(need) * VMM_PAGE_SIZE
  BY <1>3, PagesAdd
<1>5. 1 + PagesFor(need) \in Enough
  <2>1. (1 + PagesFor(need)) * VMM_PAGE_SIZE \in Nat
    <3>1. 1 + PagesFor(need) \in Nat
      BY <1>3
    <3> QED BY <3>1, PagesAdd
  <2>2. block[a].size + (1 + PagesFor(need)) * VMM_PAGE_SIZE >= need
    BY <1>1, <1>3, <1>4, <2>1
  <2> QED BY <1>3, <2>2
<1>6. Enough \in SUBSET Nat /\ Enough # {}
  BY <1>3, <1>5
<1>7. Min(Enough) \in Enough
  <2> HIDE DEF Enough
  <2> QED BY <1>6, LeastElement
<1>8. /\ AdditionalPages(a, size) \in Nat \ {0}
      /\ block[a].size + AdditionalPages(a, size) * VMM_PAGE_SIZE >= need
  BY <1>2, <1>3, <1>7
<1> QED BY <1>8 DEF need

------------------------------------------------------------------------------
\* What order gives.

\* Blocks do not overlap: what lies in two of them is in one.
LEMMA OneBlock ==
  ASSUME ConstantsAssumption, NEW blocks, NEW end \in Nat, Whole(blocks, end),
         NEW a \in DOMAIN blocks, NEW b \in DOMAIN blocks, NEW x \in Int,
         a <= x, x < After(blocks, a), b <= x, x < After(blocks, b)
  PROVE  a = b
BY DEF Whole, Typed, Ordered, After, ConstantsAssumption

\* Numbers, as the provers need them.
LEMMA Numbers ==
  ASSUME ConstantsAssumption, NEW blocks, NEW end \in Nat, Whole(blocks, end),
         NEW a \in DOMAIN blocks
  PROVE  /\ a \in Nat /\ a # 0 /\ malloc_head <= a /\ malloc_head \in Nat
         /\ blocks[a].size \in Nat /\ blocks[a].free \in BOOLEAN
         /\ blocks[a].next \in DOMAIN blocks \cup {0} /\ blocks[a].next \in Nat
         /\ After(blocks, a) \in Nat /\ a < After(blocks, a) /\ After(blocks, a) <= end
         /\ After(blocks, a) = a + HeaderSize + blocks[a].size
         /\ HeaderSize \in Nat \ {0}
BY DEF Whole, Typed, Ordered, After, ConstantsAssumption, malloc_head

\* A link leads forwards, over nothing.
LEMMA NextIsNext ==
  ASSUME ConstantsAssumption, NEW blocks, NEW end \in Nat, Whole(blocks, end),
         NEW a \in DOMAIN blocks, blocks[a].next # 0
  PROVE  /\ blocks[a].next \in DOMAIN blocks
         /\ blocks[a].next = After(blocks, a) /\ a < blocks[a].next
         /\ \A b \in DOMAIN blocks : a < b => blocks[a].next <= b
<1>1. blocks[a].next = After(blocks, a)
  BY DEF Whole, Tiled
<1> QED BY <1>1, Numbers DEF Whole, Ordered

\* The block without a link is the highest one.
LEMMA LastIsHighest ==
  ASSUME ConstantsAssumption, NEW blocks, NEW end \in Nat, Whole(blocks, end),
         NEW a \in DOMAIN blocks
  PROVE  /\ blocks[a].next = 0 => After(blocks, a) = end
         /\ blocks[a].next = 0 => \A b \in DOMAIN blocks : b <= a
         /\ (\A b \in DOMAIN blocks : b <= a) => blocks[a].next = 0
<1>1. ASSUME blocks[a].next = 0, NEW b \in DOMAIN blocks
      PROVE  b <= a
  <2>1. After(blocks, a) = end
    BY <1>1 DEF Whole, Tiled
  <2>2. a < b => end <= b
    BY <2>1 DEF Whole, Ordered
  <2>3. a \in Nat /\ b \in Nat /\ After(blocks, b) \in Nat
        /\ b < After(blocks, b) /\ After(blocks, b) <= end
    BY Numbers
  <2> QED BY <2>2, <2>3
<1>2. ASSUME \A b \in DOMAIN blocks : b <= a, blocks[a].next # 0
      PROVE  FALSE
  BY <1>2, NextIsNext, Numbers
<1> QED BY <1>1, <1>2 DEF Whole, Tiled

\* Only one block leads to another.
LEMMA OneBefore ==
  ASSUME ConstantsAssumption, NEW blocks, NEW end \in Nat, Whole(blocks, end),
         NEW a \in DOMAIN blocks, NEW b \in DOMAIN blocks,
         blocks[a].next # 0, blocks[a].next = blocks[b].next
  PROVE  a = b
<1>1. /\ blocks[a].next = After(blocks, a) /\ a < After(blocks, a)
      /\ blocks[b].next = After(blocks, b) /\ b < After(blocks, b)
  BY NextIsNext, Numbers
<1>2. a \in Nat /\ b \in Nat /\ After(blocks, a) \in Nat
  BY Numbers
<1>3. (a < b => After(blocks, a) <= b) /\ (b < a => After(blocks, b) <= a)
  BY DEF Whole, Ordered
<1>4. After(blocks, a) = After(blocks, b)
  BY <1>1
<1> QED BY <1>1, <1>2, <1>3, <1>4

------------------------------------------------------------------------------
\* What the calls do to the list.

Taken(blocks, a) == [blocks EXCEPT ![a].free = FALSE]
Freed(blocks, a) == [blocks EXCEPT ![a].free = TRUE]

\* A block is taken or freed as it is.
Marked(blocks, a, free, after) ==
  /\ DOMAIN after = DOMAIN blocks
  /\ \A b \in DOMAIN blocks :
       /\ after[b].size = blocks[b].size /\ after[b].next = blocks[b].next
       /\ after[b].free = (IF b = a THEN free ELSE blocks[b].free)
       /\ After(after, b) = After(blocks, b)

LEMMA TakenWhole ==
  ASSUME ConstantsAssumption, NEW blocks, NEW end \in Nat, Whole(blocks, end),
         NEW a \in DOMAIN blocks, NEW free \in BOOLEAN
  PROVE  /\ Whole([blocks EXCEPT ![a].free = free], end)
         /\ Marked(blocks, a, free, [blocks EXCEPT ![a].free = free])
<1> DEFINE after == [blocks EXCEPT ![a].free = free]
<1>1. DOMAIN after = DOMAIN blocks
  OBVIOUS
<1>2. ASSUME NEW b \in DOMAIN blocks
      PROVE  /\ after[b] \in [size : Nat, free : BOOLEAN, next : DOMAIN blocks \cup {0}]
             /\ after[b].size = blocks[b].size /\ after[b].next = blocks[b].next
             /\ after[b].free = IF b = a THEN free ELSE blocks[b].free
  <2>1. blocks[b] \in [size : Nat, free : BOOLEAN, next : DOMAIN blocks \cup {0}]
    BY DEF Whole, Typed
  <2>2. after[b] = IF b = a THEN [blocks[a] EXCEPT !.free = free] ELSE blocks[b]
    OBVIOUS
  <2> QED BY <2>1, <2>2
<1> HIDE DEF after
<1>3. \A b \in DOMAIN blocks : After(after, b) = After(blocks, b)
  BY <1>2 DEF After
<1>4. Whole(after, end)
  <2>1. Typed(after) /\ malloc_head \in DOMAIN after
    BY <1>1, <1>2 DEF Typed, Whole
  <2>2. Tiled(after, end)
    <3>1. ASSUME NEW b \in DOMAIN blocks
          PROVE  After(after, b) = IF after[b].next = 0 THEN end ELSE after[b].next
      <4>1. After(blocks, b) = IF blocks[b].next = 0 THEN end ELSE blocks[b].next
        BY DEF Tiled, Whole
      <4>2. After(after, b) = After(blocks, b) /\ after[b].next = blocks[b].next
        BY <1>2, <1>3
      <4> QED BY <4>1, <4>2, Zenon
    <3> QED BY <1>1, <3>1, Zenon DEF Tiled
  <2>3. Ordered(after, end)
    BY <1>1, <1>3 DEF Ordered, Whole
  <2> QED BY <2>1, <2>2, <2>3 DEF Whole
<1>5. Marked(blocks, a, free, after)
  BY <1>1, <1>2, <1>3 DEF Marked
<1> QED BY <1>4, <1>5 DEF after

\* A block cut in two: the first part is used, the second follows it (136-145).
CutInTwo(blocks, a, size, cut, new) ==
  /\ DOMAIN cut = DOMAIN blocks \cup {new} /\ new \in Nat /\ a < new
  /\ cut[a] = Header(size, FALSE, new)
  /\ cut[new] = Header(blocks[a].size - size - HeaderSize, TRUE, blocks[a].next)
  /\ \A b \in DOMAIN blocks \ {a, new} : cut[b] = blocks[b]

LEMMA SplitIs ==
  ASSUME ConstantsAssumption, NEW blocks, NEW a \in DOMAIN blocks, NEW size \in Nat,
         Typed(blocks)
  PROVE  CutInTwo(blocks, a, size, vmm_malloc_split(blocks, a, size), a + HeaderSize + size)
<1> DEFINE cut == vmm_malloc_split(blocks, a, size)
           new == a + HeaderSize + size
<1>1. a \in Nat /\ new \in Nat /\ a < new
  BY DEF Typed, ConstantsAssumption
<1> DEFINE short == [blocks EXCEPT ![a] = Header(size, FALSE, new)]
           rest == Header(blocks[a].size - size - HeaderSize, TRUE, blocks[a].next)
<1>2. cut = Put(short, new, rest)
  BY DEF vmm_malloc_split
<1> HIDE DEF cut, new
<1>3. /\ DOMAIN short = DOMAIN blocks
      /\ short[a] = Header(size, FALSE, new)
      /\ \A b \in DOMAIN blocks \ {a} : short[b] = blocks[b]
  OBVIOUS
<1> HIDE DEF short, rest
<1>4. /\ DOMAIN cut = DOMAIN blocks \cup {new}
      /\ cut[new] = rest
      /\ \A b \in DOMAIN blocks \ {new} : cut[b] = short[b]
  BY <1>2, <1>3 DEF Put
<1>5. rest = Header(blocks[a].size - size - HeaderSize, TRUE, blocks[a].next)
  BY DEF rest
<1>6. a # new
  BY <1>1
<1>7. CutInTwo(blocks, a, size, cut, new)
  BY <1>1, <1>3, <1>4, <1>5, <1>6, Zenon DEF CutInTwo
<1> QED BY <1>7 DEF cut, new

\* Cut off with a header of its own, the list stays whole.
LEMMA SplitWhole ==
  ASSUME ConstantsAssumption, NEW blocks, NEW end \in Nat, Whole(blocks, end),
         NEW a \in DOMAIN blocks, NEW size \in Nat, size + HeaderSize <= blocks[a].size
  PROVE  /\ Whole(vmm_malloc_split(blocks, a, size), end)
         /\ a + HeaderSize + size \notin DOMAIN blocks
         /\ After(vmm_malloc_split(blocks, a, size), a) = a + HeaderSize + size
         /\ After(vmm_malloc_split(blocks, a, size), a + HeaderSize + size) = After(blocks, a)
<1> DEFINE cut == vmm_malloc_split(blocks, a, size)
           new == a + HeaderSize + size
<1>1. /\ DOMAIN cut = DOMAIN blocks \cup {new} /\ new \in Nat /\ a < new
      /\ cut[a] = Header(size, FALSE, new)
      /\ cut[new] = Header(blocks[a].size - size - HeaderSize, TRUE, blocks[a].next)
      /\ \A b \in DOMAIN blocks \ {a, new} : cut[b] = blocks[b]
  <2>1. Typed(blocks)
    BY DEF Whole
  <2>2. CutInTwo(blocks, a, size, cut, new)
    BY <2>1, SplitIs
  <2> HIDE DEF cut, new
  <2> QED BY <2>2 DEF CutInTwo
<1>2. /\ a \in Nat /\ blocks[a].size \in Nat /\ HeaderSize \in Nat \ {0}
      /\ blocks[a].next \in DOMAIN blocks \cup {0}
      /\ After(blocks, a) = a + HeaderSize + blocks[a].size
      /\ After(blocks, a) \in Nat /\ After(blocks, a) <= end
      /\ malloc_head \in Nat /\ malloc_head <= a
  BY Numbers
<1>3. new = a + HeaderSize + size /\ new < After(blocks, a)
  BY <1>2
<1> HIDE DEF cut, new
<1>4. \A b \in DOMAIN blocks : b \in Nat /\ (b <= a \/ After(blocks, a) <= b)
  <2> SUFFICES ASSUME NEW b \in DOMAIN blocks
               PROVE  b \in Nat /\ (b <= a \/ After(blocks, a) <= b)
    OBVIOUS
  <2>1. b \in Nat
    BY Numbers
  <2>2. a < b => After(blocks, a) <= b
    BY DEF Whole, Ordered
  <2> QED BY <1>2, <2>1, <2>2
<1>5. new \notin DOMAIN blocks
  BY <1>1, <1>2, <1>3, <1>4
<1>6. /\ After(cut, a) = new
      /\ After(cut, new) = After(blocks, a)
      /\ \A b \in DOMAIN blocks \ {a} : After(cut, b) = After(blocks, b)
  <2>1. cut[a].size = size /\ cut[new].size = blocks[a].size - size - HeaderSize
    BY <1>1 DEF Header
  <2>2. After(cut, a) = new
    BY <1>3, <2>1 DEF After
  <2>3. After(cut, new) = After(blocks, a)
    BY <1>2, <1>3, <2>1 DEF After
  <2>4. ASSUME NEW b \in DOMAIN blocks \ {a} PROVE After(cut, b) = After(blocks, b)
    BY <1>1, <1>5 DEF After
  <2> QED BY <2>2, <2>3, <2>4
<1>7. Typed(cut) /\ malloc_head \in DOMAIN cut
  <2>1. cut[a] \in [size : Nat, free : BOOLEAN, next : DOMAIN cut \cup {0}]
    BY <1>1 DEF Header
  <2>2. cut[new] \in [size : Nat, free : BOOLEAN, next : DOMAIN cut \cup {0}]
    <3>1. blocks[a].size - size - HeaderSize \in Nat
      BY <1>2
    <3> QED BY <1>1, <1>2, <3>1 DEF Header
  <2>3. ASSUME NEW b \in DOMAIN blocks \ {a, new}
        PROVE  b \in Nat /\ cut[b] \in [size : Nat, free : BOOLEAN, next : DOMAIN cut \cup {0}]
    <3>1. b \in Nat /\ blocks[b] \in [size : Nat, free : BOOLEAN, next : DOMAIN blocks \cup {0}]
      BY DEF Whole, Typed
    <3> QED BY <1>1, <3>1
  <2> QED BY <1>1, <1>2, <2>1, <2>2, <2>3 DEF Typed, Whole
<1>8. Tiled(cut, end)
  <2>1. After(cut, a) = cut[a].next /\ cut[a].next # 0
    BY <1>1, <1>2, <1>6 DEF Header
  <2>2. After(cut, new) = IF cut[new].next = 0 THEN end ELSE cut[new].next
    <3>1. cut[new].next = blocks[a].next
      BY <1>1 DEF Header
    <3> QED BY <1>6, <3>1 DEF Whole, Tiled
  <2>3. ASSUME NEW b \in DOMAIN blocks \ {a, new}
        PROVE  After(cut, b) = IF cut[b].next = 0 THEN end ELSE cut[b].next
    BY <1>1, <1>6 DEF Whole, Tiled
  <2> QED BY <1>1, <2>1, <2>2, <2>3 DEF Tiled
<1>9. Ordered(cut, end)
  <2> SUFFICES ASSUME NEW b \in DOMAIN cut
               PROVE  /\ malloc_head <= b /\ After(cut, b) <= end
                      /\ \A c \in DOMAIN cut : b < c => After(cut, b) <= c
    BY DEF Ordered
  <2>1. CASE b = new
    BY <1>1, <1>2, <1>3, <1>4, <1>6, <2>1
  <2>2. CASE b = a
    BY <1>1, <1>2, <1>3, <1>4, <1>6, <2>2
  <2>3. CASE b \in DOMAIN blocks \ {a, new}
    <3>1. After(cut, b) = After(blocks, b)
      BY <1>6, <2>3
    <3>2. /\ malloc_head <= b /\ After(blocks, b) <= end
          /\ \A c \in DOMAIN blocks : b < c => After(blocks, b) <= c
      BY <2>3 DEF Whole, Ordered
    <3>3. b \in Nat /\ After(blocks, b) \in Nat
      BY <2>3, Numbers
    <3>4. b < new => After(blocks, b) <= new
      <4>1. b < new => b < a
        BY <1>1, <1>2, <1>3, <1>4, <2>3, <3>3
      <4> QED BY <1>1, <1>2, <3>2, <3>3, <4>1
    <3> QED BY <1>1, <3>1, <3>2, <3>4
  <2> QED BY <1>1, <2>1, <2>2, <2>3
<1>10. Whole(cut, end)
  BY <1>7, <1>8, <1>9 DEF Whole
<1> QED BY <1>5, <1>6, <1>10 DEF cut, new

\* A block that takes over the next one (lines 202-203, 207-208).
MadeOne(blocks, a, next, one) ==
  /\ next \in DOMAIN blocks /\ a # next /\ DOMAIN one = DOMAIN blocks \ {next}
  /\ one[a].size = blocks[a].size + blocks[next].size + HeaderSize
  /\ one[a].free = blocks[a].free /\ one[a].next = blocks[next].next
  /\ After(blocks, a) = next /\ After(one, a) = After(blocks, next)
  /\ \A b \in DOMAIN blocks \ {a, next} :
       one[b] = blocks[b] /\ After(one, b) = After(blocks, b)

LEMMA AbsorbWhole ==
  ASSUME ConstantsAssumption, NEW blocks, NEW end \in Nat, Whole(blocks, end),
         NEW a \in DOMAIN blocks, blocks[a].next # 0
  PROVE  /\ Whole(Absorb(blocks, a), end)
         /\ MadeOne(blocks, a, blocks[a].next, Absorb(blocks, a))
<1> DEFINE next == blocks[a].next
           one == Absorb(blocks, a)
<1>1. /\ next \in DOMAIN blocks /\ next = After(blocks, a) /\ a < next
      /\ \A b \in DOMAIN blocks : a < b => next <= b
  BY NextIsNext
<1>2. /\ a \in Nat /\ next \in Nat /\ blocks[a].size \in Nat /\ blocks[next].size \in Nat
      /\ blocks[a].free \in BOOLEAN /\ blocks[next].next \in DOMAIN blocks \cup {0}
      /\ HeaderSize \in Nat \ {0}
      /\ After(blocks, a) = a + HeaderSize + blocks[a].size
      /\ After(blocks, next) = next + HeaderSize + blocks[next].size
      /\ malloc_head <= a /\ malloc_head \in Nat /\ a # 0
      /\ After(blocks, next) <= end /\ next < After(blocks, next)
  BY <1>1, Numbers
<1>3. a # next
  BY <1>1, <1>2
<1>4. DOMAIN one = DOMAIN blocks \ {next} /\ a \in DOMAIN one
  BY <1>3 DEF Absorb
<1>5. one[a] = Header(blocks[a].size + blocks[next].size + HeaderSize,
                      blocks[a].free, blocks[next].next)
  BY <1>3 DEF Absorb
<1>6. \A b \in DOMAIN blocks \ {a, next} : one[b] = blocks[b]
  BY DEF Absorb
<1>7. /\ one[a].size = blocks[a].size + blocks[next].size + HeaderSize
      /\ one[a].free = blocks[a].free /\ one[a].next = blocks[next].next
  BY <1>5 DEF Header
<1>8. After(one, a) = After(blocks, next)
  BY <1>1, <1>2, <1>7 DEF After
<1>9. \A b \in DOMAIN blocks \ {a, next} : After(one, b) = After(blocks, b)
  BY <1>6 DEF After
<1>10. \A b \in DOMAIN blocks \ {a, next} : blocks[b].next # next
  BY <1>1, OneBefore
<1>11. blocks[next].next # next
  <2>1. blocks[next].next # 0 => next < blocks[next].next
    BY <1>1, NextIsNext
  <2> QED BY <1>1, <1>2, <2>1
<1>12. Typed(one) /\ malloc_head \in DOMAIN one
  <2>1. one[a] \in [size : Nat, free : BOOLEAN, next : DOMAIN one \cup {0}]
    <3>1. blocks[next].next \in DOMAIN one \cup {0}
      BY <1>2, <1>4, <1>11
    <3>2. blocks[a].size + blocks[next].size + HeaderSize \in Nat
      BY <1>2
    <3> QED BY <1>2, <1>5, <3>1, <3>2 DEF Header
  <2>2. ASSUME NEW b \in DOMAIN blocks \ {a, next}
        PROVE  b \in Nat /\ one[b] \in [size : Nat, free : BOOLEAN, next : DOMAIN one \cup {0}]
    <3>1. b \in Nat /\ blocks[b] \in [size : Nat, free : BOOLEAN, next : DOMAIN blocks \cup {0}]
      BY DEF Whole, Typed
    <3>2. blocks[b] \in [size : Nat, free : BOOLEAN, next : DOMAIN one \cup {0}]
      BY <1>4, <1>10, <3>1
    <3> QED BY <1>6, <3>1, <3>2
  <2>3. malloc_head \in DOMAIN one
    BY <1>1, <1>2, <1>4 DEF Whole
  <2> QED BY <1>2, <1>4, <2>1, <2>2, <2>3 DEF Typed
<1>13. Tiled(one, end)
  <2>1. After(one, a) = IF one[a].next = 0 THEN end ELSE one[a].next
    <3>1. After(blocks, next) = IF blocks[next].next = 0 THEN end ELSE blocks[next].next
      BY <1>1 DEF Whole, Tiled
    <3> QED BY <1>7, <1>8, <3>1, Zenon
  <2>2. ASSUME NEW b \in DOMAIN blocks \ {a, next}
        PROVE  After(one, b) = IF one[b].next = 0 THEN end ELSE one[b].next
    <3>1. After(blocks, b) = IF blocks[b].next = 0 THEN end ELSE blocks[b].next
      BY DEF Whole, Tiled
    <3> QED BY <1>6, <1>9, <3>1, Zenon
  <2> QED BY <1>4, <2>1, <2>2 DEF Tiled
<1>14. Ordered(one, end)
  <2> SUFFICES ASSUME NEW b \in DOMAIN one
               PROVE  /\ malloc_head <= b /\ After(one, b) <= end
                      /\ \A c \in DOMAIN one : b < c => After(one, b) <= c
    BY DEF Ordered
  <2>1. CASE b = a
    <3>1. ASSUME NEW c \in DOMAIN one, a < c
          PROVE  After(blocks, next) <= c
      <4>1. next <= c /\ c # next /\ c \in DOMAIN blocks
        BY <1>1, <1>4, <3>1
      <4>2. c \in Nat
        BY <4>1, Numbers
      <4>3. next < c
        BY <1>2, <4>1, <4>2
      <4> QED BY <1>1, <4>1, <4>3 DEF Whole, Ordered
    <3> QED BY <1>2, <1>8, <2>1, <3>1
  <2>2. CASE b # a
    BY <1>4, <1>9, <2>2 DEF Whole, Ordered
  <2> QED BY <2>1, <2>2
<1>15. Whole(one, end) /\ MadeOne(blocks, a, next, one)
  <2> HIDE DEF next, one
  <2> QED BY <1>1, <1>3, <1>4, <1>6, <1>7, <1>8, <1>9, <1>12, <1>13, <1>14, Zenon
          DEF Whole, MadeOne
<1> QED BY <1>15

\* The last block made larger by what was mapped behind it (line 170).
LEMMA GrownWhole ==
  ASSUME ConstantsAssumption, NEW blocks, NEW end \in Nat, Whole(blocks, end),
         NEW a \in DOMAIN blocks, blocks[a].next = 0, NEW more \in Nat
  PROVE  /\ Whole([blocks EXCEPT ![a].size = @ + more], end + more)
         /\ After([blocks EXCEPT ![a].size = @ + more], a) = After(blocks, a) + more
<1> DEFINE grown == [blocks EXCEPT ![a].size = @ + more]
<1>1. DOMAIN grown = DOMAIN blocks
  OBVIOUS
<1>2. blocks[a] \in [size : Nat, free : BOOLEAN, next : DOMAIN blocks \cup {0}]
  BY DEF Whole, Typed
<1>3. /\ grown[a] \in [size : Nat, free : BOOLEAN, next : DOMAIN blocks \cup {0}]
      /\ grown[a].size = blocks[a].size + more
      /\ grown[a].free = blocks[a].free /\ grown[a].next = blocks[a].next
  <2>1. grown[a] = [blocks[a] EXCEPT !.size = @ + more]
    OBVIOUS
  <2>2. blocks[a].size + more \in Nat
    BY <1>2
  <2> QED BY <1>2, <2>1, <2>2
<1>4. \A b \in DOMAIN blocks \ {a} : grown[b] = blocks[b]
  OBVIOUS
<1> HIDE DEF grown
<1>5. /\ After(grown, a) = After(blocks, a) + more
      /\ \A b \in DOMAIN blocks \ {a} : After(grown, b) = After(blocks, b)
  <2>1. a \in Nat /\ blocks[a].size \in Nat /\ HeaderSize \in Nat
    BY Numbers
  <2>2. After(grown, a) = After(blocks, a) + more
    BY <1>3, <2>1 DEF After
  <2>3. ASSUME NEW b \in DOMAIN blocks \ {a}
        PROVE  After(grown, b) = After(blocks, b)
    BY <1>4 DEF After
  <2> QED BY <2>2, <2>3
<1>6. After(blocks, a) = end /\ \A b \in DOMAIN blocks : b <= a
  BY LastIsHighest
<1>7. Typed(grown) /\ malloc_head \in DOMAIN grown
  <2>1. \A b \in DOMAIN blocks :
          b \in Nat /\ grown[b] \in [size : Nat, free : BOOLEAN, next : DOMAIN blocks \cup {0}]
    <3>1. \A b \in DOMAIN blocks :
            b \in Nat /\ blocks[b] \in [size : Nat, free : BOOLEAN, next : DOMAIN blocks \cup {0}]
      BY DEF Whole, Typed
    <3> QED BY <1>3, <1>4, <3>1
  <2> QED BY <1>1, <2>1 DEF Typed, Whole
<1>8. Tiled(grown, end + more)
  <2>1. After(grown, a) = IF grown[a].next = 0 THEN end + more ELSE grown[a].next
    BY <1>3, <1>5, <1>6
  <2>2. ASSUME NEW b \in DOMAIN blocks \ {a}
        PROVE  After(grown, b) = IF grown[b].next = 0 THEN end + more ELSE grown[b].next
    <3>1. blocks[b].next # 0
      <4>1. blocks[b].next = 0 => a <= b
        BY LastIsHighest
      <4>2. a \in Nat /\ b \in Nat /\ b <= a
        BY <1>6, Numbers
      <4> QED BY <4>1, <4>2
    <3>2. After(blocks, b) = blocks[b].next
      BY <3>1 DEF Whole, Tiled
    <3> QED BY <1>4, <1>5, <3>1, <3>2, Zenon
  <2> QED BY <1>1, <2>1, <2>2 DEF Tiled
<1>9. Ordered(grown, end + more)
  <2>1. ASSUME NEW b \in DOMAIN blocks
        PROVE  /\ malloc_head <= b /\ After(grown, b) <= end + more
               /\ \A c \in DOMAIN blocks : b < c => After(grown, b) <= c
    <3>1. /\ malloc_head <= b /\ After(blocks, b) <= end
          /\ \A c \in DOMAIN blocks : b < c => After(blocks, b) <= c
      BY DEF Whole, Ordered
    <3>2. b \in Nat /\ After(blocks, b) \in Nat
      BY Numbers
    <3>3. CASE b = a
      <4>1. \A c \in DOMAIN blocks : c \in Nat
        BY DEF Whole, Typed
      <4>2. ~ \E c \in DOMAIN blocks : b < c
        BY <1>6, <3>2, <3>3, <4>1
      <4> QED BY <1>5, <1>6, <3>1, <3>3, <4>2
    <3>4. CASE b # a
      <4>1. After(grown, b) = After(blocks, b)
        BY <1>5, <3>4
      <4>2. After(blocks, b) <= end + more
        BY <3>1, <3>2
      <4> QED BY <3>1, <4>1, <4>2, Zenon
    <3> QED BY <3>3, <3>4
  <2> QED BY <1>1, <2>1 DEF Ordered
<1>10. Whole(grown, end + more)
  BY <1>7, <1>8, <1>9 DEF Whole
<1> QED BY <1>5, <1>10 DEF grown

------------------------------------------------------------------------------
\* The search of line 150.

Skipped(a, size) == (block[a].size < size \/ ~block[a].free) /\ block[a].next # 0

\* There is a last block.
LEMMA SomeLast ==
  ASSUME ConstantsAssumption, NEW end \in Nat, Whole(block, end)
  PROVE  \E a \in DOMAIN block : block[a].next = 0
<1> DEFINE Left == {end - a : a \in DOMAIN block}
<1>1. ASSUME NEW a \in DOMAIN block
      PROVE  end - a \in Nat /\ a \in Nat
  <2>1. a \in Nat /\ After(block, a) \in Nat /\ a < After(block, a) /\ After(block, a) <= end
    BY Numbers
  <2> QED BY <2>1
<1>2. Left \in SUBSET Nat /\ Left # {}
  BY <1>1 DEF Whole
<1>3. PICK a \in DOMAIN block : \A b \in DOMAIN block : end - a <= end - b
  <2> HIDE DEF Left
  <2>1. Min(Left) \in Left /\ \A y \in Left : Min(Left) <= y
    BY <1>2, LeastElement
  <2> QED BY <2>1 DEF Left
<1>4. \A b \in DOMAIN block : b <= a
  BY <1>1, <1>3
<1> QED BY <1>4, LastIsHighest

\* The block the search ends at from block a: the first one, from there on, that
\* it does not skip.
LEMMA FirstKept ==
  ASSUME ConstantsAssumption, NEW end \in Nat, Whole(block, end), NEW size,
         NEW a \in DOMAIN block
  PROVE  LET kept == {b \in DOMAIN block : a <= b /\ ~Skipped(b, size)}
         IN  /\ Min(kept) \in DOMAIN block /\ a <= Min(kept) /\ ~Skipped(Min(kept), size)
             /\ \A b \in DOMAIN block : a <= b /\ b < Min(kept) => Skipped(b, size)
             /\ ~Skipped(a, size) => Min(kept) = a
<1> DEFINE kept == {b \in DOMAIN block : a <= b /\ ~Skipped(b, size)}
<1>1. \A b \in DOMAIN block : b \in Nat
  BY DEF Whole, Typed
<1>2. PICK last \in DOMAIN block : block[last].next = 0
  BY SomeLast
<1>3. a <= last /\ ~Skipped(last, size)
  BY <1>2, LastIsHighest DEF Skipped
<1>4. kept \in SUBSET Nat /\ kept # {}
  BY <1>1, <1>2, <1>3
<1>5. Min(kept) \in kept /\ \A y \in kept : Min(kept) <= y
  <2> HIDE DEF kept
  <2> QED BY <1>4, LeastElement
<1>6. \A b \in DOMAIN block : a <= b /\ b < Min(kept) => Skipped(b, size)
  <2> SUFFICES ASSUME NEW b \in DOMAIN block, a <= b, ~Skipped(b, size)
               PROVE  ~(b < Min(kept))
    OBVIOUS
  <2>1. b \in kept
    OBVIOUS
  <2>2. Min(kept) \in Nat /\ b \in Nat
    BY <1>1, <1>5
  <2> HIDE DEF kept
  <2> QED BY <1>5, <2>1, <2>2
<1>7. ASSUME ~Skipped(a, size)
      PROVE  Min(kept) = a
  <2>1. a \in kept
    BY <1>1, <1>7
  <2>2. Min(kept) \in Nat /\ a \in Nat /\ a <= Min(kept)
    BY <1>1, <1>5
  <2> HIDE DEF kept
  <2> QED BY <1>5, <2>1, <2>2
<1> QED BY <1>5, <1>6, <1>7

\* The search ends at the first block that is not skipped.
LEMMA FoundIs ==
  ASSUME ConstantsAssumption, NEW end \in Nat, Whole(block, end), NEW size
  PROVE  /\ Found(size) \in DOMAIN block /\ ~Skipped(Found(size), size)
         /\ \A b \in DOMAIN block : b < Found(size) => Skipped(b, size)
<1> DEFINE Kept(a) == {b \in DOMAIN block : a <= b /\ ~Skipped(b, size)}
           Walks(g) == g = [a \in DOMAIN block |->
                              IF (block[a].size < size \/ ~block[a].free) /\ block[a].next # 0
                              THEN g[block[a].next] ELSE a]
           walk == CHOOSE g : Walks(g)
<1>1. Found(size) = walk[malloc_head]
  BY DEF Found
<1>2. \A a \in DOMAIN block : a \in Nat
  BY DEF Whole, Typed
<1> DEFINE first == [a \in DOMAIN block |-> Min(Kept(a))]
<1>3. ASSUME NEW a \in DOMAIN block
      PROVE  /\ first[a] \in DOMAIN block /\ a <= first[a] /\ ~Skipped(first[a], size)
             /\ \A b \in DOMAIN block : a <= b /\ b < first[a] => Skipped(b, size)
             /\ ~Skipped(a, size) => first[a] = a
  <2>1. first[a] = Min(Kept(a))
    OBVIOUS
  <2>2. /\ Min(Kept(a)) \in DOMAIN block /\ a <= Min(Kept(a)) /\ ~Skipped(Min(Kept(a)), size)
        /\ \A b \in DOMAIN block : a <= b /\ b < Min(Kept(a)) => Skipped(b, size)
        /\ ~Skipped(a, size) => Min(Kept(a)) = a
    BY FirstKept, Zenon
  <2> HIDE DEF Kept, first
  <2> QED BY <2>1, <2>2, Zenon
<1>4. ASSUME NEW a \in DOMAIN block, Skipped(a, size)
      PROVE  block[a].next \in DOMAIN block /\ a < block[a].next
             /\ first[a] = first[block[a].next]
  <2>1. /\ block[a].next \in DOMAIN block /\ a < block[a].next
        /\ \A b \in DOMAIN block : a < b => block[a].next <= b
    BY <1>4, NextIsNext DEF Skipped
  <2>2. Kept(a) = Kept(block[a].next)
    BY <1>2, <1>4, <2>1
  <2> QED BY <2>1, <2>2
<1> HIDE DEF first
<1>5. Walks(first)
  <2>1. ASSUME NEW a \in DOMAIN block
        PROVE  first[a] = IF (block[a].size < size \/ ~block[a].free) /\ block[a].next # 0
                          THEN first[block[a].next] ELSE a
    BY <1>3, <1>4 DEF Skipped
  <2>2. first = [a \in DOMAIN block |-> first[a]]
    BY DEF first
  <2> QED BY <2>1, <2>2
<1>6. Walks(walk)
  <2> HIDE DEF Walks
  <2> QED BY <1>5
<1> HIDE DEF walk
<1>7. ASSUME NEW a \in DOMAIN block
      PROVE  walk[a] = IF Skipped(a, size) THEN walk[block[a].next] ELSE a
  BY <1>6 DEF Skipped
<1>8. \A a \in DOMAIN block : walk[a] = first[a]
  <2> DEFINE Differ == {a \in DOMAIN block : walk[a] # first[a]}
             Left == {end - a : a \in Differ}
  <2>1. SUFFICES ASSUME Differ # {}
                 PROVE  FALSE
    OBVIOUS
  <2>2. Left \in SUBSET Nat /\ Left # {}
    <3>1. ASSUME NEW a \in Differ
          PROVE  end - a \in Nat
      <4>1. a \in Nat /\ After(block, a) \in Nat /\ a < After(block, a) /\ After(block, a) <= end
        BY Numbers
      <4> QED BY <4>1
    <3> QED BY <2>1, <3>1
  <2>3. PICK a \in Differ : \A b \in Differ : end - a <= end - b
    <3>1. Min(Left) \in Left /\ \A y \in Left : Min(Left) <= y
      <4> HIDE DEF Left
      <4> QED BY <2>2, LeastElement
    <3> QED BY <3>1
  <2>4. Skipped(a, size) /\ a \in DOMAIN block
    BY <1>3, <1>7
  <2>5. block[a].next \in Differ /\ a < block[a].next
    BY <1>4, <1>7, <2>4
  <2>6. end - a <= end - block[a].next
    BY <2>3, <2>5
  <2>7. a \in Nat /\ block[a].next \in Nat
    BY <1>2, <1>4, <2>4
  <2> QED BY <2>5, <2>6, <2>7
<1>9. malloc_head \in DOMAIN block /\ \A b \in DOMAIN block : malloc_head <= b
  BY DEF Whole, Ordered
<1> QED BY <1>1, <1>3, <1>8, <1>9

------------------------------------------------------------------------------
\* Who holds what, and which neighbours are free, after each change of the list.

\* A free block of the size asked for becomes one a caller holds (line 152).
LEMMA TakenHeld ==
  ASSUME ConstantsAssumption, NEW blocks, NEW end \in Nat, Whole(blocks, end),
         NEW handed, Held(blocks, handed), Apart(blocks, {}),
         NEW a \in DOMAIN blocks, blocks[a].free
  PROVE  /\ Held(Taken(blocks, a), handed \cup {<<a, blocks[a].size>>})
         /\ Apart(Taken(blocks, a), {})
<1> DEFINE after == Taken(blocks, a)
<1>1. /\ DOMAIN after = DOMAIN blocks
      /\ \A b \in DOMAIN blocks :
           /\ after[b].size = blocks[b].size /\ after[b].next = blocks[b].next
           /\ after[b].free = IF b = a THEN FALSE ELSE blocks[b].free
  BY TakenWhole DEF Taken, Marked
<1> HIDE DEF after
<1>2. ASSUME NEW l \in handed \cup {<<a, blocks[a].size>>}
      PROVE  /\ l \in (DOMAIN after) \X Nat
             /\ ~after[l[1]].free /\ after[l[1]].size = l[2]
  <2>1. CASE l \in handed
    BY <1>1, <2>1 DEF Held
  <2>2. CASE l = <<a, blocks[a].size>>
    <3>1. blocks[a].size \in Nat
      BY Numbers
    <3>2. l[1] = a /\ l[2] = blocks[a].size
      BY <2>2
    <3> QED BY <1>1, <2>2, <3>1, <3>2
  <2> QED BY <2>1, <2>2
<1>3. ASSUME NEW b \in DOMAIN blocks, ~after[b].free
      PROVE  after[b].next = 0 \/ \E l \in handed \cup {<<a, blocks[a].size>>} : l[1] = b
  <2>1. CASE b = a
    <3>1. <<a, blocks[a].size>>[1] = a
      OBVIOUS
    <3> QED BY <2>1, <3>1
  <2>2. CASE b # a
    BY <1>1, <1>3, <2>2 DEF Held
  <2> QED BY <2>1, <2>2
<1>4. Held(after, handed \cup {<<a, blocks[a].size>>})
  BY <1>1, <1>2, <1>3, Zenon DEF Held
<1>5. Apart(after, {})
  <2> SUFFICES ASSUME NEW b \in DOMAIN blocks, after[b].free, after[b].next # 0
               PROVE  ~after[after[b].next].free
    BY <1>1 DEF Apart
  <2>1. blocks[b].free /\ blocks[b].next # 0 /\ b # a
    BY <1>1
  <2>2. ~blocks[blocks[b].next].free
    BY <2>1 DEF Apart
  <2>3. blocks[b].next \in DOMAIN blocks
    BY <2>1, NextIsNext
  <2> QED BY <1>1, <2>2, <2>3
<1> QED BY <1>4, <1>5 DEF after

\* A larger free block becomes one a caller holds and a free one (line 154, 172).
LEMMA SplitHeld ==
  ASSUME ConstantsAssumption, NEW blocks, NEW end \in Nat, Whole(blocks, end),
         NEW handed, Held(blocks, handed), Apart(blocks, {}),
         NEW a \in DOMAIN blocks, blocks[a].free,
         NEW size \in Nat, size + HeaderSize <= blocks[a].size
  PROVE  /\ Held(vmm_malloc_split(blocks, a, size), handed \cup {<<a, size>>})
         /\ Apart(vmm_malloc_split(blocks, a, size), {})
<1> DEFINE cut == vmm_malloc_split(blocks, a, size)
           new == a + HeaderSize + size
<1>1. /\ DOMAIN cut = DOMAIN blocks \cup {new}
      /\ cut[a] = Header(size, FALSE, new)
      /\ cut[new] = Header(blocks[a].size - size - HeaderSize, TRUE, blocks[a].next)
      /\ \A b \in DOMAIN blocks \ {a, new} : cut[b] = blocks[b]
  <2>1. Typed(blocks)
    BY DEF Whole
  <2>2. CutInTwo(blocks, a, size, cut, new)
    BY <2>1, SplitIs
  <2> HIDE DEF cut, new
  <2> QED BY <2>2 DEF CutInTwo
<1>2. new \notin DOMAIN blocks
  BY SplitWhole
<1>3. a \in DOMAIN blocks /\ a # new
  BY <1>2
<1> HIDE DEF cut, new
<1>4. /\ cut[a].size = size /\ ~cut[a].free /\ cut[a].next = new
      /\ cut[new].free /\ cut[new].next = blocks[a].next
  BY <1>1 DEF Header
<1>5. ASSUME NEW l \in handed \cup {<<a, size>>}
      PROVE  /\ l \in (DOMAIN cut) \X Nat
             /\ ~cut[l[1]].free /\ cut[l[1]].size = l[2]
  <2>1. CASE l \in handed
    <3>1. l \in (DOMAIN blocks) \X Nat /\ ~blocks[l[1]].free /\ blocks[l[1]].size = l[2]
      BY <2>1 DEF Held
    <3>2. l[1] \in DOMAIN blocks \ {a, new}
      BY <1>2, <3>1
    <3> QED BY <1>1, <3>1, <3>2
  <2>2. CASE l = <<a, size>>
    <3>1. l[1] = a /\ l[2] = size
      BY <2>2
    <3> QED BY <1>1, <1>4, <2>2, <3>1
  <2> QED BY <2>1, <2>2
<1>6. ASSUME NEW b \in DOMAIN cut, ~cut[b].free
      PROVE  cut[b].next = 0 \/ \E l \in handed \cup {<<a, size>>} : l[1] = b
  <2>1. CASE b = a
    <3>1. <<a, size>>[1] = a
      OBVIOUS
    <3> QED BY <2>1, <3>1
  <2>2. CASE b # a
    <3>1. b \in DOMAIN blocks \ {a, new}
      BY <1>1, <1>4, <1>6, <2>2
    <3> QED BY <1>1, <1>6, <3>1 DEF Held
  <2> QED BY <2>1, <2>2
<1>7. Held(cut, handed \cup {<<a, size>>})
  BY <1>5, <1>6, Zenon DEF Held
<1>8. Apart(cut, {})
  <2> SUFFICES ASSUME NEW b \in DOMAIN cut, cut[b].free, cut[b].next # 0
               PROVE  ~cut[cut[b].next].free
    BY DEF Apart
  <2>1. CASE b = new
    <3>1. cut[b].next = blocks[a].next /\ ~blocks[blocks[a].next].free
      BY <1>4, <2>1 DEF Apart
    <3>2. blocks[a].next \in DOMAIN blocks \ {a, new}
      <4>1. blocks[a].next \in DOMAIN blocks
        BY <3>1, NextIsNext
      <4> QED BY <1>2, <3>1, <4>1
    <3> QED BY <1>1, <3>1, <3>2
  <2>2. CASE b # new
    <3>1. b \in DOMAIN blocks \ {a, new} /\ cut[b] = blocks[b]
      BY <1>1, <1>4, <2>2
    <3>2. ~blocks[blocks[b].next].free
      BY <3>1 DEF Apart
    <3>3. blocks[b].next \in DOMAIN blocks
      BY <3>1, NextIsNext
    <3>4. blocks[b].next \in DOMAIN blocks \ {a, new}
      BY <1>2, <3>2, <3>3
    <3> QED BY <1>1, <3>1, <3>2, <3>4
  <2> QED BY <2>1, <2>2
<1> QED BY <1>7, <1>8 DEF cut

\* What a caller returns is free; only it and the block before it may now have a
\* free neighbour (line 198).
LEMMA FreedHeld ==
  ASSUME ConstantsAssumption, NEW blocks, NEW end \in Nat, Whole(blocks, end),
         NEW handed, Held(blocks, handed), Apart(blocks, {}),
         NEW l \in handed
  PROVE  /\ Held(Freed(blocks, l[1]), handed \ {l})
         /\ \A b \in DOMAIN blocks :
              b # l[1] /\ blocks[b].free /\ blocks[b].next # 0 /\ blocks[b].next # l[1] =>
                ~Freed(blocks, l[1])[blocks[b].next].free
<1> DEFINE a == l[1]
           after == Freed(blocks, a)
<1>1. l \in (DOMAIN blocks) \X Nat /\ l = <<a, l[2]>> /\ a \in DOMAIN blocks
      /\ ~blocks[a].free /\ blocks[a].size = l[2]
  BY DEF Held
<1>2. /\ DOMAIN after = DOMAIN blocks
      /\ \A b \in DOMAIN blocks :
           /\ after[b].size = blocks[b].size /\ after[b].next = blocks[b].next
           /\ after[b].free = IF b = a THEN TRUE ELSE blocks[b].free
  BY <1>1, TakenWhole DEF Freed, Marked
<1> HIDE DEF after
<1>3. ASSUME NEW m \in handed \ {l}
      PROVE  /\ m \in (DOMAIN after) \X Nat /\ m[1] # a
             /\ ~after[m[1]].free /\ after[m[1]].size = m[2]
  <2>1. m \in (DOMAIN blocks) \X Nat /\ ~blocks[m[1]].free /\ blocks[m[1]].size = m[2]
    BY DEF Held
  <2>2. m[1] # a
    <3>1. m = <<m[1], m[2]>>
      BY <2>1
    <3> HIDE DEF a
    <3> QED BY <1>1, <2>1, <3>1
  <2> HIDE DEF a
  <2> QED BY <1>2, <2>1, <2>2
<1>4. ASSUME NEW b \in DOMAIN blocks, ~after[b].free
      PROVE  after[b].next = 0 \/ \E m \in handed \ {l} : m[1] = b
  <2>1. b # a /\ ~blocks[b].free
    BY <1>2, <1>4
  <2>2. blocks[b].next = 0 \/ \E m \in handed : m[1] = b
    BY <2>1 DEF Held
  <2> QED BY <1>2, <2>1, <2>2
<1>5. Held(after, handed \ {l})
  BY <1>2, <1>3, <1>4, Zenon DEF Held
<1>6. ASSUME NEW b \in DOMAIN blocks, b # a, blocks[b].free,
             blocks[b].next # 0, blocks[b].next # a
      PROVE  ~after[blocks[b].next].free
  <2>1. blocks[b].next \in DOMAIN blocks /\ ~blocks[blocks[b].next].free
    BY <1>6, NextIsNext DEF Apart
  <2> QED BY <1>2, <1>6, <2>1
<1> QED BY <1>5, <1>6 DEF after

\* Two free blocks become one, which alone may have a free neighbour behind it.
LEMMA AbsorbHeld ==
  ASSUME ConstantsAssumption, NEW blocks, NEW end \in Nat, Whole(blocks, end),
         NEW handed, Held(blocks, handed), NEW a \in DOMAIN blocks,
         blocks[a].next # 0, blocks[a].free, blocks[blocks[a].next].free,
         Apart(blocks, {a, blocks[a].next})
  PROVE  /\ Held(Absorb(blocks, a), handed)
         /\ Apart(Absorb(blocks, a), {a})
<1> DEFINE next == blocks[a].next
           one == Absorb(blocks, a)
<1>1. /\ next \in DOMAIN blocks /\ a # next /\ DOMAIN one = DOMAIN blocks \ {next}
      /\ one[a].free = blocks[a].free
      /\ \A b \in DOMAIN blocks \ {a, next} : one[b] = blocks[b]
  <2>1. MadeOne(blocks, a, next, one)
    BY AbsorbWhole
  <2> HIDE DEF next, one
  <2> QED BY <2>1, Zenon DEF MadeOne
<1> HIDE DEF one
<1>2. ASSUME NEW l \in handed
      PROVE  /\ l \in (DOMAIN one) \X Nat
             /\ ~one[l[1]].free /\ one[l[1]].size = l[2]
  <2>1. l \in (DOMAIN blocks) \X Nat /\ ~blocks[l[1]].free /\ blocks[l[1]].size = l[2]
    BY DEF Held
  <2>2. l[1] \in DOMAIN blocks \ {a, next}
    BY <2>1
  <2> QED BY <1>1, <2>1, <2>2
<1>3. ASSUME NEW b \in DOMAIN one, ~one[b].free
      PROVE  one[b].next = 0 \/ \E l \in handed : l[1] = b
  <2>1. b \in DOMAIN blocks \ {a, next} /\ one[b] = blocks[b]
    BY <1>1, <1>3
  <2> QED BY <1>3, <2>1 DEF Held
<1>4. Held(one, handed)
  BY <1>2, <1>3, Zenon DEF Held
<1>5. Apart(one, {a})
  <2> SUFFICES ASSUME NEW b \in DOMAIN one \ {a}, one[b].free, one[b].next # 0
               PROVE  ~one[one[b].next].free
    BY DEF Apart
  <2>1. b \in DOMAIN blocks \ {a, next} /\ one[b] = blocks[b]
    BY <1>1
  <2>2. ~blocks[blocks[b].next].free
    BY <2>1 DEF Apart
  <2>3. blocks[b].next \in DOMAIN blocks
    BY <2>1, NextIsNext
  <2>4. blocks[b].next \in DOMAIN blocks \ {a, next}
    BY <2>2, <2>3
  <2> QED BY <1>1, <2>1, <2>2, <2>4
<1> QED BY <1>4, <1>5 DEF one

------------------------------------------------------------------------------
\* The invariant, call by call.

\* What TypeOK says of the list.
Shaped(blocks) ==
  \A a \in DOMAIN blocks :
    /\ a \in Nat /\ blocks[a].free \in BOOLEAN
    /\ blocks[a].next \in DOMAIN blocks \cup {0}

LEMMA TypedShaped == ASSUME NEW blocks, Typed(blocks) PROVE Shaped(blocks)
BY DEF Typed, Shaped

\* Cut anywhere, even beyond its end, a list keeps its shape.
LEMMA SplitShaped ==
  ASSUME ConstantsAssumption, NEW blocks, NEW a \in DOMAIN blocks, NEW size \in Nat,
         Typed(blocks)
  PROVE  Shaped(vmm_malloc_split(blocks, a, size))
<1> DEFINE cut == vmm_malloc_split(blocks, a, size)
           new == a + HeaderSize + size
<1>1. CutInTwo(blocks, a, size, cut, new)
  BY SplitIs
<1> HIDE DEF cut, new
<1>2. Shaped(cut)
  <2> SUFFICES ASSUME NEW b \in DOMAIN cut
               PROVE  /\ b \in Nat /\ cut[b].free \in BOOLEAN
                      /\ cut[b].next \in DOMAIN cut \cup {0}
    BY DEF Shaped
  <2>1. /\ cut[a].free = FALSE /\ cut[a].next = new
        /\ cut[new].free = TRUE /\ cut[new].next = blocks[a].next
    BY <1>1 DEF CutInTwo, Header
  <2>2. /\ DOMAIN cut = DOMAIN blocks \cup {new} /\ new \in Nat /\ a \in Nat
        /\ blocks[a].next \in DOMAIN blocks \cup {0}
    BY <1>1 DEF CutInTwo, Typed
  <2>3. CASE b = new
    BY <2>1, <2>2, <2>3
  <2>4. CASE b = a
    BY <2>1, <2>2, <2>4
  <2>5. CASE b \in DOMAIN blocks \ {a, new}
    <3>1. cut[b] = blocks[b]
      BY <1>1, <2>5 DEF CutInTwo
    <3> QED BY <2>2, <2>5, <3>1 DEF Typed
  <2> QED BY <2>2, <2>3, <2>4, <2>5
<1> QED BY <1>2 DEF cut

\* The heap ends at a number, and a step that maps no pages does not move the end.
LEMMA EndIs ==
  ASSUME ConstantsAssumption, TypeOK
  PROVE  /\ End \in Nat /\ total_malloc_pages \in Nat
         /\ UNCHANGED total_malloc_pages => End' = End
<1>1. total_malloc_pages \in Nat /\ malloc_vaddr \in Nat
  BY DEF TypeOK, ConstantsAssumption
<1>2. total_malloc_pages * VMM_PAGE_SIZE \in Nat
  BY <1>1, PagesAdd
<1> QED BY <1>1, <1>2 DEF End

\* What the invariant says between calls.
LEMMA Quiet ==
  ASSUME ConstantsAssumption, Inv, state = "ok", pc \in {"idle", "merge", "defrag"}
  PROVE  /\ End \in Nat /\ Whole(block, End) /\ Held(block, live)
         /\ pc # "merge" => Apart(block, {})
         /\ pc = "merge" => Apart(block, {cur})
         /\ UNCHANGED total_malloc_pages => End' = End
BY EndIs DEF Inv, Intact, InvList

\* The conjuncts of TypeOK but the list's.
LEMMA OthersTyped ==
  ASSUME ConstantsAssumption, Inv, Shaped(block'),
         total_malloc_pages' \in 0 .. MaxPages,
         pc' \in {"off", "idle", "cut", "cut_new", "merge", "defrag", "defrag_merged"},
         cur' \in DOMAIN block' \cup {0},
         state' \in {"ok", "handed_out_twice", "endless", "grown_into_the_next_block",
                     "negative_remainder", "not_in_the_list", "null_pointer"}
  PROVE  TypeOK'
BY DEF TypeOK, Shaped

\* Off, there is no list.
LEMMA InitInv == ConstantsAssumption /\ Init => Inv
<1> SUFFICES ASSUME ConstantsAssumption, Init
             PROVE  Inv
  OBVIOUS
<1>1. DOMAIN block = {}
  BY DEF Init
<1> QED BY <1>1 DEF Init, Inv, TypeOK, NullOnlyAtTheEnd, Intact, InvOff, InvList, InvCur,
     InvCut, InvNew, ConstantsAssumption

\* One free block is a list (lines 121-135).
LEMMA Initialised ==
  ASSUME ConstantsAssumption, Inv, NEW size \in InitSizes, vmm_malloc_init(size)
  PROVE  Inv'
<1> DEFINE pages == PagesFor(size)
           first == Header(pages * VMM_PAGE_SIZE - HeaderSize, TRUE, 0)
<1>1. /\ DOMAIN block = {} /\ live = {} /\ state = "ok" /\ pc = "off"
      /\ cur \in DOMAIN block \cup {0}
  BY DEF Inv, Intact, InvOff, vmm_malloc_init, TypeOK
<1>2. /\ size \in Nat \ {0} /\ pages \in 0 .. MaxPages /\ pages # 0
      /\ malloc_head \in Nat \ {0} /\ HeaderSize \in Nat \ {0} /\ VMM_PAGE_SIZE \in Nat
      /\ HeaderSize < VMM_PAGE_SIZE
  BY PagesHold DEF ConstantsAssumption, malloc_head
<1> HIDE DEF pages
<1>3. pages * VMM_PAGE_SIZE \in Nat /\ pages * VMM_PAGE_SIZE >= VMM_PAGE_SIZE
  BY <1>2, PagesAdd
<1>4. /\ block' = Put(block, malloc_head, first) /\ total_malloc_pages' = pages
      /\ pc' = "idle" /\ cur' = cur /\ state' = "ok" /\ live' = {}
  BY <1>1 DEF vmm_malloc_init, pages
<1> HIDE DEF first
<1>5. /\ DOMAIN block' = {malloc_head} /\ block'[malloc_head] = first
  BY <1>1, <1>4 DEF Put
<1>6. first \in [size : Nat, free : BOOLEAN, next : {malloc_head} \cup {0}]
  BY <1>2, <1>3 DEF first, Header
<1>7. /\ first.size = pages * VMM_PAGE_SIZE - HeaderSize /\ first.free /\ first.next = 0
  BY DEF first, Header
<1>8. End' = malloc_head + pages * VMM_PAGE_SIZE
  BY <1>4 DEF End, malloc_head
<1>9. After(block', malloc_head) = End'
  BY <1>2, <1>3, <1>5, <1>7, <1>8 DEF After
<1>10. Whole(block', End')
  <2>1. Typed(block')
    BY <1>2, <1>5, <1>6 DEF Typed
  <2>2. Tiled(block', End')
    BY <1>5, <1>7, <1>9 DEF Tiled
  <2>3. Ordered(block', End')
    BY <1>2, <1>3, <1>5, <1>8, <1>9 DEF Ordered
  <2> QED BY <1>5, <2>1, <2>2, <2>3 DEF Whole
<1>11. Held(block', live') /\ Apart(block', {})
  BY <1>4, <1>5, <1>7 DEF Held, Apart
<1>12. TypeOK'
  <2>1. Shaped(block')
    BY <1>10, TypedShaped DEF Whole
  <2> QED BY <1>1, <1>2, <1>4, <2>1, OthersTyped
<1> QED BY <1>4, <1>10, <1>11, <1>12
     DEF Inv, NullOnlyAtTheEnd, Intact, InvOff, InvList, InvCur, InvCut, InvNew

\* What is taken from a list is a whole list again if the block was free
\* (lines 151-154).
LEMMA Took ==
  ASSUME ConstantsAssumption, Inv, NEW size \in Sizes, TakeBlock(size)
  PROVE  Inv'
<1> DEFINE a == Found(size)
<1>1. /\ state = "ok" /\ pc = "idle" /\ End \in Nat /\ End' = End /\ size \in Nat
      /\ Whole(block, End) /\ Held(block, live) /\ Apart(block, {})
      /\ cur \in DOMAIN block \cup {0}
  BY Quiet DEF TakeBlock, At, ConstantsAssumption, Inv, TypeOK
<1>2. a \in DOMAIN block
  BY <1>1, FoundIs
<1>3. /\ block[a].size \in Nat /\ block[a].free \in BOOLEAN
      /\ HeaderSize \in Nat
  BY <1>1, <1>2, Numbers
<1>4. /\ \/ block[a].size = size /\ block' = Taken(block, a)
         \/ size + HeaderSize <= block[a].size /\ block' = vmm_malloc_split(block, a, size)
      /\ state' = IF block[a].free THEN "ok" ELSE "handed_out_twice"
      /\ live' = live \cup {<<a, size>>}
      /\ pc' = "idle" /\ cur' = cur /\ total_malloc_pages' = total_malloc_pages
  BY <1>1, <1>3 DEF TakeBlock, Taken
<1> HIDE DEF a
<1>5. Whole(block', End)
  <2>1. CASE block' = Taken(block, a)
    BY <1>1, <1>2, <2>1, TakenWhole DEF Taken
  <2>2. CASE size + HeaderSize <= block[a].size /\ block' = vmm_malloc_split(block, a, size)
    BY <1>1, <1>2, <2>2, SplitWhole
  <2> QED BY <1>4, <2>1, <2>2
<1>6. DOMAIN block \subseteq DOMAIN block'
  <2>1. CASE block' = Taken(block, a)
    BY <2>1 DEF Taken
  <2>2. CASE block' = vmm_malloc_split(block, a, size)
    <3>1. Typed(block)
      BY <1>1 DEF Whole
    <3>2. CutInTwo(block, a, size, block', a + HeaderSize + size)
      BY <1>1, <1>2, <2>2, <3>1, SplitIs
    <3> QED BY <3>2 DEF CutInTwo
  <2> QED BY <1>4, <2>1, <2>2
<1>7. TypeOK'
  <2>1. Shaped(block')
    BY <1>5, TypedShaped DEF Whole
  <2>2. total_malloc_pages' \in 0 .. MaxPages
    BY <1>4 DEF Inv, TypeOK
  <2> QED BY <1>1, <1>4, <1>6, <2>1, <2>2, OthersTyped
<1>8. ASSUME state' = "ok"
      PROVE  Held(block', live') /\ Apart(block', {})
  <2>1. block[a].free
    BY <1>4, <1>8
  <2> QED BY <1>1, <1>2, <1>4, <2>1, TakenHeld, SplitHeld
<1> QED BY <1>1, <1>4, <1>5, <1>7, <1>8
     DEF Inv, NullOnlyAtTheEnd, Intact, InvOff, InvList, InvCur, InvCut, InvNew

\* A block made larger keeps the list typed wherever it is in it.
LEMMA GrownTyped ==
  ASSUME NEW blocks, Typed(blocks), NEW a \in DOMAIN blocks, NEW more \in Nat
  PROVE  Typed([blocks EXCEPT ![a].size = @ + more])
<1> DEFINE grown == [blocks EXCEPT ![a].size = @ + more]
<1>1. DOMAIN grown = DOMAIN blocks
  OBVIOUS
<1>2. \A b \in DOMAIN blocks :
        b \in Nat /\ blocks[b] \in [size : Nat, free : BOOLEAN, next : DOMAIN blocks \cup {0}]
  BY DEF Typed
<1>3. grown[a] \in [size : Nat, free : BOOLEAN, next : DOMAIN blocks \cup {0}]
  <2>1. grown[a] = [blocks[a] EXCEPT !.size = @ + more]
    OBVIOUS
  <2>2. blocks[a].size + more \in Nat
    BY <1>2
  <2> QED BY <1>2, <2>1, <2>2
<1>4. \A b \in DOMAIN blocks \ {a} : grown[b] = blocks[b]
  OBVIOUS
<1> HIDE DEF grown
<1>5. Typed(grown)
  BY <1>1, <1>2, <1>3, <1>4 DEF Typed
<1> QED BY <1>5 DEF grown

\* Pages are mapped behind the heap; the list with the last block made larger
\* covers them, and a block no link leads to is the highest (lines 155-179).
LEMMA Grew ==
  ASSUME ConstantsAssumption, Inv, NEW size \in Sizes, GrowHeap(size)
  PROVE  Inv'
<1> DEFINE a == Found(size)
           n == AdditionalPages(a, size)
           more == n * VMM_PAGE_SIZE
<1>1. /\ state = "ok" /\ pc = "idle" /\ End \in Nat /\ size \in Nat
      /\ Whole(block, End) /\ Held(block, live) /\ Apart(block, {})
      /\ cur \in DOMAIN block \cup {0} /\ total_malloc_pages \in Nat
  BY Quiet, EndIs DEF GrowHeap, At, ConstantsAssumption, Inv, TypeOK
<1>2. a \in DOMAIN block /\ ~Skipped(a, size)
  BY <1>1, FoundIs
<1>3. /\ block[a].size \in Nat /\ block[a].free \in BOOLEAN
      /\ HeaderSize \in Nat
  BY <1>1, <1>2, Numbers
<1>4. n \in Nat \ {0}
  BY <1>1, <1>2, <1>3, PagesSuffice
<1>5. /\ request' = size /\ cur' = a /\ live' = live
      /\ total_malloc_pages' = total_malloc_pages + n
      /\ total_malloc_pages + n <= MaxPages
      /\ \/ state' = "endless" /\ block' = block /\ pc' = "idle"
         \/ /\ state' = "ok" /\ block[a].free /\ pc' = "cut"
            /\ block' = [block EXCEPT ![a].size = @ + more]
         \/ /\ state' = "ok" /\ ~block[a].free /\ pc' = "cut_new"
            /\ block' = Put(block, End, Header(more, TRUE, 0))
  BY <1>1 DEF GrowHeap
<1> HIDE DEF a, n
<1>6. /\ more \in Nat
      /\ End' = End + more
  <2>1. more \in Nat
    BY <1>4, PagesAdd
  <2>2. (total_malloc_pages + n) * VMM_PAGE_SIZE = total_malloc_pages * VMM_PAGE_SIZE + more
    BY <1>1, <1>4, PagesAdd
  <2>3. total_malloc_pages * VMM_PAGE_SIZE \in Nat /\ malloc_vaddr \in Nat
    BY <1>1, PagesAdd DEF ConstantsAssumption
  <2> HIDE DEF more
  <2>4. End' = malloc_vaddr + (total_malloc_pages * VMM_PAGE_SIZE + more)
    BY <1>5, <2>2 DEF End
  <2> QED BY <2>1, <2>3, <2>4 DEF End
<1> HIDE DEF more
<1>7. total_malloc_pages' \in 0 .. MaxPages
  BY <1>1, <1>4, <1>5 DEF ConstantsAssumption
<1>8. Typed(block)
  BY <1>1 DEF Whole
<1>9. CASE state' = "endless" /\ block' = block /\ pc' = "idle"
  <2>1. TypeOK'
    BY <1>2, <1>5, <1>7, <1>8, <1>9, TypedShaped, OthersTyped
  <2> QED BY <1>9, <2>1 DEF Inv, NullOnlyAtTheEnd
<1>10. CASE /\ state' = "ok" /\ block[a].free /\ pc' = "cut"
            /\ block' = [block EXCEPT ![a].size = @ + more]
  <2>1. Typed(block') /\ DOMAIN block' = DOMAIN block
    BY <1>2, <1>6, <1>8, <1>10, GrownTyped
  <2>2. \A b \in DOMAIN block :
          block'[b].free = block[b].free /\ block'[b].next = block[b].next
    <3>1. \A b \in DOMAIN block : b # a => block'[b] = block[b]
      BY <1>10
    <3>2. block'[a].free = block[a].free /\ block'[a].next = block[a].next
      <4>1. block'[a] = [block[a] EXCEPT !.size = @ + more]
        BY <1>2, <1>10
      <4>2. block[a] \in [size : Nat, free : BOOLEAN, next : DOMAIN block \cup {0}]
        BY <1>2, <1>8 DEF Typed
      <4> QED BY <4>1, <4>2
    <3> QED BY <3>1, <3>2
  <2>3. TypeOK'
    BY <1>2, <1>5, <1>7, <1>10, <2>1, TypedShaped, OthersTyped
  <2>4. ASSUME block'[a].next = 0
        PROVE  Whole(block', End') /\ Held(block', live') /\ Apart(block', {})
    <3>1. block[a].next = 0
      BY <1>2, <2>2, <2>4
    <3>2. /\ Whole(block', End')
          /\ \A b \in DOMAIN block \ {a} : block'[b] = block[b]
      <4>1. Whole([block EXCEPT ![a].size = @ + more], End + more)
        BY <1>1, <1>2, <1>6, <3>1, GrownWhole
      <4> QED BY <1>6, <1>10, <4>1
    <3>3. Held(block', live')
      <4>1. ASSUME NEW l \in live
            PROVE  /\ l \in (DOMAIN block') \X Nat
                   /\ ~block'[l[1]].free /\ block'[l[1]].size = l[2]
        <5>1. l \in (DOMAIN block) \X Nat /\ ~block[l[1]].free /\ block[l[1]].size = l[2]
          BY <1>1 DEF Held
        <5>2. l[1] \in DOMAIN block \ {a}
          BY <1>10, <5>1
        <5> QED BY <2>1, <3>2, <5>1, <5>2
      <4>2. ASSUME NEW b \in DOMAIN block, ~block'[b].free
            PROVE  block'[b].next = 0 \/ \E l \in live : l[1] = b
        BY <1>1, <2>2, <4>2 DEF Held
      <4> QED BY <1>5, <2>1, <4>1, <4>2, Zenon DEF Held
    <3>4. Apart(block', {})
      <4> SUFFICES ASSUME NEW b \in DOMAIN block, block'[b].free, block'[b].next # 0
                   PROVE  ~block'[block'[b].next].free
        BY <2>1 DEF Apart
      <4>1. block[b].free /\ block[b].next # 0 /\ block'[b].next = block[b].next
        BY <2>2
      <4>2. block[b].next \in DOMAIN block /\ ~block[block[b].next].free
        BY <1>1, <4>1, NextIsNext DEF Apart
      <4> QED BY <2>2, <4>1, <4>2
    <3> QED BY <3>2, <3>3, <3>4
  <2>5. cur' = a /\ a \in DOMAIN block' /\ block'[a].free /\ request' \in Sizes
    BY <1>2, <1>5, <1>10, <2>1, <2>2
  <2> QED BY <1>10, <2>1, <2>3, <2>4, <2>5
      DEF Inv, NullOnlyAtTheEnd, Intact, InvOff, InvList, InvCur, InvCut, InvNew
<1>11. CASE /\ state' = "ok" /\ ~block[a].free /\ pc' = "cut_new"
            /\ block' = Put(block, End, Header(more, TRUE, 0))
  <2> DEFINE new == Header(more, TRUE, 0)
  <2>1. new \in [size : Nat, free : BOOLEAN, next : {0}]
    BY <1>6 DEF Header
  <2> HIDE DEF new
  <2>2. /\ DOMAIN block' = DOMAIN block \cup {End} /\ block'[End] = new
        /\ \A b \in DOMAIN block \ {End} : block'[b] = block[b]
    <3>1. block' = Put(block, End, new)
      BY <1>11 DEF new
    <3> QED BY <3>1 DEF Put
  <2>3. Typed(block')
    <3>1. \A b \in DOMAIN block :
            b \in Nat /\ block[b] \in [size : Nat, free : BOOLEAN, next : DOMAIN block \cup {0}]
      BY <1>8 DEF Typed
    <3> QED BY <1>1, <2>1, <2>2, <3>1 DEF Typed
  <2>4. \A b \in DOMAIN block' : b <= End
    <3>1. \A b \in DOMAIN block : b <= End
      <4> SUFFICES ASSUME NEW b \in DOMAIN block
                   PROVE  b <= End
        OBVIOUS
      <4>1. b \in Nat /\ After(block, b) \in Nat /\ b < After(block, b) /\ After(block, b) <= End
        BY <1>1, Numbers
      <4> QED BY <1>1, <4>1
    <3> QED BY <1>1, <2>2, <3>1
  <2>5. TypeOK'
    BY <1>2, <1>5, <1>7, <1>11, <2>2, <2>3, TypedShaped, OthersTyped
  <2>6. End \in DOMAIN block' /\ request' \in Sizes
    BY <1>5, <2>2
  <2> QED BY <1>11, <2>3, <2>4, <2>5, <2>6
      DEF Inv, NullOnlyAtTheEnd, Intact, InvOff, InvList, InvCur, InvCut, InvNew
<1> QED BY <1>5, <1>9, <1>10, <1>11

\* The cut that ends a growth leaves a whole list, or ends the behaviour
\* (lines 170-172).
LEMMA CutsGrown ==
  ASSUME ConstantsAssumption, Inv, CutGrown
  PROVE  Inv'
<1>1. /\ state = "ok" /\ pc = "cut" /\ End \in Nat /\ End' = End /\ request \in Nat
      /\ Typed(block) /\ cur \in DOMAIN block /\ block[cur].free
      /\ block[cur].next = 0 => Whole(block, End) /\ Held(block, live) /\ Apart(block, {})
  BY EndIs DEF CutGrown, At, Inv, Intact, InvCur, InvCut, ConstantsAssumption
<1>2. /\ block' = vmm_malloc_split(block, cur, request)
      /\ state' \in {"ok", "grown_into_the_next_block", "negative_remainder"}
      /\ state' = "ok" => block[cur].next = 0 /\ ~(block[cur].size < request + HeaderSize)
      /\ live' = live \cup {<<cur, request>>}
      /\ pc' = "idle" /\ cur' = 0 /\ total_malloc_pages' = total_malloc_pages
  BY DEF CutGrown, Idle
<1>3. Shaped(block')
  BY <1>1, <1>2, SplitShaped
<1>4. TypeOK'
  <2>1. total_malloc_pages' \in 0 .. MaxPages
    BY <1>2 DEF Inv, TypeOK
  <2> QED BY <1>2, <1>3, <2>1, OthersTyped
<1>5. ASSUME state' = "ok"
      PROVE  Whole(block', End') /\ Held(block', live') /\ Apart(block', {})
  <2>1. Whole(block, End) /\ Held(block, live) /\ Apart(block, {})
    BY <1>1, <1>2, <1>5
  <2>2. request + HeaderSize <= block[cur].size
    <3>1. block[cur].size \in Nat /\ HeaderSize \in Nat
      BY <1>1, <2>1, Numbers
    <3> QED BY <1>1, <1>2, <1>5, <3>1
  <2> QED BY <1>1, <1>2, <2>1, <2>2, SplitWhole, SplitHeld
<1> QED BY <1>2, <1>4, <1>5
     DEF Inv, NullOnlyAtTheEnd, Intact, InvOff, InvList, InvCur, InvCut, InvNew

\* The cut of the block that no link leads to ends the behaviour (lines 174-179).
LEMMA CutsNew ==
  ASSUME ConstantsAssumption, Inv, CutNew
  PROVE  Inv'
<1>1. /\ state = "ok" /\ pc = "cut_new" /\ request \in Nat /\ Typed(block)
      /\ \E last \in DOMAIN block : \A a \in DOMAIN block : a <= last
  BY DEF CutNew, At, Inv, Intact, InvNew, ConstantsAssumption
<1>2. Max(DOMAIN block) \in DOMAIN block
  <2>1. \A a \in DOMAIN block : a \in Nat
    BY <1>1 DEF Typed
  <2>2. PICK last \in DOMAIN block : \A a \in DOMAIN block : last >= a
    BY <1>1, <2>1
  <2> QED BY <2>2 DEF Max
<1>3. /\ block' = vmm_malloc_split(block, Max(DOMAIN block), request)
      /\ state' = "not_in_the_list"
      /\ pc' = "idle" /\ cur' = 0 /\ total_malloc_pages' = total_malloc_pages
  BY DEF CutNew, Idle
<1>4. Shaped(block')
  BY <1>1, <1>2, <1>3, SplitShaped
<1>5. TypeOK'
  <2>1. total_malloc_pages' \in 0 .. MaxPages
    BY <1>3 DEF Inv, TypeOK
  <2> QED BY <1>3, <1>4, <2>1, OthersTyped
<1> QED BY <1>3, <1>5 DEF Inv, NullOnlyAtTheEnd

\* What a free does up to the merge with the block before: nothing, or the block
\* is free, or is part of the only block before it (lines 196-205).
LEMMA FreeCases ==
  ASSUME ConstantsAssumption, Inv, NEW l \in live, vmm_malloc_free(l[1], l[2])
  PROVE  LET a == l[1] IN
         /\ state = "ok" /\ pc = "idle" /\ a \in DOMAIN block /\ ~block[a].free
         /\ l = <<a, block[a].size>>
         /\ live' = live \ {l} /\ state' = "ok" /\ total_malloc_pages' = total_malloc_pages
         /\ request' = request
         /\ \/ block[a].next = 0 /\ block' = block /\ pc' = "idle" /\ cur' = cur
            \/ /\ block[a].next # 0 /\ pc' = "merge" /\ cur' = a
               /\ block' = Freed(block, a)
               /\ \A b \in DOMAIN block : block[b].next = a => ~block[b].free
            \/ /\ block[a].next # 0 /\ pc' = "merge" /\ cur' \in DOMAIN block
               /\ block[cur'].next = a /\ block[cur'].free
               /\ block' = Absorb(Freed(block, a), cur')
<1> DEFINE a == l[1]
           left == {p \in Before(a) : block[p].free}
<1>1. /\ state = "ok" /\ pc = "idle" /\ End \in Nat
      /\ Whole(block, End) /\ Held(block, live)
  BY Quiet DEF vmm_malloc_free, At
<1>2. a \in DOMAIN block /\ ~block[a].free /\ l = <<a, l[2]>> /\ block[a].size = l[2]
  BY <1>1 DEF Held
<1>3. /\ live' = live \ {l} /\ state' = "ok" /\ total_malloc_pages' = total_malloc_pages
      /\ request' = request
  BY <1>1, <1>2 DEF vmm_malloc_free
<1>4. IF block[a].next = 0
      THEN block' = block /\ pc' = pc /\ cur' = cur
      ELSE /\ pc' = "merge"
           /\ IF left = {} THEN block' = Freed(block, a) /\ cur' = a
              ELSE block' = Absorb(Freed(block, a), Min(left)) /\ cur' = Min(left)
  BY DEF vmm_malloc_free, Freed
<1>5. left # {} => Min(left) \in left
  <2>1. left \in SUBSET Nat
    BY <1>1 DEF Before, Whole, Typed
  <2> HIDE DEF left
  <2> QED BY <2>1, LeastElement
<1>6. left = {p \in DOMAIN block : block[p].next = a /\ block[p].free}
  BY DEF Before
<1> HIDE DEF left, a
<1>7. \/ block[a].next = 0 /\ block' = block /\ pc' = "idle" /\ cur' = cur
      \/ /\ block[a].next # 0 /\ pc' = "merge" /\ cur' = a
         /\ block' = Freed(block, a)
         /\ \A b \in DOMAIN block : block[b].next = a => ~block[b].free
      \/ /\ block[a].next # 0 /\ pc' = "merge" /\ cur' \in DOMAIN block
         /\ block[cur'].next = a /\ block[cur'].free
         /\ block' = Absorb(Freed(block, a), cur')
  BY <1>1, <1>4, <1>5, <1>6
<1> QED BY <1>1, <1>2, <1>3, <1>7 DEF a

\* A freed block and the one before it, made one, can be put behind by a free one;
\* everywhere else free blocks stay apart.
LEMMA Frees ==
  ASSUME ConstantsAssumption, Inv, NEW l \in live, vmm_malloc_free(l[1], l[2])
  PROVE  Inv'
<1> DEFINE a == l[1]
           freed == Freed(block, a)
<1>1. /\ state = "ok" /\ pc = "idle" /\ a \in DOMAIN block /\ ~block[a].free
      /\ live' = live \ {l} /\ state' = "ok" /\ total_malloc_pages' = total_malloc_pages
      /\ cur \in DOMAIN block \cup {0} /\ total_malloc_pages' \in 0 .. MaxPages
  BY FreeCases DEF Inv, TypeOK
<1>2. \/ block[a].next = 0 /\ block' = block /\ pc' = "idle" /\ cur' = cur
      \/ /\ block[a].next # 0 /\ pc' = "merge" /\ cur' = a
         /\ block' = freed
         /\ \A b \in DOMAIN block : block[b].next = a => ~block[b].free
      \/ /\ block[a].next # 0 /\ pc' = "merge" /\ cur' \in DOMAIN block
         /\ block[cur'].next = a /\ block[cur'].free
         /\ block' = Absorb(freed, cur')
  BY FreeCases
<1>3. /\ End \in Nat /\ End' = End
      /\ Whole(block, End) /\ Held(block, live) /\ Apart(block, {})
  BY <1>1, Quiet
<1>4. /\ Whole(freed, End) /\ DOMAIN freed = DOMAIN block
      /\ \A b \in DOMAIN block :
           /\ freed[b].size = block[b].size /\ freed[b].next = block[b].next
           /\ freed[b].free = IF b = a THEN TRUE ELSE block[b].free
  <2>1. Whole(freed, End) /\ Marked(block, a, TRUE, freed)
    BY <1>1, <1>3, TakenWhole DEF Freed
  <2> HIDE DEF freed, a
  <2> QED BY <2>1 DEF Marked
<1>5. /\ Held(freed, live')
      /\ \A b \in DOMAIN block :
           b # a /\ block[b].free /\ block[b].next # 0 /\ block[b].next # a =>
             ~freed[block[b].next].free
  BY <1>1, <1>3, FreedHeld
<1> HIDE DEF freed, a
<1>6. SUFFICES /\ Whole(block', End) /\ Held(block', live') /\ pc' \in {"idle", "merge"}
               /\ pc' = "idle" => Apart(block', {})
               /\ pc' = "merge" => /\ Apart(block', {cur'})
                                   /\ cur' \in DOMAIN block' /\ block'[cur'].free
               /\ cur' \in DOMAIN block' \cup {0}
  <2>1. Shaped(block')
    BY <1>6, TypedShaped DEF Whole
  <2>2. TypeOK'
    BY <1>1, <1>6, <2>1, OthersTyped
  <2> QED BY <1>1, <1>3, <1>6, <2>2
      DEF Inv, NullOnlyAtTheEnd, Intact, InvOff, InvList, InvCur, InvCut, InvNew
<1>7. CASE block[a].next = 0 /\ block' = block /\ pc' = "idle" /\ cur' = cur
  <2>1. Held(block, live')
    <3>1. \A m \in live' : m \in live
      BY <1>1
    <3>2. ASSUME NEW b \in DOMAIN block, ~block[b].free, block[b].next # 0
          PROVE  \E m \in live' : m[1] = b
      <4>1. PICK m \in live : m[1] = b
        BY <1>3, <3>2 DEF Held
      <4>2. m # l
        BY <1>7, <3>2, <4>1 DEF a
      <4> QED BY <1>1, <4>1, <4>2
    <3> QED BY <1>3, <3>1, <3>2 DEF Held
  <2> QED BY <1>1, <1>3, <1>7, <2>1
<1>8. CASE /\ block[a].next # 0 /\ pc' = "merge" /\ cur' = a
           /\ block' = freed
           /\ \A b \in DOMAIN block : block[b].next = a => ~block[b].free
  <2>1. Apart(freed, {a})
    <3> SUFFICES ASSUME NEW b \in DOMAIN block \ {a}, freed[b].free, freed[b].next # 0
                 PROVE  ~freed[freed[b].next].free
      BY <1>4 DEF Apart
    <3>1. block[b].free /\ block[b].next # 0 /\ freed[b].next = block[b].next
      BY <1>4
    <3>2. block[b].next # a
      BY <1>8, <3>1
    <3> QED BY <1>5, <3>1, <3>2
  <2>2. freed[a].free /\ a \in DOMAIN freed
    BY <1>1, <1>4
  <2> QED BY <1>4, <1>5, <1>8, <2>1, <2>2
<1>9. CASE /\ block[a].next # 0 /\ pc' = "merge" /\ cur' \in DOMAIN block
           /\ block[cur'].next = a /\ block[cur'].free
           /\ block' = Absorb(freed, cur')
  <2> DEFINE p == cur'
  <2>1. /\ p \in DOMAIN freed /\ freed[p].next = a /\ a # 0 /\ p # a
        /\ freed[p].free /\ freed[a].free
    <3>1. a # 0
      BY <1>1, <1>3, Numbers
    <3> QED BY <1>1, <1>4, <1>9, <3>1
  <2>2. Apart(freed, {p, a})
    <3> SUFFICES ASSUME NEW b \in DOMAIN block \ {p, a}, freed[b].free, freed[b].next # 0
                 PROVE  ~freed[freed[b].next].free
      BY <1>4 DEF Apart
    <3>1. block[b].free /\ block[b].next # 0 /\ freed[b].next = block[b].next
      BY <1>4
    <3>2. block[b].next # a
      BY <1>3, <1>9, <3>1, OneBefore
    <3> QED BY <1>5, <3>1, <3>2
  <2> HIDE DEF p
  <2>3. Whole(Absorb(freed, p), End) /\ MadeOne(freed, p, a, Absorb(freed, p))
    BY <1>3, <1>4, <2>1, AbsorbWhole
  <2>4. Held(Absorb(freed, p), live') /\ Apart(Absorb(freed, p), {p})
    BY <1>3, <1>4, <1>5, <2>1, <2>2, AbsorbHeld
  <2>5. p \in DOMAIN Absorb(freed, p) /\ Absorb(freed, p)[p].free
    BY <2>1, <2>3 DEF MadeOne
  <2>6. block' = Absorb(freed, p) /\ pc' = "merge" /\ cur' = p
    BY <1>9 DEF p
  <2> QED BY <2>3, <2>4, <2>5, <2>6
<1> QED BY <1>2, <1>7, <1>8, <1>9

\* One more free block behind, or the end of the loop, which is the end of the
\* behaviour if it was the last block (lines 206-210).
LEMMA Merges ==
  ASSUME ConstantsAssumption, Inv, MergeNext
  PROVE  Inv'
<1> DEFINE next == block[cur].next
<1>1. /\ state = "ok" /\ pc = "merge" /\ End \in Nat /\ End' = End
      /\ Whole(block, End) /\ Held(block, live) /\ Apart(block, {cur})
      /\ cur \in DOMAIN block /\ block[cur].free
      /\ total_malloc_pages' \in 0 .. MaxPages /\ live' = live
  BY Quiet DEF MergeNext, At, Inv, Intact, InvCur, TypeOK
<1>2. next \in DOMAIN block \cup {0}
  BY <1>1, Numbers
<1>3. \/ /\ next = 0 /\ state' = "null_pointer" /\ block' = block /\ pc' = pc /\ cur' = cur
      \/ /\ next # 0 /\ block[next].free /\ block' = Absorb(block, cur)
         /\ pc' = pc /\ cur' = cur /\ state' = state
      \/ /\ next # 0 /\ ~block[next].free /\ pc' = "idle" /\ cur' = 0
         /\ block' = block /\ state' = state
  BY DEF MergeNext, Mergeable
<1>4. Typed(block)
  BY <1>1 DEF Whole
<1>5. CASE next = 0 /\ state' = "null_pointer" /\ block' = block /\ pc' = pc /\ cur' = cur
  <2>1. TypeOK'
    BY <1>1, <1>4, <1>5, TypedShaped, OthersTyped
  <2>2. ASSUME NEW m \in live
        PROVE  m[1] < cur
    <3>1. m[1] \in DOMAIN block /\ m[1] # cur
      BY <1>1 DEF Held
    <3>2. m[1] <= cur
      BY <1>1, <1>5, <3>1, LastIsHighest
    <3>3. m[1] \in Nat /\ cur \in Nat
      BY <1>1, <3>1, Numbers
    <3> QED BY <3>1, <3>2, <3>3
  <2>3. NullOnlyAtTheEnd'
    BY <1>1, <1>5, <2>2 DEF NullOnlyAtTheEnd
  <2> QED BY <1>1, <1>5, <2>1, <2>3 DEF Inv
<1>6. CASE /\ next # 0 /\ block[next].free /\ block' = Absorb(block, cur)
           /\ pc' = pc /\ cur' = cur /\ state' = state
  <2>1. Whole(block', End') /\ MadeOne(block, cur, next, block')
    BY <1>1, <1>6, AbsorbWhole
  <2>2. Apart(block, {cur, next})
    BY <1>1 DEF Apart
  <2>3. Held(block', live') /\ Apart(block', {cur'})
    BY <1>1, <1>6, <2>2, AbsorbHeld
  <2>4. cur' \in DOMAIN block' /\ block'[cur'].free
    BY <1>1, <1>6, <2>1 DEF MadeOne
  <2>5. TypeOK'
    <3>1. Shaped(block')
      BY <2>1, TypedShaped DEF Whole
    <3> QED BY <1>1, <1>6, <2>4, <3>1, OthersTyped
  <2> QED BY <1>1, <1>6, <2>1, <2>3, <2>4, <2>5
      DEF Inv, NullOnlyAtTheEnd, Intact, InvOff, InvList, InvCur, InvCut, InvNew
<1>7. CASE /\ next # 0 /\ ~block[next].free /\ pc' = "idle" /\ cur' = 0
           /\ block' = block /\ state' = state
  <2>1. Apart(block, {})
    BY <1>1, <1>7 DEF Apart
  <2>2. TypeOK'
    BY <1>1, <1>4, <1>7, TypedShaped, OthersTyped
  <2> QED BY <1>1, <1>7, <2>1, <2>2
      DEF Inv, NullOnlyAtTheEnd, Intact, InvOff, InvList, InvCur, InvCut, InvNew
<1> QED BY <1>3, <1>5, <1>6, <1>7

\* A defragmentation starts at the head.
LEMMA DefragStarts ==
  ASSUME ConstantsAssumption, Inv, vmm_malloc_defrag
  PROVE  Inv'
<1>1. /\ state = "ok" /\ pc = "idle" /\ End \in Nat /\ End' = End
      /\ Whole(block, End) /\ Held(block, live) /\ Apart(block, {})
      /\ total_malloc_pages' \in 0 .. MaxPages /\ live' = live /\ block' = block
      /\ pc' = "defrag" /\ cur' = malloc_head /\ state' = "ok"
  BY Quiet DEF vmm_malloc_defrag, At, Inv, TypeOK
<1>2. malloc_head \in DOMAIN block /\ Typed(block)
  BY <1>1 DEF Whole
<1>3. TypeOK'
  BY <1>1, <1>2, TypedShaped, OthersTyped
<1> QED BY <1>1, <1>2, <1>3
    DEF Inv, NullOnlyAtTheEnd, Intact, InvOff, InvList, InvCur, InvCut, InvNew

\* A step of it finds nothing to merge (lines 182-192).
LEMMA DefragFinds ==
  ASSUME ConstantsAssumption, Inv, DefragStep
  PROVE  /\ block' = block /\ cur' = block[cur].next /\ state' = "ok"
         /\ pc' = IF block[cur].next = 0 THEN "idle" ELSE "defrag"
         /\ live' = live /\ total_malloc_pages' = total_malloc_pages
         /\ state = "ok" /\ pc = "defrag" /\ cur \in DOMAIN block
<1>1. /\ state = "ok" /\ pc = "defrag" /\ cur \in DOMAIN block
  BY DEF DefragStep, At, Inv, Intact, InvCur
<1>2. Apart(block, {})
  BY <1>1, Quiet
<1>3. ~(block[cur].next # 0 /\ block[cur].free /\ block[block[cur].next].free)
  BY <1>1, <1>2 DEF Apart
<1> QED BY <1>1, <1>3 DEF DefragStep

LEMMA Defrags ==
  ASSUME ConstantsAssumption, Inv, DefragStep
  PROVE  Inv'
<1>1. /\ block' = block /\ cur' = block[cur].next /\ state' = "ok"
      /\ pc' = IF block[cur].next = 0 THEN "idle" ELSE "defrag"
      /\ live' = live /\ total_malloc_pages' = total_malloc_pages
      /\ state = "ok" /\ pc = "defrag" /\ cur \in DOMAIN block
  BY DefragFinds
<1>2. /\ End \in Nat /\ End' = End
      /\ Whole(block, End) /\ Held(block, live) /\ Apart(block, {})
  BY <1>1, Quiet
<1>3. cur' \in DOMAIN block \cup {0} /\ (pc' = "defrag" => cur' \in DOMAIN block)
  BY <1>1, <1>2, Numbers
<1>4. TypeOK'
  <2>1. Shaped(block') /\ total_malloc_pages' \in 0 .. MaxPages
    BY <1>1, <1>2, TypedShaped DEF Whole, Inv, TypeOK
  <2> QED BY <1>1, <1>3, <2>1, OthersTyped
<1> QED BY <1>1, <1>2, <1>3, <1>4
    DEF Inv, NullOnlyAtTheEnd, Intact, InvOff, InvList, InvCur, InvCut, InvNew

\* The invariant, for every heap and all sizes asked for.
THEOREM Invariance == ConstantsAssumption => (Spec => []Inv)
<1> SUFFICES ASSUME ConstantsAssumption
             PROVE  Spec => []Inv
  OBVIOUS
<1>1. Init => Inv
  BY InitInv
<1>2. Inv /\ [Next]_vars => Inv'
  <2> SUFFICES ASSUME Inv, [Next]_vars
               PROVE  Inv'
    OBVIOUS
  <2>1. ASSUME NEW size \in InitSizes, vmm_malloc_init(size) PROVE Inv'
    BY <2>1, Initialised
  <2>2. ASSUME NEW size \in Sizes, TakeBlock(size) PROVE Inv'
    BY <2>2, Took
  <2>3. ASSUME NEW size \in Sizes, GrowHeap(size) PROVE Inv'
    BY <2>3, Grew
  <2>4. CASE CutGrown
    BY <2>4, CutsGrown
  <2>5. CASE CutNew
    BY <2>5, CutsNew
  <2>6. ASSUME NEW l \in live, vmm_malloc_free(l[1], l[2]) PROVE Inv'
    BY <2>6, Frees
  <2>7. CASE MergeNext
    BY <2>7, Merges
  <2>8. CASE vmm_malloc_defrag
    BY <2>8, DefragStarts
  <2>9. CASE DefragStep
    BY <2>9, Defrags
  <2>10. CASE UNCHANGED vars
    <3>1. End' = End
      BY <2>10 DEF vars, End
    <3> QED BY <2>10, <3>1 DEF vars, Inv, TypeOK, NullOnlyAtTheEnd, Intact, InvOff, InvList,
              InvCur, InvCut, InvNew
  <2> QED BY <2>1, <2>2, <2>3, <2>4, <2>5, <2>6, <2>7, <2>8, <2>9, <2>10 DEF Next
<1> QED BY <1>1, <1>2, PTL DEF Spec

\* Between the paths that break it the list of blocks tiles the mapped pages,
\* knows what callers hold, and keeps free memory together, whatever was taken
\* and freed in whatever order (lines 121-216).
THEOREM HeapStaysIntact == ConstantsAssumption => (Spec => []HeapIntact)
<1> SUFFICES ASSUME ConstantsAssumption
             PROVE  Spec => []HeapIntact
  OBVIOUS
<1>1. Inv => HeapIntact
  <2> SUFFICES ASSUME Inv
               PROVE  HeapIntact
    OBVIOUS
  <2>1. TypeOK /\ NullOnlyAtTheEnd
    BY DEF Inv
  <2>2. InOrder => Whole(block, End) /\ Held(block, live)
    BY <2>1, Quiet DEF Inv, Intact, InOrder, TypeOK
  <2>3. HeapTiled
    BY <2>2 DEF HeapTiled, Whole, Tiled, After
  <2>4. OnlyLastLeaks
    <3> SUFFICES ASSUME InOrder
                 PROVE  /\ \A l \in live : l[1] \in Used /\ block[l[1]].size = l[2]
                        /\ \A a \in Used : block[a].next = 0 \/ \E l \in live : l[1] = a
      BY DEF OnlyLastLeaks
    <3>1. Held(block, live)
      BY <2>2
    <3> QED BY <3>1 DEF Held, Used
  <2>5. NoFreeNeighbours
    <3> SUFFICES ASSUME state = "ok", pc \in {"idle", "defrag", "defrag_merged"}
                 PROVE  Apart(block, {})
      BY DEF NoFreeNeighbours, Apart
    <3>1. pc \in {"idle", "defrag"}
      BY DEF Inv, Intact
    <3> QED BY <3>1, Quiet
  <2> QED BY <2>1, <2>3, <2>4, <2>5 DEF HeapIntact
<1> QED BY <1>1, Invariance, PTL

------------------------------------------------------------------------------
\* What is taken when nothing is free (line 150).

\* The search gives out what is in use only if that is the last block, and every
\* free block before it is smaller than it.
LEMMA TwiceStep ==
  ASSUME ConstantsAssumption, Inv, Next, state' = "handed_out_twice"
  PROVE  \E last \in Used : /\ block[last].next = 0
                            /\ \A b \in Used \ {last} : block'[b] = block[b]
                            /\ \A f \in DOMAIN block \ Used : block[f].size < block[last].size
<1>1. PICK size \in Sizes : TakeBlock(size)
  <2>1. ~(\E size \in InitSizes : vmm_malloc_init(size))
    BY DEF vmm_malloc_init, Inv
  <2>2. ~(\E size \in Sizes : GrowHeap(size)) /\ ~CutGrown /\ ~CutNew /\ ~MergeNext
        /\ ~vmm_malloc_defrag /\ ~DefragStep
    BY DEF GrowHeap, CutGrown, CutNew, MergeNext, vmm_malloc_defrag, DefragStep, At
  <2>3. ~(\E l \in live : vmm_malloc_free(l[1], l[2]))
    BY DEF vmm_malloc_free, At
  <2> QED BY <2>1, <2>2, <2>3 DEF Next
<1> DEFINE a == Found(size)
<1>2. /\ state = "ok" /\ pc = "idle" /\ End \in Nat /\ size \in Nat /\ Whole(block, End)
      /\ HeaderSize \in Nat
  BY <1>1, Quiet DEF TakeBlock, At, ConstantsAssumption
<1>3. /\ a \in DOMAIN block /\ ~Skipped(a, size)
      /\ \A b \in DOMAIN block : b < a => Skipped(b, size)
  BY <1>2, FoundIs
<1>4. /\ ~block[a].free
      /\ \/ block[a].size = size /\ block' = Taken(block, a)
         \/ /\ block[a].size > size + HeaderSize
            /\ block' = vmm_malloc_split(block, a, size)
  BY <1>1 DEF TakeBlock, Taken
<1> HIDE DEF a
<1>5. block[a].next = 0 /\ a \in Used
  BY <1>3, <1>4 DEF Skipped, Used
<1>6. ASSUME NEW b \in Used \ {a}
      PROVE  block'[b] = block[b]
  <2>1. b \in DOMAIN block /\ b # a
    BY DEF Used
  <2>2. CASE block' = Taken(block, a)
    BY <2>1, <2>2 DEF Taken
  <2>3. CASE block[a].size > size + HeaderSize /\ block' = vmm_malloc_split(block, a, size)
    <3>1. Typed(block) /\ block[a].size \in Nat
      BY <1>2, <1>3, Numbers DEF Whole
    <3>2. CutInTwo(block, a, size, block', a + HeaderSize + size)
      BY <1>2, <1>3, <2>3, <3>1, SplitIs
    <3>3. a + HeaderSize + size \notin DOMAIN block
      <4>1. size + HeaderSize <= block[a].size
        BY <1>2, <2>3, <3>1
      <4> QED BY <1>2, <1>3, <4>1, SplitWhole
    <3> QED BY <2>1, <3>2, <3>3 DEF CutInTwo
  <2> QED BY <1>4, <2>2, <2>3
<1>7. ASSUME NEW f \in DOMAIN block \ Used
      PROVE  block[f].size < block[a].size
  <2>1. block[f].free /\ f # a
    BY <1>4 DEF Used
  <2>2. f \in Nat /\ a \in Nat /\ block[f].size \in Nat /\ block[a].size \in Nat /\ f <= a
    BY <1>2, <1>3, <1>5, Numbers, LastIsHighest
  <2>3. block[f].size < size
    BY <1>3, <2>1, <2>2 DEF Skipped
  <2> QED BY <1>2, <1>4, <2>2, <2>3
<1> QED BY <1>5, <1>6, <1>7

------------------------------------------------------------------------------
\* The heap as an allocator of bytes.

Bytes(blocks, a) == a .. (a + HeaderSize + blocks[a].size - 1)

Pool(blocks) == UNION {Bytes(blocks, a) : a \in {x \in DOMAIN blocks : blocks[x].free}}

Owned(blocks) ==
  {<<a, HeaderSize + blocks[a].size>> : a \in {x \in DOMAIN blocks : ~blocks[x].free}}

\* A byte is in the pool if it lies in a free block.
LEMMA InBytes ==
  ASSUME ConstantsAssumption, NEW blocks, NEW end \in Nat, Whole(blocks, end),
         NEW a \in DOMAIN blocks
  PROVE  /\ \A x : x \in Bytes(blocks, a) <=> x \in Int /\ a <= x /\ x < After(blocks, a)
         /\ Bytes(blocks, a) = a .. (a + (blocks[a].size + HeaderSize) - 1)
         /\ a \in Bytes(blocks, a)
<1>1. /\ a \in Nat /\ blocks[a].size \in Nat /\ HeaderSize \in Nat \ {0}
      /\ After(blocks, a) = a + HeaderSize + blocks[a].size
  BY Numbers
<1> QED BY <1>1 DEF Bytes

\* Each byte lies in one block.
LEMMA Disjoint ==
  ASSUME ConstantsAssumption, NEW blocks, NEW end \in Nat, Whole(blocks, end),
         NEW a \in DOMAIN blocks, NEW b \in DOMAIN blocks,
         NEW x \in Bytes(blocks, a), x \in Bytes(blocks, b)
  PROVE  a = b
<1>1. x \in Int /\ a <= x /\ x < After(blocks, a) /\ b <= x /\ x < After(blocks, b)
  BY InBytes
<1> QED BY <1>1, OneBlock

\* The pool is part of the heap, without the address 0, and has nothing of what
\* is in use.
LEMMA PoolInside ==
  ASSUME ConstantsAssumption, NEW blocks, NEW pages \in 0 .. MaxPages,
         NEW end, end = malloc_vaddr + pages * VMM_PAGE_SIZE, Whole(blocks, end)
  PROVE  /\ Pool(blocks) \subseteq malloc_vaddr .. (malloc_vaddr + MaxPages * VMM_PAGE_SIZE - 1)
         /\ 0 \notin Pool(blocks)
         /\ \A r \in Owned(blocks), x \in Pool(blocks) : x \notin r[1] .. (r[1] + r[2] - 1)
<1>1. /\ pages \in Nat /\ MaxPages \in Nat /\ pages <= MaxPages
      /\ malloc_vaddr \in Nat \ {0}
  BY DEF ConstantsAssumption
<1>2. /\ pages * VMM_PAGE_SIZE \in Nat /\ MaxPages * VMM_PAGE_SIZE \in Nat
      /\ pages * VMM_PAGE_SIZE <= MaxPages * VMM_PAGE_SIZE
  BY <1>1, PagesAdd
<1>3. end \in Nat /\ end <= malloc_vaddr + MaxPages * VMM_PAGE_SIZE
  BY <1>1, <1>2
<1>4. ASSUME NEW x \in Pool(blocks)
      PROVE  /\ x \in malloc_vaddr .. (malloc_vaddr + MaxPages * VMM_PAGE_SIZE - 1) /\ x # 0
             /\ \A r \in Owned(blocks) : x \notin r[1] .. (r[1] + r[2] - 1)
  <2>1. PICK a \in DOMAIN blocks : blocks[a].free /\ x \in Bytes(blocks, a)
    BY DEF Pool
  <2>2. x \in Int /\ a <= x /\ x < After(blocks, a)
    BY <1>3, <2>1, InBytes
  <2>3. a \in Nat /\ malloc_vaddr <= a /\ After(blocks, a) \in Nat /\ After(blocks, a) <= end
    BY <1>3, Numbers DEF malloc_head
  <2>4. x \in malloc_vaddr .. (malloc_vaddr + MaxPages * VMM_PAGE_SIZE - 1) /\ x # 0
    <3>1. PICK bytes \in Nat : bytes = MaxPages * VMM_PAGE_SIZE
      BY <1>2
    <3>2. x < malloc_vaddr + bytes /\ malloc_vaddr <= x /\ x # 0
      BY <1>1, <1>3, <2>2, <2>3, <3>1
    <3>3. x \in malloc_vaddr .. (malloc_vaddr + bytes - 1)
      BY <1>1, <2>2, <3>2
    <3> QED BY <3>1, <3>2, <3>3
  <2>5. ASSUME NEW r \in Owned(blocks)
        PROVE  x \notin r[1] .. (r[1] + r[2] - 1)
    <3>1. PICK b \in DOMAIN blocks : ~blocks[b].free /\ r = <<b, HeaderSize + blocks[b].size>>
      BY DEF Owned
    <3>2. r[1] .. (r[1] + r[2] - 1) = Bytes(blocks, b)
      <4>1. r[1] = b /\ r[2] = HeaderSize + blocks[b].size
        BY <3>1
      <4>2. b \in Nat /\ blocks[b].size \in Nat /\ HeaderSize \in Nat
        BY <1>3, Numbers
      <4>3. r[1] + r[2] - 1 = b + HeaderSize + blocks[b].size - 1
        BY <4>1, <4>2
      <4> QED BY <4>1, <4>3 DEF Bytes
    <3> QED BY <1>3, <2>1, <3>1, <3>2, Disjoint
  <2> QED BY <2>4, <2>5
<1> QED BY <1>4

\* A block taken whole leaves the pool (line 152).
LEMMA TakenPool ==
  ASSUME ConstantsAssumption, NEW blocks, NEW end \in Nat, Whole(blocks, end),
         NEW a \in DOMAIN blocks, blocks[a].free
  PROVE  /\ Pool(Taken(blocks, a)) = Pool(blocks) \ Bytes(blocks, a)
         /\ Owned(Taken(blocks, a)) = Owned(blocks) \cup {<<a, HeaderSize + blocks[a].size>>}
         /\ Bytes(blocks, a) \subseteq Pool(blocks)
<1> DEFINE after == Taken(blocks, a)
<1>1. Marked(blocks, a, FALSE, after)
  BY TakenWhole DEF Taken
<1> HIDE DEF after
<1>2. /\ DOMAIN after = DOMAIN blocks
      /\ \A b \in DOMAIN blocks : Bytes(after, b) = Bytes(blocks, b)
                                  /\ after[b].size = blocks[b].size
                                  /\ (after[b].free <=> b # a /\ blocks[b].free)
  BY <1>1 DEF Marked, Bytes
<1>3. Bytes(blocks, a) \subseteq Pool(blocks)
  BY DEF Pool
<1>4. Pool(after) = Pool(blocks) \ Bytes(blocks, a)
  <2>1. ASSUME NEW x \in Pool(after)
        PROVE  x \in Pool(blocks) \ Bytes(blocks, a)
    <3>1. PICK b \in DOMAIN after : after[b].free /\ x \in Bytes(after, b)
      BY DEF Pool
    <3>2. b \in DOMAIN blocks /\ b # a /\ blocks[b].free /\ x \in Bytes(blocks, b)
      BY <1>2, <3>1
    <3>3. x \notin Bytes(blocks, a)
      BY <3>2, Disjoint
    <3> QED BY <3>2, <3>3 DEF Pool
  <2>2. ASSUME NEW x \in Pool(blocks), x \notin Bytes(blocks, a)
        PROVE  x \in Pool(after)
    <3>1. PICK b \in DOMAIN blocks : blocks[b].free /\ x \in Bytes(blocks, b)
      BY DEF Pool
    <3>2. b \in DOMAIN after /\ after[b].free /\ x \in Bytes(after, b)
      BY <1>2, <2>2, <3>1
    <3> QED BY <3>2 DEF Pool
  <2> QED BY <2>1, <2>2
<1>5. Owned(after) = Owned(blocks) \cup {<<a, HeaderSize + blocks[a].size>>}
  <2>1. ASSUME NEW r \in Owned(after)
        PROVE  r \in Owned(blocks) \cup {<<a, HeaderSize + blocks[a].size>>}
    <3>1. PICK b \in DOMAIN after : ~after[b].free /\ r = <<b, HeaderSize + after[b].size>>
      BY DEF Owned
    <3>2. b \in DOMAIN blocks /\ (b = a \/ ~blocks[b].free) /\ r = <<b, HeaderSize + blocks[b].size>>
      BY <1>2, <3>1
    <3> QED BY <3>2 DEF Owned
  <2>2. ASSUME NEW r \in Owned(blocks) \cup {<<a, HeaderSize + blocks[a].size>>}
        PROVE  r \in Owned(after)
    <3>1. PICK b \in DOMAIN blocks : (b = a \/ ~blocks[b].free)
                                     /\ r = <<b, HeaderSize + blocks[b].size>>
      BY DEF Owned
    <3>2. b \in DOMAIN after /\ ~after[b].free /\ r = <<b, HeaderSize + after[b].size>>
      BY <1>2, <3>1
    <3> QED BY <3>2 DEF Owned
  <2> QED BY <2>1, <2>2
<1> QED BY <1>3, <1>4, <1>5 DEF after

\* A block freed joins it (line 198).
LEMMA FreedPool ==
  ASSUME ConstantsAssumption, NEW blocks, NEW end \in Nat, Whole(blocks, end),
         NEW a \in DOMAIN blocks, ~blocks[a].free
  PROVE  /\ Pool(Freed(blocks, a)) = Pool(blocks) \cup Bytes(blocks, a)
         /\ Owned(Freed(blocks, a)) = Owned(blocks) \ {<<a, HeaderSize + blocks[a].size>>}
         /\ <<a, HeaderSize + blocks[a].size>> \in Owned(blocks)
<1> DEFINE after == Freed(blocks, a)
<1>1. Marked(blocks, a, TRUE, after)
  BY TakenWhole DEF Freed
<1> HIDE DEF after
<1>2. /\ DOMAIN after = DOMAIN blocks
      /\ \A b \in DOMAIN blocks : Bytes(after, b) = Bytes(blocks, b)
                                  /\ after[b].size = blocks[b].size
                                  /\ (after[b].free <=> b = a \/ blocks[b].free)
  BY <1>1 DEF Marked, Bytes
<1>3. Pool(after) = Pool(blocks) \cup Bytes(blocks, a)
  <2>1. ASSUME NEW x \in Pool(after)
        PROVE  x \in Pool(blocks) \cup Bytes(blocks, a)
    <3>1. PICK b \in DOMAIN after : after[b].free /\ x \in Bytes(after, b)
      BY DEF Pool
    <3>2. b \in DOMAIN blocks /\ (b = a \/ blocks[b].free) /\ x \in Bytes(blocks, b)
      BY <1>2, <3>1
    <3> QED BY <3>2 DEF Pool
  <2>2. ASSUME NEW x \in Pool(blocks) \cup Bytes(blocks, a)
        PROVE  x \in Pool(after)
    <3>1. PICK b \in DOMAIN blocks : (b = a \/ blocks[b].free) /\ x \in Bytes(blocks, b)
      BY DEF Pool
    <3>2. b \in DOMAIN after /\ after[b].free /\ x \in Bytes(after, b)
      BY <1>2, <3>1
    <3> QED BY <3>2 DEF Pool
  <2> QED BY <2>1, <2>2
<1>4. Owned(after) = Owned(blocks) \ {<<a, HeaderSize + blocks[a].size>>}
  <2>1. ASSUME NEW r \in Owned(after)
        PROVE  r \in Owned(blocks) /\ r # <<a, HeaderSize + blocks[a].size>>
    <3>1. PICK b \in DOMAIN after : ~after[b].free /\ r = <<b, HeaderSize + after[b].size>>
      BY DEF Owned
    <3>2. b \in DOMAIN blocks /\ b # a /\ ~blocks[b].free /\ r = <<b, HeaderSize + blocks[b].size>>
      BY <1>2, <3>1
    <3> QED BY <3>2 DEF Owned
  <2>2. ASSUME NEW r \in Owned(blocks), r # <<a, HeaderSize + blocks[a].size>>
        PROVE  r \in Owned(after)
    <3>1. PICK b \in DOMAIN blocks : ~blocks[b].free /\ r = <<b, HeaderSize + blocks[b].size>>
      BY DEF Owned
    <3>2. b \in DOMAIN after /\ ~after[b].free /\ r = <<b, HeaderSize + after[b].size>>
      BY <1>2, <2>2, <3>1
    <3> QED BY <3>2 DEF Owned
  <2> QED BY <2>1, <2>2
<1>5. <<a, HeaderSize + blocks[a].size>> \in Owned(blocks)
  BY DEF Owned
<1> QED BY <1>3, <1>4, <1>5 DEF after

\* Of a block cut in two the first part leaves the pool (line 154, 172).
LEMMA SplitPool ==
  ASSUME ConstantsAssumption, NEW blocks, NEW end \in Nat, Whole(blocks, end),
         NEW a \in DOMAIN blocks, blocks[a].free,
         NEW size \in Nat, size + HeaderSize <= blocks[a].size
  PROVE  LET granted == a .. (a + (size + HeaderSize) - 1)
             cut == vmm_malloc_split(blocks, a, size)
         IN  /\ Pool(cut) = Pool(blocks) \ granted
             /\ Owned(cut) = Owned(blocks) \cup {<<a, HeaderSize + size>>}
             /\ granted \subseteq Pool(blocks) /\ a \in granted
<1> DEFINE granted == a .. (a + (size + HeaderSize) - 1)
           cut == vmm_malloc_split(blocks, a, size)
           new == a + HeaderSize + size
<1>1. CutInTwo(blocks, a, size, cut, new)
  BY SplitIs DEF Whole
<1>2. /\ Whole(cut, end) /\ new \notin DOMAIN blocks
      /\ After(cut, a) = new /\ After(cut, new) = After(blocks, a)
  BY SplitWhole
<1>3. /\ a \in Nat /\ HeaderSize \in Nat \ {0} /\ blocks[a].size \in Nat
      /\ After(blocks, a) = a + HeaderSize + blocks[a].size
  BY Numbers
<1>4. /\ \A x : x \in granted <=> x \in Int /\ a <= x /\ x < new
      /\ new \in Nat /\ a < new /\ new < After(blocks, a)
  BY <1>3
<1> HIDE DEF granted, cut, new
<1>5. /\ DOMAIN cut = DOMAIN blocks \cup {new} /\ a # new /\ a \in DOMAIN cut
      /\ cut[a].size = size /\ ~cut[a].free /\ cut[new].free
      /\ \A b \in DOMAIN blocks \ {a} : cut[b] = blocks[b]
  BY <1>1, <1>2 DEF CutInTwo, Header
<1>6. \A b \in DOMAIN blocks \ {a} : Bytes(cut, b) = Bytes(blocks, b)
  BY <1>5 DEF Bytes
<1>7. \A x : x \in Bytes(blocks, a) <=> x \in granted \/ x \in Bytes(cut, new)
  <2>1. \A x : x \in Bytes(blocks, a) <=> x \in Int /\ a <= x /\ x < After(blocks, a)
    BY InBytes
  <2>2. \A x : x \in Bytes(cut, new) <=> x \in Int /\ new <= x /\ x < After(blocks, a)
    BY <1>2, <1>5, InBytes
  <2>3. After(blocks, a) \in Nat
    BY <1>3
  <2> QED BY <1>3, <1>4, <2>1, <2>2, <2>3
<1>8. \A x : ~(x \in granted /\ x \in Bytes(cut, new))
  <2>1. \A x : x \in Bytes(cut, new) => x \in Int /\ new <= x
    BY <1>2, <1>5, InBytes
  <2> QED BY <1>4, <2>1
<1>9. granted \subseteq Pool(blocks)
  BY <1>7 DEF Pool
<1>10. Pool(cut) = Pool(blocks) \ granted
  <2>1. ASSUME NEW x \in Pool(cut)
        PROVE  x \in Pool(blocks) /\ x \notin granted
    <3>1. PICK b \in DOMAIN cut : cut[b].free /\ x \in Bytes(cut, b)
      BY DEF Pool
    <3>2. CASE b = new
      <4>1. x \in Bytes(blocks, a) /\ x \notin granted
        BY <1>7, <1>8, <3>1, <3>2
      <4> QED BY <4>1 DEF Pool
    <3>3. CASE b # new
      <4>1. b \in DOMAIN blocks /\ b # a /\ blocks[b].free /\ x \in Bytes(blocks, b)
        BY <1>5, <1>6, <3>1, <3>3
      <4>2. x \notin Bytes(blocks, a)
        BY <4>1, Disjoint
      <4> QED BY <1>7, <4>1, <4>2 DEF Pool
    <3> QED BY <3>2, <3>3
  <2>2. ASSUME NEW x \in Pool(blocks), x \notin granted
        PROVE  x \in Pool(cut)
    <3>1. PICK b \in DOMAIN blocks : blocks[b].free /\ x \in Bytes(blocks, b)
      BY DEF Pool
    <3>2. CASE b = a
      <4>1. x \in Bytes(cut, new) /\ new \in DOMAIN cut
        BY <1>5, <1>7, <2>2, <3>1, <3>2
      <4> QED BY <1>5, <4>1 DEF Pool
    <3>3. CASE b # a
      <4>1. b \in DOMAIN cut /\ cut[b].free /\ x \in Bytes(cut, b)
        BY <1>5, <1>6, <3>1, <3>3
      <4> QED BY <4>1 DEF Pool
    <3> QED BY <3>2, <3>3
  <2> QED BY <2>1, <2>2
<1>11. Owned(cut) = Owned(blocks) \cup {<<a, HeaderSize + size>>}
  <2>1. ASSUME NEW r \in Owned(cut)
        PROVE  r \in Owned(blocks) \cup {<<a, HeaderSize + size>>}
    <3>1. PICK b \in DOMAIN cut : ~cut[b].free /\ r = <<b, HeaderSize + cut[b].size>>
      BY DEF Owned
    <3>2. CASE b = a
      BY <1>5, <3>1, <3>2
    <3>3. CASE b # a
      <4>1. b \in DOMAIN blocks /\ cut[b] = blocks[b]
        BY <1>5, <3>1, <3>3
      <4> QED BY <3>1, <4>1 DEF Owned
    <3> QED BY <3>2, <3>3
  <2>2. ASSUME NEW r \in Owned(blocks)
        PROVE  r \in Owned(cut)
    <3>1. PICK b \in DOMAIN blocks : ~blocks[b].free /\ r = <<b, HeaderSize + blocks[b].size>>
      BY DEF Owned
    <3>2. b \in DOMAIN cut /\ cut[b] = blocks[b]
      BY <1>5, <3>1
    <3> QED BY <3>1, <3>2 DEF Owned
  <2>3. <<a, HeaderSize + size>> \in Owned(cut)
    BY <1>5 DEF Owned
  <2> QED BY <2>1, <2>2, <2>3
<1>12. a \in granted
  BY <1>3, <1>4
<1> QED BY <1>9, <1>10, <1>11, <1>12 DEF granted, cut

\* Two free blocks made one are the same bytes of the pool (lines 201-211).
LEMMA AbsorbPool ==
  ASSUME ConstantsAssumption, NEW blocks, NEW end \in Nat, Whole(blocks, end),
         NEW a \in DOMAIN blocks, blocks[a].next # 0, blocks[a].free,
         blocks[blocks[a].next].free
  PROVE  /\ Pool(Absorb(blocks, a)) = Pool(blocks)
         /\ Owned(Absorb(blocks, a)) = Owned(blocks)
<1> DEFINE next == blocks[a].next
           one == Absorb(blocks, a)
<1>1. Whole(one, end) /\ MadeOne(blocks, a, next, one) /\ blocks[next].free
  BY AbsorbWhole
<1> HIDE DEF next, one
<1>2. /\ next \in DOMAIN blocks /\ a # next /\ DOMAIN one = DOMAIN blocks \ {next}
      /\ one[a].free /\ a \in DOMAIN one
      /\ After(blocks, a) = next /\ After(one, a) = After(blocks, next)
      /\ \A b \in DOMAIN blocks \ {a, next} : one[b] = blocks[b]
  BY <1>1 DEF MadeOne
<1>3. \A x : x \in Bytes(one, a) <=> x \in Bytes(blocks, a) \/ x \in Bytes(blocks, next)
  <2>1. \A x : x \in Bytes(one, a) <=> x \in Int /\ a <= x /\ x < After(blocks, next)
    BY <1>1, <1>2, InBytes
  <2>2. \A x : x \in Bytes(blocks, a) <=> x \in Int /\ a <= x /\ x < next
    BY <1>2, InBytes
  <2>3. \A x : x \in Bytes(blocks, next) <=> x \in Int /\ next <= x /\ x < After(blocks, next)
    BY <1>2, InBytes
  <2>4. a \in Nat /\ next \in Nat /\ After(blocks, next) \in Nat
        /\ a < next /\ next < After(blocks, next)
    <3>1. a < After(blocks, a)
      BY Numbers
    <3> QED BY <1>2, <3>1, Numbers
  <2> QED BY <2>1, <2>2, <2>3, <2>4
<1>4. \A b \in DOMAIN blocks \ {a, next} : Bytes(one, b) = Bytes(blocks, b)
  BY <1>2 DEF Bytes
<1>5. Pool(one) = Pool(blocks)
  <2>1. ASSUME NEW x \in Pool(one)
        PROVE  x \in Pool(blocks)
    <3>1. PICK b \in DOMAIN one : one[b].free /\ x \in Bytes(one, b)
      BY DEF Pool
    <3>2. CASE b = a
      BY <1>1, <1>2, <1>3, <3>1, <3>2 DEF Pool
    <3>3. CASE b # a
      BY <1>2, <1>4, <3>1, <3>3 DEF Pool
    <3> QED BY <3>2, <3>3
  <2>2. ASSUME NEW x \in Pool(blocks)
        PROVE  x \in Pool(one)
    <3>1. PICK b \in DOMAIN blocks : blocks[b].free /\ x \in Bytes(blocks, b)
      BY DEF Pool
    <3>2. CASE b \in {a, next}
      BY <1>2, <1>3, <3>1, <3>2 DEF Pool
    <3>3. CASE b \notin {a, next}
      BY <1>2, <1>4, <3>1, <3>3 DEF Pool
    <3> QED BY <3>2, <3>3
  <2> QED BY <2>1, <2>2
<1>6. Owned(one) = Owned(blocks)
  <2>1. \A b : b \in DOMAIN one /\ ~one[b].free <=> b \in DOMAIN blocks /\ ~blocks[b].free
    BY <1>1, <1>2
  <2>2. \A b \in DOMAIN blocks : ~blocks[b].free => one[b] = blocks[b]
    BY <1>1, <1>2
  <2>3. {b \in DOMAIN one : ~one[b].free} = {b \in DOMAIN blocks : ~blocks[b].free}
    BY <2>1
  <2> QED BY <2>2, <2>3 DEF Owned
<1> QED BY <1>5, <1>6 DEF one

\* The last block made larger adds what was mapped to the pool (line 170).
LEMMA GrownPool ==
  ASSUME ConstantsAssumption, NEW blocks, NEW end \in Nat, Whole(blocks, end),
         NEW a \in DOMAIN blocks, blocks[a].next = 0, blocks[a].free, NEW more \in Nat
  PROVE  /\ Pool(blocks) \subseteq Pool([blocks EXCEPT ![a].size = @ + more])
         /\ Owned([blocks EXCEPT ![a].size = @ + more]) = Owned(blocks)
<1> DEFINE grown == [blocks EXCEPT ![a].size = @ + more]
<1>1. /\ DOMAIN grown = DOMAIN blocks
      /\ \A b \in DOMAIN blocks \ {a} : grown[b] = blocks[b]
  OBVIOUS
<1>2. /\ grown[a].free /\ Whole(grown, end + more) /\ end + more \in Nat
      /\ After(grown, a) = After(blocks, a) + more
  <2>1. grown[a] = [blocks[a] EXCEPT !.size = @ + more]
    OBVIOUS
  <2>2. blocks[a] \in [size : Nat, free : BOOLEAN, next : DOMAIN blocks \cup {0}]
    BY DEF Whole, Typed
  <2>3. grown[a].free
    BY <2>1, <2>2
  <2>4. end + more \in Nat
    OBVIOUS
  <2> QED BY <2>3, <2>4, GrownWhole
<1> HIDE DEF grown
<1>3. Bytes(blocks, a) \subseteq Bytes(grown, a)
  <2>1. \A x : x \in Bytes(blocks, a) <=> x \in Int /\ a <= x /\ x < After(blocks, a)
    BY InBytes
  <2>2. \A x : x \in Bytes(grown, a) <=> x \in Int /\ a <= x /\ x < After(grown, a)
    BY <1>1, <1>2, InBytes
  <2>3. After(blocks, a) \in Nat
    BY Numbers
  <2>4. \A x \in Int : x < After(blocks, a) => x < After(grown, a)
    BY <1>2, <2>3
  <2> QED BY <2>1, <2>2, <2>4
<1>4. \A b \in DOMAIN blocks \ {a} : Bytes(grown, b) = Bytes(blocks, b)
  BY <1>1 DEF Bytes
<1>5. ASSUME NEW x \in Pool(blocks)
      PROVE  x \in Pool(grown)
  <2>1. PICK b \in DOMAIN blocks : blocks[b].free /\ x \in Bytes(blocks, b)
    BY DEF Pool
  <2>2. b \in DOMAIN grown /\ grown[b].free /\ x \in Bytes(grown, b)
    BY <1>1, <1>2, <1>3, <1>4, <2>1
  <2> QED BY <2>2 DEF Pool
<1>6. Owned(grown) = Owned(blocks)
  <2>1. {b \in DOMAIN grown : ~grown[b].free} = {b \in DOMAIN blocks : ~blocks[b].free}
    BY <1>1, <1>2
  <2>2. \A b \in {b \in DOMAIN blocks : ~blocks[b].free} : grown[b] = blocks[b]
    BY <1>1
  <2> QED BY <2>1, <2>2 DEF Owned
<1> QED BY <1>5, <1>6 DEF grown

\* The pool and what is owned, as the contract names them.
LEMMA Names ==
  /\ UNION {Extent(a) : a \in DOMAIN block \ Used} = Pool(block)
  /\ (UNION {Extent(a) : a \in DOMAIN block \ Used})' = Pool(block')
  /\ {<<a, HeaderSize + block[a].size>> : a \in Used} = Owned(block)
  /\ ({<<a, HeaderSize + block[a].size>> : a \in Used})' = Owned(block')
<1>1. DOMAIN block \ Used = {a \in DOMAIN block : block[a].free}
  BY DEF Used
<1>2. (DOMAIN block \ Used)' = {a \in DOMAIN block' : block'[a].free}
  BY DEF Used
<1>3. UNION {Extent(a) : a \in DOMAIN block \ Used} = Pool(block)
  BY <1>1 DEF Pool, Bytes, Extent
<1>4. (UNION {Extent(a) : a \in DOMAIN block \ Used})' = Pool(block')
  BY <1>2 DEF Pool, Bytes, Extent
<1>5. {<<a, HeaderSize + block[a].size>> : a \in Used} = Owned(block)
  BY DEF Owned, Used
<1>6. ({<<a, HeaderSize + block[a].size>> : a \in Used})' = Owned(block')
  BY DEF Owned, Used
<1> QED BY <1>3, <1>4, <1>5, <1>6

\* Bytes are added to the pool.
LEMMA Releases ==
  ASSUME ConstantsAssumption, NEW pages \in 0 .. MaxPages,
         Whole(block', malloc_vaddr + pages * VMM_PAGE_SIZE),
         Pool(block) \subseteq Pool(block'), Owned(block') = Owned(block)
  PROVE  HeapAllocator!Next
<1>1. /\ Pool(block') \subseteq malloc_vaddr .. (malloc_vaddr + MaxPages * VMM_PAGE_SIZE - 1)
      /\ 0 \notin Pool(block')
      /\ \A r \in Owned(block'), x \in Pool(block') : x \notin r[1] .. (r[1] + r[2] - 1)
  BY PoolInside
<1>2. HeapAllocator!OwnedBlocks = UNION {r[1] .. (r[1] + r[2] - 1) : r \in Owned(block)}
  BY Names DEF HeapAllocator!OwnedBlocks, HeapAllocator!Run
<1>3. \A x \in Pool(block') : x \notin HeapAllocator!OwnedBlocks
  BY <1>1, <1>2
<1>4. HeapAllocator!Release
  BY <1>1, <1>3, Names DEF HeapAllocator!Release
<1> QED BY <1>4 DEF HeapAllocator!Next

\* Bytes in a row leave it for a caller.
LEMMA Grants ==
  ASSUME ConstantsAssumption, NEW size \in Sizes, NEW a,
         LET granted == a .. (a + (size + HeaderSize) - 1)
         IN  /\ Pool(block') = Pool(block) \ granted
             /\ granted \subseteq Pool(block) /\ a \in granted,
         Owned(block') = Owned(block) \cup {<<a, HeaderSize + size>>}
  PROVE  HeapAllocator!Next
<1> DEFINE n == size + HeaderSize
<1>1. n \in {s + HeaderSize : s \in Sizes} /\ n = HeaderSize + size
  BY DEF ConstantsAssumption
<1> HIDE DEF n
<1>2. HeapAllocator!Run(a, n) = a .. (a + n - 1)
  BY DEF HeapAllocator!Run
<1>3. /\ Pool(block') = Pool(block) \ (a .. (a + n - 1))
      /\ a .. (a + n - 1) \subseteq Pool(block) /\ a \in Pool(block)
      /\ Owned(block') = Owned(block) \cup {<<a, n>>}
  BY <1>1 DEF n
<1>4. HeapAllocator!Grant(n)
  BY <1>2, <1>3, Names DEF HeapAllocator!Grant
<1> QED BY <1>1, <1>4 DEF HeapAllocator!Next

\* A caller's bytes return to it.
LEMMA GivesBack ==
  ASSUME NEW r \in Owned(block), Owned(block') = Owned(block) \ {r},
         Pool(block') = Pool(block) \cup (r[1] .. (r[1] + r[2] - 1))
  PROVE  HeapAllocator!Next
<1>1. HeapAllocator!GiveBack(r)
  BY Names DEF HeapAllocator!GiveBack, HeapAllocator!Run
<1> QED BY <1>1, Names DEF HeapAllocator!Next

\* The steps of the heap that keep the list whole are steps of the contract.
LEMMA ContractStep ==
  ASSUME ConstantsAssumption, Inv, Next, IntactStep
  PROVE  HeapAllocator!Next \/ block' = block
<1> USE DEF IntactStep
<1>1. ASSUME NEW size \in InitSizes, vmm_malloc_init(size)
      PROVE  HeapAllocator!Next
  <2>1. Inv'
    BY <1>1, Initialised
  <2>2. DOMAIN block = {} /\ pc' = "idle" /\ state' = "ok"
    BY <1>1 DEF vmm_malloc_init, Inv, Intact, InvOff
  <2>3. Whole(block', End') /\ total_malloc_pages' \in 0 .. MaxPages
    BY <2>1, <2>2 DEF Inv, Intact, InvList, TypeOK
  <2>4. Pool(block) = {} /\ Owned(block) = {}
    BY <2>2 DEF Pool, Owned
  <2>5. Owned(block') = {}
    <3>1. /\ block' = Put(block, malloc_head,
                          Header(PagesFor(size) * VMM_PAGE_SIZE - HeaderSize, TRUE, 0))
      BY <1>1 DEF vmm_malloc_init
    <3>2. \A a \in DOMAIN block' : block'[a].free
      BY <2>2, <3>1 DEF Put, Header
    <3> QED BY <3>2 DEF Owned
  <2>6. End' = malloc_vaddr + total_malloc_pages' * VMM_PAGE_SIZE
    BY DEF End
  <2> QED BY <2>3, <2>4, <2>5, <2>6, Releases
<1>2. ASSUME NEW size \in Sizes, TakeBlock(size)
      PROVE  HeapAllocator!Next
  <2> DEFINE a == Found(size)
  <2>1. /\ state = "ok" /\ pc = "idle" /\ End \in Nat /\ Whole(block, End) /\ size \in Nat
    BY <1>2, Quiet DEF TakeBlock, At, ConstantsAssumption
  <2>2. a \in DOMAIN block
    BY <2>1, FoundIs
  <2>3. block[a].size \in Nat /\ HeaderSize \in Nat
    BY <2>1, <2>2, Numbers
  <2>4. /\ \/ block[a].size = size /\ block' = Taken(block, a)
           \/ size + HeaderSize <= block[a].size /\ block' = vmm_malloc_split(block, a, size)
        /\ block[a].free
    BY <1>2, <2>1, <2>3 DEF TakeBlock, Taken
  <2> HIDE DEF a
  <2>5. CASE block[a].size = size /\ block' = Taken(block, a)
    <3>1. /\ Pool(block') = Pool(block) \ Bytes(block, a)
          /\ Owned(block') = Owned(block) \cup {<<a, HeaderSize + size>>}
          /\ Bytes(block, a) \subseteq Pool(block)
      BY <2>1, <2>2, <2>4, <2>5, TakenPool
    <3>2. Bytes(block, a) = a .. (a + (size + HeaderSize) - 1) /\ a \in Bytes(block, a)
      BY <2>1, <2>2, <2>5, InBytes
    <3> QED BY <3>1, <3>2, Grants
  <2>6. CASE size + HeaderSize <= block[a].size /\ block' = vmm_malloc_split(block, a, size)
    BY <2>1, <2>2, <2>4, <2>6, SplitPool, Grants
  <2> QED BY <2>4, <2>5, <2>6
<1>3. ASSUME NEW size \in Sizes, GrowHeap(size)
      PROVE  HeapAllocator!Next
  <2> DEFINE a == Found(size)
             n == AdditionalPages(a, size)
             more == n * VMM_PAGE_SIZE
  <2>1. Inv'
    BY <1>3, Grew
  <2>2. /\ state = "ok" /\ pc = "idle" /\ End \in Nat /\ Whole(block, End) /\ size \in Nat
    BY <1>3, Quiet DEF GrowHeap, At, ConstantsAssumption
  <2>3. a \in DOMAIN block
    BY <2>2, FoundIs
  <2>4. block[a].size \in Nat
    BY <2>2, <2>3, Numbers
  <2>5. n \in Nat
    BY <2>2, <2>3, <2>4, PagesSuffice
  <2>6. /\ block[a].free /\ pc' = "cut" /\ cur' = a
        /\ block' = [block EXCEPT ![a].size = @ + more]
    BY <1>3 DEF GrowHeap
  <2> HIDE DEF a, n
  <2>7. more \in Nat
    BY <2>5, PagesAdd
  <2> HIDE DEF more
  <2>8. block[a].next = 0
    <3>1. block'[a] = [block[a] EXCEPT !.size = @ + more]
      BY <2>3, <2>6
    <3>2. block[a] \in [size : Nat, free : BOOLEAN, next : DOMAIN block \cup {0}]
      BY <2>2, <2>3 DEF Whole, Typed
    <3>3. block'[a].next = block[a].next
      BY <3>1, <3>2
    <3>4. block'[a].next = 0
      BY <2>6
    <3> QED BY <3>3, <3>4
  <2>9. Pool(block) \subseteq Pool(block') /\ Owned(block') = Owned(block)
    BY <2>2, <2>3, <2>6, <2>7, <2>8, GrownPool
  <2>10. Whole(block', End') /\ total_malloc_pages' \in 0 .. MaxPages
    BY <2>1, <2>6 DEF Inv, Intact, InvCut, TypeOK
  <2>11. End' = malloc_vaddr + total_malloc_pages' * VMM_PAGE_SIZE
    BY DEF End
  <2> QED BY <2>9, <2>10, <2>11, Releases
<1>4. CASE CutGrown
  <2>1. /\ state = "ok" /\ pc = "cut" /\ End \in Nat /\ request \in Sizes /\ request \in Nat
        /\ cur \in DOMAIN block /\ block[cur].free
        /\ block[cur].next = 0 => Whole(block, End)
    BY <1>4, EndIs DEF CutGrown, At, Inv, Intact, InvCur, InvCut, ConstantsAssumption
  <2>2. /\ block' = vmm_malloc_split(block, cur, request)
        /\ block[cur].next = 0 /\ ~(block[cur].size < request + HeaderSize)
    BY <1>4 DEF CutGrown
  <2>3. block[cur].size \in Nat /\ HeaderSize \in Nat
    BY <2>1, <2>2, Numbers
  <2>4. request + HeaderSize <= block[cur].size
    BY <2>1, <2>2, <2>3
  <2> QED BY <2>1, <2>2, <2>4, SplitPool, Grants
<1>5. CASE CutNew
  BY <1>5 DEF CutNew
<1>6. ASSUME NEW l \in live, vmm_malloc_free(l[1], l[2])
      PROVE  HeapAllocator!Next \/ block' = block
  <2> DEFINE a == l[1]
             freed == Freed(block, a)
  <2>1. /\ state = "ok" /\ pc = "idle" /\ a \in DOMAIN block /\ ~block[a].free
        /\ \/ block' = block
           \/ block' = freed
           \/ /\ block[a].next # 0 /\ cur' \in DOMAIN block
              /\ block[cur'].next = a /\ block[cur'].free
              /\ block' = Absorb(freed, cur')
    BY <1>6, FreeCases
  <2>2. End \in Nat /\ Whole(block, End)
    BY <2>1, Quiet
  <2>3. /\ Pool(freed) = Pool(block) \cup Bytes(block, a)
        /\ Owned(freed) = Owned(block) \ {<<a, HeaderSize + block[a].size>>}
        /\ <<a, HeaderSize + block[a].size>> \in Owned(block)
    BY <2>1, <2>2, FreedPool
  <2>4. Whole(freed, End) /\ Marked(block, a, TRUE, freed)
    BY <2>1, <2>2, TakenWhole DEF Freed
  <2> HIDE DEF freed, a
  <2>5. ASSUME Pool(block') = Pool(freed), Owned(block') = Owned(freed)
        PROVE  HeapAllocator!Next
    <3> DEFINE r == <<a, HeaderSize + block[a].size>>
    <3>1. r[1] .. (r[1] + r[2] - 1) = Bytes(block, a)
      <4>1. r[1] = a /\ r[2] = HeaderSize + block[a].size
        OBVIOUS
      <4>2. a \in Nat /\ block[a].size \in Nat /\ HeaderSize \in Nat
        BY <2>1, <2>2, Numbers
      <4> HIDE DEF r
      <4>3. r[1] + r[2] - 1 = a + HeaderSize + block[a].size - 1
        BY <4>1, <4>2
      <4> QED BY <4>1, <4>3 DEF Bytes
    <3>2. r \in Owned(block) /\ Owned(block') = Owned(block) \ {r}
      BY <2>3, <2>5
    <3>3. Pool(block') = Pool(block) \cup (r[1] .. (r[1] + r[2] - 1))
      BY <2>3, <2>5, <3>1
    <3> HIDE DEF r
    <3> QED BY <3>2, <3>3, GivesBack
  <2>6. CASE block' = freed
    BY <2>5, <2>6
  <2>7. CASE /\ block[a].next # 0 /\ cur' \in DOMAIN block
             /\ block[cur'].next = a /\ block[cur'].free
             /\ block' = Absorb(freed, cur')
    <3>1. /\ cur' \in DOMAIN freed /\ freed[cur'].next = a /\ freed[cur'].free
          /\ freed[a].free /\ a # 0
      <4>1. a # 0
        BY <2>1, <2>2, Numbers
      <4> QED BY <2>1, <2>4, <2>7, <4>1 DEF Marked
    <3>2. Pool(block') = Pool(freed) /\ Owned(block') = Owned(freed)
      BY <2>2, <2>4, <2>7, <3>1, AbsorbPool
    <3> QED BY <2>5, <3>2
  <2> QED BY <2>1, <2>6, <2>7
<1>7. CASE MergeNext
  <2>1. /\ state = "ok" /\ pc = "merge" /\ End \in Nat /\ Whole(block, End)
        /\ cur \in DOMAIN block /\ block[cur].free
    BY <1>7, Quiet DEF MergeNext, At, Inv, Intact, InvCur
  <2>2. \/ block' = block
        \/ /\ block[cur].next # 0 /\ block[block[cur].next].free
           /\ block' = Absorb(block, cur)
    BY <1>7 DEF MergeNext, Mergeable
  <2>3. CASE /\ block[cur].next # 0 /\ block[block[cur].next].free
             /\ block' = Absorb(block, cur)
    <3>1. Pool(block') = Pool(block) /\ Owned(block') = Owned(block)
      BY <2>1, <2>3, AbsorbPool
    <3>2. Whole(block', End)
      BY <2>1, <2>3, AbsorbWhole
    <3>3. total_malloc_pages \in 0 .. MaxPages
      BY DEF Inv, TypeOK
    <3>4. End = malloc_vaddr + total_malloc_pages * VMM_PAGE_SIZE
      BY DEF End
    <3> QED BY <3>1, <3>2, <3>3, <3>4, Releases
  <2> QED BY <2>2, <2>3
<1>8. CASE vmm_malloc_defrag
  BY <1>8 DEF vmm_malloc_defrag
<1>9. CASE DefragStep
  BY <1>9, DefragFinds
<1> QED BY <1>1, <1>2, <1>3, <1>4, <1>5, <1>6, <1>7, <1>8, <1>9 DEF Next

\* No step hands out what is in use, but that of the last block as line 150 leaves
\* it; and while the list stays whole each step is one of an allocator: pages add
\* bytes to the pool, a block taken is granted from it, a free returns what was
\* granted (lines 121-216).
THEOREM HeapStepsRight == ConstantsAssumption => (Spec => HeapSteps)
<1> SUFFICES ASSUME ConstantsAssumption
             PROVE  Spec => HeapSteps
  OBVIOUS
<1>1. Inv /\ [Next]_vars =>
        [state' = "handed_out_twice" =>
           \E last \in Used : /\ block[last].next = 0
                              /\ \A b \in Used \ {last} : block'[b] = block[b]
                              /\ \A f \in DOMAIN block \ Used : block[f].size < block[last].size]_vars
  BY TwiceStep
<1>2. Inv /\ [Next]_vars => [IntactStep => HeapAllocator!Next]_block
  BY ContractStep DEF vars
<1> QED BY <1>1, <1>2, Invariance, PTL DEF Spec, HeapSteps, TwiceOnlyFromLast, KeepsContract

===============================================================================
