---------------------- MODULE VirtualMemoryManagerProofs ----------------------
(***************************************************************************)
(* Proofs about paging, for every memory, set of pages and devices.  The   *)
(* inductive invariant Inv adds to PagesRight what the code keeps in mind  *)
(* without a variable: who holds the block of a page table, what a page    *)
(* that is not in use looks like, which entries keep the top bit, and what *)
(* a caller may do with the block it was given before it has mapped it.    *)
(* Frames some page led to by mistake are excepted throughout.             *)
(***************************************************************************)
EXTENDS VirtualMemoryManager, TLAPS

\* A block that was given out is not free, was given out once, and is no device.
OwnedNotFree == \A r \in owned : Run(r[1], r[2]) \cap pool \subseteq shadowed

OwnedDisjoint ==
  \A r, s \in owned : r # s => Run(r[1], r[2]) \cap Run(s[1], s[2]) \subseteq shadowed

NoDevices ==
  /\ pool \cap Devices \subseteq shadowed
  /\ \A r \in owned : Run(r[1], r[2]) \cap Devices \subseteq shadowed

\* A page table is a block the physical memory manager gave out, in reach of
\* the identity map, and the table of one directory entry.
TablesOwned ==
  \A d \in Directories : directory[d] # 0 =>
    <<directory[d], 1>> \in owned /\ directory[d] < IdentityBlocks

TablesOnce ==
  \A d, e \in Directories : directory[d] # 0 /\ directory[d] = directory[e] => d = e

PlacesRight ==
  OwnedNotFree /\ OwnedDisjoint /\ NoDevices /\ TablesOnce /\ TablesOwned

\* A block no page was led to by mistake.
Sound(frame) == frame \in Blocks \ (Devices \cup shadowed)

\* A block under a page is owned, under no other page, and no table.
MappedRight ==
  \A v \in Pages : Sound(Translation(v)) =>
    /\ <<Translation(v), 1>> \in owned
    /\ \A w \in Pages : Translation(v) = Translation(w) => v = w
    /\ \A d \in Directories : directory[d] # Translation(v)

\* The top bit is in the entries of pages that were given a frame with it.
HighKept ==
  \A v \in Pages : directory[v[1]] # 0 /\ Entry(v).frame >= TopBit => v \in high

\* Where a page leads by mistake is remembered, above the top bit, and so is
\* what was freed behind the bitmap.
AstrayNoted ==
  \A v \in Pages : Translation(v) \notin {NoFrame, asked[v]} => Translation(v) \in shadowed

ShadowedHigh == \A frame \in shadowed : frame >= TopBit

StrayNoted == stray \subseteq shadowed

\* A caller is between vmm_allocate_page and vmm_map_page of page v.
Pending(v) == \E block \in Blocks \cup {0} : allocated = <<v, block>>

\* A page the callers use as memory is mapped, to a block that was free; one
\* they do not use is not.
UseRight ==
  \A v \in Pages :
    /\ use[v] = "memory" =>
         /\ Translation(v) # NoFrame /\ asked[v] \in Blocks
         /\ asked[v] \in Devices => asked[v] \in shadowed
    /\ use[v] \in {"none", "lost"} /\ ~Pending(v) => Translation(v) = NoFrame

\* The block between vmm_allocate_page and vmm_map_page belongs to that page.
PendingRight ==
  \A v \in Pages, block \in Blocks \cup {0} :
    allocated = <<v, block>> =>
      /\ use[v] = "none" /\ asked[v] = block
      /\ block \in Devices => block \in shadowed
      /\ Sound(block) =>
           /\ <<block, 1>> \in owned
           /\ \A d \in Directories : directory[d] # block
           /\ \A w \in Pages \ {v} : Translation(w) # block

Inv ==
  /\ TypeOK /\ MappedAsAsked /\ StaleOnlyUnflushed
  /\ PlacesRight /\ MappedRight
  /\ HighKept /\ AstrayNoted /\ ShadowedHigh /\ StrayNoted
  /\ UseRight /\ PendingRight

------------------------------------------------------------------------------
(***************************************************************************)
(* Blocks, pages and entries.                                              *)
(***************************************************************************)
PageEntries == [present : BOOLEAN, frame : Nat]

\* What the constants are, in the form the proofs below use.
LEMMA ConstantTypes ==
  /\ TopBit \in Nat \ {0} /\ IdentityBlocks \in Nat \ {0} /\ IdentityBlocks <= TopBit
  /\ \A b \in Blocks : b \in Nat /\ b # 0
  /\ \A frame \in Devices : frame \in Nat /\ frame # 0
  /\ \A v \in Pages : v[1] \in Directories /\ v[2] \in Indexes
BY ConstantsAssumption DEF Directories, Indexes

\* Two pages differ in their directory index or in their table index.
LEMMA PagesDiffer ==
  ASSUME NEW v \in Pages, NEW w \in Pages, v # w, v[1] = w[1]
  PROVE  v[2] # w[2]
<1>1. v \in (Nat \ {0}) \X Nat /\ w \in (Nat \ {0}) \X Nat
  BY ConstantsAssumption
<1>2. v = <<v[1], v[2]>> /\ w = <<w[1], w[2]>>
  BY <1>1
<1>3. QED
  BY <1>2

\* A run of one block is that block.
LEMMA RunOfOne == \A b \in Nat : Run(b, 1) = {b}
<1>1. ASSUME NEW b \in Nat
      PROVE  b .. (b + 1 - 1) = {b}
  OBVIOUS
<1>2. QED
  BY <1>1 DEF Run

\* pmm_allocate_blocks finds nothing, or a run of free blocks, none of them
\* block 0 (physical_memory_manager.c:71-85).
LEMMA AllocationIsFree ==
  ASSUME pool \subseteq Blocks, NEW n \in {1, 3},
         NEW block \in pmm_allocate_blocks(pool, n)
  PROVE  /\ block \in Blocks \cup {0} /\ block \in Nat
         /\ block # 0 =>
              block \in pool /\ block \in Blocks /\ Run(block, n) \subseteq pool
BY ConstantTypes DEF pmm_allocate_blocks, FreeRuns

\* VMM_SET_FRAME writes the frame, or below the top bit the frame and the bit
\* that was there; written twice it changes nothing
\* (virtual_memory_manager.h:14).
LEMMA SetFrameResult ==
  ASSUME NEW e \in PageEntries, NEW frame \in Nat
  PROVE  /\ SetFrame(e, frame) \in PageEntries
         /\ SetFrame(e, frame).present = e.present
         /\ \/ SetFrame(e, frame).frame = frame
            \/ /\ e.frame >= TopBit /\ frame < TopBit
               /\ SetFrame(e, frame).frame = frame + TopBit
         /\ e.frame = 0 => SetFrame(e, frame).frame = frame
         /\ e.frame = frame \/ (frame < TopBit /\ e.frame = frame + TopBit)
              => SetFrame(e, frame).frame = e.frame
<1>1. SetFrame(e, frame) \in PageEntries
  BY ConstantTypes DEF SetFrame, PageEntries
<1>2. SetFrame(e, frame).present = e.present
  BY DEF SetFrame, PageEntries
<1>3. SetFrame(e, frame).frame
        = IF e.frame >= TopBit /\ frame < TopBit THEN frame + TopBit ELSE frame
  BY DEF SetFrame, PageEntries
<1>4. e.frame \in Nat
  BY DEF PageEntries
<1>5. QED
  BY <1>1, <1>2, <1>3, <1>4, ConstantTypes

\* The present bit.
LEMMA PresentResult ==
  ASSUME NEW e \in PageEntries
  PROVE  /\ Present(e) \in PageEntries /\ NotPresent(e) \in PageEntries
         /\ Present(e).present /\ ~NotPresent(e).present
         /\ Present(e).frame = e.frame /\ NotPresent(e).frame = e.frame
BY DEF Present, NotPresent, PageEntries

\* The entry of a page, and what the tables say of the page, have their types.
LEMMA EntryType ==
  ASSUME TypeOK, NEW v \in Pages
  PROVE  /\ Entry(v) \in PageEntries
         /\ directory[v[1]] \in Blocks \cup {0}
         /\ Translation(v) \in Nat \cup {NoFrame}
         /\ Entry(v) = tables[directory[v[1]]][v[2]]
<1>1. directory[v[1]] \in Blocks \cup {0}
  BY ConstantTypes DEF TypeOK
<1>2. Entry(v) = tables[directory[v[1]]][v[2]]
  BY DEF Entry, vmm_get_page
<1>3. Entry(v) \in PageEntries
  BY <1>1, <1>2, ConstantTypes DEF TypeOK, PageEntries
<1>4. Entry(v).frame \in Nat
  BY <1>3 DEF PageEntries
<1>5. QED
  BY <1>1, <1>2, <1>3, <1>4 DEF Translation

------------------------------------------------------------------------------
(***************************************************************************)
(* What one step does to the tables, the pool and the translations.        *)
(***************************************************************************)

\* A page table is a block no page was led to by mistake.
LEMMA TablesSound ==
  ASSUME TypeOK, PlacesRight, ShadowedHigh, NEW d \in Directories, directory[d] # 0
  PROVE  Sound(directory[d])
<1>1. <<directory[d], 1>> \in owned /\ directory[d] < IdentityBlocks
  BY DEF PlacesRight, TablesOwned
<1>2. directory[d] \in Blocks /\ directory[d] \in Nat
  BY <1>1, ConstantTypes DEF TypeOK
<1>3. directory[d] \notin shadowed
  BY <1>1, <1>2, ConstantTypes DEF ShadowedHigh
<1>4. Run(directory[d], 1) = {directory[d]}
  BY <1>2, RunOfOne
<1>5. directory[d] \notin Devices
  BY <1>1, <1>3, <1>4 DEF PlacesRight, NoDevices
<1>6. QED
  BY <1>2, <1>3, <1>5 DEF Sound

\* The invariant gives FramesExclusive.
LEMMA FramesRight == Inv => FramesExclusive
<1> SUFFICES ASSUME Inv PROVE FramesExclusive
  OBVIOUS
<1>1. ASSUME NEW v \in Pages, Translation(v) \in Blocks \ (Devices \cup shadowed)
      PROVE  /\ <<Translation(v), 1>> \in owned
             /\ \A w \in Pages : Translation(v) = Translation(w) => v = w
  BY <1>1 DEF Inv, MappedRight, Sound
<1>2. ASSUME NEW d \in Directories, directory[d] # 0, NEW v \in Pages
      PROVE  directory[d] # Translation(v)
  <2>1. Sound(directory[d])
    BY <1>2, TablesSound DEF Inv
  <2>2. QED
    BY <2>1 DEF Inv, MappedRight
<1>3. QED
  BY <1>1, <1>2
  DEF FramesExclusive, Inv, PlacesRight, TablesOnce, OwnedNotFree, ShadowedHigh, StrayNoted

\* Writing the entry of a page changes what the tables say of that page only:
\* the entries of two pages are in two tables or at two indexes.
LEMMA EntryWritten ==
  ASSUME TypeOK, TablesOnce, NEW v \in Pages, NEW e \in PageEntries,
         SetEntry(v, e), UNCHANGED directory
  PROVE  /\ tables' \in [Blocks \cup {0} -> [Indexes -> PageEntries]]
         /\ \A w \in Pages \ {v} : Translation(w)' = Translation(w)
         /\ Translation(v)' = IF directory[v[1]] # 0 /\ e.present THEN e.frame ELSE NoFrame
         /\ Entry(v)' = e
         /\ \A w \in Pages \ {v} : directory[w[1]] # 0 => Entry(w)' = Entry(w)
<1> DEFINE b == directory[v[1]]
<1>1. /\ b \in Blocks \cup {0} /\ v[2] \in Indexes
      /\ tables \in [Blocks \cup {0} -> [Indexes -> PageEntries]]
  BY EntryType, ConstantTypes DEF TypeOK, PageEntries
<1>2. tables' = [tables EXCEPT ![b][v[2]] = e]
  BY DEF SetEntry, vmm_get_page
<1>3. tables' \in [Blocks \cup {0} -> [Indexes -> PageEntries]]
  BY <1>1, <1>2
<1>4. tables'[b][v[2]] = e
  BY <1>1, <1>2
<1>5. Entry(v)' = e
  BY <1>4 DEF Entry, vmm_get_page
<1>6. Translation(v)' = IF directory[v[1]] # 0 /\ e.present THEN e.frame ELSE NoFrame
  BY <1>5 DEF Translation
<1>7. ASSUME NEW w \in Pages, w # v, directory[w[1]] # 0
      PROVE  Entry(w)' = Entry(w)
  <2>1. directory[w[1]] \in Blocks \cup {0} /\ w[2] \in Indexes
        /\ w[1] \in Directories /\ v[1] \in Directories
    BY EntryType, ConstantTypes
  <2>2. directory[w[1]] # b \/ w[2] # v[2]
    BY <1>7, <2>1, PagesDiffer DEF TablesOnce
  <2>3. tables'[directory[w[1]]][w[2]] = tables[directory[w[1]]][w[2]]
    BY <1>1, <1>2, <2>1, <2>2
  <2>4. QED
    BY <2>3 DEF Entry, vmm_get_page
<1>8. \A w \in Pages \ {v} : Translation(w)' = Translation(w)
  BY <1>7 DEF Translation
<1>9. QED
  BY <1>3, <1>5, <1>6, <1>7, <1>8

\* The pages besides v lead where they led, and behind a table their entries
\* are the old ones or empty.
OthersKept(v) ==
  \A w \in Pages \ {v} :
    /\ Translation(w)' = Translation(w)
    /\ directory'[w[1]] # 0 =>
         \/ Entry(w)'.frame = 0
         \/ directory[w[1]] # 0 /\ Entry(w)' = Entry(w)

\* A new, zeroed table maps its one page and no other
\* (virtual_memory_manager.c:41-56).
LEMMA TableMade ==
  ASSUME TypeOK, NEW v \in Pages, NEW frame \in Nat,
         NEW table \in Blocks, \A d \in Directories : directory[d] # table,
         directory[v[1]] = 0,
         directory' = [directory EXCEPT ![v[1]] = table],
         tables' = [tables EXCEPT ![table] =
           [x \in Indexes |-> IF x = v[2] THEN Present(SetFrame(Zero, frame)) ELSE Zero]]
  PROVE  /\ tables' \in [Blocks \cup {0} -> [Indexes -> PageEntries]]
         /\ OthersKept(v) /\ Translation(v)' = frame /\ Entry(v)'.frame = frame
<1> DEFINE e == Present(SetFrame(Zero, frame))
           new == [x \in Indexes |-> IF x = v[2] THEN e ELSE Zero]
<1>1. /\ v[1] \in Directories /\ v[2] \in Indexes
      /\ directory \in [Directories -> Blocks \cup {0}]
      /\ tables \in [Blocks \cup {0} -> [Indexes -> PageEntries]]
      /\ table # 0 /\ TopBit # 0
  BY ConstantTypes DEF TypeOK, PageEntries
<1>2. Zero \in PageEntries /\ Zero.frame = 0 /\ ~Zero.present
  BY DEF Zero, PageEntries
<1>3. e \in PageEntries /\ e.present /\ e.frame = frame
  <2>1. SetFrame(Zero, frame) \in PageEntries /\ SetFrame(Zero, frame).frame = frame
    BY <1>1, <1>2, SetFrameResult
  <2>2. QED
    BY <2>1, PresentResult
<1>4. new \in [Indexes -> PageEntries] /\ new[v[2]] = e
  BY <1>1, <1>2, <1>3
<1>5. tables' = [tables EXCEPT ![table] = new]
  OBVIOUS
<1> HIDE DEF e
<1>6. tables' \in [Blocks \cup {0} -> [Indexes -> PageEntries]] /\ tables'[table] = new
  BY <1>1, <1>4, <1>5
<1>7. directory'[v[1]] = table
  BY <1>1
<1>8. Translation(v)' = frame /\ Entry(v)'.frame = frame
  BY <1>1, <1>3, <1>4, <1>6, <1>7 DEF Translation, Entry, vmm_get_page
<1>9. ASSUME NEW w \in Pages, w # v
      PROVE  /\ Translation(w)' = Translation(w)
             /\ directory'[w[1]] # 0 =>
                  \/ Entry(w)'.frame = 0
                  \/ directory[w[1]] # 0 /\ Entry(w)' = Entry(w)
  <2>1. w[1] \in Directories /\ w[2] \in Indexes /\ directory[w[1]] \in Blocks \cup {0}
    BY EntryType, ConstantTypes
  <2>2. CASE w[1] = v[1]
    <3>1. new[w[2]] = Zero
      BY <1>9, <2>1, <2>2, PagesDiffer
    <3>2. Translation(w)' = NoFrame /\ Entry(w)'.frame = 0
      BY <1>2, <1>6, <1>7, <2>2, <3>1 DEF Translation, Entry, vmm_get_page
    <3>3. QED
      BY <2>2, <3>2 DEF Translation
  <2>3. CASE w[1] # v[1]
    <3>1. directory'[w[1]] = directory[w[1]]
      BY <1>1, <2>1, <2>3
    <3>2. tables'[directory[w[1]]] = tables[directory[w[1]]]
      BY <1>1, <1>5, <2>1
    <3>3. QED
      BY <3>1, <3>2 DEF Translation, Entry, vmm_get_page
  <2>4. QED
    BY <2>2, <2>3
<1>10. OthersKept(v)
  BY <1>9 DEF OthersKept
<1>11. QED
  BY <1>6, <1>8, <1>10

------------------------------------------------------------------------------
(***************************************************************************)
(* The use of the physical memory manager.                                 *)
(***************************************************************************)

\* Before a block is asked for and after it is mapped nothing is pending.
LEMMA NothingPending == \A v, block : NoPage # <<v, block>>
BY DEF NoPage

\* What an allocation does: the run leaves the pool, is owned, and is in nobody
\* else's place.
LEMMA BlocksGranted ==
  ASSUME TypeOK, OwnedNotFree, OwnedDisjoint, NoDevices, shadowed \subseteq shadowed',
         NEW n \in {1, 3}, NEW b \in Blocks, Run(b, n) \subseteq pool,
         Take({<<b, n>>})
  PROVE  /\ pool' = pool \ Run(b, n) /\ pool' \subseteq Blocks
         /\ owned' = owned \cup {<<b, n>>} /\ owned' \subseteq Blocks \X {1, 3}
         /\ OwnedNotFree' /\ OwnedDisjoint' /\ NoDevices'
         /\ Allocator!Grant(n)
<1>1. UNION {Run(r[1], r[2]) : r \in {<<b, n>>}} = Run(b, n)
  OBVIOUS
<1>2. pool' = pool \ Run(b, n) /\ owned' = owned \cup {<<b, n>>}
  BY <1>1 DEF Take
<1>3. pool' \subseteq Blocks /\ owned' \subseteq Blocks \X {1, 3}
  BY <1>2 DEF TypeOK
<1>4. ASSUME NEW r \in owned
      PROVE  Run(r[1], r[2]) \cap Run(b, n) \subseteq shadowed'
  BY DEF OwnedNotFree
<1>5. OwnedNotFree'
  <2>1. ASSUME NEW r \in owned'
        PROVE  Run(r[1], r[2]) \cap pool' \subseteq shadowed'
    <3>1. CASE r \in owned
      BY <1>2, <3>1 DEF OwnedNotFree
    <3>2. CASE r = <<b, n>>
      BY <1>2, <3>2
    <3>3. QED
      BY <1>2, <3>1, <3>2
  <2>2. QED
    BY <2>1 DEF OwnedNotFree
<1>6. OwnedDisjoint'
  <2>1. ASSUME NEW r \in owned', NEW s \in owned', r # s
        PROVE  Run(r[1], r[2]) \cap Run(s[1], s[2]) \subseteq shadowed'
    <3>1. CASE r \in owned /\ s \in owned
      BY <2>1, <3>1 DEF OwnedDisjoint
    <3>2. CASE r \in owned /\ s = <<b, n>>
      BY <1>4, <3>2
    <3>3. CASE r = <<b, n>> /\ s \in owned
      BY <1>4, <3>3
    <3>4. QED
      BY <1>2, <2>1, <3>1, <3>2, <3>3
  <2>2. QED
    BY <2>1 DEF OwnedDisjoint
<1>7. NoDevices'
  <2>1. pool' \cap Devices \subseteq shadowed'
    BY <1>2 DEF NoDevices
  <2>2. ASSUME NEW r \in owned'
        PROVE  Run(r[1], r[2]) \cap Devices \subseteq shadowed'
    <3>1. CASE r \in owned
      BY <3>1 DEF NoDevices
    <3>2. CASE r = <<b, n>>
      BY <3>2 DEF NoDevices
    <3>3. QED
      BY <1>2, <3>1, <3>2
  <2>3. QED
    BY <2>1, <2>2 DEF NoDevices
<1>8. Allocator!Grant(n)
  <2>1. b \in Run(b, n)
    BY ConstantTypes DEF Run
  <2>2. Allocator!Run(b, n) = Run(b, n)
    BY DEF Allocator!Run, Run
  <2>3. QED
    BY <1>2, <2>1, <2>2 DEF Allocator!Grant
<1>9. QED
  BY <1>2, <1>3, <1>5, <1>6, <1>7, <1>8

\* Where pool and owners stay, they stay right while more frames are led to by
\* mistake.
LEMMA BlocksKept ==
  ASSUME OwnedNotFree, OwnedDisjoint, NoDevices, shadowed \subseteq shadowed',
         UNCHANGED <<pool, owned>>
  PROVE  OwnedNotFree' /\ OwnedDisjoint' /\ NoDevices'
<1>1. OwnedNotFree'
  BY DEF OwnedNotFree
<1>2. OwnedDisjoint'
  BY DEF OwnedDisjoint
<1>3. NoDevices'
  BY DEF NoDevices
<1>4. QED
  BY <1>1, <1>2, <1>3

\* A block that is free is nobody's, unless some page was led to it: no page
\* leads to it, and no directory entry uses it.
LEMMA FreeIsNobodys ==
  ASSUME TypeOK, PlacesRight, MappedRight, NEW b \in pool, b \notin shadowed
  PROVE  /\ Sound(b) /\ <<b, 1>> \notin owned
         /\ \A d \in Directories : directory[d] # b
         /\ \A v \in Pages : Translation(v) # b
<1>1. b \in Blocks /\ b \in Nat /\ b # 0
  BY ConstantTypes DEF TypeOK
<1>2. b \in Run(b, 1)
  BY <1>1, RunOfOne
<1>3. <<b, 1>> \notin owned
  BY <1>2 DEF PlacesRight, OwnedNotFree
<1>4. Sound(b)
  BY <1>1 DEF PlacesRight, NoDevices, Sound
<1>5. QED
  BY <1>1, <1>3, <1>4 DEF PlacesRight, TablesOwned, MappedRight

\* The histories only grow.
LEMMA GivenGrows ==
  ASSUME NEW v \in Pages, NEW frame \in Nat, Give(v, frame)
  PROVE  /\ high \subseteq high' /\ high' \subseteq high \cup {v}
         /\ frame >= TopBit => v \in high'
         /\ shadowed \subseteq shadowed'
         /\ shadowed' \subseteq shadowed \cup {Translation(v)'}
         /\ Translation(v)' \notin {NoFrame, frame} => Translation(v)' \in shadowed'
         /\ NoFrame \notin shadowed' \/ NoFrame \in shadowed
BY DEF Give

\* Where a page leads after it was given a frame.
Leads(v, frame) ==
  \/ Translation(v)' \in {NoFrame, frame}
  \/ /\ v \in high /\ frame < TopBit
     /\ Translation(v)' = frame + TopBit

\* One page is given a frame and the others lead where they led: what was
\* asked for and what is remembered stay right.
LEMMA FrameGiven ==
  ASSUME TypeOK, MappedAsAsked, AstrayNoted, ShadowedHigh,
         NEW v \in Pages, NEW frame \in Nat, Give(v, frame), Leads(v, frame),
         \A w \in Pages \ {v} : Translation(w)' = Translation(w)
  PROVE  /\ asked' \in [Pages -> Nat] /\ asked'[v] = frame
         /\ \A w \in Pages \ {v} : asked'[w] = asked[w]
         /\ high' \subseteq Pages /\ shadowed' \subseteq Nat
         /\ MappedAsAsked' /\ AstrayNoted' /\ ShadowedHigh'
<1>1. /\ asked' \in [Pages -> Nat] /\ asked'[v] = frame
      /\ \A w \in Pages \ {v} : asked'[w] = asked[w]
  BY DEF Give, TypeOK
<1>2. /\ high \subseteq high' /\ high' \subseteq Pages
      /\ shadowed \subseteq shadowed' /\ high \subseteq Pages
  BY GivenGrows DEF TypeOK
<1>3. Translation(v)' \notin {NoFrame, frame} =>
        Translation(v)' \in Nat /\ Translation(v)' >= TopBit
  BY ConstantTypes DEF Leads
<1>4. \A f \in shadowed' : f \in shadowed \/ (f = Translation(v)' /\ f \notin {NoFrame, frame})
  BY DEF Give
<1>5. shadowed' \subseteq Nat
  BY <1>3, <1>4 DEF TypeOK
<1>6. ShadowedHigh'
  BY <1>3, <1>4 DEF ShadowedHigh
<1>7. MappedAsAsked'
  <2>1. ASSUME NEW w \in Pages
        PROVE  \/ Translation(w)' \in {NoFrame, asked'[w]}
               \/ /\ w \in high' /\ asked'[w] < TopBit
                  /\ Translation(w)' = asked'[w] + TopBit
    <3>1. CASE w = v
      BY <1>1, <1>2, <3>1 DEF Leads
    <3>2. CASE w # v
      BY <1>1, <1>2, <3>2 DEF MappedAsAsked
    <3>3. QED
      BY <3>1, <3>2
  <2>2. QED
    BY <2>1 DEF MappedAsAsked
<1>8. AstrayNoted'
  <2>1. ASSUME NEW w \in Pages, Translation(w)' \notin {NoFrame, asked'[w]}
        PROVE  Translation(w)' \in shadowed'
    <3>1. CASE w = v
      BY <1>1, <2>1, <3>1, GivenGrows
    <3>2. CASE w # v
      BY <1>1, <1>2, <2>1, <3>2 DEF AstrayNoted
    <3>3. QED
      BY <3>1, <3>2
  <2>2. QED
    BY <2>1 DEF AstrayNoted
<1>9. QED
  BY <1>1, <1>2, <1>5, <1>6, <1>7, <1>8

\* The types of the pool, the owned blocks and the tables.
MemoryTypes ==
  /\ pool \subseteq Blocks /\ owned \subseteq Blocks \X {1, 3}
  /\ boot \in {"off", "directory", "table", "on", "failed", "fault"}
  /\ directory \in [Directories -> Blocks \cup {0}]
  /\ tables \in [Blocks \cup {0} -> [Indexes -> PageEntries]]

\* How paging used the physical memory manager in a step.
Granted == (\E n \in {1, 3} : Allocator!Grant(n)) \/ UNCHANGED <<pool, owned>>

AllocatorStep == Granted \/ (\E v \in Pages : Returned(v))

\* Page v leads to the frame it was given or past it, and nobody else to it.
LEMMA PageLeads ==
  ASSUME MappedRight, NEW v \in Pages, NEW frame \in Nat,
         shadowed \subseteq shadowed',
         Translation(v)' \notin {NoFrame, frame} => Translation(v)' \in shadowed',
         \A w \in Pages \ {v} : Translation(w)' = Translation(w),
         Sound(frame) =>
           /\ <<frame, 1>> \in owned'
           /\ \A d \in Directories : directory'[d] # frame
           /\ \A w \in Pages \ {v} : Translation(w) # frame,
         owned \subseteq owned',
         \A d \in Directories, w \in Pages :
           Sound(Translation(w)) /\ directory'[d] = Translation(w)
             => directory[d] = Translation(w)
  PROVE  MappedRight'
<1>1. NoFrame \notin Blocks
  BY ConstantTypes DEF NoFrame
<1>2. ASSUME NEW u \in Pages, Translation(u)' \in Blocks \ (Devices \cup shadowed')
      PROVE  /\ <<Translation(u)', 1>> \in owned'
             /\ \A w \in Pages : Translation(u)' = Translation(w)' => u = w
             /\ \A d \in Directories : directory'[d] # Translation(u)'
  <2>1. CASE u = v
    <3>1. Translation(v)' = frame /\ Sound(frame)
      BY <1>1, <1>2, <2>1 DEF Sound
    <3>2. QED
      BY <2>1, <3>1
  <2>2. CASE u # v
    <3>1. Translation(u)' = Translation(u) /\ Sound(Translation(u))
      BY <1>2, <2>2 DEF Sound
    <3>2. Translation(v)' # Translation(u)
      <4>1. CASE Translation(v)' = NoFrame
        BY <1>1, <3>1, <4>1 DEF Sound
      <4>2. CASE Translation(v)' = frame
        BY <2>2, <3>1, <4>2
      <4>3. CASE Translation(v)' \in shadowed'
        BY <1>2, <3>1, <4>3
      <4>4. QED
        BY <4>1, <4>2, <4>3
    <3>3. QED
      BY <2>2, <3>1, <3>2 DEF MappedRight
  <2>3. QED
    BY <2>1, <2>2
<1>3. QED
  BY <1>2 DEF MappedRight, Sound

\* vmm_map_page leads the page to the frame, or past it by the top bit, or
\* fails and leaves it unmapped; it changes nothing for a page that led there
\* already, disturbs no other page, and keeps blocks and tables in their own
\* places (virtual_memory_manager.c:40-57).
LEMMA PageMapped ==
  ASSUME TypeOK, PlacesRight, MappedRight, HighKept, ShadowedHigh,
         NEW v \in Pages, NEW frame \in Nat,
         Sound(frame) =>
           /\ <<frame, 1>> \in owned
           /\ \A d \in Directories : directory[d] # frame
           /\ \A w \in Pages \ {v} : Translation(w) # frame,
         vmm_map_page(frame, v), Give(v, frame)
  PROVE  /\ MemoryTypes' /\ PlacesRight' /\ MappedRight' /\ HighKept' /\ Granted
         /\ \A w \in Pages \ {v} : Translation(w)' = Translation(w)
         /\ Leads(v, frame)
         /\ Translation(v) = frame \/ (frame < TopBit /\ Translation(v) = frame + TopBit)
              => Translation(v)' = Translation(v)
         /\ UNCHANGED stray
<1> DEFINE Others == \A w \in Pages \ {v} : Translation(w)' = Translation(w)
           Again ==
             Translation(v) = frame \/ (frame < TopBit /\ Translation(v) = frame + TopBit)
               => Translation(v)' = Translation(v)
<1>1. MemoryTypes
  BY DEF TypeOK, MemoryTypes, PageEntries
<1>2. frame # NoFrame /\ frame + TopBit # NoFrame
  BY ConstantTypes DEF NoFrame
<1>3. /\ shadowed \subseteq shadowed'
      /\ high \subseteq high'
      /\ frame >= TopBit => v \in high'
      /\ Translation(v)' \notin {NoFrame, frame} => Translation(v)' \in shadowed'
  BY GivenGrows
<1>4. CASE directory[v[1]] # 0
  <2>1. SetEntry(v, SetFrame(Present(Entry(v)), frame))
        /\ UNCHANGED <<pool, owned, boot, directory, stray>>
    BY <1>4 DEF vmm_map_page
  <2> DEFINE e == SetFrame(Present(Entry(v)), frame)
  <2>2. /\ Present(Entry(v)) \in PageEntries /\ Present(Entry(v)).present
        /\ Present(Entry(v)).frame = Entry(v).frame
    BY EntryType, PresentResult
  <2>3. /\ e \in PageEntries /\ e.present
        /\ \/ e.frame = frame
           \/ Entry(v).frame >= TopBit /\ frame < TopBit /\ e.frame = frame + TopBit
        /\ Entry(v).frame = frame \/ (frame < TopBit /\ Entry(v).frame = frame + TopBit)
             => e.frame = Entry(v).frame
    BY <2>2, SetFrameResult
  <2>4. SetEntry(v, e)
    BY <2>1
  <2> HIDE DEF e
  <2>5. /\ tables' \in [Blocks \cup {0} -> [Indexes -> PageEntries]]
        /\ Others /\ Translation(v)' = e.frame /\ Entry(v)' = e
        /\ \A w \in Pages \ {v} : directory[w[1]] # 0 => Entry(w)' = Entry(w)
    BY <1>4, <2>1, <2>3, <2>4, EntryWritten DEF PlacesRight
  <2>6. MemoryTypes'
    BY <1>1, <2>1, <2>5 DEF MemoryTypes
  <2>7. PlacesRight'
    <3>1. OwnedNotFree' /\ OwnedDisjoint' /\ NoDevices'
      BY <1>3, <2>1, BlocksKept DEF PlacesRight
    <3>2. TablesOnce' /\ TablesOwned'
      BY <2>1 DEF PlacesRight, TablesOnce, TablesOwned
    <3>3. QED
      BY <3>1, <3>2 DEF PlacesRight
  <2>8. MappedRight'
    BY <1>3, <2>1, <2>5, PageLeads
  <2>9. e.frame >= TopBit => v \in high'
    BY <1>3, <1>4, <2>3, ConstantTypes DEF HighKept
  <2>10. HighKept'
    BY <1>3, <2>1, <2>5, <2>9 DEF HighKept
  <2>11. Leads(v, frame)
    BY <1>4, <2>3, <2>5 DEF Leads, HighKept
  <2>12. Again
    BY <1>2, <2>3, <2>5 DEF Translation
  <2>13. QED
    BY <2>1, <2>5, <2>6, <2>7, <2>8, <2>10, <2>11, <2>12 DEF Granted
<1>5. CASE directory[v[1]] = 0
  <2>1. MapInNewTable(frame, v) /\ UNCHANGED stray
    BY <1>5 DEF vmm_map_page
  <2>2. Translation(v) = NoFrame
    BY <1>5 DEF Translation
  <2>3. Again
    BY <1>2, <2>2
  <2>4. PICK table \in pmm_allocate_blocks(pool, 1) :
          \/ table = 0 /\ UNCHANGED memoryVars
          \/ /\ table >= IdentityBlocks
             /\ Take({<<table, 1>>})
             /\ boot' = "fault"
             /\ UNCHANGED <<directory, tables>>
          \/ /\ table \in 1 .. (IdentityBlocks - 1)
             /\ Take({<<table, 1>>})
             /\ directory' = [directory EXCEPT ![v[1]] = table]
             /\ tables' = [tables EXCEPT ![table] =
                  [x \in Indexes |-> IF x = v[2] THEN Present(SetFrame(Zero, frame)) ELSE Zero]]
             /\ UNCHANGED boot
    BY <2>1 DEF MapInNewTable
  <2>5. ASSUME UNCHANGED <<directory, tables>>
        PROVE  /\ \A w \in Pages : Translation(w)' = Translation(w)
               /\ Others /\ Leads(v, frame) /\ HighKept'
    <3>1. \A w \in Pages : Translation(w)' = Translation(w) /\ Entry(w)' = Entry(w)
      BY <2>5 DEF Translation, Entry, vmm_get_page
    <3>2. HighKept'
      BY <1>3, <2>5, <3>1 DEF HighKept
    <3>3. QED
      BY <2>2, <3>1, <3>2 DEF Leads
  <2>6. CASE table = 0 /\ UNCHANGED memoryVars
    <3>1. UNCHANGED <<pool, owned, boot, directory, tables>>
      BY <2>6 DEF memoryVars
    <3>2. OwnedNotFree' /\ OwnedDisjoint' /\ NoDevices'
      BY <1>3, <3>1, BlocksKept DEF PlacesRight
    <3>3. TablesOnce' /\ TablesOwned'
      BY <3>1 DEF PlacesRight, TablesOnce, TablesOwned
    <3>4. MappedRight'
      BY <1>3, <2>5, <3>1 DEF MappedRight, Sound
    <3>5. MemoryTypes'
      BY <1>1, <3>1 DEF MemoryTypes
    <3>6. QED
      BY <2>1, <2>3, <2>5, <3>1, <3>2, <3>3, <3>4, <3>5 DEF PlacesRight, Granted
  <2>7. CASE /\ table >= IdentityBlocks
             /\ Take({<<table, 1>>})
             /\ boot' = "fault"
             /\ UNCHANGED <<directory, tables>>
    <3>1. table # 0
      BY <2>7, ConstantTypes
    <3>2. table \in Blocks /\ Run(table, 1) \subseteq pool
      BY <3>1, AllocationIsFree DEF TypeOK
    <3>3. /\ pool' \subseteq Blocks /\ owned' \subseteq Blocks \X {1, 3}
          /\ owned' = owned \cup {<<table, 1>>}
          /\ OwnedNotFree' /\ OwnedDisjoint' /\ NoDevices' /\ Allocator!Grant(1)
      BY <1>3, <2>7, <3>2, BlocksGranted DEF PlacesRight
    <3>4. TablesOnce' /\ TablesOwned'
      BY <2>7, <3>3 DEF PlacesRight, TablesOnce, TablesOwned
    <3>5. MappedRight'
      BY <1>3, <2>5, <2>7, <3>3 DEF MappedRight, Sound
    <3>6. MemoryTypes'
      BY <1>1, <2>7, <3>3 DEF MemoryTypes
    <3>7. QED
      BY <2>1, <2>3, <2>5, <2>7, <3>3, <3>4, <3>5, <3>6 DEF PlacesRight, Granted
  <2>8. CASE /\ table \in 1 .. (IdentityBlocks - 1)
             /\ Take({<<table, 1>>})
             /\ directory' = [directory EXCEPT ![v[1]] = table]
             /\ tables' = [tables EXCEPT ![table] =
                  [x \in Indexes |-> IF x = v[2] THEN Present(SetFrame(Zero, frame)) ELSE Zero]]
             /\ UNCHANGED boot
    <3>1. table \in Nat /\ table # 0 /\ table < IdentityBlocks /\ table < TopBit
      BY <2>8, ConstantTypes
    <3>2. table \in pool /\ table \in Blocks /\ Run(table, 1) \subseteq pool
      BY <3>1, AllocationIsFree DEF TypeOK
    <3>3. table \notin shadowed
      BY <3>1, ConstantTypes DEF ShadowedHigh
    <3>4. /\ Sound(table) /\ <<table, 1>> \notin owned
          /\ \A d \in Directories : directory[d] # table
          /\ \A w \in Pages : Translation(w) # table
      BY <3>2, <3>3, FreeIsNobodys
    <3>5. table # frame
      BY <3>4
    <3>6. /\ pool' \subseteq Blocks /\ owned' \subseteq Blocks \X {1, 3}
          /\ owned' = owned \cup {<<table, 1>>}
          /\ OwnedNotFree' /\ OwnedDisjoint' /\ NoDevices' /\ Allocator!Grant(1)
      BY <1>3, <2>8, <3>2, BlocksGranted DEF PlacesRight
    <3>7. /\ tables' \in [Blocks \cup {0} -> [Indexes -> PageEntries]]
          /\ OthersKept(v) /\ Translation(v)' = frame /\ Entry(v)'.frame = frame
      BY <1>5, <2>8, <3>2, <3>4, TableMade
    <3>8. /\ directory' \in [Directories -> Blocks \cup {0}]
          /\ \A d \in Directories :
               directory'[d] = IF d = v[1] THEN table ELSE directory[d]
      BY <1>1, <2>8, <3>2, ConstantTypes DEF MemoryTypes
    <3>9. MemoryTypes'
      BY <1>1, <2>8, <3>6, <3>7, <3>8 DEF MemoryTypes
    <3>10. TablesOnce'
      BY <3>4, <3>8 DEF PlacesRight, TablesOnce
    <3>11. TablesOwned'
      BY <3>1, <3>6, <3>8 DEF PlacesRight, TablesOwned
    <3>12. MappedRight'
      <4>1. /\ owned \subseteq owned'
            /\ \A d \in Directories, w \in Pages :
                 directory'[d] = Translation(w) => directory[d] = Translation(w)
        BY <3>4, <3>6, <3>8
      <4>2. Sound(frame) =>
              /\ <<frame, 1>> \in owned'
              /\ \A d \in Directories : directory'[d] # frame
              /\ \A w \in Pages \ {v} : Translation(w) # frame
        BY <3>5, <3>6, <3>8
      <4>3. QED
        BY <1>3, <3>7, <4>1, <4>2, PageLeads DEF OthersKept
    <3>13. HighKept'
      <4>1. ASSUME NEW w \in Pages, directory'[w[1]] # 0, Entry(w)'.frame >= TopBit
            PROVE  w \in high'
        <5>1. CASE w = v
          BY <1>3, <3>7, <4>1, <5>1
        <5>2. CASE w # v
          BY <1>3, <3>7, <4>1, <5>2, ConstantTypes DEF HighKept, OthersKept
        <5>3. QED
          BY <5>1, <5>2
      <4>2. QED
        BY <4>1 DEF HighKept
    <3>14. QED
      BY <2>1, <2>3, <3>6, <3>7, <3>9, <3>10, <3>11, <3>12, <3>13
      DEF PlacesRight, Granted, Leads, OthersKept
  <2>9. QED
    BY <2>4, <2>6, <2>7, <2>8
<1>6. QED
  BY <1>4, <1>5

------------------------------------------------------------------------------
(***************************************************************************)
(* The actions keep the inductive invariant.                               *)
(***************************************************************************)

\* Where the tables stay as they are, so does every translation.
LEMMA SameTables ==
  ASSUME UNCHANGED <<directory, tables>>
  PROVE  \A v \in Pages : Translation(v)' = Translation(v)
BY DEF Translation, Entry, vmm_get_page

\* Nothing is remembered of a step that leaves the histories, the tables and
\* the page being mapped alone.
LEMMA SameHistories ==
  ASSUME UNCHANGED <<directory, tables, allocated, use, asked, high, shadowed, stray>>,
         owned \subseteq owned'
  PROVE  /\ MappedAsAsked => MappedAsAsked'
         /\ MappedRight => MappedRight'
         /\ HighKept => HighKept'
         /\ AstrayNoted => AstrayNoted'
         /\ ShadowedHigh => ShadowedHigh'
         /\ StrayNoted => StrayNoted'
         /\ UseRight => UseRight'
         /\ PendingRight => PendingRight'
<1>1. \A v \in Pages : Translation(v)' = Translation(v)
  BY SameTables
<1>2. \A v \in Pages : Entry(v)' = Entry(v)
  BY DEF Entry, vmm_get_page
<1>3. \A v \in Pages : Pending(v)' <=> Pending(v)
  BY DEF Pending
<1>4. MappedAsAsked => MappedAsAsked'
  BY <1>1 DEF MappedAsAsked
<1>5. MappedRight => MappedRight'
  BY <1>1 DEF MappedRight, Sound
<1>6. HighKept => HighKept'
  BY <1>2 DEF HighKept
<1>7. AstrayNoted => AstrayNoted'
  BY <1>1 DEF AstrayNoted
<1>8. UseRight => UseRight'
  BY <1>1, <1>3 DEF UseRight
<1>9. PendingRight => PendingRight'
  BY <1>1 DEF PendingRight, Sound
<1>10. QED
  BY <1>4, <1>5, <1>6, <1>7, <1>8, <1>9 DEF ShadowedHigh, StrayNoted

\* A page's translation changes while the CPU holds none of it, or the page
\* counts as unflushed: what the CPU holds stays as current as it was.
LEMMA StaleKept ==
  ASSUME StaleOnlyUnflushed, UNCHANGED tlb, NEW v \in Pages,
         unflushed \subseteq unflushed',
         v \in unflushed' \/ Translation(v) = NoFrame \/ Translation(v)' = Translation(v),
         \A w \in Pages \ {v} : Translation(w)' = Translation(w)
  PROVE  StaleOnlyUnflushed'
<1>1. ASSUME NEW w \in Pages \ unflushed', tlb[w] # NoFrame
      PROVE  tlb[w] = Translation(w)'
  <2>1. tlb[w] = Translation(w)
    BY <1>1 DEF StaleOnlyUnflushed
  <2>2. QED
    BY <1>1, <2>1
<1>2. QED
  BY <1>1 DEF StaleOnlyUnflushed

\* The initial states.
LEMMA InitInv == ASSUME Init PROVE Inv
<1>1. TypeOK
  <2>1. pool \subseteq Blocks
    BY ConstantsAssumption DEF Init
  <2>2. QED
    BY <2>1 DEF Init, TypeOK, Zero, Frames
<1>2. \A v \in Pages : Translation(v) = NoFrame
  BY ConstantTypes DEF Init, Translation
<1>3. MappedAsAsked /\ AstrayNoted
  BY <1>2 DEF MappedAsAsked, AstrayNoted
<1>4. PlacesRight
  BY ConstantsAssumption
  DEF Init, PlacesRight, OwnedNotFree, OwnedDisjoint, NoDevices, TablesOnce, TablesOwned
<1>5. MappedRight
  BY <1>2, ConstantTypes DEF MappedRight, Sound, NoFrame
<1>6. StaleOnlyUnflushed
  BY DEF Init, StaleOnlyUnflushed
<1>7. UseRight
  BY <1>2 DEF Init, UseRight
<1>8. PendingRight
  BY NothingPending DEF Init, PendingRight
<1>9. HighKept /\ ShadowedHigh /\ StrayNoted
  BY ConstantTypes DEF Init, HighKept, ShadowedHigh, StrayNoted
<1>10. QED
  BY <1>1, <1>3, <1>4, <1>5, <1>6, <1>7, <1>8, <1>9 DEF Inv

\* The three allocations of the set-up (lines 64-75).
LEMMA ObtainInv ==
  ASSUME Inv, NEW at \in {"off", "directory", "table"}, NEW n \in {1, 3},
         NEW next \in {"directory", "table", "on", "fault"}, Obtain(at, n, next)
  PROVE  Inv' /\ AllocatorStep
<1>1. /\ TypeOK /\ PlacesRight /\ StaleOnlyUnflushed
      /\ OwnedNotFree /\ OwnedDisjoint /\ NoDevices /\ TablesOnce /\ TablesOwned
  BY DEF Inv, PlacesRight
<1>2. UNCHANGED <<directory, tables, tlb, allocated, use,
                  asked, unflushed, high, shadowed, stray>>
  BY DEF Obtain, callerVars, historyVars
<1>3. StaleOnlyUnflushed'
  BY <1>1, <1>2, SameTables DEF StaleOnlyUnflushed
<1>4. PICK block \in pmm_allocate_blocks(pool, n) :
        \/ block = 0 /\ boot' = "failed" /\ UNCHANGED <<pool, owned>>
        \/ block # 0 /\ boot' = next /\ Take({<<block, n>>})
  BY DEF Obtain
<1>5. CASE block = 0 /\ boot' = "failed" /\ UNCHANGED <<pool, owned>>
  <2>1. TypeOK'
    BY <1>1, <1>2, <1>5 DEF TypeOK
  <2>2. PlacesRight'
    BY <1>1, <1>2, <1>5
    DEF PlacesRight, OwnedNotFree, OwnedDisjoint, NoDevices, TablesOnce, TablesOwned
  <2>3. QED
    BY <1>2, <1>3, <1>5, <2>1, <2>2, SameHistories DEF Inv, AllocatorStep, Granted
<1>6. CASE block # 0 /\ boot' = next /\ Take({<<block, n>>})
  <2>1. block \in Blocks /\ Run(block, n) \subseteq pool
    BY <1>1, <1>6, AllocationIsFree DEF TypeOK
  <2>2. /\ pool' \subseteq Blocks /\ owned' \subseteq Blocks \X {1, 3}
        /\ owned' = owned \cup {<<block, n>>}
        /\ OwnedNotFree' /\ OwnedDisjoint' /\ NoDevices' /\ Allocator!Grant(n)
    BY <1>1, <1>2, <1>6, <2>1, BlocksGranted
  <2>3. TypeOK'
    BY <1>1, <1>2, <1>6, <2>2 DEF TypeOK
  <2>4. PlacesRight'
    BY <1>1, <1>2, <2>2 DEF PlacesRight, TablesOnce, TablesOwned
  <2>5. QED
    BY <1>2, <1>3, <2>2, <2>3, <2>4, SameHistories DEF Inv, AllocatorStep, Granted
<1>7. QED
  BY <1>4, <1>5, <1>6

\* Allocating the block of a page (lines 18-25).
LEMMA AllocatePageInv ==
  ASSUME Inv, NEW v \in Pages, NEW block \in Blocks \cup {0}, AllocatePage(v, block)
  PROVE  Inv' /\ AllocatorStep
<1>1. /\ TypeOK /\ MappedAsAsked /\ PlacesRight /\ MappedRight
      /\ HighKept /\ AstrayNoted /\ ShadowedHigh /\ StrayNoted
      /\ StaleOnlyUnflushed /\ UseRight /\ PendingRight /\ MemoryTypes
  BY DEF TypeOK, MemoryTypes, PageEntries, Inv
<1>2. /\ UNCHANGED <<tlb, boot, directory, use, unflushed, stray>>
      /\ allocated' = <<v, block>> /\ Give(v, block)
      /\ allocated = NoPage /\ use[v] = "none"
      /\ block \in pmm_allocate_blocks(pool, 1)
  BY DEF AllocatePage, Calling, vmm_allocate_page
<1>3. Translation(v) = NoFrame
  BY <1>1, <1>2, NothingPending DEF UseRight, Pending
<1>4. /\ block \in Nat
      /\ block # 0 => block \in pool /\ block \in Blocks /\ Run(block, 1) \subseteq pool
  BY <1>1, <1>2, AllocationIsFree DEF TypeOK
<1>5. \/ block = 0 /\ UNCHANGED <<pool, owned, tables>>
      \/ /\ block # 0 /\ Take({<<block, 1>>})
         /\ SetEntry(v, Present(SetFrame(Entry(v), block)))
  BY DEF AllocatePage, vmm_allocate_page
<1>6. /\ high \subseteq high' /\ shadowed \subseteq shadowed'
      /\ block >= TopBit => v \in high'
      /\ Translation(v)' \notin {NoFrame, block} => Translation(v)' \in shadowed'
  BY <1>2, <1>4, GivenGrows
<1>7. \A w \in Pages : w # v => ~Pending(w) /\ ~Pending(w)'
  BY <1>2, NothingPending DEF Pending
<1>8. Pending(v)'
  BY <1>2 DEF Pending
<1>9. \A w \in Pages, b \in Blocks \cup {0} : allocated' = <<w, b>> => w = v /\ b = block
  BY <1>2
<1>10. /\ MemoryTypes' /\ PlacesRight' /\ MappedRight' /\ HighKept' /\ Granted
       /\ \A w \in Pages \ {v} : Translation(w)' = Translation(w)
       /\ Leads(v, block)
       /\ Sound(block) =>
            /\ <<block, 1>> \in owned'
            /\ \A d \in Directories : directory[d] # block
            /\ \A w \in Pages : Translation(w) # block
  <2>1. CASE block = 0 /\ UNCHANGED <<pool, owned, tables>>
    <3>1. \A w \in Pages : Translation(w)' = Translation(w)
      BY <1>2, <2>1, SameTables
    <3>2. MemoryTypes'
      BY <1>1, <1>2, <2>1 DEF MemoryTypes
    <3>3. OwnedNotFree' /\ OwnedDisjoint' /\ NoDevices'
      BY <1>1, <1>6, <2>1, BlocksKept DEF PlacesRight
    <3>4. TablesOnce' /\ TablesOwned'
      BY <1>1, <1>2, <2>1 DEF PlacesRight, TablesOnce, TablesOwned
    <3>5. MappedRight'
      BY <1>1, <1>2, <1>6, <2>1, <3>1 DEF MappedRight, Sound
    <3>6. HighKept'
      BY <1>1, <1>2, <1>6, <2>1 DEF HighKept, Entry, vmm_get_page
    <3>7. Leads(v, block) /\ ~Sound(block)
      BY <1>3, <2>1, <3>1, ConstantTypes DEF Leads, Sound
    <3>8. QED
      BY <2>1, <3>1, <3>2, <3>3, <3>4, <3>5, <3>6, <3>7 DEF PlacesRight, Granted
  <2>2. CASE /\ block # 0 /\ Take({<<block, 1>>})
             /\ SetEntry(v, Present(SetFrame(Entry(v), block)))
    <3> DEFINE e == Present(SetFrame(Entry(v), block))
    <3>1. /\ e \in PageEntries /\ e.present
          /\ \/ e.frame = block
             \/ Entry(v).frame >= TopBit /\ block < TopBit /\ e.frame = block + TopBit
      <4>1. Entry(v) \in PageEntries
        BY <1>1, EntryType
      <4>2. /\ SetFrame(Entry(v), block) \in PageEntries
            /\ \/ SetFrame(Entry(v), block).frame = block
               \/ /\ Entry(v).frame >= TopBit /\ block < TopBit
                  /\ SetFrame(Entry(v), block).frame = block + TopBit
        BY <1>4, <4>1, SetFrameResult
      <4>3. QED
        BY <4>2, PresentResult
    <3>2. SetEntry(v, e)
      BY <2>2
    <3> HIDE DEF e
    <3>3. /\ tables' \in [Blocks \cup {0} -> [Indexes -> PageEntries]]
          /\ \A w \in Pages \ {v} : Translation(w)' = Translation(w)
          /\ Translation(v)' = IF directory[v[1]] # 0 THEN e.frame ELSE NoFrame
          /\ Entry(v)' = e
          /\ \A w \in Pages \ {v} : directory[w[1]] # 0 => Entry(w)' = Entry(w)
      BY <1>1, <1>2, <3>1, <3>2, EntryWritten DEF PlacesRight
    <3>4. block \in pool /\ block \in Blocks /\ Run(block, 1) \subseteq pool
      BY <1>4, <2>2
    <3>5. /\ pool' \subseteq Blocks /\ owned' \subseteq Blocks \X {1, 3}
          /\ owned' = owned \cup {<<block, 1>>}
          /\ OwnedNotFree' /\ OwnedDisjoint' /\ NoDevices' /\ Allocator!Grant(1)
      BY <1>1, <1>6, <2>2, <3>4, BlocksGranted DEF PlacesRight
    <3>6. Sound(block) =>
            /\ <<block, 1>> \in owned'
            /\ \A d \in Directories : directory[d] # block
            /\ \A w \in Pages : Translation(w) # block
      BY <1>1, <3>4, <3>5, FreeIsNobodys DEF Sound
    <3>7. MemoryTypes'
      BY <1>1, <1>2, <3>3, <3>5 DEF MemoryTypes
    <3>8. TablesOnce' /\ TablesOwned'
      BY <1>1, <1>2, <3>5 DEF PlacesRight, TablesOnce, TablesOwned
    <3>9. MappedRight'
      <4>1. \A d \in Directories : directory'[d] = directory[d]
        BY <1>2
      <4>2. owned \subseteq owned'
        BY <3>5
      <4>3. QED
        BY <1>1, <1>4, <1>6, <3>3, <3>6, <4>1, <4>2, PageLeads
    <3>10. directory[v[1]] # 0 /\ e.frame >= TopBit => v \in high'
      BY <1>1, <1>4, <1>6, <3>1, ConstantTypes DEF HighKept
    <3>11. HighKept'
      BY <1>1, <1>2, <1>6, <3>3, <3>10 DEF HighKept
    <3>12. Leads(v, block)
      BY <1>1, <3>1, <3>3 DEF Leads, HighKept
    <3>13. QED
      BY <3>3, <3>5, <3>6, <3>7, <3>8, <3>9, <3>11, <3>12 DEF PlacesRight, Granted
  <2>3. QED
    BY <1>5, <2>1, <2>2
<1>11. /\ asked' \in [Pages -> Nat] /\ asked'[v] = block
       /\ \A w \in Pages \ {v} : asked'[w] = asked[w]
       /\ high' \subseteq Pages /\ shadowed' \subseteq Nat
       /\ MappedAsAsked' /\ AstrayNoted' /\ ShadowedHigh'
  BY <1>1, <1>2, <1>4, <1>10, FrameGiven
<1>12. TypeOK'
  BY <1>1, <1>2, <1>10, <1>11 DEF MemoryTypes, TypeOK, PageEntries
<1>13. StaleOnlyUnflushed'
  BY <1>1, <1>2, <1>3, <1>10, StaleKept
<1>14. StrayNoted'
  BY <1>1, <1>2, <1>6 DEF StrayNoted
<1>15. UseRight'
  <2>1. ASSUME NEW w \in Pages
        PROVE  /\ use[w] = "memory" =>
                    /\ Translation(w)' # NoFrame /\ asked'[w] \in Blocks
                    /\ asked'[w] \in Devices => asked'[w] \in shadowed'
               /\ use[w] \in {"none", "lost"} /\ ~Pending(w)' => Translation(w)' = NoFrame
    <3>1. CASE w = v
      BY <1>2, <1>8, <3>1
    <3>2. CASE w # v
      BY <1>1, <1>6, <1>7, <1>10, <1>11, <3>2 DEF UseRight
    <3>3. QED
      BY <3>1, <3>2
  <2>2. QED
    BY <1>2, <2>1 DEF UseRight
<1>16. PendingRight'
  <2>1. block \in Devices => block \in shadowed'
    BY <1>1, <1>4, <1>6, ConstantTypes DEF PlacesRight, NoDevices
  <2>2. Sound(block)' => Sound(block)
    BY <1>6 DEF Sound
  <2>3. QED
    BY <1>2, <1>9, <1>10, <1>11, <2>1, <2>2 DEF PendingRight
<1>17. QED
  BY <1>10, <1>11, <1>12, <1>13, <1>14, <1>15, <1>16 DEF AllocatorStep, Inv

\* Mapping what was allocated, block 0 included (lines 40-57).
LEMMA MapAllocatedInv ==
  ASSUME Inv, NEW v \in Pages, NEW block \in Blocks \cup {0}, MapAllocated(v, block)
  PROVE  Inv' /\ AllocatorStep
<1>1. /\ UNCHANGED <<tlb, unflushed>> /\ Give(v, block)
      /\ vmm_map_page(block, v)
      /\ allocated = <<v, block>> /\ allocated' = NoPage
      /\ use' = [use EXCEPT ![v] = CASE Translation(v)' = NoFrame -> "lost"
                                     [] block = 0 -> "null"
                                     [] OTHER -> "memory"]
  BY DEF MapAllocated, Calling
<1>2. /\ block \in Nat /\ asked[v] = block
      /\ block \in Devices => block \in shadowed
      /\ Sound(block) =>
           /\ <<block, 1>> \in owned
           /\ \A d \in Directories : directory[d] # block
           /\ \A w \in Pages \ {v} : Translation(w) # block
  BY <1>1, ConstantTypes DEF Inv, PendingRight
<1>3. /\ MemoryTypes' /\ PlacesRight' /\ MappedRight' /\ HighKept' /\ Granted
      /\ \A w \in Pages \ {v} : Translation(w)' = Translation(w)
      /\ Leads(v, block)
      /\ Translation(v) = block \/ (block < TopBit /\ Translation(v) = block + TopBit)
           => Translation(v)' = Translation(v)
      /\ UNCHANGED stray
  BY <1>1, <1>2, PageMapped DEF Inv
<1>4. /\ asked' \in [Pages -> Nat] /\ asked'[v] = block
      /\ \A w \in Pages \ {v} : asked'[w] = asked[w]
      /\ high' \subseteq Pages /\ shadowed' \subseteq Nat
      /\ MappedAsAsked' /\ AstrayNoted' /\ ShadowedHigh'
  BY <1>1, <1>2, <1>3, FrameGiven DEF Inv
<1>5. shadowed \subseteq shadowed'
  BY <1>1, <1>2, GivenGrows
<1>6. StaleOnlyUnflushed'
  <2>1. Translation(v) = NoFrame \/ Translation(v)' = Translation(v)
    BY <1>2, <1>3 DEF Inv, MappedAsAsked
  <2>2. QED
    BY <1>1, <1>3, <2>1, StaleKept DEF Inv
<1>7. use' \in [Pages -> {"none", "memory", "device", "null", "lost"}]
  BY <1>1 DEF Inv, TypeOK
<1>8. TypeOK'
  BY <1>1, <1>3, <1>4, <1>7 DEF Inv, TypeOK, MemoryTypes, PageEntries
<1>9. StrayNoted'
  BY <1>3, <1>5 DEF Inv, StrayNoted
<1>10. UseRight'
  <2>1. /\ use'[v] \in {"lost", "null", "memory"}
        /\ use'[v] = "memory" => Translation(v)' # NoFrame /\ block # 0
        /\ use'[v] = "lost" => Translation(v)' = NoFrame
        /\ \A w \in Pages : w # v => use'[w] = use[w]
    BY <1>1 DEF Inv, TypeOK
  <2>2. \A w \in Pages : w # v => ~Pending(w)
    BY <1>1 DEF Pending
  <2>3. QED
    BY <1>2, <1>3, <1>4, <1>5, <2>1, <2>2 DEF Inv, UseRight
<1>11. PendingRight'
  BY <1>1, NothingPending DEF PendingRight
<1>12. QED
  BY <1>3, <1>4, <1>6, <1>8, <1>9, <1>10, <1>11 DEF Inv, AllocatorStep

\* Mapping device memory (lines 40-57).
LEMMA MapDeviceInv ==
  ASSUME Inv, NEW v \in Pages, NEW frame \in Devices, MapDevice(frame, v)
  PROVE  Inv' /\ AllocatorStep
<1>1. /\ UNCHANGED <<tlb, allocated, unflushed>> /\ Give(v, frame)
      /\ vmm_map_page(frame, v)
      /\ allocated = NoPage /\ use[v] = "none"
      /\ use' = [use EXCEPT ![v] = IF Translation(v)' = NoFrame THEN "none" ELSE "device"]
  BY DEF MapDevice, Calling
<1>2. frame \in Nat /\ ~Sound(frame)
  BY ConstantTypes DEF Sound
<1>3. \A w \in Pages : ~Pending(w) /\ ~Pending(w)'
  BY <1>1, NothingPending DEF Pending
<1>4. /\ MemoryTypes' /\ PlacesRight' /\ MappedRight' /\ HighKept' /\ Granted
      /\ \A w \in Pages \ {v} : Translation(w)' = Translation(w)
      /\ Leads(v, frame) /\ UNCHANGED stray
  BY <1>1, <1>2, PageMapped DEF Inv
<1>5. /\ asked' \in [Pages -> Nat] /\ asked'[v] = frame
      /\ \A w \in Pages \ {v} : asked'[w] = asked[w]
      /\ high' \subseteq Pages /\ shadowed' \subseteq Nat
      /\ MappedAsAsked' /\ AstrayNoted' /\ ShadowedHigh'
  BY <1>1, <1>2, <1>4, FrameGiven DEF Inv
<1>6. shadowed \subseteq shadowed'
  BY <1>1, <1>2, GivenGrows
<1>7. StaleOnlyUnflushed'
  BY <1>1, <1>3, <1>4, StaleKept DEF Inv, UseRight
<1>8. /\ use' \in [Pages -> {"none", "memory", "device", "null", "lost"}]
      /\ \A w \in Pages : w # v => use'[w] = use[w]
      /\ use'[v] \in {"none", "device"}
      /\ use'[v] = "none" => Translation(v)' = NoFrame
  BY <1>1 DEF Inv, TypeOK
<1>9. TypeOK'
  BY <1>1, <1>4, <1>5, <1>8 DEF Inv, TypeOK, MemoryTypes, PageEntries
<1>10. StrayNoted'
  BY <1>4, <1>6 DEF Inv, StrayNoted
<1>11. UseRight'
  BY <1>3, <1>4, <1>5, <1>6, <1>8 DEF Inv, UseRight
<1>12. PendingRight'
  BY <1>1, NothingPending DEF PendingRight
<1>13. QED
  BY <1>4, <1>5, <1>7, <1>9, <1>10, <1>11, <1>12 DEF Inv, AllocatorStep

\* Taking a mapping away disturbs no other page and no place of a block.
LEMMA PageUnmapped ==
  ASSUME TypeOK, PlacesRight, MappedRight, HighKept, NEW v \in Pages, NEW e \in PageEntries,
         ~e.present, directory[v[1]] # 0 /\ e.frame >= TopBit => v \in high,
         SetEntry(v, e), UNCHANGED <<boot, directory>>,
         high \subseteq high', shadowed \subseteq shadowed'
  PROVE  /\ tables' \in [Blocks \cup {0} -> [Indexes -> PageEntries]]
         /\ \A w \in Pages \ {v} : Translation(w)' = Translation(w)
         /\ Translation(v)' = NoFrame
         /\ HighKept'
         /\ UNCHANGED <<pool, owned>> => MemoryTypes' /\ PlacesRight' /\ MappedRight'
<1>1. /\ tables' \in [Blocks \cup {0} -> [Indexes -> PageEntries]]
      /\ \A w \in Pages \ {v} : Translation(w)' = Translation(w)
      /\ Translation(v)' = NoFrame
      /\ Entry(v)' = e
      /\ \A w \in Pages \ {v} : directory[w[1]] # 0 => Entry(w)' = Entry(w)
  BY EntryWritten DEF PlacesRight
<1>2. NoFrame \notin Blocks
  BY ConstantTypes DEF NoFrame
<1>3. HighKept'
  BY <1>1 DEF HighKept
<1>4. ASSUME UNCHANGED <<pool, owned>>
      PROVE  MemoryTypes' /\ PlacesRight' /\ MappedRight'
  <2>1. MemoryTypes'
    BY <1>1, <1>4 DEF TypeOK, MemoryTypes
  <2>2. OwnedNotFree' /\ OwnedDisjoint' /\ NoDevices'
    BY <1>4, BlocksKept DEF PlacesRight
  <2>3. TablesOnce' /\ TablesOwned'
    BY <1>4 DEF PlacesRight, TablesOnce, TablesOwned
  <2>4. MappedRight'
    <3>1. ASSUME NEW u \in Pages, Translation(u)' \in Blocks \ (Devices \cup shadowed')
          PROVE  /\ <<Translation(u)', 1>> \in owned
                 /\ \A w \in Pages : Translation(u)' = Translation(w)' => u = w
                 /\ \A d \in Directories : directory[d] # Translation(u)'
      <4>1. u # v /\ Sound(Translation(u)) /\ Translation(u)' = Translation(u)
        BY <1>1, <1>2, <3>1 DEF Sound
      <4>2. Translation(u) # NoFrame
        BY <1>2, <4>1 DEF Sound
      <4>3. QED
        BY <1>1, <4>1, <4>2 DEF MappedRight
    <3>2. QED
      BY <1>4, <3>1 DEF MappedRight, Sound
  <2>5. QED
    BY <2>1, <2>2, <2>3, <2>4 DEF PlacesRight
<1>5. QED
  BY <1>1, <1>3, <1>4

\* What the callers know of a page that was taken away.
LEMMA PageGivenUp ==
  ASSUME Inv, NEW v \in Pages, allocated = NoPage, UNCHANGED tlb, TakeAway(v),
         MemoryTypes', stray' \subseteq shadowed,
         \A w \in Pages \ {v} : Translation(w)' = Translation(w),
         Translation(v)' = NoFrame
  PROVE  /\ TypeOK' /\ MappedAsAsked' /\ StaleOnlyUnflushed'
         /\ AstrayNoted' /\ ShadowedHigh' /\ StrayNoted'
         /\ UseRight' /\ PendingRight'
<1>1. /\ use' = [use EXCEPT ![v] = "none"] /\ unflushed' = unflushed \cup {v}
      /\ Give(v, 0) /\ UNCHANGED allocated
  BY DEF TakeAway
<1>2. Leads(v, 0)
  BY DEF Leads
<1>3. /\ asked' \in [Pages -> Nat] /\ asked'[v] = 0
      /\ \A w \in Pages \ {v} : asked'[w] = asked[w]
      /\ high' \subseteq Pages /\ shadowed' \subseteq Nat
      /\ MappedAsAsked' /\ AstrayNoted' /\ ShadowedHigh'
  BY <1>1, <1>2, FrameGiven DEF Inv
<1>4. shadowed \subseteq shadowed'
  BY <1>1, GivenGrows
<1>5. StaleOnlyUnflushed'
  BY <1>1, StaleKept DEF Inv
<1>6. /\ use' \in [Pages -> {"none", "memory", "device", "null", "lost"}]
      /\ \A w \in Pages : w # v => use'[w] = use[w]
      /\ use'[v] = "none"
  BY <1>1 DEF Inv, TypeOK
<1>7. TypeOK'
  BY <1>1, <1>3, <1>4, <1>6 DEF Inv, TypeOK, MemoryTypes, PageEntries
<1>8. StrayNoted'
  BY <1>4 DEF StrayNoted
<1>9. UseRight'
  <2>1. \A w \in Pages : ~Pending(w)
    BY NothingPending DEF Pending
  <2>2. QED
    BY <1>3, <1>4, <1>6, <2>1 DEF Inv, UseRight
<1>10. PendingRight'
  BY <1>1, NothingPending DEF PendingRight
<1>11. QED
  BY <1>3, <1>5, <1>7, <1>8, <1>9, <1>10

\* Unmapping (lines 58-62).
LEMMA UnmapInv ==
  ASSUME Inv, NEW v \in Pages, Unmap(v)
  PROVE  Inv' /\ AllocatorStep
<1> DEFINE e == NotPresent(SetFrame(Entry(v), 0))
<1>1. /\ e \in PageEntries /\ ~e.present
      /\ e.frame >= TopBit => Entry(v).frame >= TopBit
  <2>1. Entry(v) \in PageEntries
    BY EntryType DEF Inv
  <2>2. /\ SetFrame(Entry(v), 0) \in PageEntries
        /\ SetFrame(Entry(v), 0).frame = 0 \/ Entry(v).frame >= TopBit
    BY <2>1, SetFrameResult
  <2>3. e \in PageEntries /\ ~e.present /\ e.frame = SetFrame(Entry(v), 0).frame
    BY <2>2, PresentResult
  <2>4. QED
    BY <2>2, <2>3, ConstantTypes
<1>2. /\ SetEntry(v, e) /\ UNCHANGED <<pool, owned, boot, directory, stray>>
      /\ allocated = NoPage /\ UNCHANGED tlb /\ TakeAway(v)
  BY DEF Unmap, Calling, vmm_unmap_page
<1> HIDE DEF e
<1>3. high \subseteq high' /\ shadowed \subseteq shadowed'
  BY <1>2, GivenGrows DEF TakeAway
<1>4. directory[v[1]] # 0 /\ e.frame >= TopBit => v \in high
  BY <1>1 DEF Inv, HighKept
<1>5. /\ MemoryTypes' /\ PlacesRight' /\ MappedRight' /\ HighKept'
      /\ \A w \in Pages \ {v} : Translation(w)' = Translation(w)
      /\ Translation(v)' = NoFrame
  BY <1>1, <1>2, <1>3, <1>4, PageUnmapped DEF Inv
<1>6. stray' \subseteq shadowed
  BY <1>2 DEF Inv, StrayNoted
<1>7. /\ TypeOK' /\ MappedAsAsked' /\ StaleOnlyUnflushed'
      /\ AstrayNoted' /\ ShadowedHigh' /\ StrayNoted' /\ UseRight' /\ PendingRight'
  BY <1>2, <1>5, <1>6, PageGivenUp
<1>8. QED
  BY <1>2, <1>5, <1>7 DEF Inv, AllocatorStep, Granted

\* Giving a page back: its block was owned and is in no other place, so it is
\* the caller's to return; or the page led elsewhere, which is remembered
\* (lines 26-30).
LEMMA FreePageInv ==
  ASSUME Inv, NEW v \in Pages, FreePage(v)
  PROVE  Inv' /\ AllocatorStep
<1> DEFINE e == NotPresent(Entry(v))
           f == Entry(v).frame
<1>1. e \in PageEntries /\ ~e.present /\ f \in Nat /\ e.frame = f
  BY EntryType, PresentResult DEF Inv, PageEntries
<1>2. /\ SetEntry(v, e) /\ UNCHANGED <<boot, directory>>
      /\ allocated = NoPage /\ UNCHANGED tlb /\ TakeAway(v)
      /\ use[v] = "memory"
      /\ IF f # 0 THEN pmm_free_blocks(f) ELSE UNCHANGED <<pool, owned, stray>>
  BY DEF FreePage, Calling, vmm_free_page
<1>3. /\ Translation(v) = f
      /\ f = asked[v] \/ f \in shadowed
      /\ asked[v] \in Blocks
      /\ asked[v] \in Devices => asked[v] \in shadowed
  BY <1>2 DEF Inv, UseRight, AstrayNoted, Translation
<1>4. directory[v[1]] # 0 /\ e.frame >= TopBit => v \in high
  BY <1>1 DEF Inv, HighKept
<1> HIDE DEF e, f
<1>5. high \subseteq high' /\ shadowed \subseteq shadowed'
  BY <1>2, GivenGrows DEF TakeAway
<1>6. /\ tables' \in [Blocks \cup {0} -> [Indexes -> PageEntries]]
      /\ \A w \in Pages \ {v} : Translation(w)' = Translation(w)
      /\ Translation(v)' = NoFrame
      /\ HighKept'
      /\ UNCHANGED <<pool, owned>> => MemoryTypes' /\ PlacesRight' /\ MappedRight'
  BY <1>1, <1>2, <1>4, <1>5, PageUnmapped DEF Inv
<1>7. CASE f \notin Blocks
  <2>1. <<f, 1>> \notin owned
    BY <1>7 DEF Inv, TypeOK
  <2>2. UNCHANGED <<pool, owned>> /\ stray' \subseteq stray \cup {f}
    BY <1>2, <1>7, <2>1 DEF pmm_free_blocks
  <2>3. stray' \subseteq shadowed
    BY <1>3, <1>7, <2>2 DEF Inv, StrayNoted
  <2>4. /\ TypeOK' /\ MappedAsAsked' /\ StaleOnlyUnflushed'
        /\ AstrayNoted' /\ ShadowedHigh' /\ StrayNoted' /\ UseRight' /\ PendingRight'
    BY <1>2, <1>6, <2>2, <2>3, PageGivenUp
  <2>5. QED
    BY <1>6, <2>2, <2>4 DEF Inv, AllocatorStep, Granted
<1>8. CASE f \in Blocks
  <2>1. pool' = pool \cup {f} /\ owned' = owned \ {<<f, 1>>} /\ stray' = stray
    BY <1>2, <1>8, ConstantTypes DEF pmm_free_blocks
  <2>2. Run(f, 1) = {f} /\ Allocator!Run(f, 1) = {f}
    BY <1>1, RunOfOne DEF Run, Allocator!Run
  <2>3. f \notin shadowed => Sound(f)
    BY <1>3, <1>8 DEF Sound
  <2>4. f \notin shadowed =>
          /\ <<f, 1>> \in owned
          /\ \A w \in Pages : Translation(w) = f => w = v
          /\ \A d \in Directories : directory[d] # f
    BY <1>3, <2>3 DEF Inv, MappedRight
  <2>5. \A d \in Directories : directory[d] # 0 => directory[d] # f
    <3>1. ASSUME NEW d \in Directories, directory[d] # 0
          PROVE  Sound(directory[d])
      BY <3>1, TablesSound DEF Inv
    <3>2. QED
      BY <2>4, <3>1 DEF Sound
  <2>6. OwnedNotFree'
    <3>1. ASSUME NEW r \in owned'
          PROVE  Run(r[1], r[2]) \cap pool' \subseteq shadowed'
      <4>1. r \in owned /\ r # <<f, 1>>
        BY <2>1
      <4>2. Run(r[1], r[2]) \cap {f} \subseteq shadowed
        BY <2>2, <2>4, <4>1 DEF Inv, PlacesRight, OwnedDisjoint
      <4>3. Run(r[1], r[2]) \cap pool \subseteq shadowed
        BY <4>1 DEF Inv, PlacesRight, OwnedNotFree
      <4>4. QED
        BY <1>5, <2>1, <4>2, <4>3
    <3>2. QED
      BY <3>1 DEF OwnedNotFree
  <2>7. OwnedDisjoint'
    BY <1>5, <2>1 DEF Inv, PlacesRight, OwnedDisjoint
  <2>8. NoDevices'
    <3>1. f \in Devices => f \in shadowed'
      BY <1>5, <2>3 DEF Sound
    <3>2. QED
      BY <1>5, <2>1, <3>1 DEF Inv, PlacesRight, NoDevices
  <2>9. TablesOnce'
    BY <1>2 DEF Inv, PlacesRight, TablesOnce
  <2>10. TablesOwned'
    BY <1>2, <2>1, <2>5 DEF Inv, PlacesRight, TablesOwned
  <2>11. MappedRight'
    <3>1. NoFrame \notin Blocks
      BY ConstantTypes DEF NoFrame
    <3>2. ASSUME NEW u \in Pages, Translation(u)' \in Blocks \ (Devices \cup shadowed')
          PROVE  /\ <<Translation(u)', 1>> \in owned'
                 /\ \A w \in Pages : Translation(u)' = Translation(w)' => u = w
                 /\ \A d \in Directories : directory[d] # Translation(u)'
      <4>1. u # v /\ Sound(Translation(u)) /\ Translation(u)' = Translation(u)
        BY <1>5, <1>6, <3>1, <3>2 DEF Sound
      <4>2. Translation(u) # NoFrame /\ Translation(u) # f
        BY <2>4, <3>1, <4>1 DEF Sound
      <4>3. <<Translation(u), 1>> \in owned'
        BY <2>1, <4>1, <4>2 DEF Inv, MappedRight
      <4>4. QED
        BY <1>6, <4>1, <4>2, <4>3 DEF Inv, MappedRight
    <3>3. QED
      BY <1>2, <3>2 DEF MappedRight, Sound
  <2>12. MemoryTypes'
    BY <1>2, <1>6, <1>8, <2>1 DEF Inv, TypeOK, MemoryTypes
  <2>13. stray' \subseteq shadowed
    BY <2>1 DEF Inv, StrayNoted
  <2>14. /\ TypeOK' /\ MappedAsAsked' /\ StaleOnlyUnflushed'
         /\ AstrayNoted' /\ ShadowedHigh' /\ StrayNoted' /\ UseRight' /\ PendingRight'
    BY <1>2, <1>6, <2>12, <2>13, PageGivenUp
  <2>15. Returned(v)
    <3>1. Allocator!GiveBack(<<f, 1>>)
      BY <2>1, <2>2 DEF Allocator!GiveBack
    <3>2. QED
      BY <1>3, <2>4, <3>1 DEF Returned
  <2>16. QED
    BY <1>6, <2>6, <2>7, <2>8, <2>9, <2>10, <2>11, <2>14, <2>15
    DEF Inv, PlacesRight, AllocatorStep
<1>9. QED
  BY <1>7, <1>8

\* What the CPU and a flush do to the translations it holds leaves the rest.
LEMMA TlbInv ==
  ASSUME Inv, NEW v \in Pages, vmm_flush_table_entry(v) \/ Walk(v)
  PROVE  Inv' /\ AllocatorStep
<1>1. UNCHANGED <<pool, owned, boot, directory, tables, allocated, use,
                  asked, high, shadowed, stray>>
  BY DEF vmm_flush_table_entry, Walk, memoryVars, callerVars, historyVars
<1>2. \A w \in Pages : Translation(w)' = Translation(w)
  BY <1>1, SameTables
<1>3. /\ tlb' \in [Pages -> Frames] /\ unflushed' \subseteq Pages
      /\ StaleOnlyUnflushed'
  <2>1. CASE vmm_flush_table_entry(v)
    <3>1. /\ tlb' = [tlb EXCEPT ![v] = NoFrame] /\ unflushed' = unflushed \ {v}
          /\ tlb \in [Pages -> Frames] /\ unflushed \subseteq Pages
      BY <2>1 DEF vmm_flush_table_entry, Invalidate, Inv, TypeOK
    <3>2. QED
      BY <1>2, <3>1 DEF Inv, Frames, StaleOnlyUnflushed
  <2>2. CASE Walk(v)
    <3>1. Translation(v) \in Frames
      BY EntryType DEF Inv, Frames
    <3>2. tlb' = [tlb EXCEPT ![v] = Translation(v)] /\ unflushed' = unflushed
      BY <2>2 DEF Walk, historyVars
    <3>3. QED
      BY <1>2, <3>1, <3>2 DEF Inv, TypeOK, StaleOnlyUnflushed
  <2>3. QED
    BY <2>1, <2>2
<1>4. TypeOK'
  BY <1>1, <1>3 DEF Inv, TypeOK
<1>5. PlacesRight'
  BY <1>1
  DEF Inv, PlacesRight, OwnedNotFree, OwnedDisjoint, NoDevices, TablesOnce, TablesOwned
<1>6. QED
  BY <1>1, <1>3, <1>4, <1>5, SameHistories DEF Inv, AllocatorStep, Granted

\* A step that changes nothing.
LEMMA StutterInv ==
  ASSUME Inv, UNCHANGED vars
  PROVE  Inv' /\ AllocatorStep
<1>1. UNCHANGED <<pool, owned, boot, directory, tables, tlb, allocated, use,
                  asked, unflushed, high, shadowed, stray>>
  BY DEF vars, memoryVars, callerVars, historyVars
<1>2. TypeOK'
  BY <1>1 DEF Inv, TypeOK
<1>3. StaleOnlyUnflushed'
  BY <1>1, SameTables DEF Inv, StaleOnlyUnflushed
<1>4. PlacesRight'
  BY <1>1
  DEF Inv, PlacesRight, OwnedNotFree, OwnedDisjoint, NoDevices, TablesOnce, TablesOwned
<1>5. QED
  BY <1>1, <1>2, <1>3, <1>4, SameHistories DEF Inv, AllocatorStep, Granted

\* Every step keeps the invariant and the allocator's contract.
LEMMA StepInv ==
  ASSUME Inv, [Next]_vars
  PROVE  Inv' /\ AllocatorStep
<1>1. CASE initialize_virtual_memory_manager
  BY <1>1, ObtainInv DEF initialize_virtual_memory_manager
<1>2. ASSUME NEW v \in Pages, NEW block \in Blocks \cup {0}, AllocatePage(v, block)
      PROVE  Inv' /\ AllocatorStep
  BY <1>2, AllocatePageInv
<1>3. ASSUME NEW v \in Pages, FreePage(v)
      PROVE  Inv' /\ AllocatorStep
  BY <1>3, FreePageInv
<1>4. ASSUME NEW v \in Pages, Unmap(v)
      PROVE  Inv' /\ AllocatorStep
  BY <1>4, UnmapInv
<1>5. ASSUME NEW v \in Pages, vmm_flush_table_entry(v) \/ Walk(v)
      PROVE  Inv' /\ AllocatorStep
  BY <1>5, TlbInv
<1>6. ASSUME NEW v \in Pages, NEW frame \in Devices, MapDevice(frame, v)
      PROVE  Inv' /\ AllocatorStep
  BY <1>6, MapDeviceInv
<1>7. ASSUME NEW v \in Pages, NEW block \in Blocks \cup {0}, MapAllocated(v, block)
      PROVE  Inv' /\ AllocatorStep
  BY <1>7, MapAllocatedInv
<1>8. CASE UNCHANGED vars
  BY <1>8, StutterInv
<1>9. QED
  BY <1>1, <1>2, <1>3, <1>4, <1>5, <1>6, <1>7, <1>8 DEF Next

------------------------------------------------------------------------------
(***************************************************************************)
(* The theorems.                                                           *)
(***************************************************************************)

\* The inductive invariant holds in every reachable state.
THEOREM Invariance == Spec => []Inv
<1>1. Inv /\ [Next]_vars => Inv'
  BY StepInv
<1>2. QED
  BY <1>1, InitInv, PTL DEF Spec

\* The tables lead every page to its own frame, whatever allocations failed, and
\* bit 31 leads astray only pages that were above 2 GB once, only to frames above
\* 2 GB, and never to a page table (virtual_memory_manager.c:13-62).
THEOREM PagesAreRight == Spec => []PagesRight
<1>1. Inv => PagesRight
  BY FramesRight DEF Inv, PagesRight
<1>2. QED
  BY <1>1, Invariance, PTL

\* A translation the CPU holds is current unless its page was freed or unmapped
\* and not flushed since (virtual_memory_manager.c:18-62).
THEOREM OnlyUnflushedStale == Spec => []StaleOnlyUnflushed
<1>1. Inv => StaleOnlyUnflushed
  BY DEF Inv
<1>2. QED
  BY <1>1, Invariance, PTL

\* Paging takes runs that are free and gives back only what it was given, unless
\* bit 31 led the page elsewhere (virtual_memory_manager.c:18-30).
THEOREM AllocatorUse == Spec => AllocatorUsedRight
<1> DEFINE Used == (\E n \in {1, 3} : Allocator!Grant(n)) \/ (\E v \in Pages : Returned(v))
<1>1. Inv /\ [Next]_vars => [Used]_<<pool, owned>>
  BY StepInv DEF AllocatorStep, Granted
<1>2. QED
  BY <1>1, Invariance, PTL DEF Spec, AllocatorUsedRight

=============================================================================
