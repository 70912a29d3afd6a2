------------------------ MODULE MCVirtualMemoryManager ------------------------
(***************************************************************************)
(* Ten blocks in the identity map, bit 16 for the top bit: block 23 is     *)
(* block 7 with that bit.  Three pages, two behind one directory entry and *)
(* two with the same table index.                                          *)
(***************************************************************************)
EXTENDS VirtualMemoryManager

MCBlocks == 1 .. 23

\* Too little to start, too little for the tables, a directory out of reach, a
\* memory whose next table is out of reach, and one with a block above the bit.
\* Block 10 with the bit would be behind the bitmap.
MCFreeAtBoot ==
  {{1, 2}, 1 .. 4, {4, 5} \cup 11 .. 13, (1 .. 6) \cup {10}, (1 .. 7) \cup {23}}

MCPages == {<<1, 0>>, <<1, 1>>, <<2, 1>>}

\* The frame buffer, above 2 GB.
MCDevices == {20}

\* Bounds: the CPU holds one translation at a time, and one page at least has
\* never been given a frame above the bit.
OneTranslation ==
  \A v, w \in Pages : NoFrame \notin {tlb[v], tlb[w]} => v = w

NotAllHigh == high # Pages
==============================================================================
