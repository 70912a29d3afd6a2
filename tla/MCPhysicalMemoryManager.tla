----------------------- MODULE MCPhysicalMemoryManager -----------------------
(***************************************************************************)
(* Small instance: blocks of 2 bytes, bitmap bytes of 3 bits.              *)
(***************************************************************************)
EXTENDS PhysicalMemoryManager

\* <<start, size>> in bytes: the low memory with block 0, a range that starts
\* inside a block of the first and ends where the last begins, and one up to the
\* very top. The loop for each of the first two reaches into the next one.
MCRegions == {<<0, 6>>, <<5, 9>>, <<14, 8>>}
MCRequests == {1, 2, 4}
==============================================================================
