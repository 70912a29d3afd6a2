---------------------------- MODULE BlockAllocator ----------------------------
(***************************************************************************)
(* What a physical memory manager promises to the rest of the kernel,      *)
(* without a bitmap, a counter or a search: there is a pool of free        *)
(* blocks, a caller may be handed a contiguous run of them, and it gives   *)
(* back exactly what it was handed.  Block 0 is never part of the pool, so *)
(* the address 0 can mean "no memory".                                     *)
(*                                                                         *)
(* A refused request changes nothing and is a stuttering step here.        *)
(***************************************************************************)
EXTENDS Integers

CONSTANTS
  Blocks,     \* the block numbers the manager can account for
  Requests    \* how many blocks a caller asks for at once

VARIABLES
  pool,       \* the blocks nobody holds and nobody reserved
  owned       \* the runs callers hold, each a pair <<first block, length>>

vars == <<pool, owned>>

Run(first, n) == first .. (first + n - 1)

OwnedBlocks == UNION {Run(a[1], a[2]) : a \in owned}

Init ==
  /\ pool = {}
  /\ owned = {}

\* The boot code reports usable memory: the pool grows, but never by a block
\* somebody holds and never by block 0.
Release ==
  /\ pool \subseteq pool'
  /\ pool' \subseteq Blocks \ (OwnedBlocks \cup {0})
  /\ UNCHANGED owned

\* The boot code withdraws memory (its own image, a device) from the pool.
Reserve ==
  /\ pool' \subseteq pool
  /\ UNCHANGED owned

\* A caller is handed a run of blocks that were all in the pool.
Grant(n) ==
  \E first \in pool :
    /\ Run(first, n) \subseteq pool
    /\ pool' = pool \ Run(first, n)
    /\ owned' = owned \cup {<<first, n>>}

\* A caller returns a run it holds.
GiveBack(a) ==
  /\ owned' = owned \ {a}
  /\ pool' = pool \cup Run(a[1], a[2])

Next ==
  \/ Release
  \/ Reserve
  \/ \E n \in Requests : Grant(n)
  \/ \E a \in owned : GiveBack(a)

Spec == Init /\ [][Next]_vars
===============================================================================
