----------------------------- MODULE MCFileSystem -----------------------------
(***************************************************************************)
(* Sectors of two bytes, runs of four sectors instead of 256, a directory  *)
(* of four entries.                                                        *)
(***************************************************************************)
EXTENDS FileSystem

\* Empty, less than a sector, a full one, one byte more; a run of four, one
\* sector more, and two runs and a bit; too long for the FAT.
MCFiles ==
  { [name |-> "kernel", size |-> s] : s \in {0, 3, 8} }
    \cup { [name |-> "file", size |-> s] : s \in {0, 1, 2, 3, 8, 9, 17} }
==============================================================================
