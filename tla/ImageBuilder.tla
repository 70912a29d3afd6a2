---------------------------- MODULE ImageBuilder ----------------------------
(***************************************************************************)
(* The disk image as build/add_file.py makes it: "-init", one call per     *)
(* file, "-package" (the order of the Makefile's target build).  The files *)
(* the script keeps between its calls are the variables.                   *)
(*                                                                         *)
(* Names are what is left of them in the directory: cut to eight letters   *)
(* and padded, so two files may have the same one.  Data are sectors, the  *)
(* i-th of the n-th file being <<n, i>>; those of no file are <<0, _>>.     *)
(***************************************************************************)
EXTENDS Naturals, Sequences

CONSTANTS
  Files,              \* records [name, size]: what may be added
  MaxFiles,           \* bound: files added
  VolumeName,
  SectorBytes,        \* 512
  BootSectors,        \* SIZE_OF_BOOTCODE
  FatSectors,         \* 12
  RootSectors,        \* 32
  TableEntries,       \* clusters in the FAT: 3072
  RootEntries         \* entries in the root directory: 512

EndOfFile == 65535
Reserved  == 65520      \* 0xFFF0, the least value that ends a chain
MediaByte == 65528

ASSUME ImageAssumption ==
  /\ \A file \in Files : file.size \in Nat /\ file.name # VolumeName
  /\ MaxFiles \in Nat
  /\ SectorBytes \in Nat \ {0}
  /\ BootSectors \in Nat /\ FatSectors \in Nat /\ RootSectors \in Nat
  /\ TableEntries \in 2 .. Reserved
  /\ RootEntries \in Nat \ {0}
  /\ BootSectors + FatSectors + RootSectors \in 2 .. TableEntries

VARIABLES
  clust,          \* the pickled number: the next free cluster
  filetable,      \* the directory
  clustertable,   \* the FAT
  data,           \* the sectors of all files
  make            \* what make has got to

imageVars == <<clust, filetable, clustertable, data, make>>

ReservedShortFat == BootSectors + FatSectors - 1 + RootSectors

reserved_sectors == BootSectors + FatSectors + RootSectors

EmptyTable ==
  [c \in 0 .. (TableEntries - 1) |->
     CASE c = 0 -> MediaByte
       [] c = 1 -> EndOfFile
       [] c \in 2 .. (reserved_sectors - 1) -> Reserved
       [] OTHER -> 0]

ImageInit ==
  /\ clust = reserved_sectors
  /\ filetable = << [name |-> VolumeName, start |-> 0, size |-> SectorBytes * RootSectors] >>
  /\ clustertable = EmptyTable
  /\ data = <<>>
  /\ make = "adding"

\* The clusters of a file but for the last.  range(-1), of an empty file, is
\* empty like range(0).
Links(size) ==
  IF size = 0 THEN 0
  ELSE size \div SectorBytes - (IF size % SectorBytes = 0 THEN 1 ELSE 0)

Linked(table, first, last) ==
  [c \in DOMAIN table |->
     IF c \in first .. last THEN (IF c = last THEN EndOfFile ELSE c + 1) ELSE table[c]]

\* The first cluster after a file that ends with this one.
NextOverlaps(last) == last
NextFree(last) == last + 1

\* The directory entry is on disk before the FAT turns out too small: then the
\* script dies with an IndexError, and make with it.
AddFile(file) ==
  LET last == clust + Links(file.size)
  IN  /\ make = "adding" /\ Len(filetable) <= MaxFiles
      /\ filetable' = Append(filetable, [name |-> file.name, start |-> clust, size |-> file.size])
      /\ \/ /\ last < TableEntries
            /\ clustertable' = Linked(clustertable, clust, last)
            /\ data' = data \o [i \in 1 .. (last - clust + 1) |-> <<Len(filetable), i - 1>>]
            /\ clust' = NextFree(last)
            /\ UNCHANGED make
         \/ /\ last >= TableEntries
            /\ make' = "failed"
            /\ UNCHANGED <<clust, clustertable, data>>

Package ==
  /\ make = "adding"
  /\ make' = "packaged"
  /\ UNCHANGED <<clust, filetable, clustertable, data>>

Build == Package \/ \E file \in Files : AddFile(file)

\* The packaged image, by sector.  A directory of more than RootEntries entries
\* is not cut: it pushes the data out of the place the clusters stand for.
System  == <<0, 0>>
Shifted == <<0, 1>>
Zeros   == <<0, 2>>

DataStart == BootSectors + FatSectors + RootSectors

Sector(lba) ==
  CASE lba < DataStart              -> System
    [] Len(filetable) > RootEntries -> Shifted
    [] lba - DataStart >= Len(data) -> Zeros
    [] OTHER                        -> data[lba - DataStart + 1]

------------------------------------------------------------------------------
Added == 2 .. Len(filetable)      \* entry 1 is the volume label

Complete == IF make = "failed" THEN 2 .. (Len(filetable) - 1) ELSE Added

Clusters(entry) == entry.start .. (entry.start + Links(entry.size))

Follow(c) == clustertable[c]

\* Every file's entry starts a chain of as many clusters as its bytes need
\* (one if it is empty), in a row and ended; no two chains share a cluster and
\* the rest of the FAT is free or reserved, also when make died half-way
\* through add_file.py:73-101.
ChainsExact ==
  /\ \A k \in Complete :
       LET entry == filetable[k]
           last == entry.start + Links(entry.size)
       IN  /\ (Links(entry.size) + 1) * SectorBytes >= entry.size
           /\ Links(entry.size) * SectorBytes < entry.size \/ entry.size = 0
           /\ \A c \in Clusters(entry) \ {last} : Follow(c) = c + 1
           /\ Follow(last) = EndOfFile
  /\ \A j, k \in Complete : j # k => Clusters(filetable[j]) \cap Clusters(filetable[k]) = {}
  /\ \A c \in reserved_sectors .. (TableEntries - 1) :
       Follow(c) = 0 <=> \A k \in Complete : c \notin Clusters(filetable[k])

\* A cluster number is the sector number of its data (the readers use it so)
\* in every image whose directory fits its RootSectors.
ClusterIsSector ==
  make = "packaged" /\ Len(filetable) <= RootEntries =>
    \A k \in Added : \A c \in Clusters(filetable[k]) :
      Sector(c) = <<k - 1, c - filetable[k].start>>

\* README.md:18 "Starting cluster (0 for an empty file)".
EmptyFileHasNoCluster ==
  \A k \in Added : filetable[k].size = 0 => filetable[k].start = 0
==============================================================================
