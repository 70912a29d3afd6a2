------------------------------ MODULE BootProofs ------------------------------
(***************************************************************************)
(* Proofs about what is built and read until the kernel runs.              *)
(*                                                                         *)
(* First the disk image and its two readers, for all sizes of sectors, of  *)
(* the FAT and of the directory, and any files.  The invariant has two     *)
(* halves.  One is about the image: the files lie side by side behind the  *)
(* reserved sectors, each with its chain and its data at the same places.  *)
(* The other is about the readers, who walk the chains of a finished       *)
(* image: how far each has come, and that what it has taken on the way     *)
(* there is the file up to that point.                                     *)
(*                                                                         *)
(* Then the second stage: the search for a video mode, for every list of   *)
(* modes a BIOS may have and every wanted mode whose number of lines       *)
(* survives the division by 9 (load_kernel.asm:100-102); and the memory    *)
(* map, for every list of entries, room in front of the FAT and way a BIOS *)
(* may end its list, with what it leaves of the links of any kernel.       *)
(***************************************************************************)
EXTENDS FileSystem, SecondStage, TLAPS, SequenceTheorems, WellFoundedInduction


Entries ==
  [name : {VolumeName} \cup {file.name : file \in Files}, start : Nat, size : Nat]

LastCluster(k) == filetable[k].start + Links(filetable[k].size)

ImageTypes ==
  /\ filetable \in Seq(Entries) /\ filetable # <<>>
  /\ data \in Seq(Nat \X Nat) /\ Len(data) = clust - reserved_sectors

\* Only the first entry is the volume label.
LabelFirst ==
  /\ filetable[1].name = VolumeName
  /\ \A k \in Added : filetable[k].name # VolumeName

\* A complete file has its clusters behind the reserved ones: they are a chain,
\* and its data are the sectors of the same numbers.
Laid ==
  \A k \in Complete :
    /\ reserved_sectors <= filetable[k].start /\ LastCluster(k) < clust
    /\ \A c \in filetable[k].start .. LastCluster(k) :
         /\ clustertable[c] = IF c = LastCluster(k) THEN EndOfFile ELSE c + 1
         /\ data[c - reserved_sectors + 1] = <<k - 1, c - filetable[k].start>>

\* Files lie in the order they were added in, with nothing between them.
InARow ==
  /\ \A j, k \in Complete : j < k => LastCluster(j) < filetable[k].start
  /\ \A c \in reserved_sectors .. (clust - 1) :
       \E k \in Complete : c \in Clusters(filetable[k])
  /\ \A c \in clust .. (TableEntries - 1) : clustertable[c] = 0

ImageRight == ImageTypes /\ LabelFirst /\ Laid /\ InARow

\* The loader has passed over no entry of the kernel, and has loaded the
\* kernel up to the cluster it is at.
LoaderRight ==
  /\ loader = "search" =>
       /\ di \in 1 .. SearchArea /\ (make # "packaged" => di = 1) /\ loaded = <<>>
       /\ \A k \in Matches(KernelName) : di <= k
  /\ loader # "search" =>
       /\ make = "packaged" /\ loaded \in Seq(Nat \X Nat)
       /\ \E k \in Matches(KernelName) :
            /\ IsFirst(k, KernelName)
            /\ loader = "more" => di \in filetable[k].start .. LastCluster(k)
            /\ Len(loaded) = IF loader = "more" THEN di - filetable[k].start
                             ELSE Links(filetable[k].size) + 1
            /\ DirectoryFits => \A s \in 1 .. Len(loaded) : loaded[s] = <<k - 1, s - 1>>

\* find_entry has passed over no entry of the file.
SearchRight ==
  /\ kernel # "off" <=> loader = "done"
  /\ kernel \in {"off", "find"} =>
       /\ entry \in 1 .. (RootEntries + 1) /\ entry <= Len(filetable) + 1
       /\ kernel = "off" => entry = 1
       /\ \A k \in Matches(FileName) : entry <= k
       /\ to = 0 /\ run = 1
       /\ memory = [o \in Offsets |-> Untouched]
  /\ FindsFirst

Reading == {"extend", "command", "transfer", "next run", "done"}

\* The sectors that read_all_to is through with, read or not.
Through ==
  CASE kernel = "transfer" -> to + i
    [] kernel = "next run" -> to + run
    [] OTHER -> to

\* Every run but the last is a full one, so that "to" is a multiple of its
\* length; a run that is read is the last one.
ReadRight ==
  kernel \in Reading =>
    /\ kernel = "done" => to = Sectors
    /\ kernel # "done" =>
         /\ (to % CountModulus) = 0 /\ to + run <= Sectors
         /\ first = filetable[entry].start + to /\ current = first + run - 1
    /\ kernel \in {"command", "transfer", "next run"} =>
         run = CountModulus \/ to + run = Sectors
    /\ kernel \in {"command", "transfer"} => count = run
    /\ kernel = "transfer" => i \in 0 .. (count - 1)
    /\ DirectoryFits =>
         \A o \in Offsets :
           memory[o] = IF o < Through /\ ~InFullRun(o) THEN <<entry - 1, o>> ELSE Untouched

Inv == TypeOK /\ ImageRight /\ LoaderRight /\ SearchRight /\ ReadRight

------------------------------------------------------------------------------
(***************************************************************************)
(* The image.                                                              *)
(***************************************************************************)

\* The constants of the image, and the names the definitions give to sums of
\* them.
LEMMA Sizes ==
  /\ reserved_sectors \in Nat /\ DataStart = reserved_sectors
  /\ reserved_sectors \in 2 .. TableEntries
  /\ TableEntries \in 2 .. Reserved /\ Reserved \in Nat /\ Reserved < EndOfFile
  /\ EndOfFile \in Nat /\ MediaByte \in 0 .. EndOfFile
  /\ RootEntries \in Nat \ {0} /\ SearchArea = RootEntries + 1
  /\ CountModulus \in Nat \ {0, 1} /\ RunLimit = CountModulus
<1>1. /\ BootSectors \in Nat /\ FatSectors \in Nat /\ RootSectors \in Nat
      /\ TableEntries \in 2 .. Reserved /\ RootEntries \in Nat \ {0}
      /\ BootSectors + FatSectors + RootSectors \in 2 .. TableEntries
  BY ImageAssumption
<1>2. /\ reserved_sectors \in Nat /\ DataStart = reserved_sectors
      /\ reserved_sectors \in 2 .. TableEntries
  BY <1>1 DEF reserved_sectors, DataStart
<1>3. CountModulus \in Nat \ {0, 1} /\ RunLimit = CountModulus
  BY ReadersAssumption DEF RunLimit
<1>4. /\ Reserved \in Nat /\ Reserved < EndOfFile
      /\ EndOfFile \in Nat /\ MediaByte \in 0 .. EndOfFile
  BY DEF Reserved, EndOfFile, MediaByte
<1>5. SearchArea = RootEntries + 1
  BY DEF SearchArea
<1>6. QED
  BY <1>1, <1>2, <1>3, <1>4, <1>5

\* A file has as many clusters as its bytes need, and one if it is empty
\* (add_file.py:80-94).
LEMMA LinksBound ==
  ASSUME NEW size \in Nat
  PROVE  /\ Links(size) \in Nat
         /\ (Links(size) + 1) * SectorBytes >= size
         /\ Links(size) * SectorBytes < size \/ size = 0
<1> DEFINE q == size \div SectorBytes
           r == size % SectorBytes
<1>1. SectorBytes \in Nat \ {0}
  BY ImageAssumption
<1>2. q \in Nat /\ r \in 0 .. (SectorBytes - 1) /\ size = (q * SectorBytes) + r
  BY <1>1
<1>3. Links(size) = IF size = 0 THEN 0 ELSE q - (IF r = 0 THEN 1 ELSE 0)
  BY DEF Links
<1> HIDE DEF q, r
<1>4. CASE size = 0
  BY <1>1, <1>3, <1>4
<1>5. CASE size # 0 /\ r = 0
  <2>1. Links(size) = q - 1 /\ size = q * SectorBytes
    BY <1>1, <1>2, <1>3, <1>5
  <2>2. q # 0
    BY <1>1, <1>2, <1>5
  <2>3. q \in Nat /\ q - 1 \in Nat /\ (q - 1) + 1 = q
    BY <1>2, <2>2
  <2>4. (q - 1) * SectorBytes = (q * SectorBytes) - SectorBytes
    BY <1>1, <1>2
  <2> DEFINE p == q * SectorBytes
  <2>5. p \in Nat /\ (q - 1) * SectorBytes = p - SectorBytes /\ size = p
    BY <1>1, <1>2, <2>1, <2>4
  <2>6. ((q - 1) + 1) * SectorBytes = p
    BY <2>3
  <2> HIDE DEF p
  <2>7. p - SectorBytes < size /\ p >= size
    BY <1>1, <2>5
  <2>8. (Links(size) + 1) * SectorBytes = p
    BY <2>1, <2>6
  <2>9. Links(size) * SectorBytes = p - SectorBytes
    BY <2>1, <2>5
  <2>10. (Links(size) + 1) * SectorBytes >= size
    BY <2>7, <2>8
  <2>11. Links(size) * SectorBytes < size
    BY <2>7, <2>9
  <2>12. Links(size) \in Nat
    BY <2>1, <2>3
  <2>13. QED
    BY <2>10, <2>11, <2>12
<1>6. CASE size # 0 /\ r # 0
  <2>1. Links(size) = q
    BY <1>2, <1>3, <1>6
  <2>2. (q + 1) * SectorBytes = (q * SectorBytes) + SectorBytes
    BY <1>1, <1>2
  <2>3. QED
    BY <1>1, <1>2, <1>6, <2>1, <2>2
<1>7. QED
  BY <1>4, <1>5, <1>6

\* What the types say of the entries of the directory.
LEMMA EntryTypes ==
  ASSUME ImageTypes
  PROVE  /\ Len(filetable) \in Nat \ {0} /\ DOMAIN filetable = 1 .. Len(filetable)
         /\ \A k \in 1 .. Len(filetable) :
              /\ filetable[k] \in Entries
              /\ filetable[k].start \in Nat /\ filetable[k].size \in Nat
              /\ Links(filetable[k].size) \in Nat /\ LastCluster(k) \in Nat
              /\ LastCluster(k) = filetable[k].start + Links(filetable[k].size)
              /\ Clusters(filetable[k]) = filetable[k].start .. LastCluster(k)
         /\ Complete \subseteq Added /\ Added \subseteq 1 .. Len(filetable)
<1>1. filetable \in Seq(Entries) /\ filetable # <<>>
  BY DEF ImageTypes
<1>2. Len(filetable) \in Nat \ {0} /\ DOMAIN filetable = 1 .. Len(filetable)
  BY <1>1, LenProperties, EmptySeq
<1>3. ASSUME NEW k \in 1 .. Len(filetable)
      PROVE  filetable[k] \in Entries
  BY <1>1, <1>3, ElementOfSeq
<1>4. ASSUME NEW k \in 1 .. Len(filetable)
      PROVE  filetable[k].start \in Nat /\ filetable[k].size \in Nat
  <2>1. filetable[k] \in Entries
    BY <1>3
  <2>2. QED
    BY <2>1 DEF Entries
<1>5. ASSUME NEW k \in 1 .. Len(filetable)
      PROVE  /\ Links(filetable[k].size) \in Nat /\ LastCluster(k) \in Nat
             /\ LastCluster(k) = filetable[k].start + Links(filetable[k].size)
             /\ Clusters(filetable[k]) = filetable[k].start .. LastCluster(k)
  <2>1. filetable[k].start \in Nat /\ Links(filetable[k].size) \in Nat
    BY <1>4, <1>5, LinksBound
  <2>2. QED
    BY <2>1 DEF LastCluster, Clusters
<1>6. Complete \subseteq Added /\ Added \subseteq 1 .. Len(filetable)
  BY <1>2 DEF Complete, Added
<1>7. QED
  BY <1>2, <1>3, <1>4, <1>5, <1>6

\* A script that has just made its files ("-init") leaves an image without
\* files.
LEMMA ImageInitRight == ImageInit => ImageRight
<1> SUFFICES ASSUME ImageInit PROVE ImageRight
  OBVIOUS
<1> DEFINE label == [name |-> VolumeName, start |-> 0, size |-> SectorBytes * RootSectors]
<1>1. filetable = <<label>> /\ clust = reserved_sectors /\ data = <<>>
      /\ clustertable = EmptyTable /\ make = "adding"
  BY DEF ImageInit
<1>2. label \in Entries
  BY ImageAssumption DEF Entries
<1>3. label.name = VolumeName
  OBVIOUS
<1> HIDE DEF label
<1>4. filetable \in Seq(Entries) /\ filetable # <<>> /\ Len(filetable) = 1
      /\ filetable[1] = label
  BY <1>1, <1>2
<1>5. ImageTypes
  BY <1>1, <1>4, Sizes DEF ImageTypes
<1>6. Added = {} /\ Complete = {}
  BY <1>1, <1>4 DEF Added, Complete
<1>7. LabelFirst /\ Laid
  BY <1>3, <1>4, <1>6 DEF LabelFirst, Laid
<1>8. ASSUME NEW c \in clust .. (TableEntries - 1)
      PROVE  clustertable[c] = 0
  <2>1. c \in 0 .. (TableEntries - 1) /\ ~(c = 0) /\ ~(c = 1)
        /\ ~(c \in 2 .. (reserved_sectors - 1))
    BY <1>1, Sizes
  <2>2. clustertable[c] =
          CASE c = 0 -> MediaByte
            [] c = 1 -> EndOfFile
            [] c \in 2 .. (reserved_sectors - 1) -> Reserved
            [] OTHER -> 0
    BY <1>1, <2>1 DEF EmptyTable
  <2>3. QED
    BY <2>1, <2>2
<1>9. InARow
  BY <1>1, <1>6, <1>8, Sizes DEF InARow
<1>10. QED
  BY <1>5, <1>7, <1>9 DEF ImageRight

\* A file that fits goes behind the others; one that does not leaves an entry
\* without a chain, and nothing else changed (add_file.py:73-101).
LEMMA AddFileRight ==
  ASSUME TypeOK, ImageRight, NEW file \in Files, AddFile(file)
  PROVE  /\ ImageRight'
         /\ clust' \in reserved_sectors .. TableEntries
         /\ clustertable' \in [0 .. (TableEntries - 1) -> 0 .. EndOfFile]
         /\ make' \in {"adding", "failed"}
<1> DEFINE new == [name |-> file.name, start |-> clust, size |-> file.size]
           last == clust + Links(file.size)
<1> PICK n \in Nat : n = Len(filetable)
  BY EntryTypes DEF ImageRight
<1>1. /\ make = "adding" /\ clust \in reserved_sectors .. TableEntries
      /\ clustertable \in [0 .. (TableEntries - 1) -> 0 .. EndOfFile]
  BY DEF AddFile, TypeOK
<1>2. ImageTypes /\ LabelFirst /\ Laid /\ InARow
  BY DEF ImageRight
<1>3. clust \in Nat /\ clust >= reserved_sectors /\ clust <= TableEntries
  BY <1>1, Sizes
<1>4. file.size \in Nat /\ file.name # VolumeName
  BY ImageAssumption
<1>5. Links(file.size) \in Nat /\ last \in Nat /\ last >= clust
      /\ last = clust + Links(file.size)
  <2>1. Links(file.size) \in Nat
    BY <1>4, LinksBound
  <2>2. QED
    BY <1>3, <2>1
<1>6. new \in Entries
  BY <1>3, <1>4 DEF Entries
<1>7. new.name = file.name /\ new.start = clust /\ new.size = file.size
  OBVIOUS
<1>8. filetable' = Append(filetable, new)
  BY DEF AddFile
<1> HIDE DEF new
<1>9. filetable \in Seq(Entries) /\ n # 0 /\ DOMAIN filetable = 1 .. n
  BY <1>2, EntryTypes DEF ImageTypes
<1>10. /\ filetable' \in Seq(Entries) /\ filetable' # <<>> /\ Len(filetable') = n + 1
       /\ \A k \in 1 .. n : filetable'[k] = filetable[k]
       /\ filetable'[n + 1] = new
  BY <1>6, <1>8, <1>9, AppendProperties
<1>11. LabelFirst'
  <2>1. filetable'[1].name = VolumeName
    BY <1>2, <1>9, <1>10 DEF LabelFirst
  <2>2. ASSUME NEW k \in Added'
        PROVE  filetable'[k].name # VolumeName
    <3>1. k \in 2 .. (n + 1)
      BY <1>10 DEF Added
    <3>2. CASE k = n + 1
      BY <1>4, <1>7, <1>10, <3>2
    <3>3. CASE k # n + 1
      <4>1. k \in 2 .. n /\ k \in 1 .. n
        BY <1>9, <3>1, <3>3
      <4>2. k \in Added
        BY <4>1 DEF Added
      <4>3. QED
        BY <1>2, <1>10, <4>1, <4>2 DEF LabelFirst
    <3>4. QED
      BY <3>2, <3>3
  <2>3. QED
    BY <2>1, <2>2 DEF LabelFirst
<1>12. Complete = 2 .. n
  BY <1>1 DEF Complete, Added
<1>13. CASE last >= TableEntries
  <2>1. /\ make' = "failed"
        /\ UNCHANGED <<clust, clustertable, data>>
    BY <1>5, <1>13, Sizes DEF AddFile
  <2>2. Complete' = 2 .. n
    BY <1>9, <1>10, <2>1 DEF Complete
  <2>3. \A k \in 2 .. n : filetable'[k] = filetable[k] /\ LastCluster(k)' = LastCluster(k)
                          /\ Clusters(filetable[k])' = Clusters(filetable[k])
    BY <1>9, <1>10 DEF LastCluster, Clusters
  <2>4. ImageTypes'
    BY <1>2, <1>10, <2>1 DEF ImageTypes, reserved_sectors
  <2>5. Laid'
    BY <1>2, <1>12, <2>1, <2>2, <2>3 DEF Laid, reserved_sectors
  <2>6. InARow'
    BY <1>2, <1>12, <2>1, <2>2, <2>3 DEF InARow, reserved_sectors
  <2>7. QED
    BY <1>1, <1>11, <2>1, <2>4, <2>5, <2>6 DEF ImageRight
<1>14. CASE last < TableEntries
  <2> DEFINE added == [s \in 1 .. (last - clust + 1) |-> <<n, s - 1>>]
  <2>1. /\ clustertable' = Linked(clustertable, clust, last)
        /\ data' = data \o added
        /\ clust' = last + 1 /\ make' = "adding"
    <3>1. ~(last >= TableEntries)
      BY <1>5, <1>14, Sizes
    <3>2. QED
      BY <1>1, <3>1 DEF AddFile, NextFree
  <2>2. /\ added \in Seq(Nat \X Nat) /\ Len(added) = last - clust + 1
        /\ \A s \in 1 .. (last - clust + 1) : added[s] = <<n, s - 1>>
    <3>1. last - clust + 1 \in Nat
      BY <1>3, <1>5
    <3>2. \A s \in 1 .. (last - clust + 1) : <<n, s - 1>> \in Nat \X Nat
      BY <1>3, <1>5, <1>9
    <3>3. added \in [1 .. (last - clust + 1) -> Nat \X Nat]
      BY <3>2
    <3>4. QED
      BY <3>1, <3>3
  <2> HIDE DEF added, last
  <2>3. data \in Seq(Nat \X Nat) /\ Len(data) = clust - reserved_sectors
    BY <1>2 DEF ImageTypes
  <2> DEFINE old == clust - reserved_sectors
             all == last + 1 - reserved_sectors
  <2>lens. /\ old = clust - reserved_sectors /\ all = last + 1 - reserved_sectors
           /\ old \in Nat /\ all \in Nat /\ all = clust' - reserved_sectors
    BY <1>3, <1>5, <2>1, Sizes
  <2> HIDE DEF old, all
  <2>4. /\ data' \in Seq(Nat \X Nat) /\ Len(data') = all
        /\ \A s \in 1 .. all : data'[s] = IF s <= old THEN data[s] ELSE added[s - old]
    <3>1. /\ data' \in Seq(Nat \X Nat)
          /\ Len(data') = Len(data) + Len(added)
          /\ \A s \in 1 .. (Len(data) + Len(added)) :
               data'[s] = IF s <= Len(data) THEN data[s] ELSE added[s - Len(data)]
      BY <2>1, <2>2, <2>3, ConcatProperties
    <3>2. old + (last - clust + 1) = all
      BY <1>3, <1>5, <2>lens, Sizes
    <3>3. Len(data) = old /\ Len(data) + Len(added) = all /\ old \in Nat /\ all \in Nat
      BY <2>2, <2>3, <2>lens, <3>2
    <3>4. Len(data') = all
      BY <3>1, <3>3
    <3>5. \A s \in 1 .. all : data'[s] = IF s <= old THEN data[s] ELSE added[s - old]
      BY <3>1, <3>3
    <3>6. QED
      BY <3>1, <3>4, <3>5
  <2>5. Len(data') = clust' - reserved_sectors
    BY <2>4, <2>lens
  <2>6. ImageTypes'
    BY <1>10, <2>4, <2>5 DEF ImageTypes, reserved_sectors
  <2>7. /\ DOMAIN clustertable' = 0 .. (TableEntries - 1)
        /\ \A c \in 0 .. (TableEntries - 1) :
             clustertable'[c] = IF c \in clust .. last
                                THEN (IF c = last THEN EndOfFile ELSE c + 1)
                                ELSE clustertable[c]
    BY <1>1, <2>1 DEF Linked
  <2>8. clustertable' \in [0 .. (TableEntries - 1) -> 0 .. EndOfFile]
    <3>1. ASSUME NEW c \in 0 .. (TableEntries - 1)
          PROVE  clustertable'[c] \in 0 .. EndOfFile
      <4>1. c + 1 \in 0 .. EndOfFile /\ EndOfFile \in 0 .. EndOfFile
            /\ clustertable[c] \in 0 .. EndOfFile
        BY <1>1, Sizes
      <4>2. QED
        BY <2>7, <4>1
    <3>2. clustertable' = [c \in 0 .. (TableEntries - 1) |-> clustertable'[c]]
      BY <1>1, <2>1 DEF Linked
    <3>3. QED
      BY <3>1, <3>2
  <2>9. Complete' = 2 .. (n + 1)
    BY <1>10, <2>1 DEF Complete, Added
  <2>10. /\ \A k \in 2 .. n : /\ filetable'[k] = filetable[k]
                              /\ LastCluster(k)' = LastCluster(k)
                              /\ Clusters(filetable[k])' = Clusters(filetable[k])
         /\ filetable'[n + 1].start = clust /\ LastCluster(n + 1)' = last
         /\ Clusters(filetable[n + 1])' = clust .. last
    <3>1. \A k \in 2 .. n : /\ filetable'[k] = filetable[k]
                            /\ LastCluster(k)' = LastCluster(k)
                            /\ Clusters(filetable[k])' = Clusters(filetable[k])
      BY <1>9, <1>10 DEF LastCluster, Clusters
    <3>2. filetable'[n + 1].start = clust /\ filetable'[n + 1].size = file.size
      BY <1>7, <1>10
    <3>3. QED
      BY <1>5, <3>1, <3>2 DEF LastCluster, Clusters
  <2>11. \A k \in 2 .. n :
           /\ filetable[k].start \in Nat /\ LastCluster(k) \in Nat
           /\ reserved_sectors <= filetable[k].start /\ LastCluster(k) < clust
           /\ Clusters(filetable[k]) = filetable[k].start .. LastCluster(k)
    BY <1>2, <1>12, EntryTypes DEF Laid, Added
  <2>12. Laid'
    <3>1. ASSUME NEW k \in 2 .. n, NEW c \in filetable[k].start .. LastCluster(k)
          PROVE  /\ clustertable'[c] = IF c = LastCluster(k) THEN EndOfFile ELSE c + 1
                 /\ data'[c - reserved_sectors + 1] = <<k - 1, c - filetable[k].start>>
      <4>1. c \in 0 .. (TableEntries - 1) /\ c < clust /\ c >= reserved_sectors
        BY <1>3, <2>11, Sizes
      <4>2. clustertable'[c] = clustertable[c]
        BY <1>3, <2>7, <4>1
      <4>3. data'[c - reserved_sectors + 1] = data[c - reserved_sectors + 1]
        <5>1. c - reserved_sectors + 1 \in 1 .. all /\ c - reserved_sectors + 1 <= old
          BY <1>3, <1>5, <2>lens, <4>1, Sizes
        <5>2. QED
          BY <2>4, <5>1
      <4>4. QED
        BY <1>2, <1>12, <4>2, <4>3 DEF Laid
    <3>2. ASSUME NEW c \in clust .. last
          PROVE  /\ clustertable'[c] = IF c = last THEN EndOfFile ELSE c + 1
                 /\ data'[c - reserved_sectors + 1] = <<n, c - clust>>
      <4>1. c \in 0 .. (TableEntries - 1)
        BY <1>3, <1>5, <1>14, Sizes
      <4>2. /\ c - reserved_sectors + 1 \in 1 .. all
            /\ ~(c - reserved_sectors + 1 <= old)
            /\ c - reserved_sectors + 1 - old = c - clust + 1
            /\ c - clust + 1 \in 1 .. (last - clust + 1)
            /\ (c - clust + 1) - 1 = c - clust
        <5>1. /\ reserved_sectors \in Nat /\ clust \in Nat /\ last \in Nat
              /\ reserved_sectors <= clust /\ c \in Nat /\ clust <= c /\ c <= last
          BY <1>3, <1>5, <4>1, Sizes
        <5>2. QED
          BY <2>lens, <5>1
      <4>3. data'[c - reserved_sectors + 1] = added[c - clust + 1]
        <5> DEFINE p == c - reserved_sectors + 1
        <5>1. p \in 1 .. all /\ ~(p <= old) /\ p - old = c - clust + 1
          BY <1>3, <1>5, <2>lens, <4>2, Sizes
        <5> HIDE DEF p
        <5>2. data'[p] = added[p - old]
          BY <2>4, <5>1
        <5>3. data'[p] = added[c - clust + 1]
          BY <5>1, <5>2
        <5>4. QED
          BY <5>3 DEF p
      <4>4. added[c - clust + 1] = <<n, (c - clust + 1) - 1>>
        BY <2>2, <4>2
      <4>5. QED
        BY <2>7, <4>1, <4>2, <4>3, <4>4
    <3>3. reserved_sectors <= clust /\ last < clust' /\ (n + 1) - 1 = n
      BY <1>3, <1>5, <1>9, <2>1, Sizes
    <3>4. ASSUME NEW k \in Complete'
          PROVE  /\ reserved_sectors <= filetable'[k].start /\ LastCluster(k)' < clust'
                 /\ \A c \in filetable'[k].start .. LastCluster(k)' :
                      /\ clustertable'[c] = IF c = LastCluster(k)' THEN EndOfFile ELSE c + 1
                      /\ data'[c - reserved_sectors + 1] = <<k - 1, c - filetable'[k].start>>
      <4>1. CASE k = n + 1
        <5>1. filetable'[k].start = clust /\ LastCluster(k)' = last /\ k - 1 = n
          BY <2>10, <3>3, <4>1
        <5>2. QED
          BY <3>2, <3>3, <5>1
      <4>2. CASE k # n + 1
        <5>1. k \in 2 .. n
          BY <1>9, <2>9, <3>4, <4>2
        <5>2. LastCluster(k) < clust'
          BY <1>3, <1>5, <2>1, <2>11, <5>1
        <5>3. QED
          BY <2>10, <2>11, <3>1, <5>1, <5>2
      <4>3. QED
        BY <4>1, <4>2
    <3>5. QED
      BY <3>4 DEF Laid, reserved_sectors
  <2>13. \A j, k \in Complete' : j < k => LastCluster(j)' < filetable'[k].start
    <3>1. ASSUME NEW j \in Complete', NEW k \in Complete', j < k
          PROVE  LastCluster(j)' < filetable'[k].start
      <4>1. j \in 2 .. n /\ k \in 2 .. (n + 1)
        BY <1>9, <2>9, <3>1
      <4>2. CASE k = n + 1
        BY <2>10, <2>11, <4>1, <4>2
      <4>3. CASE k # n + 1
        <5>1. k \in 2 .. n
          BY <1>9, <4>1, <4>3
        <5>2. LastCluster(j) < filetable[k].start
          BY <1>2, <1>12, <3>1, <4>1, <5>1 DEF InARow
        <5>3. QED
          BY <2>10, <4>1, <5>1, <5>2
      <4>4. QED
        BY <4>2, <4>3
    <3>2. QED
      BY <3>1
  <2>14. \A c \in reserved_sectors .. (clust' - 1) :
           \E k \in Complete' : c \in Clusters(filetable[k])'
    <3>1. ASSUME NEW c \in reserved_sectors .. (clust' - 1)
          PROVE  \E k \in Complete' : c \in Clusters(filetable[k])'
      <4>1. CASE c \in reserved_sectors .. (clust - 1)
        <5>1. PICK k \in 2 .. n : c \in Clusters(filetable[k])
          BY <1>2, <1>12, <4>1 DEF InARow
        <5>2. k \in 2 .. (n + 1)
          BY <1>9
        <5>3. QED
          BY <2>9, <2>10, <5>1, <5>2
      <4>2. CASE c \notin reserved_sectors .. (clust - 1)
        <5>1. c \in clust .. last
          BY <1>3, <1>5, <2>1, <4>2, Sizes
        <5>2. n + 1 \in 2 .. (n + 1)
          BY <1>9
        <5>3. QED
          BY <2>9, <2>10, <5>1, <5>2
      <4>3. QED
        BY <4>1, <4>2
    <3>2. QED
      BY <3>1
  <2>15. \A c \in clust' .. (TableEntries - 1) : clustertable'[c] = 0
    <3>1. ASSUME NEW c \in clust' .. (TableEntries - 1)
          PROVE  clustertable'[c] = 0
      <4>1. /\ c \in 0 .. (TableEntries - 1) /\ c \notin clust .. last
            /\ c \in clust .. (TableEntries - 1)
        BY <1>3, <1>5, <2>1, Sizes
      <4>2. QED
        BY <1>2, <2>7, <4>1 DEF InARow
    <3>2. QED
      BY <3>1
  <2>16. InARow'
    BY <2>13, <2>14, <2>15 DEF InARow, reserved_sectors
  <2>17. clust' \in reserved_sectors .. TableEntries
    BY <1>3, <1>5, <1>14, <2>1, Sizes
  <2>18. QED
    BY <1>11, <2>1, <2>6, <2>8, <2>12, <2>16, <2>17 DEF ImageRight
<1>15. QED
  BY <1>5, <1>13, <1>14, Sizes

\* The image stays right while nothing is added.
LEMMA SameImage ==
  ASSUME ImageRight, UNCHANGED imageVars
  PROVE  ImageRight'
<1>1. UNCHANGED <<clust, filetable, clustertable, data, make>>
  BY DEF imageVars
<1>2. UNCHANGED <<Added, Complete, reserved_sectors>>
  BY <1>1 DEF Added, Complete, reserved_sectors
<1>3. \A k : UNCHANGED <<LastCluster(k), Clusters(filetable[k])>>
  BY <1>1 DEF LastCluster, Clusters
<1>4. ImageTypes' /\ LabelFirst'
  BY <1>1, <1>2 DEF ImageRight, ImageTypes, LabelFirst
<1>5. Laid'
  BY <1>1, <1>2, <1>3 DEF ImageRight, Laid
<1>6. InARow'
  BY <1>1, <1>2, <1>3 DEF ImageRight, InARow
<1>7. QED
  BY <1>4, <1>5, <1>6 DEF ImageRight

\* "-package" copies the image and changes nothing in it.
LEMMA PackageRight ==
  ASSUME ImageRight, Package
  PROVE  ImageRight'
<1>1. /\ UNCHANGED <<clust, filetable, clustertable, data>>
      /\ make = "adding" /\ make' = "packaged"
  BY DEF Package
<1>2. UNCHANGED <<Added, reserved_sectors>>
  BY <1>1 DEF Added, reserved_sectors
<1>3. Complete' = Complete
  BY <1>1, <1>2 DEF Complete
<1>4. \A k : UNCHANGED <<LastCluster(k), Clusters(filetable[k])>>
  BY <1>1 DEF LastCluster, Clusters
<1>5. ImageTypes' /\ LabelFirst'
  BY <1>1, <1>2 DEF ImageRight, ImageTypes, LabelFirst
<1>6. Laid'
  BY <1>1, <1>2, <1>3, <1>4 DEF ImageRight, Laid
<1>7. InARow'
  BY <1>1, <1>2, <1>3, <1>4 DEF ImageRight, InARow
<1>8. QED
  BY <1>5, <1>6, <1>7 DEF ImageRight

\* What a walk along the chain of a file sees: the next cluster until the last
\* one, and in each the sector of the data that belongs there.
LEMMA ChainStep ==
  ASSUME TypeOK, ImageRight, NEW k \in Complete,
         NEW c \in filetable[k].start .. LastCluster(k)
  PROVE  /\ c \in Nat /\ c < TableEntries /\ c < Reserved /\ reserved_sectors <= c
         /\ c = LastCluster(k) => Follow(c) = EndOfFile
         /\ c # LastCluster(k) => Follow(c) = c + 1 /\ Follow(c) < Reserved
         /\ DirectoryFits => Sector(c) = <<k - 1, c - filetable[k].start>>
<1>1. ImageTypes /\ Laid
  BY DEF ImageRight
<1>2. /\ filetable[k].start \in Nat /\ LastCluster(k) \in Nat
      /\ Len(filetable) \in Nat
  BY <1>1, EntryTypes
<1>3. reserved_sectors <= filetable[k].start /\ LastCluster(k) < clust
  BY <1>1 DEF Laid
<1>4. clust \in Nat /\ clust <= TableEntries
  <2>1. clust \in reserved_sectors .. TableEntries
    BY DEF TypeOK
  <2>2. QED
    BY <2>1, Sizes
<1>5. /\ c \in Nat /\ c < TableEntries /\ c < Reserved /\ reserved_sectors <= c
      /\ c <= LastCluster(k) /\ c < clust
  BY <1>2, <1>3, <1>4, Sizes
<1>6. Follow(c) = IF c = LastCluster(k) THEN EndOfFile ELSE c + 1
  BY <1>1 DEF Laid, Follow
<1>7. c # LastCluster(k) => c + 1 < Reserved
  BY <1>2, <1>3, <1>4, <1>5, Sizes
<1>8. ASSUME DirectoryFits
      PROVE  Sector(c) = <<k - 1, c - filetable[k].start>>
  <2>1. Len(data) = clust - reserved_sectors /\ DataStart = reserved_sectors
    BY <1>1, Sizes DEF ImageTypes
  <2>2. ~(c < DataStart) /\ ~(Len(filetable) > RootEntries)
    BY <1>2, <1>5, <1>8, <2>1, Sizes DEF DirectoryFits
  <2>3. ~(c - DataStart >= clust - reserved_sectors)
    BY <1>4, <1>5, <2>1, Sizes
  <2>4. ~(c - DataStart >= Len(data))
    BY <2>1, <2>3
  <2>5. Sector(c) = data[c - DataStart + 1]
    BY <2>2, <2>4 DEF Sector
  <2>6. data[c - reserved_sectors + 1] = <<k - 1, c - filetable[k].start>>
    BY <1>1 DEF Laid
  <2>7. QED
    BY <2>1, <2>5, <2>6
<1>9. QED
  BY <1>5, <1>6, <1>7, <1>8

\* Every sector of the image is one of a file, or a part of the system.
LEMMA SectorType ==
  ASSUME ImageRight, NEW lba \in Nat
  PROVE  Sector(lba) \in Nat \X Nat
<1>1. data \in Seq(Nat \X Nat)
  BY DEF ImageRight, ImageTypes
<1>2. System \in Nat \X Nat /\ Shifted \in Nat \X Nat /\ Zeros \in Nat \X Nat
  BY DEF System, Shifted, Zeros
<1>3. CASE lba < DataStart \/ Len(filetable) > RootEntries \/ lba - DataStart >= Len(data)
  BY <1>2, <1>3 DEF Sector
<1>4. CASE ~(lba < DataStart) /\ ~(Len(filetable) > RootEntries)
             /\ ~(lba - DataStart >= Len(data))
  <2> DEFINE len == Len(data)
  <2>1. len \in Nat
    BY <1>1, LenProperties
  <2>2. DataStart \in Nat
    BY Sizes
  <2>3. ~(lba < DataStart) /\ ~(lba - DataStart >= len)
    BY <1>4
  <2> HIDE DEF len
  <2>4. lba - DataStart + 1 \in 1 .. len
    BY <2>1, <2>2, <2>3
  <2>5. data[lba - DataStart + 1] \in Nat \X Nat
    BY <1>1, <2>4, ElementOfSeq DEF len
  <2>6. Sector(lba) = data[lba - DataStart + 1]
    BY <1>4 DEF Sector
  <2>7. QED
    BY <2>5, <2>6
<1>5. QED
  BY <1>3, <1>4

\* The first entry of a name that is not the volume's is a file's, and whole.
LEMMA FirstIsFile ==
  ASSUME ImageRight, make = "packaged", NEW name, name # VolumeName,
         NEW k \in Matches(name)
  PROVE  /\ k \in 1 .. Len(filetable) /\ k \in Complete /\ filetable[k].name = name
         /\ filetable[k].start \in Nat /\ Links(filetable[k].size) \in Nat
         /\ LastCluster(k) = filetable[k].start + Links(filetable[k].size)
         /\ k \in Nat
<1>1. ImageTypes /\ LabelFirst
  BY DEF ImageRight
<1>2. k \in 1 .. Len(filetable) /\ filetable[k].name = name
  BY DEF Matches
<1>3. k # 1
  BY <1>1, <1>2 DEF LabelFirst
<1>4. Len(filetable) \in Nat
  BY <1>1, EntryTypes
<1>5. k \in 2 .. Len(filetable) /\ k \in Nat
  BY <1>2, <1>3, <1>4
<1>6. Complete = 2 .. Len(filetable)
  BY DEF Complete, Added
<1>7. QED
  BY <1>1, <1>2, <1>5, <1>6, EntryTypes

\* The arithmetic of runs: after full ones, a full one ends within the full
\* runs of the file, and what is left of less than a full one is not in them.
LEMMA FullRuns ==
  ASSUME NEW n \in Nat, NEW m \in Nat, (m % CountModulus) = 0
  PROVE  /\ ((m + CountModulus) % CountModulus) = 0
         /\ m + CountModulus <= n =>
              m + CountModulus <= (n \div CountModulus) * CountModulus
         /\ m <= n /\ n < m + CountModulus => (n \div CountModulus) * CountModulus = m
<1> DEFINE M == CountModulus
           q == m \div M
           d == n \div M
<1>1. M \in Nat /\ M > 1
  BY ReadersAssumption
<1>2. q \in Nat /\ m = q * M
  BY <1>1
<1>3. d \in Nat /\ n \in (d * M) .. ((d * M) + M - 1)
  <2>1. d \in Nat /\ (n % M) \in 0 .. (M - 1) /\ n = (d * M) + (n % M)
    BY <1>1
  <2> DEFINE x == d * M
             y == n % M
  <2>2. x \in Nat
    BY <1>1, <2>1
  <2> HIDE DEF x, y
  <2>3. n = x + y /\ y \in 0 .. (M - 1)
    BY <2>1 DEF x, y
  <2>4. n \in x .. (x + M - 1)
    BY <1>1, <2>2, <2>3
  <2>5. QED
    BY <2>1, <2>4 DEF x
<1>4. ((m + M) % M) = 0
  BY <1>1
<1> HIDE DEF q, d
<1>5. ASSUME m + M <= n
      PROVE  m + M <= d * M
  <2>1. (q + 1) * M = m + M
    BY <1>1, <1>2
  <2>2. q + 1 <= d
    <3>1. CASE d <= q
      <4>1. d * M <= q * M
        BY <1>1, <1>2, <1>3, <3>1
      <4>2. QED
        BY <1>1, <1>2, <1>3, <1>5, <4>1
    <3>2. QED
      BY <1>2, <1>3, <3>1
  <2>3. (q + 1) * M <= d * M
    BY <1>1, <1>2, <1>3, <2>2
  <2>4. QED
    BY <2>1, <2>3
<1>6. ASSUME m <= n, n < m + M
      PROVE  d * M = m
  <2>1. CASE d < q
    <3>1. (d + 1) * M <= q * M /\ (d + 1) * M = (d * M) + M
      BY <1>1, <1>2, <1>3, <2>1
    <3>2. QED
      BY <1>1, <1>2, <1>3, <1>6, <3>1
  <2>2. CASE d > q
    <3>1. (q + 1) * M <= d * M /\ (q + 1) * M = (q * M) + M
      BY <1>1, <1>2, <1>3, <2>2
    <3>2. QED
      BY <1>1, <1>2, <1>3, <1>6, <3>1
  <2>3. QED
    BY <1>2, <1>3, <2>1, <2>2
<1>7. QED
  BY <1>4, <1>5, <1>6 DEF d

------------------------------------------------------------------------------
(***************************************************************************)
(* The steps.                                                              *)
(***************************************************************************)

\* The readers start where the image does.
LEMMA InitInv == Init => Inv
<1> SUFFICES ASSUME Init PROVE Inv
  OBVIOUS
<1>1. /\ ImageInit /\ loader = "search" /\ di = 1 /\ loaded = <<>>
      /\ kernel = "off" /\ entry = 1 /\ run = 1 /\ to = 0 /\ count = 0 /\ disk = "idle"
      /\ memory = [o \in Offsets |-> Untouched]
  BY DEF Init
<1>2. ImageRight
  BY <1>1, ImageInitRight
<1>3. clust = reserved_sectors /\ clustertable = EmptyTable /\ make = "adding"
  BY <1>1 DEF ImageInit
<1>4. clustertable \in [0 .. (TableEntries - 1) -> 0 .. EndOfFile]
  <2>1. \A c \in 0 .. (TableEntries - 1) : EmptyTable[c] \in {0, EndOfFile, Reserved, MediaByte}
    BY DEF EmptyTable
  <2>2. {0, EndOfFile, Reserved, MediaByte} \subseteq 0 .. EndOfFile
    BY Sizes
  <2>3. EmptyTable \in [0 .. (TableEntries - 1) -> 0 .. EndOfFile]
    <3>1. \A c \in 0 .. (TableEntries - 1) : EmptyTable[c] \in 0 .. EndOfFile
      BY <2>1, <2>2
    <3>2. EmptyTable = [c \in 0 .. (TableEntries - 1) |-> EmptyTable[c]]
      BY DEF EmptyTable
    <3>3. QED
      BY <3>1, <3>2
  <2>4. QED
    BY <1>3, <2>3
<1>5. TypeOK
  <2>1. /\ clust \in reserved_sectors .. TableEntries /\ run \in 1 .. RunLimit
        /\ count \in 0 .. (CountModulus - 1) /\ 0 \in 0 .. TableEntries
    BY <1>1, <1>3, Sizes
  <2>2. to \in Offsets /\ DOMAIN memory = Offsets
    BY <1>1, <2>1 DEF Offsets
  <2>3. QED
    BY <1>1, <1>3, <1>4, <2>1, <2>2 DEF TypeOK
<1>6. \A name : \A k \in Matches(name) : 1 <= k
  BY <1>2, EntryTypes DEF ImageRight, Matches
<1>7. LoaderRight
  BY <1>1, <1>3, <1>6, Sizes DEF LoaderRight
<1>8. SearchRight
  <2>1. 1 \in 1 .. (RootEntries + 1) /\ 1 <= Len(filetable) + 1
    <3>1. Len(filetable) \in Nat
      BY <1>2, EntryTypes DEF ImageRight
    <3>2. QED
      BY <3>1, Sizes
  <2>2. QED
    BY <1>1, <1>6, <2>1 DEF SearchRight, FindsFirst
<1>9. ReadRight
  BY <1>1 DEF ReadRight, Reading
<1>10. QED
  BY <1>2, <1>5, <1>7, <1>8, <1>9 DEF Inv

\* While the image is made the readers wait.
LEMMA BuildingInv ==
  ASSUME Inv, Building
  PROVE  Inv'
<1>1. make = "adding" /\ UNCHANGED <<loaderVars, kernelVars>>
  BY DEF Building, Build, Package, AddFile
<1>2. UNCHANGED <<loader, di, loaded, kernel, entry, run, to, memory, count, disk>>
  BY <1>1 DEF loaderVars, kernelVars, driveVars
<1>3. loader = "search" /\ di = 1 /\ loaded = <<>> /\ kernel = "off"
  BY <1>1 DEF Inv, LoaderRight, SearchRight
<1>4. /\ ImageRight'
      /\ clust' \in reserved_sectors .. TableEntries
      /\ clustertable' \in [0 .. (TableEntries - 1) -> 0 .. EndOfFile]
      /\ make' \in {"adding", "failed", "packaged"}
  <2>1. CASE Package
    <3>1. UNCHANGED <<clust, clustertable>> /\ make' = "packaged"
      BY <2>1 DEF Package
    <3>2. QED
      BY <2>1, <3>1, PackageRight DEF Inv, TypeOK
  <2>2. ASSUME NEW file \in Files, AddFile(file)
        PROVE  /\ ImageRight'
               /\ clust' \in reserved_sectors .. TableEntries
               /\ clustertable' \in [0 .. (TableEntries - 1) -> 0 .. EndOfFile]
               /\ make' \in {"adding", "failed", "packaged"}
    BY <2>2, AddFileRight DEF Inv
  <2>3. QED
    BY <2>1, <2>2 DEF Building, Build
<1>5. TypeOK'
  BY <1>2, <1>4 DEF Inv, TypeOK, reserved_sectors
<1>6. /\ Len(filetable)' \in Nat \ {0}
      /\ \A name : \A k \in Matches(name)' : 1 <= k
  <2>1. Len(filetable)' \in Nat \ {0}
    BY <1>4, EntryTypes DEF ImageRight, ImageTypes
  <2>2. QED
    BY <2>1 DEF Matches
<1>7. LoaderRight'
  BY <1>2, <1>3, <1>6, Sizes DEF LoaderRight, SearchArea
<1>8. SearchRight'
  <2>1. 1 \in 1 .. (RootEntries + 1) /\ 1 <= Len(filetable)' + 1
    BY <1>6, Sizes
  <2>2. /\ entry = 1 /\ to = 0 /\ run = 1
        /\ memory = [o \in Offsets |-> Untouched]
    BY <1>3 DEF Inv, SearchRight
  <2>3. QED
    BY <1>2, <1>3, <1>6, <2>1, <2>2 DEF SearchRight, FindsFirst, Offsets
<1>9. ReadRight'
  BY <1>2, <1>3 DEF ReadRight, Reading
<1>10. QED
  BY <1>4, <1>5, <1>7, <1>8, <1>9 DEF Inv

\* A step of the loader leaves what the kernel does as it was.
LEMMA SameLoader ==
  ASSUME LoaderRight, UNCHANGED <<imageVars, loader, di, loaded>>
  PROVE  LoaderRight'
<1>1. UNCHANGED <<filetable, make, loader, di, loaded>>
  BY DEF imageVars
<1>2. \A name : Matches(name)' = Matches(name)
  BY <1>1 DEF Matches
<1>3. \A k, name : IsFirst(k, name)' <=> IsFirst(k, name)
  BY <1>2 DEF IsFirst
<1>4. \A k : LastCluster(k)' = LastCluster(k)
  BY <1>1 DEF LastCluster
<1>5. DirectoryFits' <=> DirectoryFits
  BY <1>1 DEF DirectoryFits
<1>6. QED
  BY <1>1, <1>2, <1>3, <1>4, <1>5 DEF LoaderRight

\* The search of the loader passes over entries of other names, and starts over
\* behind the directory (_FAT16.asm:18-30).
LEMMA LoaderSearchInv ==
  ASSUME Inv, LoaderSearch
  PROVE  Inv'
<1>1. /\ make = "packaged" /\ loader = "search"
      /\ UNCHANGED <<imageVars, loaded, kernelVars>>
  BY DEF LoaderSearch
<1>2. /\ UNCHANGED <<clust, filetable, clustertable, data, make>>
      /\ UNCHANGED <<loaded, kernel, entry, run, to, memory, count, disk>>
  BY <1>1 DEF imageVars, kernelVars, driveVars
<1>3. ImageRight'
  BY <1>1, SameImage DEF Inv
<1>4. \A name : Matches(name)' = Matches(name)
  BY <1>2 DEF Matches
<1>5. /\ di \in 1 .. SearchArea /\ loaded = <<>> /\ kernel = "off"
      /\ \A k \in Matches(KernelName) : di <= k
  BY <1>1 DEF Inv, LoaderRight, SearchRight
<1>6. Len(filetable) \in Nat
  BY EntryTypes DEF Inv, ImageRight
<1>7. CASE di \in DOMAIN RootDirectory /\ RootDirectory[di].name = KernelName
  <2>1. loader' = "more" /\ di' = filetable[di].start
    BY <1>7 DEF LoaderSearch
  <2>2. di \in Matches(KernelName)
    BY <1>7 DEF RootDirectory, Matches
  <2>3. IsFirst(di, KernelName)
    BY <1>5, <2>2 DEF IsFirst
  <2>4. /\ filetable[di].start \in Nat /\ Links(filetable[di].size) \in Nat
        /\ LastCluster(di) = filetable[di].start + Links(filetable[di].size)
    BY <1>1, <2>2, FirstIsFile, ReadersAssumption DEF Inv
  <2>5. /\ filetable[di].start \in filetable[di].start .. LastCluster(di)
        /\ filetable[di].start - filetable[di].start = 0
    BY <2>4
  <2>6. <<>> \in Seq(Nat \X Nat) /\ Len(<<>>) = 0 /\ 1 .. 0 = {}
    OBVIOUS
  <2>7. LoaderRight'
    <3>1. loader' # "search" => make' = "packaged" /\ loaded' \in Seq(Nat \X Nat)
      BY <1>1, <1>2, <1>5, <2>6
    <3>2. PICK k : k = di
      OBVIOUS
    <3>3. /\ k \in Matches(KernelName)' /\ IsFirst(k, KernelName)'
          /\ di' \in filetable'[k].start .. LastCluster(k)'
          /\ Len(loaded') = di' - filetable'[k].start
          /\ \A s \in 1 .. Len(loaded') : loaded'[s] = <<k - 1, s - 1>>
      BY <1>2, <1>4, <1>5, <2>1, <2>2, <2>3, <2>5, <2>6, <3>2 DEF IsFirst, LastCluster
    <3>4. QED
      BY <2>1, <3>1, <3>3 DEF LoaderRight
  <2>8. TypeOK' /\ SearchRight' /\ ReadRight'
    BY <1>2, <1>4, <1>5, <2>1
    DEF Inv, TypeOK, SearchRight, ReadRight, Reading, FindsFirst, reserved_sectors, Offsets
  <2>9. QED
    BY <1>3, <2>7, <2>8 DEF Inv
<1>8. CASE ~(di \in DOMAIN RootDirectory /\ RootDirectory[di].name = KernelName)
  <2>1. loader' = "search" /\ di' = (di % SearchArea) + 1
    BY <1>1, <1>8 DEF LoaderSearch, NextInLoader
  <2>2. /\ di = SearchArea => di' = 1
        /\ di # SearchArea => di' = di + 1
    <3>1. SearchArea \in Nat \ {0}
      BY Sizes
    <3>2. QED
      BY <1>5, <2>1, <3>1
  <2>3. di' \in 1 .. SearchArea
    BY <1>5, <2>2, Sizes
  <2>4. ASSUME NEW k \in Matches(KernelName)
        PROVE  di' <= k
    <3>1. k \in 1 .. Len(filetable) /\ filetable[k].name = KernelName /\ di <= k
      BY <1>5 DEF Matches
    <3>2. CASE di = k /\ di # SearchArea
      <4>1. k <= RootEntries
        BY <1>5, <3>2, Sizes
      <4>2. di \in DOMAIN RootDirectory /\ RootDirectory[di] = filetable[di]
        BY <3>1, <3>2, <4>1 DEF RootDirectory
      <4>3. QED
        BY <1>8, <3>1, <3>2, <4>2
    <3>3. CASE di # k /\ di # SearchArea
      BY <1>5, <1>6, <2>2, <3>1, <3>3, Sizes
    <3>4. CASE di = SearchArea
      BY <1>6, <2>2, <3>1, <3>4
    <3>5. QED
      BY <3>2, <3>3, <3>4
  <2>5. LoaderRight'
    BY <1>1, <1>2, <1>4, <1>5, <2>1, <2>3, <2>4 DEF LoaderRight, SearchArea
  <2>6. TypeOK' /\ SearchRight' /\ ReadRight'
    BY <1>1, <1>2, <1>4, <1>5, <2>1
    DEF Inv, TypeOK, SearchRight, ReadRight, Reading, FindsFirst, reserved_sectors, Offsets
  <2>7. QED
    BY <1>3, <2>5, <2>6 DEF Inv
<1>9. QED
  BY <1>7, <1>8

\* The loader takes the sector of the cluster it is at, and the chain leads it
\* to the next one or, after the last, to the kernel (_FAT16.asm:31-48).
LEMMA LoaderMoreInv ==
  ASSUME Inv, LoaderMore
  PROVE  Inv'
<1>1. /\ loader = "more" /\ loaded' = Append(loaded, Sector(di)) /\ di' = Follow(di)
      /\ UNCHANGED <<imageVars, entry, first, current, run, to, memory, driveVars>>
  BY DEF LoaderMore
<1>2. /\ UNCHANGED <<clust, filetable, clustertable, data, make>>
      /\ UNCHANGED <<entry, run, to, memory, count, disk>>
  BY <1>1 DEF imageVars, driveVars
<1>3. ImageRight'
  BY <1>1, SameImage DEF Inv
<1>4. \A name : Matches(name)' = Matches(name)
  BY <1>2 DEF Matches
<1>5. make = "packaged" /\ loaded \in Seq(Nat \X Nat) /\ kernel = "off"
  BY <1>1 DEF Inv, LoaderRight, SearchRight
<1>6. PICK k \in Matches(KernelName) :
        /\ IsFirst(k, KernelName)
        /\ di \in filetable[k].start .. LastCluster(k)
        /\ Len(loaded) = di - filetable[k].start
        /\ DirectoryFits => \A s \in 1 .. Len(loaded) : loaded[s] = <<k - 1, s - 1>>
  BY <1>1 DEF Inv, LoaderRight
<1>7. /\ k \in Complete
      /\ filetable[k].start \in Nat /\ Links(filetable[k].size) \in Nat
      /\ LastCluster(k) = filetable[k].start + Links(filetable[k].size)
  BY <1>5, FirstIsFile, ReadersAssumption DEF Inv
<1>8. /\ di \in Nat
      /\ di = LastCluster(k) => Follow(di) = EndOfFile
      /\ di # LastCluster(k) => Follow(di) = di + 1 /\ Follow(di) < Reserved
      /\ DirectoryFits => Sector(di) = <<k - 1, di - filetable[k].start>>
  BY <1>6, <1>7, ChainStep DEF Inv
<1>9. Sector(di) \in Nat \X Nat
  BY <1>8, SectorType DEF Inv
<1>10. /\ loaded' \in Seq(Nat \X Nat)
       /\ Len(loaded') = Len(loaded) + 1
       /\ \A s \in 1 .. Len(loaded) : loaded'[s] = loaded[s]
       /\ loaded'[Len(loaded) + 1] = Sector(di)
  BY <1>1, <1>5, <1>9, AppendProperties
<1>11. DirectoryFits => \A s \in 1 .. Len(loaded') : loaded'[s] = <<k - 1, s - 1>>
  <2>1. ASSUME DirectoryFits, NEW s \in 1 .. Len(loaded')
        PROVE  loaded'[s] = <<k - 1, s - 1>>
    <3> DEFINE len == Len(loaded)
    <3>1. len \in Nat /\ len = di - filetable[k].start /\ s \in 1 .. (len + 1)
      BY <1>5, <1>6, <1>10, <2>1, LenProperties
    <3> HIDE DEF len
    <3>2. CASE s = len + 1
      <4>1. s - 1 = di - filetable[k].start
        BY <3>1, <3>2
      <4>2. QED
        BY <1>8, <1>10, <2>1, <3>2, <4>1 DEF len
    <3>3. CASE s # len + 1
      <4>1. s \in 1 .. len
        BY <3>1, <3>3
      <4>2. QED
        BY <1>6, <1>10, <2>1, <4>1 DEF len
    <3>4. QED
      BY <3>2, <3>3
  <2>2. QED
    BY <2>1
<1>12. /\ IsFirst(k, KernelName)' /\ k \in Matches(KernelName)'
       /\ LastCluster(k)' = LastCluster(k) /\ (DirectoryFits' <=> DirectoryFits)
  BY <1>2, <1>4, <1>6 DEF IsFirst, LastCluster, DirectoryFits
<1>13. CASE di = LastCluster(k)
  <2>1. Follow(di) >= Reserved
    BY <1>8, <1>13, Sizes
  <2>2. loader' = "done" /\ kernel' = "find"
    BY <2>1 DEF LoaderMore
  <2>3. Len(loaded') = Links(filetable[k].size) + 1
    <3>1. Len(loaded) = Links(filetable[k].size)
      BY <1>6, <1>7, <1>13
    <3>2. QED
      BY <1>10, <3>1
  <2>4. LoaderRight'
    BY <1>2, <1>5, <1>10, <1>11, <1>12, <2>2, <2>3 DEF LoaderRight
  <2>5. TypeOK'
    BY <1>2, <2>2 DEF Inv, TypeOK, reserved_sectors, Offsets
  <2>6. SearchRight'
    BY <1>2, <1>4, <1>5, <2>2 DEF Inv, SearchRight, FindsFirst, Offsets
  <2>7. ReadRight'
    BY <2>2 DEF ReadRight, Reading
  <2>8. QED
    BY <1>3, <2>4, <2>5, <2>6, <2>7 DEF Inv
<1>14. CASE di # LastCluster(k)
  <2>1. ~(Follow(di) >= Reserved)
    BY <1>8, <1>14, Sizes
  <2>2. UNCHANGED <<loader, kernel>> /\ di' = di + 1
    BY <1>1, <1>8, <1>14, <2>1 DEF LoaderMore
  <2>3. /\ di + 1 \in filetable[k].start .. LastCluster(k)
        /\ Len(loaded) + 1 = (di + 1) - filetable[k].start
    <3>1. di + 1 \in filetable[k].start .. LastCluster(k)
      BY <1>6, <1>7, <1>14
    <3>2. (di - filetable[k].start) + 1 = (di + 1) - filetable[k].start
      BY <1>7, <1>8
    <3>3. QED
      BY <1>6, <3>1, <3>2
  <2>4. LoaderRight'
    BY <1>1, <1>2, <1>5, <1>10, <1>11, <1>12, <2>2, <2>3 DEF LoaderRight
  <2>5. TypeOK'
    BY <1>2, <2>2 DEF Inv, TypeOK, reserved_sectors, Offsets
  <2>6. SearchRight'
    BY <1>1, <1>2, <1>4, <1>5, <2>2 DEF Inv, SearchRight, FindsFirst, Offsets
  <2>7. ReadRight'
    BY <1>5, <2>2 DEF ReadRight, Reading
  <2>8. QED
    BY <1>3, <2>4, <2>5, <2>6, <2>7 DEF Inv
<1>15. QED
  BY <1>13, <1>14

\* What the steps of the kernel leave alone.
LEMMA KernelFrame ==
  ASSUME Inv, UNCHANGED <<imageVars, loaderVars>>, kernel # "off", kernel' # "off"
  PROVE  /\ ImageRight' /\ LoaderRight'
         /\ \A name : Matches(name)' = Matches(name)
         /\ \A k, name : IsFirst(k, name)' <=> IsFirst(k, name)
         /\ (DirectoryFits' <=> DirectoryFits)
         /\ UNCHANGED <<filetable, clust, clustertable, data, make, loader>>
         /\ make = "packaged" /\ (kernel' # "off" <=> loader' = "done")
<1>1. UNCHANGED <<filetable, clust, clustertable, data, make, loader, di, loaded>>
  BY DEF imageVars, loaderVars
<1>2. \A name : Matches(name)' = Matches(name)
  BY <1>1 DEF Matches
<1>3. \A k, name : IsFirst(k, name)' <=> IsFirst(k, name)
  BY <1>2 DEF IsFirst
<1>4. ImageRight' /\ LoaderRight'
  BY <1>1, SameImage, SameLoader DEF Inv
<1>5. DirectoryFits' <=> DirectoryFits
  BY <1>1 DEF DirectoryFits
<1>6. loader = "done"
  BY DEF Inv, SearchRight
<1>7. make = "packaged"
  BY <1>6 DEF Inv, LoaderRight
<1>8. QED
  BY <1>1, <1>2, <1>3, <1>4, <1>5, <1>6, <1>7

\* find_entry passes over entries of other names, and takes the first one of
\* the name; the reader then is at the start of its chain (FAT16.c:19-26).
LEMMA FindEntryInv ==
  ASSUME Inv, find_entry
  PROVE  Inv'
<1>1. /\ kernel = "find" /\ kernel' # "off"
      /\ UNCHANGED <<imageVars, loaderVars, run, to, memory, driveVars>>
  BY DEF find_entry
<1>2. UNCHANGED <<run, to, memory, count, i, disk>>
  BY <1>1 DEF driveVars
<1>3. /\ ImageRight' /\ LoaderRight'
      /\ \A name : Matches(name)' = Matches(name)
      /\ \A k, name : IsFirst(k, name)' <=> IsFirst(k, name)
      /\ (DirectoryFits' <=> DirectoryFits)
      /\ UNCHANGED <<filetable, clust, clustertable, data, make, loader>>
      /\ make = "packaged" /\ (kernel' # "off" <=> loader' = "done")
  BY <1>1, KernelFrame
<1>4. /\ entry \in 1 .. (RootEntries + 1) /\ entry <= Len(filetable) + 1
      /\ \A k \in Matches(FileName) : entry <= k
      /\ to = 0 /\ run = 1 /\ memory = [o \in Offsets |-> Untouched]
  BY <1>1 DEF Inv, SearchRight
<1>5. Len(filetable) \in Nat /\ RootEntries \in Nat
  BY EntryTypes, Sizes DEF Inv, ImageRight
<1>6. \A k \in Matches(FileName) : k \in 1 .. Len(filetable)
  BY DEF Matches
<1>7. CASE entry > RootEntries /\ kernel' = "wild" /\ UNCHANGED <<entry, first, current>>
  <2>1. Len(filetable) >= RootEntries
    BY <1>4, <1>5, <1>7
  <2>2. \A k \in Matches(FileName) : k > RootEntries
    BY <1>4, <1>5, <1>6, <1>7
  <2>3. TypeOK'
    BY <1>2, <1>3, <1>7 DEF Inv, TypeOK, reserved_sectors, Offsets
  <2>4. SearchRight' /\ ReadRight'
    BY <1>3, <1>7, <2>1, <2>2 DEF SearchRight, FindsFirst, ReadRight, Reading
  <2>5. QED
    BY <1>3, <2>3, <2>4 DEF Inv
<1>8. CASE /\ entry > Len(filetable) /\ kernel' = "not found"
           /\ UNCHANGED <<entry, first, current>>
  <2>1. Matches(FileName) = {}
    <3>1. ASSUME NEW k \in Matches(FileName)
          PROVE  FALSE
      <4>1. k \in 1 .. Len(filetable) /\ entry <= k /\ entry > Len(filetable)
        BY <1>4, <1>6, <1>8
      <4>2. QED
        BY <1>4, <1>5, <4>1
    <3>2. QED
      BY <3>1
  <2>2. TypeOK'
    BY <1>2, <1>3, <1>8 DEF Inv, TypeOK, reserved_sectors, Offsets
  <2>3. SearchRight' /\ ReadRight'
    BY <1>3, <1>8, <2>1 DEF SearchRight, FindsFirst, ReadRight, Reading
  <2>4. QED
    BY <1>3, <2>2, <2>3 DEF Inv
<1>9. CASE /\ entry \in DOMAIN RootDirectory /\ RootDirectory[entry].name = FileName
           /\ kernel' = "extend"
           /\ first' = RootDirectory[entry].start /\ current' = first'
           /\ UNCHANGED entry
  <2>1. entry \in Matches(FileName) /\ RootDirectory[entry] = filetable[entry]
    BY <1>9 DEF RootDirectory, Matches
  <2>2. IsFirst(entry, FileName)
    BY <1>4, <2>1 DEF IsFirst
  <2>3. filetable[entry].start \in Nat /\ Links(filetable[entry].size) \in Nat
    BY <1>3, <2>1, FirstIsFile, ReadersAssumption DEF Inv
  <2>4. first' = filetable[entry].start /\ current' = filetable[entry].start
    BY <1>9, <2>1
  <2>5. TypeOK'
    BY <1>2, <1>3, <1>9 DEF Inv, TypeOK, reserved_sectors, Offsets
  <2>6. SearchRight'
    BY <1>3, <1>9, <2>2 DEF SearchRight, FindsFirst
  <2>7. /\ (0 % CountModulus) = 0 /\ 0 + 1 <= Links(filetable[entry].size) + 1
        /\ filetable[entry].start = filetable[entry].start + 0
        /\ filetable[entry].start = filetable[entry].start + 1 - 1
    BY <2>3, ReadersAssumption
  <2>8. \A o \in Offsets : memory[o] = Untouched /\ ~(o < 0)
    BY <1>4, Sizes DEF Offsets
  <2>9. ReadRight'
    BY <1>2, <1>3, <1>4, <1>9, <2>2, <2>4, <2>7, <2>8
    DEF ReadRight, Reading, Through, Sectors, Offsets
  <2>10. QED
    BY <1>3, <2>5, <2>6, <2>9 DEF Inv
<1>10. CASE /\ entry \in DOMAIN RootDirectory /\ RootDirectory[entry].name # FileName
            /\ entry' = entry + 1 /\ UNCHANGED <<kernel, first, current>>
  <2>1. entry \in 1 .. Len(filetable) /\ entry <= RootEntries /\ entry \notin Matches(FileName)
    BY <1>10 DEF RootDirectory, Matches
  <2>2. /\ entry + 1 \in 1 .. (RootEntries + 1) /\ entry + 1 <= Len(filetable) + 1
        /\ \A k \in Matches(FileName) : entry + 1 <= k
    BY <1>4, <1>5, <1>6, <2>1
  <2>3. TypeOK'
    BY <1>2, <1>3, <1>10 DEF Inv, TypeOK, reserved_sectors, Offsets
  <2>4. SearchRight'
    BY <1>1, <1>2, <1>3, <1>4, <1>10, <2>2 DEF SearchRight, FindsFirst, Offsets
  <2>5. ReadRight'
    BY <1>1, <1>10 DEF ReadRight, Reading
  <2>6. QED
    BY <1>3, <2>3, <2>4, <2>5 DEF Inv
<1>11. QED
  BY <1>7, <1>8, <1>9, <1>10 DEF find_entry, NextEntry

\* Where read_all_to is in its file.
LEMMA ReadFacts ==
  ASSUME Inv, kernel \in Reading
  PROVE  /\ IsFirst(entry, FileName) /\ entry \in Complete
         /\ Sectors \in Nat \ {0} /\ Sectors <= TableEntries
         /\ filetable[entry].start \in Nat
         /\ LastCluster(entry) = filetable[entry].start + Sectors - 1
         /\ run \in 1 .. CountModulus /\ to \in 0 .. TableEntries
         /\ CountModulus \in Nat \ {0, 1}
         /\ kernel # "done" =>
              /\ current \in filetable[entry].start .. LastCluster(entry)
              /\ (current = LastCluster(entry) <=> to + run = Sectors)
              /\ current < Reserved
              /\ current = LastCluster(entry) => Follow(current) = EndOfFile
              /\ current # LastCluster(entry) =>
                   Follow(current) = current + 1 /\ Follow(current) < Reserved
<1>1. IsFirst(entry, FileName) /\ entry \in Matches(FileName)
  BY DEF Inv, SearchRight, FindsFirst, Reading, IsFirst
<1>2. make = "packaged"
  BY DEF Inv, SearchRight, LoaderRight, Reading
<1>3. /\ entry \in Complete
      /\ filetable[entry].start \in Nat /\ Links(filetable[entry].size) \in Nat
      /\ LastCluster(entry) = filetable[entry].start + Links(filetable[entry].size)
  BY <1>1, <1>2, FirstIsFile, ReadersAssumption DEF Inv
<1>4. /\ Sectors = Links(filetable[entry].size) + 1 /\ Sectors \in Nat \ {0}
      /\ LastCluster(entry) = filetable[entry].start + Sectors - 1
  BY <1>3 DEF Sectors
<1>5. run \in 1 .. CountModulus /\ to \in 0 .. TableEntries
  BY DEF Inv, TypeOK, RunLimit, Offsets
<1>6. CountModulus \in Nat \ {0, 1} /\ TableEntries \in Nat
  BY Sizes
<1>7. Sectors <= TableEntries
  <2>1. LastCluster(entry) \in filetable[entry].start .. LastCluster(entry)
    BY <1>3
  <2>2. LastCluster(entry) < TableEntries
    BY <1>3, <2>1, ChainStep DEF Inv
  <2>3. QED
    BY <1>3, <1>4, <1>6, <2>2
<1>8. ASSUME kernel # "done"
      PROVE  /\ current \in filetable[entry].start .. LastCluster(entry)
             /\ (current = LastCluster(entry) <=> to + run = Sectors)
  <2>1. to + run <= Sectors /\ current = first + run - 1
        /\ first = filetable[entry].start + to
    BY <1>8 DEF Inv, ReadRight
  <2>2. QED
    BY <1>3, <1>4, <1>5, <1>6, <2>1
<1>9. ASSUME kernel # "done"
      PROVE  /\ current < Reserved
             /\ current = LastCluster(entry) => Follow(current) = EndOfFile
             /\ current # LastCluster(entry) =>
                  Follow(current) = current + 1 /\ Follow(current) < Reserved
  BY <1>3, <1>8, <1>9, ChainStep DEF Inv
<1>10. QED
  BY <1>1, <1>3, <1>4, <1>5, <1>6, <1>7, <1>8, <1>9

\* What the steps of read_all_to leave alone.
LEMMA ReadFrame ==
  ASSUME Inv, UNCHANGED <<imageVars, loaderVars, entry>>,
         kernel \in Reading, kernel' \in Reading
  PROVE  /\ ImageRight' /\ LoaderRight' /\ SearchRight'
         /\ UNCHANGED <<filetable, clust, clustertable, make, loader, entry>>
         /\ Sectors' = Sectors /\ \A o : InFullRun(o)' <=> InFullRun(o)
         /\ (DirectoryFits' <=> DirectoryFits)
<1>1. kernel # "off" /\ kernel' # "off"
  BY DEF Reading
<1>2. UNCHANGED <<imageVars, loaderVars>>
  OBVIOUS
<1>3. /\ ImageRight' /\ LoaderRight'
      /\ \A k, name : IsFirst(k, name)' <=> IsFirst(k, name)
      /\ (DirectoryFits' <=> DirectoryFits)
      /\ UNCHANGED <<filetable, clust, clustertable, data, make, loader>>
      /\ (kernel' # "off" <=> loader' = "done")
  BY <1>1, <1>2, KernelFrame
<1>4. Sectors' = Sectors
  BY <1>3 DEF Sectors
<1>5. \A o : InFullRun(o)' <=> InFullRun(o)
  BY <1>4 DEF InFullRun
<1>6. IsFirst(entry, FileName)'
  BY <1>3, ReadFacts DEF IsFirst, Matches
<1>7. SearchRight'
  BY <1>1, <1>3, <1>6 DEF SearchRight, FindsFirst, Reading
<1>8. QED
  BY <1>3, <1>4, <1>5, <1>7

\* The run grows by the next cluster (FAT16.c:31-34).
LEMMA ExtendRunInv ==
  ASSUME Inv, ExtendRun
  PROVE  Inv'
<1>1. /\ kernel = "extend" /\ RunGoesOn /\ run' = run + 1 /\ current' = Follow(current)
      /\ UNCHANGED <<imageVars, loaderVars, kernel, entry, first, to, memory, driveVars>>
  BY DEF ExtendRun
<1>2. UNCHANGED <<kernel, entry, first, to, memory, count, i, disk>>
  BY <1>1 DEF driveVars
<1>3. kernel \in Reading /\ kernel' \in Reading
  BY <1>1 DEF Reading
<1>4. /\ ImageRight' /\ LoaderRight' /\ SearchRight'
      /\ UNCHANGED <<filetable, clust, clustertable, make, loader>>
      /\ Sectors' = Sectors /\ (\A o : InFullRun(o)' <=> InFullRun(o))
      /\ (DirectoryFits' <=> DirectoryFits)
  BY <1>1, <1>3, ReadFrame
<1>5. Follow(current) = current + 1 /\ run < CountModulus
  BY <1>1 DEF RunGoesOn, RunLimit
<1>6. /\ (to % CountModulus) = 0 /\ to + run <= Sectors
      /\ first = filetable[entry].start + to /\ current = first + run - 1
  BY <1>1 DEF Inv, ReadRight, Reading
<1>7. /\ run \in 1 .. CountModulus /\ to \in 0 .. TableEntries
      /\ CountModulus \in Nat \ {0, 1}
      /\ filetable[entry].start \in Nat /\ Sectors \in Nat
      /\ current \in Nat /\ current < Reserved
      /\ (current = LastCluster(entry) <=> to + run = Sectors)
      /\ current = LastCluster(entry) => Follow(current) = EndOfFile
  <2>1. current \in filetable[entry].start .. LastCluster(entry)
        /\ LastCluster(entry) = filetable[entry].start + Sectors - 1
    BY <1>1, <1>3, ReadFacts
  <2>2. QED
    BY <1>1, <1>3, <2>1, ReadFacts
<1>8. to + run # Sectors
  <2>1. current + 1 # EndOfFile
    BY <1>7, Sizes
  <2>2. QED
    BY <1>5, <1>7, <2>1
<1>9. /\ to + run' <= Sectors /\ current' = first + run' - 1 /\ run' \in 1 .. CountModulus
  <2>1. run' = run + 1 /\ current' = current + 1
    BY <1>1, <1>5
  <2>2. run \in Nat /\ run + 1 <= CountModulus /\ CountModulus \in Nat
    BY <1>5, <1>7
  <2>3. /\ to \in Int /\ Sectors \in Int /\ to + run <= Sectors /\ to + run # Sectors
        /\ first \in Int /\ current = first + run - 1
    BY <1>6, <1>7, <1>8
  <2> QED BY <2>1, <2>2, <2>3
<1>10. TypeOK'
  BY <1>2, <1>4, <1>9 DEF Inv, TypeOK, reserved_sectors, RunLimit, Offsets
<1>11. DirectoryFits =>
         \A o \in Offsets :
           memory[o] = IF o < to /\ ~InFullRun(o) THEN <<entry - 1, o>> ELSE Untouched
  BY <1>1 DEF Inv, ReadRight, Reading, Through
<1>12. ReadRight'
  BY <1>1, <1>2, <1>4, <1>6, <1>9, <1>11 DEF ReadRight, Reading, Through, Offsets
<1>13. QED
  BY <1>4, <1>10, <1>12 DEF Inv

\* The run is at its end: read it, or, when its length is no byte, only move on
\* past it (FAT16.c:35, drive.c:24-25).
LEMMA CallReadInv ==
  ASSUME Inv, CallRead
  PROVE  Inv'
<1>1. /\ kernel = "extend" /\ ~RunGoesOn /\ count' = run % CountModulus
      /\ kernel' = IF run % CountModulus = 0 THEN "next run" ELSE "command"
      /\ UNCHANGED <<imageVars, loaderVars, entry, first, current, run, to, memory, i, disk>>
  BY DEF CallRead
<1>2. UNCHANGED <<entry, first, current, run, to, memory, i, disk>>
  BY <1>1
<1>3. kernel \in Reading /\ kernel' \in Reading
  BY <1>1 DEF Reading
<1>4. /\ ImageRight' /\ LoaderRight' /\ SearchRight'
      /\ UNCHANGED <<filetable, clust, clustertable, make, loader>>
      /\ Sectors' = Sectors /\ (\A o : InFullRun(o)' <=> InFullRun(o))
      /\ (DirectoryFits' <=> DirectoryFits)
  BY <1>1, <1>3, ReadFrame
<1>5. /\ (to % CountModulus) = 0 /\ to + run <= Sectors
      /\ first = filetable[entry].start + to /\ current = first + run - 1
      /\ DirectoryFits =>
           \A o \in Offsets :
             memory[o] = IF o < to /\ ~InFullRun(o) THEN <<entry - 1, o>> ELSE Untouched
  BY <1>1 DEF Inv, ReadRight, Reading, Through
<1>6. /\ run \in 1 .. CountModulus /\ to \in Nat /\ CountModulus \in Nat \ {0, 1}
      /\ Sectors \in Nat /\ current < Reserved
      /\ (current = LastCluster(entry) <=> to + run = Sectors)
      /\ current # LastCluster(entry) => Follow(current) = current + 1
  <2>1. /\ run \in 1 .. CountModulus /\ to \in 0 .. TableEntries
        /\ CountModulus \in Nat \ {0, 1} /\ Sectors \in Nat \ {0}
    BY <1>3, ReadFacts
  <2>2. /\ current < Reserved
        /\ (current = LastCluster(entry) <=> to + run = Sectors)
        /\ current # LastCluster(entry) => Follow(current) = current + 1
    BY <1>1, <1>3, ReadFacts
  <2>3. to \in Nat /\ Sectors \in Nat
    BY <2>1
  <2>4. QED
    BY <2>1, <2>2, <2>3
<1>7. run = CountModulus \/ to + run = Sectors
  <2>1. current # LastCluster(entry) => ~(run < CountModulus)
    BY <1>1, <1>6 DEF RunGoesOn, RunLimit
  <2>2. QED
    BY <1>6, <2>1
<1>8. CASE run = CountModulus
  <2>1. (run % CountModulus) = 0 /\ 0 \in 0 .. (CountModulus - 1)
    BY <1>6, <1>8
  <2>2. kernel' = "next run" /\ count' \in 0 .. (CountModulus - 1)
    BY <1>1, <2>1
  <2>3. to + run <= (Sectors \div CountModulus) * CountModulus
    BY <1>5, <1>6, <1>8, FullRuns
  <2>4. ASSUME NEW o \in Offsets
        PROVE  (o < to + run /\ ~InFullRun(o)) <=> (o < to /\ ~InFullRun(o))
    <3>1. o \in Nat
      BY DEF Offsets
    <3> DEFINE full == (Sectors \div CountModulus) * CountModulus
    <3>2. full \in Nat
      BY <1>6
    <3>3. to + run <= full /\ (InFullRun(o) <=> o < full)
      BY <2>3 DEF InFullRun
    <3> HIDE DEF full
    <3>4. QED
      BY <1>6, <3>1, <3>2, <3>3
  <2>5. TypeOK'
    BY <1>2, <1>4, <2>2 DEF Inv, TypeOK, reserved_sectors, RunLimit, Offsets
  <2>6. DirectoryFits =>
          \A o \in Offsets :
            memory[o] = IF o < to + run /\ ~InFullRun(o) THEN <<entry - 1, o>> ELSE Untouched
    BY <1>5, <2>4
  <2>7. ReadRight'
    BY <1>2, <1>4, <1>5, <1>7, <2>2, <2>6 DEF ReadRight, Reading, Through, Offsets
  <2>8. QED
    BY <1>4, <2>5, <2>7 DEF Inv
<1>9. CASE run # CountModulus
  <2>1. (run % CountModulus) = run /\ run # 0 /\ run \in 0 .. (CountModulus - 1)
    BY <1>6, <1>9
  <2>2. kernel' = "command" /\ count' = run
    BY <1>1, <2>1
  <2>3. TypeOK'
    BY <1>2, <1>4, <2>1, <2>2 DEF Inv, TypeOK, reserved_sectors, RunLimit, Offsets
  <2>4. ReadRight'
    BY <1>2, <1>4, <1>5, <1>7, <2>2 DEF ReadRight, Reading, Through, Offsets
  <2>5. QED
    BY <1>4, <2>3, <2>4 DEF Inv
<1>10. QED
  BY <1>8, <1>9

\* disk_read_from starts the drive and is at the first sector of the run
\* (drive.c:26-38).
LEMMA SendCommandInv ==
  ASSUME Inv, SendCommand
  PROVE  Inv'
<1>1. /\ kernel = "command" /\ kernel' = "transfer" /\ i' = 0 /\ disk' = "busy"
      /\ UNCHANGED <<imageVars, loaderVars, entry, first, current, run, to, memory, count>>
  BY DEF SendCommand
<1>2. UNCHANGED <<entry, first, current, run, to, memory, count>>
  BY <1>1
<1>3. kernel \in Reading /\ kernel' \in Reading
  BY <1>1 DEF Reading
<1>4. /\ ImageRight' /\ LoaderRight' /\ SearchRight'
      /\ UNCHANGED <<filetable, clust, clustertable, make, loader>>
      /\ Sectors' = Sectors /\ (\A o : InFullRun(o)' <=> InFullRun(o))
      /\ (DirectoryFits' <=> DirectoryFits)
  BY <1>1, <1>3, ReadFrame
<1>5. /\ (to % CountModulus) = 0 /\ to + run <= Sectors
      /\ first = filetable[entry].start + to /\ current = first + run - 1
      /\ run = CountModulus \/ to + run = Sectors
      /\ count = run
      /\ DirectoryFits =>
           \A o \in Offsets :
             memory[o] = IF o < to /\ ~InFullRun(o) THEN <<entry - 1, o>> ELSE Untouched
  BY <1>1 DEF Inv, ReadRight, Reading, Through
<1>6. 0 \in 0 .. (count - 1) /\ to + 0 = to
  <2>1. run \in 1 .. CountModulus /\ to \in 0 .. TableEntries /\ CountModulus \in Nat \ {0, 1}
    BY <1>3, ReadFacts
  <2>2. QED
    BY <1>5, <2>1
<1>7. TypeOK'
  BY <1>1, <1>2, <1>4 DEF Inv, TypeOK, reserved_sectors, RunLimit, Offsets
<1>8. ReadRight'
  BY <1>1, <1>2, <1>4, <1>5, <1>6 DEF ReadRight, Reading, Through, Offsets
<1>9. QED
  BY <1>4, <1>7, <1>8 DEF Inv

\* A sector of the run goes to its place in the buffer.  The run is not a full
\* one, so it is behind the full runs of the file (drive.c:39-47).
LEMMA TransferInv ==
  ASSUME Inv, Transfer
  PROVE  Inv'
<1>1. /\ kernel = "transfer" /\ disk = "ready"
      /\ memory' = [memory EXCEPT ![to + i] = Sector(first + i)] /\ i' = i + 1
      /\ IF i + 1 < count
         THEN disk' = "busy" /\ UNCHANGED kernel
         ELSE disk' = "idle" /\ kernel' = "next run"
      /\ UNCHANGED <<imageVars, loaderVars, entry, first, current, run, to, count>>
  BY DEF Transfer
<1>2. UNCHANGED <<entry, first, current, run, to, count>>
  BY <1>1
<1>3. kernel \in Reading /\ kernel' \in Reading
  BY <1>1 DEF Reading
<1>4. /\ ImageRight' /\ LoaderRight' /\ SearchRight'
      /\ UNCHANGED <<filetable, clust, clustertable, make, loader>>
      /\ Sectors' = Sectors /\ (\A o : InFullRun(o)' <=> InFullRun(o))
      /\ (DirectoryFits' <=> DirectoryFits)
  BY <1>1, <1>3, ReadFrame
<1>5. /\ (to % CountModulus) = 0 /\ to + run <= Sectors
      /\ first = filetable[entry].start + to /\ current = first + run - 1
      /\ run = CountModulus \/ to + run = Sectors
      /\ count = run /\ i \in 0 .. (count - 1)
      /\ DirectoryFits =>
           \A o \in Offsets :
             memory[o] = IF o < to + i /\ ~InFullRun(o) THEN <<entry - 1, o>> ELSE Untouched
  BY <1>1 DEF Inv, ReadRight, Reading, Through
<1>6. count \in 0 .. (CountModulus - 1) /\ DOMAIN memory = Offsets
  BY DEF Inv, TypeOK
<1>7. /\ entry \in Complete /\ Sectors \in Nat \ {0} /\ Sectors <= TableEntries
      /\ filetable[entry].start \in Nat
      /\ LastCluster(entry) = filetable[entry].start + Sectors - 1
      /\ run \in 1 .. CountModulus /\ to \in 0 .. TableEntries
      /\ CountModulus \in Nat \ {0, 1}
  BY <1>3, ReadFacts
<1>8. TableEntries \in Nat
  BY Sizes
<1>9. /\ run < CountModulus /\ to + run = Sectors /\ to \in Nat /\ i \in Nat
      /\ i < run /\ to + i < Sectors
  BY <1>5, <1>6, <1>7
<1>10. (Sectors \div CountModulus) * CountModulus = to
  <2>1. to <= Sectors /\ Sectors < to + CountModulus /\ Sectors \in Nat
    BY <1>7, <1>9
  <2>2. QED
    BY <1>5, <1>9, <2>1, FullRuns
<1>11. \A o \in Nat : InFullRun(o) <=> o < to
  BY <1>10 DEF InFullRun
<1>12. DirectoryFits => Sector(first + i) = <<entry - 1, to + i>>
  <2>1. first + i \in filetable[entry].start .. LastCluster(entry)
        /\ (first + i) - filetable[entry].start = to + i
    BY <1>5, <1>7, <1>9
  <2>2. DirectoryFits =>
          Sector(first + i) = <<entry - 1, (first + i) - filetable[entry].start>>
    BY <1>7, <2>1, ChainStep DEF Inv
  <2>3. QED
    BY <2>1, <2>2
<1>13. ASSUME DirectoryFits, NEW o \in Offsets
       PROVE  memory'[o] = IF o < to + i + 1 /\ ~InFullRun(o) THEN <<entry - 1, o>> ELSE Untouched
  <2>1. o \in Nat
    BY <1>13 DEF Offsets
  <2>2. CASE o = to + i
    <3>1. memory'[o] = <<entry - 1, o>>
      BY <1>1, <1>6, <1>12, <1>13, <2>2
    <3>2. o < to + i + 1 /\ ~(o < to)
      BY <1>9, <2>2
    <3>3. ~InFullRun(o)
      BY <1>11, <2>1, <3>2
    <3>4. QED
      BY <3>1, <3>2, <3>3
  <2>3. CASE o # to + i
    <3>1. memory'[o] = memory[o]
      BY <1>1, <1>6, <1>13, <2>3
    <3>2. o < to + i + 1 <=> o < to + i
      BY <1>9, <2>1, <2>3
    <3>3. QED
      BY <1>5, <1>13, <3>1, <3>2
  <2>4. QED
    BY <2>2, <2>3
<1>14. DOMAIN memory' = Offsets
  BY <1>1, <1>6
<1>15. CASE i + 1 < count
  <2>1. disk' = "busy" /\ kernel' = "transfer"
    BY <1>1, <1>15
  <2>2. i' \in 0 .. (count - 1) /\ to + i' = to + i + 1
    BY <1>1, <1>5, <1>7, <1>9, <1>15
  <2>3. TypeOK'
    BY <1>2, <1>4, <1>14, <2>1 DEF Inv, TypeOK, reserved_sectors, RunLimit, Offsets
  <2>4. \A o \in Offsets : DirectoryFits =>
          memory'[o] = IF o < to + i' /\ ~InFullRun(o) THEN <<entry - 1, o>> ELSE Untouched
    BY <1>13, <2>2
  <2>5. ReadRight'
    BY <1>2, <1>4, <1>5, <2>1, <2>2, <2>4 DEF ReadRight, Reading, Through, Offsets
  <2>6. QED
    BY <1>4, <2>3, <2>5 DEF Inv
<1>16. CASE ~(i + 1 < count)
  <2>1. disk' = "idle" /\ kernel' = "next run"
    BY <1>1, <1>16
  <2>2. to + run = to + i + 1
    BY <1>5, <1>7, <1>9, <1>16
  <2>3. TypeOK'
    BY <1>2, <1>4, <1>14, <2>1 DEF Inv, TypeOK, reserved_sectors, RunLimit, Offsets
  <2>4. \A o \in Offsets : DirectoryFits =>
          memory'[o] = IF o < to + run /\ ~InFullRun(o) THEN <<entry - 1, o>> ELSE Untouched
    BY <1>13, <2>2
  <2>5. ReadRight'
    BY <1>2, <1>4, <1>5, <2>1, <2>4 DEF ReadRight, Reading, Through, Offsets
  <2>6. QED
    BY <1>4, <2>3, <2>5 DEF Inv
<1>17. QED
  BY <1>15, <1>16

\* The run is over: the next one starts with the next cluster, or the file has
\* been read (FAT16.c:36-43).
LEMMA NextRunInv ==
  ASSUME Inv, NextRun
  PROVE  Inv'
<1>1. /\ kernel = "next run" /\ to' = to + run
      /\ current' = Follow(current) /\ first' = Follow(current)
      /\ IF Follow(current) < Reserved
         THEN kernel' = "extend" /\ run' = 1
         ELSE kernel' = "done" /\ UNCHANGED run
      /\ UNCHANGED <<imageVars, loaderVars, entry, memory, driveVars>>
  BY DEF NextRun, Advance
<1>2. UNCHANGED <<entry, memory, count, i, disk>>
  BY <1>1 DEF driveVars
<1>3. kernel \in Reading /\ kernel' \in Reading
  BY <1>1 DEF Reading
<1>4. /\ ImageRight' /\ LoaderRight' /\ SearchRight'
      /\ UNCHANGED <<filetable, clust, clustertable, make, loader>>
      /\ Sectors' = Sectors /\ (\A o : InFullRun(o)' <=> InFullRun(o))
      /\ (DirectoryFits' <=> DirectoryFits)
  BY <1>1, <1>3, ReadFrame
<1>5. /\ (to % CountModulus) = 0 /\ to + run <= Sectors
      /\ first = filetable[entry].start + to /\ current = first + run - 1
      /\ run = CountModulus \/ to + run = Sectors
      /\ DirectoryFits =>
           \A o \in Offsets :
             memory[o] = IF o < to + run /\ ~InFullRun(o) THEN <<entry - 1, o>> ELSE Untouched
  BY <1>1 DEF Inv, ReadRight, Reading, Through
<1>6. /\ Sectors \in Nat \ {0} /\ Sectors <= TableEntries
      /\ filetable[entry].start \in Nat
      /\ run \in 1 .. CountModulus /\ to \in 0 .. TableEntries
      /\ CountModulus \in Nat \ {0, 1}
  BY <1>3, ReadFacts
<1>7. /\ (current = LastCluster(entry) <=> to + run = Sectors)
      /\ current = LastCluster(entry) => Follow(current) = EndOfFile
      /\ current # LastCluster(entry) =>
           Follow(current) = current + 1 /\ Follow(current) < Reserved
  BY <1>1, <1>3, ReadFacts
<1>8. to + run \in 0 .. TableEntries
  BY <1>5, <1>6, Sizes
<1>9. CASE to + run = Sectors
  <2>1. ~(Follow(current) < Reserved)
    BY <1>7, <1>9, Sizes
  <2>2. kernel' = "done" /\ UNCHANGED run /\ to' = Sectors
    BY <1>1, <1>9, <2>1
  <2>3. TypeOK'
    BY <1>1, <1>2, <1>4, <1>8, <2>2 DEF Inv, TypeOK, reserved_sectors, RunLimit, Offsets
  <2>4. ReadRight'
    BY <1>1, <1>2, <1>4, <1>5, <2>2 DEF ReadRight, Reading, Through, Offsets
  <2>5. QED
    BY <1>4, <2>3, <2>4 DEF Inv
<1>10. CASE to + run # Sectors
  <2>1. Follow(current) = current + 1 /\ Follow(current) < Reserved
    BY <1>7, <1>10
  <2>2. kernel' = "extend" /\ run' = 1 /\ 1 \in 1 .. CountModulus
    <3>1. 1 \in 1 .. CountModulus
      BY <1>6
    <3>2. QED
      BY <1>1, <2>1, <3>1
  <2>3. run = CountModulus /\ to \in Nat
    BY <1>5, <1>6, <1>10
  <2>4. (to' % CountModulus) = 0
    <3>1. ((to + CountModulus) % CountModulus) = 0
      BY <1>5, <1>6, <2>3, FullRuns
    <3>2. to' = to + CountModulus
      BY <1>1, <2>3
    <3>3. QED
      BY <3>1, <3>2
  <2>5. /\ to' + 1 <= Sectors
        /\ first' = filetable[entry].start + to' /\ current' = first' + 1 - 1
    <3>1. /\ to' = to + run /\ first' = Follow(current) /\ current' = Follow(current)
      BY <1>1
    <3>2. to + run + 1 <= Sectors
      BY <1>5, <1>6, <1>10, <2>3
    <3>3. current + 1 = filetable[entry].start + (to + run)
      BY <1>5, <1>6, <2>3
    <3>4. current + 1 \in Nat
      BY <1>5, <1>6, <2>3
    <3>5. QED
      BY <2>1, <3>1, <3>2, <3>3, <3>4
  <2>6. TypeOK'
    BY <1>1, <1>2, <1>4, <1>8, <2>2 DEF Inv, TypeOK, reserved_sectors, RunLimit, Offsets
  <2>7. ReadRight'
    BY <1>1, <1>2, <1>4, <1>5, <2>2, <2>4, <2>5 DEF ReadRight, Reading, Through, Offsets
  <2>8. QED
    BY <1>4, <2>6, <2>7 DEF Inv
<1>11. QED
  BY <1>9, <1>10

\* The drive's own steps, and those that change nothing.
LEMMA DriveInv ==
  ASSUME Inv, Drive \/ UNCHANGED vars
  PROVE  Inv'
<1>1. /\ UNCHANGED <<imageVars, loaderVars, kernel, entry, first, current, run, to, memory,
                    count, i>>
      /\ disk' \in {"idle", "busy", "ready", "error"}
  BY DEF Drive, vars, kernelVars, driveVars, Inv, TypeOK
<1>2. UNCHANGED <<clust, filetable, clustertable, data, make, loader, di, loaded, kernel,
                  entry, first, current, run, to, memory, count, i>>
  BY <1>1 DEF imageVars, loaderVars
<1>3. ImageRight' /\ LoaderRight'
  BY <1>1, <1>2, SameImage, SameLoader DEF Inv
<1>4. TypeOK'
  BY <1>1, <1>2 DEF Inv, TypeOK, reserved_sectors, Offsets
<1>5. SearchRight'
  BY <1>2 DEF Inv, SearchRight, FindsFirst, IsFirst, Matches, Offsets
<1>6. ReadRight'
  BY <1>2 DEF Inv, ReadRight, Reading, Through, Sectors, InFullRun, DirectoryFits, Offsets
<1>7. QED
  BY <1>3, <1>4, <1>5, <1>6 DEF Inv

------------------------------------------------------------------------------
(***************************************************************************)
(* The theorems.                                                           *)
(***************************************************************************)

\* The inductive invariant holds in every reachable state.
THEOREM Invariance == Spec => []Inv
<1>1. Inv /\ [Next]_vars => Inv'
  BY BuildingInv, LoaderSearchInv, LoaderMoreInv, FindEntryInv, ExtendRunInv, CallReadInv,
     SendCommandInv, TransferInv, NextRunInv, DriveInv
  DEF Next, Code
<1>2. QED
  BY <1>1, InitInv, PTL DEF Spec

\* Every file has exactly the clusters it needs, in a chain of its own, and all
\* others are free, also when the FAT turns out too small (add_file.py:73-101).
THEOREM ChainsAreExact == Spec => []ChainsExact
<1>1. ASSUME Inv
      PROVE  ChainsExact
  <2>1. TypeOK /\ ImageRight /\ ImageTypes /\ Laid /\ InARow
    BY <1>1 DEF Inv, ImageRight
  <2>2. \A k \in Complete :
          /\ k \in Nat /\ filetable[k].start \in Nat /\ filetable[k].size \in Nat
          /\ Links(filetable[k].size) \in Nat
          /\ LastCluster(k) = filetable[k].start + Links(filetable[k].size)
          /\ LastCluster(k) \in Nat /\ filetable[k].start <= LastCluster(k)
          /\ Clusters(filetable[k]) = filetable[k].start .. LastCluster(k)
    BY <2>1, EntryTypes
  <2>3. ASSUME NEW k \in Complete
        PROVE  /\ (Links(filetable[k].size) + 1) * SectorBytes >= filetable[k].size
               /\ Links(filetable[k].size) * SectorBytes < filetable[k].size
                    \/ filetable[k].size = 0
    BY <2>2, LinksBound
  <2>4. ASSUME NEW k \in Complete
        PROVE  /\ \A c \in Clusters(filetable[k]) \ {LastCluster(k)} : Follow(c) = c + 1
               /\ Follow(LastCluster(k)) = EndOfFile
    BY <2>1, <2>2, ChainStep
  <2>5. ASSUME NEW j \in Complete, NEW k \in Complete, j # k
        PROVE  Clusters(filetable[j]) \cap Clusters(filetable[k]) = {}
    <3>1. j < k \/ k < j
      BY <2>2, <2>5
    <3>2. LastCluster(j) < filetable[k].start \/ LastCluster(k) < filetable[j].start
      BY <2>1, <3>1 DEF InARow
    <3>3. SUFFICES ASSUME NEW c \in Clusters(filetable[j]), c \in Clusters(filetable[k])
                   PROVE  FALSE
      OBVIOUS
    <3>4. /\ c \in filetable[j].start .. LastCluster(j)
          /\ c \in filetable[k].start .. LastCluster(k)
      BY <2>2, <3>3
    <3>5. QED
      BY <2>2, <3>2, <3>4
  <2>6. ASSUME NEW c \in reserved_sectors .. (TableEntries - 1)
        PROVE  Follow(c) = 0 <=> \A k \in Complete : c \notin Clusters(filetable[k])
    <3>1. /\ clust \in Nat /\ reserved_sectors \in Nat /\ TableEntries \in Nat
          /\ reserved_sectors > 0
      <4>1. clust \in reserved_sectors .. TableEntries
        BY <2>1 DEF TypeOK
      <4>2. QED
        BY <4>1, Sizes
    <3>2. CASE c < clust
      <4>1. c \in reserved_sectors .. (clust - 1)
        BY <3>1, <3>2
      <4>2. PICK k \in Complete : c \in Clusters(filetable[k])
        BY <2>1, <4>1 DEF InARow
      <4>3. Follow(c) = EndOfFile \/ Follow(c) = c + 1
        BY <2>1, <2>2, <4>2, ChainStep
      <4>4. Follow(c) # 0
        BY <3>1, <4>3, Sizes
      <4>5. QED
        BY <4>2, <4>4
    <3>3. CASE ~(c < clust)
      <4>1. c \in clust .. (TableEntries - 1)
        BY <3>1, <3>3
      <4>2. Follow(c) = 0
        BY <2>1, <4>1 DEF InARow, Follow
      <4>3. \A k \in Complete : c \notin Clusters(filetable[k])
        BY <2>1, <2>2, <3>1, <3>3 DEF Laid
      <4>4. QED
        BY <4>2, <4>3
    <3>4. QED
      BY <3>2, <3>3
  <2>7. ASSUME NEW k \in Complete
        PROVE  LET entry_k == filetable[k]
                   last == entry_k.start + Links(entry_k.size)
               IN  /\ (Links(entry_k.size) + 1) * SectorBytes >= entry_k.size
                   /\ Links(entry_k.size) * SectorBytes < entry_k.size \/ entry_k.size = 0
                   /\ \A c \in Clusters(entry_k) \ {last} : Follow(c) = c + 1
                   /\ Follow(last) = EndOfFile
    BY <2>2, <2>3, <2>4
  <2>8. QED
    BY <2>5, <2>6, <2>7 DEF ChainsExact
<1>2. QED
  BY <1>1, Invariance, PTL

\* In a packaged image the number of a cluster is that of its sector, as both
\* readers take it, if the directory has no more entries than its sectors.
THEOREM ClustersAreSectors == Spec => []ClusterIsSector
<1>1. ASSUME Inv, make = "packaged", Len(filetable) <= RootEntries,
             NEW k \in Added, NEW c \in Clusters(filetable[k])
      PROVE  Sector(c) = <<k - 1, c - filetable[k].start>>
  <2>1. k \in Complete /\ DirectoryFits
    BY <1>1 DEF Complete, DirectoryFits
  <2>2. c \in filetable[k].start .. LastCluster(k)
    BY <1>1, <2>1, EntryTypes DEF Inv, ImageRight
  <2>3. QED
    BY <1>1, <2>1, <2>2, ChainStep DEF Inv
<1>2. Inv => ClusterIsSector
  BY <1>1 DEF ClusterIsSector
<1>3. QED
  BY <1>2, Invariance, PTL

\* The loader loads the first file of the kernel's name, whole and in order
\* (_FAT16.asm:18-48).
THEOREM KernelIsLoaded == Spec => []KernelLoaded
<1>1. ASSUME Inv, loader = "done", DirectoryFits
      PROVE  \E k \in Matches(KernelName) : IsFirst(k, KernelName) /\ loaded = Contents(k)
  <2>1. make = "packaged" /\ loaded \in Seq(Nat \X Nat)
    BY <1>1 DEF Inv, LoaderRight
  <2>2. PICK k \in Matches(KernelName) :
          /\ IsFirst(k, KernelName)
          /\ Len(loaded) = Links(filetable[k].size) + 1
          /\ \A s \in 1 .. Len(loaded) : loaded[s] = <<k - 1, s - 1>>
    BY <1>1 DEF Inv, LoaderRight
  <2>3. DOMAIN loaded = 1 .. Len(loaded) /\ loaded = [s \in 1 .. Len(loaded) |-> loaded[s]]
    BY <2>1, LenProperties
  <2>4. loaded = Contents(k)
    BY <2>2, <2>3 DEF Contents
  <2>5. QED
    BY <2>2, <2>4
<1>2. Inv => KernelLoaded
  BY <1>1 DEF KernelLoaded
<1>3. QED
  BY <1>2, Invariance, PTL

\* find_entry returns the first entry of the name, none if there is none, and
\* leaves its array only when that is full (FAT16.c:19-26).
THEOREM FirstIsFound == Spec => []FindsFirst
<1>1. Inv => FindsFirst
  BY DEF Inv, SearchRight
<1>2. QED
  BY <1>1, Invariance, PTL

\* What read_all_to delivers is the file, but for its full runs, at the end and
\* on the way there (FAT16.c:27-44).
THEOREM FilesAreExact == Spec => []FilesExact
<1>1. ASSUME Inv, kernel = "done", DirectoryFits, NEW o \in Offsets
      PROVE  memory[o] = IF o < Sectors /\ ~InFullRun(o) THEN <<entry - 1, o>> ELSE Untouched
  BY <1>1 DEF Inv, ReadRight, Reading, Through
<1>2. ASSUME Inv, kernel \in {"command", "transfer"}
      PROVE  /\ first = filetable[entry].start + to
             /\ count = run
             /\ to + count <= Sectors
  BY <1>2 DEF Inv, ReadRight, Reading
<1>3. Inv => FilesExact
  BY <1>1, <1>2 DEF Inv, FilesExact, ReadWhole, ReadInPlace
<1>4. QED
  BY <1>3, Invariance, PTL


------------------------------------------------------------------------------
(***************************************************************************)
(* The second stage.                                                       *)
(***************************************************************************)

BeforeVideo == {"first_entry", "next_entry", "asking_for_ever", "done", "video"}
Inspecting == {"mode_info", "resolution", "not_resolution"}
Found == {"Load_Kernel", "searching_for_ever", "astray", "more", "follow", "read_error",
          "enable_mode", "Load_GDT", "kernel"}

Info == [x : Nat, y : Nat, bits : Nat]

NoneWanted(n) == \A m \in 1 .. n : m \in DOMAIN modes => modes[m] # Wanted

\* The modes before the one that is looked at are not wanted, and what was read
\* of it is what the list says; the search ends with the first wanted one.
SearchInv ==
  /\ modes \in Seq(Info) /\ offset \in Nat
  /\ pc \in BeforeVideo => offset = 0
  /\ pc = "find_mode" => offset <= Len(modes) /\ NoneWanted(offset)
  /\ pc \in Inspecting \cup Found \cup {"divide_error"} => offset \in DOMAIN modes
  /\ pc \in Inspecting \cup Found => NoneWanted(offset - 1)
  /\ pc \in {"resolution", "not_resolution"} \cup Found => info = modes[offset]
  /\ pc \in Found => info = Wanted
  /\ pc = "end_of_modes" => NoneWanted(Len(modes))
  /\ pc = "divide_error" => ~(modes[offset].y \div 9 < 256) /\ NoneWanted(offset)
  /\ pc \in BeforeVideo \cup Inspecting \cup Found
              \cup {"find_mode", "end_of_modes", "divide_error", "error"}

\* The lists have modes, and none of them divides by zero or overflows into the
\* wanted one.
LEMMA ModeFacts ==
  ASSUME SearchInv
  PROVE  /\ Len(modes) \in Nat /\ DOMAIN modes = 1 .. Len(modes)
         /\ \A m \in DOMAIN modes : modes[m] \in Info
         /\ Wanted \in Info /\ Wanted.y \div 9 < 256
<1>1. modes \in Seq(Info)
  BY DEF SearchInv
<1>2. Len(modes) \in Nat /\ DOMAIN modes = 1 .. Len(modes)
  BY <1>1, LenProperties
<1>3. \A m \in DOMAIN modes : modes[m] \in Info
  BY <1>1, <1>2, ElementOfSeq
<1>4. Wanted \in Info /\ Wanted.y \div 9 < 256
  BY ConstantsAssumption DEF Info
<1>5. QED
  BY <1>2, <1>3, <1>4

\* Nothing has been looked at when the stage starts.
LEMMA InitSearch == StageInit => SearchInv
<1> SUFFICES ASSUME StageInit PROVE SearchInv
  OBVIOUS
<1>1. pc = "first_entry" /\ offset = 0 /\ modes \in ModeLists
  BY DEF StageInit
<1>2. modes \in Seq(Info)
  BY <1>1, ConstantsAssumption DEF Info
<1>3. offset \in Nat
  BY <1>1
<1>4. QED
  BY <1>1, <1>2, <1>3 DEF SearchInv, BeforeVideo, Inspecting, Found

\* The steps of the memory map and those after the search leave the search
\* alone.
LEMMA OtherSteps ==
  ASSUME SearchInv, UNCHANGED <<modes, offset, info>>,
         \/ pc \in BeforeVideo \ {"video"} /\ pc' \in BeforeVideo
         \/ pc = "video" /\ pc' = "error"
         \/ pc = "mode_info" /\ pc' = "error"
         \/ pc \in Found /\ pc' \in Found
         \/ UNCHANGED pc
  PROVE  SearchInv'
<1>1. /\ NoneWanted(offset)' <=> NoneWanted(offset)
      /\ NoneWanted(offset - 1)' <=> NoneWanted(offset - 1)
      /\ NoneWanted(Len(modes))' <=> NoneWanted(Len(modes))
  BY DEF NoneWanted
<1>2. CASE \/ pc \in BeforeVideo \ {"video"} /\ pc' \in BeforeVideo
           \/ pc = "video" /\ pc' = "error"
           \/ pc = "mode_info" /\ pc' = "error"
  BY <1>1, <1>2 DEF SearchInv, BeforeVideo, Inspecting, Found
<1>3. CASE pc \in Found /\ pc' \in Found
  BY <1>1, <1>3 DEF SearchInv, BeforeVideo, Inspecting, Found
<1>4. CASE UNCHANGED pc
  <2>1. UNCHANGED <<pc, modes, offset, info>>
    BY <1>4
  <2>2. SearchInv
    OBVIOUS
  <2>3. (modes \in Seq(Info))' /\ (offset \in Nat)'
    BY <2>1, <2>2 DEF SearchInv
  <2>4. /\ (pc \in BeforeVideo => offset = 0)'
        /\ (pc = "find_mode" => offset <= Len(modes) /\ NoneWanted(offset))'
        /\ (pc \in Inspecting \cup Found \cup {"divide_error"} => offset \in DOMAIN modes)'
    BY <1>1, <2>1, <2>2 DEF SearchInv
  <2>5. /\ (pc \in Inspecting \cup Found => NoneWanted(offset - 1))'
        /\ (pc \in {"resolution", "not_resolution"} \cup Found => info = modes[offset])'
        /\ (pc \in Found => info = Wanted)'
    BY <1>1, <2>1, <2>2 DEF SearchInv
  <2>6. /\ (pc = "end_of_modes" => NoneWanted(Len(modes)))'
        /\ (pc = "divide_error" => ~(modes[offset].y \div 9 < 256) /\ NoneWanted(offset))'
    BY <1>1, <2>1, <2>2 DEF SearchInv
  <2>7. QED
    BY <2>3, <2>4, <2>5, <2>6, <2>1, <2>2 DEF SearchInv
<1>5. QED
  BY <1>2, <1>3, <1>4

\* The search starts at the first mode.
LEMMA VideoStep ==
  ASSUME SearchInv, VideoInformation
  PROVE  SearchInv'
<1>1. pc = "video" /\ pc' \in {"find_mode", "error"} /\ UNCHANGED <<modes, offset, info>>
  BY DEF VideoInformation, Goto, videoVars
<1>2. CASE pc' = "error"
  BY <1>1, <1>2, OtherSteps
<1>3. CASE pc' = "find_mode"
  <2>1. offset = 0 /\ 1 .. 0 = {}
    BY <1>1 DEF SearchInv, BeforeVideo
  <2>2. offset <= Len(modes)
    BY <2>1, ModeFacts
  <2>3. NoneWanted(offset)'
    BY <1>1, <2>1 DEF NoneWanted
  <2>4. QED
    BY <1>1, <1>3, <2>2, <2>3 DEF SearchInv, BeforeVideo, Inspecting, Found
<1>4. QED
  BY <1>1, <1>2, <1>3

\* The next mode, or the end of the list (load_kernel.asm:78-85).
LEMMA FindModeStep ==
  ASSUME SearchInv, find_mode
  PROVE  SearchInv'
<1>1. /\ pc = "find_mode" /\ offset' = offset + 1 /\ UNCHANGED <<modes, info>>
      /\ pc' = IF offset' \in DOMAIN modes THEN "mode_info" ELSE "end_of_modes"
  BY DEF find_mode, Goto
<1>2. offset \in Nat /\ offset <= Len(modes) /\ NoneWanted(offset)
  BY <1>1 DEF SearchInv
<1>3. Len(modes) \in Nat /\ DOMAIN modes = 1 .. Len(modes)
  BY ModeFacts
<1>4. offset' = offset + 1 /\ offset \in Nat /\ offset <= Len(modes)
  BY <1>1, <1>2
<1>5. offset' \in Nat /\ offset' - 1 = offset
  BY <1>4
<1>6. CASE offset' \in DOMAIN modes
  <2>1. pc' = "mode_info"
    BY <1>1, <1>6
  <2>2. NoneWanted(offset - 1)'
    BY <1>1, <1>2, <1>5 DEF NoneWanted
  <2>3. QED
    BY <1>1, <1>5, <1>6, <2>1, <2>2 DEF SearchInv, BeforeVideo, Inspecting, Found
<1>7. CASE offset' \notin DOMAIN modes
  <2>1. offset = Len(modes)
    <3> DEFINE len == Len(modes)
    <3>1. /\ offset + 1 \notin 1 .. len /\ len \in Nat
          /\ offset \in Nat /\ offset <= len
      BY <1>3, <1>4, <1>7
    <3> HIDE DEF len
    <3>2. offset = len
      BY <3>1
    <3>3. QED
      BY <3>2 DEF len
  <2>2. pc' = "end_of_modes"
    BY <1>1, <1>7
  <2>3. NoneWanted(Len(modes))'
    BY <1>1, <1>2, <2>1 DEF NoneWanted
  <2>4. QED
    BY <1>1, <1>5, <2>2, <2>3 DEF SearchInv, BeforeVideo, Inspecting, Found
<1>8. QED
  BY <1>6, <1>7

\* What the BIOS says of the mode (load_kernel.asm:87-95).
LEMMA InformationStep ==
  ASSUME SearchInv, ModeInformation
  PROVE  SearchInv'
<1>1. pc = "mode_info" /\ UNCHANGED <<modes, offset>>
  BY DEF ModeInformation
<1>2. CASE info' = modes[offset] /\ pc' = "resolution"
  BY <1>1, <1>2 DEF SearchInv, BeforeVideo, Inspecting, Found, NoneWanted
<1>3. CASE pc' = "error" /\ UNCHANGED info
  BY <1>1, <1>3, OtherSteps
<1>4. QED
  BY <1>2, <1>3 DEF ModeInformation, Goto

\* The quotient of its lines may not fit a byte; that of the wanted mode does
\* (load_kernel.asm:96-104).
LEMMA ResolutionStep ==
  ASSUME SearchInv, Resolution
  PROVE  SearchInv'
<1>1. /\ pc = "resolution" /\ UNCHANGED <<modes, offset, info>>
      /\ pc' = IF QuotientFits THEN "not_resolution" ELSE "divide_error"
  BY DEF Resolution, Goto, videoVars
<1>2. CASE QuotientFits
  BY <1>1, <1>2 DEF SearchInv, BeforeVideo, Inspecting, Found, NoneWanted
<1>3. CASE ~QuotientFits
  <2>1. /\ offset \in Nat /\ info = modes[offset] /\ NoneWanted(offset - 1)
        /\ offset \in DOMAIN modes
    BY <1>1 DEF SearchInv, BeforeVideo, Inspecting, Found
  <2>2. ~(modes[offset].y \div 9 < 256)
    BY <1>3, <2>1 DEF QuotientFits
  <2>3. modes[offset] # Wanted
    BY <2>2, ModeFacts
  <2>4. NoneWanted(offset)
    BY <2>1, <2>3 DEF NoneWanted
  <2>5. QED
    BY <1>1, <1>3, <2>1, <2>2, <2>4
    DEF SearchInv, BeforeVideo, Inspecting, Found, NoneWanted
<1>4. QED
  BY <1>2, <1>3

\* The mode is the wanted one or the search goes on behind it
\* (load_kernel.asm:121-156).
LEMMA NotResolutionStep ==
  ASSUME SearchInv, not_resolution
  PROVE  SearchInv'
<1>1. /\ pc = "not_resolution" /\ UNCHANGED <<modes, offset, info>>
      /\ pc' = IF IsWanted THEN "Load_Kernel" ELSE "find_mode"
  BY DEF not_resolution, Goto, NextLabel, videoVars
<1>2. /\ offset \in Nat /\ info = modes[offset] /\ NoneWanted(offset - 1)
      /\ offset \in DOMAIN modes
  BY <1>1 DEF SearchInv, BeforeVideo, Inspecting, Found
<1>3. info \in Info /\ Wanted \in Info
  BY <1>2, ModeFacts
<1>4. CASE IsWanted
  <2>1. info = Wanted
    BY <1>3, <1>4 DEF IsWanted, Info
  <2>2. QED
    BY <1>1, <1>2, <1>4, <2>1
    DEF SearchInv, BeforeVideo, Inspecting, Found, NoneWanted
<1>5. CASE ~IsWanted
  <2>1. modes[offset] # Wanted
    BY <1>2, <1>5 DEF IsWanted
  <2>2. NoneWanted(offset)
    BY <1>2, <2>1 DEF NoneWanted
  <2>3. offset <= Len(modes)
    BY <1>2, ModeFacts
  <2>4. QED
    BY <1>1, <1>2, <1>5, <2>2, <2>3
    DEF SearchInv, BeforeVideo, Inspecting, Found, NoneWanted
<1>6. QED
  BY <1>4, <1>5

\* Every step keeps the search right.
LEMMA StepSearch == SearchInv /\ [StageNext]_stageVars => SearchInv'
<1> SUFFICES ASSUME SearchInv, [StageNext]_stageVars PROVE SearchInv'
  OBVIOUS
<1>1. CASE \/ FirstEntry \/ FirstError \/ NextReport \/ CarryAtEnd \/ LastEntry \/ MapDone
  <2>1. UNCHANGED <<modes, offset, info>>
    BY <1>1 DEF FirstEntry, FirstError, NextReport, CarryAtEnd, LastEntry, MapDone, Start, videoVars
  <2>2. \/ pc \in BeforeVideo \ {"video"} /\ pc' \in BeforeVideo
        \/ UNCHANGED pc
    BY <1>1 DEF FirstEntry, FirstError, NextReport, CarryAtEnd, LastEntry, MapDone, Goto, BeforeVideo
  <2>3. QED
    BY <2>1, <2>2, OtherSteps
<1>2. CASE Load_Kernel \/ LoadSector \/ FollowFat \/ EnableMode \/ Load_GDT
  <2>1. UNCHANGED <<modes, offset, info>>
    BY <1>2 DEF Load_Kernel, LoadSector, FollowFat, EnableMode, Load_GDT, videoVars
  <2>2. pc \in Found /\ pc' \in Found
    BY <1>2 DEF Load_Kernel, LoadSector, FollowFat, EnableMode, Load_GDT, Goto, Found
  <2>3. QED
    BY <2>1, <2>2, OtherSteps
<1>3. CASE VideoInformation \/ find_mode \/ ModeInformation \/ Resolution \/ not_resolution
  BY <1>3, VideoStep, FindModeStep, InformationStep, ResolutionStep, NotResolutionStep
<1>4. CASE UNCHANGED stageVars
  <2>1. UNCHANGED <<pc, modes, offset, info>>
    BY <1>4 DEF stageVars, videoVars
  <2>2. QED
    BY <2>1, OtherSteps
<1>5. QED
  BY <1>1, <1>2, <1>3, <1>4 DEF StageNext, StageCode

\* The inductive invariant holds in every reachable state.
THEOREM SearchInvariance == StageSpec => []SearchInv
<1>1. QED
  BY InitSearch, StepSearch, PTL DEF StageSpec

\* The kernel starts in the first wanted mode; the end of the list is reached
\* only without one, a divide error only by a mode of too many lines before it
\* (load_kernel.asm:78-156).
THEOREM ModeIsRight == StageSpec => []ModeRight
<1>1. ASSUME SearchInv
      PROVE  FirstWantedMode
  <2>1. ASSUME pc = "kernel"
        PROVE  /\ info = Wanted /\ modes[offset] = Wanted
               /\ \A m \in 1 .. (offset - 1) : modes[m] # Wanted
    <3>1. /\ offset \in Nat /\ offset \in DOMAIN modes /\ NoneWanted(offset - 1)
          /\ info = modes[offset] /\ info = Wanted
      BY <1>1, <2>1 DEF SearchInv, Found
    <3>2. \A m \in 1 .. (offset - 1) : m \in DOMAIN modes
      BY <1>1, <3>1, ModeFacts
    <3>3. QED
      BY <3>1, <3>2 DEF NoneWanted
  <2>2. QED
    BY <2>1 DEF FirstWantedMode
<1>2. ASSUME SearchInv
      PROVE  SearchFailsRightly
  <2>1. ASSUME pc = "end_of_modes"
        PROVE  Wanted \notin Range(modes)
    <3>1. NoneWanted(Len(modes)) /\ DOMAIN modes = 1 .. Len(modes)
      BY <1>2, <2>1, ModeFacts DEF SearchInv
    <3>2. QED
      BY <3>1 DEF NoneWanted, Range
  <2>2. ASSUME pc = "divide_error"
        PROVE  /\ modes[offset].y >= 9 * 256
               /\ Wanted \notin {modes[m] : m \in 1 .. offset}
    <3>1. /\ offset \in Nat /\ offset \in DOMAIN modes /\ NoneWanted(offset)
          /\ ~(modes[offset].y \div 9 < 256)
      BY <1>2, <2>2 DEF SearchInv
    <3>2. modes[offset].y \in Nat
      BY <1>2, <3>1, ModeFacts DEF Info
    <3>3. modes[offset].y >= 9 * 256
      BY <3>1, <3>2
    <3>4. \A m \in 1 .. offset : m \in DOMAIN modes
      BY <1>2, <3>1, ModeFacts
    <3>5. QED
      BY <3>1, <3>3, <3>4 DEF NoneWanted
  <2>3. QED
    BY <2>1, <2>2 DEF SearchFailsRightly
<1>3. SearchInv => ModeRight
  BY <1>1, <1>2 DEF ModeRight
<1>4. QED
  BY <1>3, SearchInvariance, PTL

------------------------------------------------------------------------------
\* g selects the entries with memory among the first n of s.
Selects(g, s, n) ==
  g = [k \in 0 .. n |-> IF k = 0 THEN <<>>
                        ELSE IF IsMemory(s[k]) THEN Append(g[k - 1], s[k]) ELSE g[k - 1]]

Selection(s) == CHOOSE g : Selects(g, s, Len(s))

\* Such a function, element by element.
LEMMA SelectsEach ==
  ASSUME NEW g, NEW s, NEW n \in Nat, Selects(g, s, n), NEW k \in 0 .. n
  PROVE  g[k] = IF k = 0 THEN <<>>
                ELSE IF IsMemory(s[k]) THEN Append(g[k - 1], s[k]) ELSE g[k - 1]
<1> DEFINE body(l) == IF l = 0 THEN <<>>
                      ELSE IF IsMemory(s[l]) THEN Append(g[l - 1], s[l]) ELSE g[l - 1]
           f == [l \in 0 .. n |-> body(l)]
<1>1. g = f
  BY DEF Selects
<1>2. f[k] = body(k)
  <2> HIDE DEF body
  <2> QED OBVIOUS
<1>3. g[k] = f[k]
  <2> HIDE DEF f
  <2> QED BY <1>1
<1> HIDE DEF f
<1>4. g[k] = body(k)
  BY <1>2, <1>3
<1> QED BY <1>4

\* There is such a function for every sequence and n: a smallest n without one
\* would follow one with.
LEMMA SomeSelects ==
  ASSUME NEW s, NEW n \in Nat
  PROVE  \E g : Selects(g, s, n)
<1> DEFINE Without == {m \in Nat : ~ \E g : Selects(g, s, m)}
<1>1. SUFFICES ASSUME Without # {}
               PROVE  FALSE
  OBVIOUS
<1>2. PICK m \in Without : \A l \in Without : ~(l < m)
  <2>1. IsWellFoundedOn(OpToRel(<, Nat), Nat) /\ Without \subseteq Nat
    BY NatLessThanWellFounded
  <2>2. \E m \in Without : \A l \in Without : ~(<<l, m>> \in OpToRel(<, Nat))
    BY <1>1, <2>1, WFMin
  <2> QED BY <2>2 DEF OpToRel
<1>3. CASE m = 0
  <2>1. Selects([k \in 0 .. 0 |-> <<>>], s, 0)
    BY DEF Selects
  <2> QED BY <1>2, <1>3, <2>1
<1>4. CASE m # 0
  <2>1. m - 1 \in Nat /\ m - 1 < m
    BY <1>4
  <2>2. PICK g : Selects(g, s, m - 1)
    BY <1>2, <2>1
  <2> DEFINE h == [k \in 0 .. m |-> IF k < m THEN g[k]
                                    ELSE IF IsMemory(s[m]) THEN Append(g[m - 1], s[m]) ELSE g[m - 1]]
  <2>3. ASSUME NEW k \in 0 .. m
        PROVE  h[k] = IF k = 0 THEN <<>>
                      ELSE IF IsMemory(s[k]) THEN Append(h[k - 1], s[k]) ELSE h[k - 1]
    <3>1. CASE k < m
      <4>1. g[k] = IF k = 0 THEN <<>>
                   ELSE IF IsMemory(s[k]) THEN Append(g[k - 1], s[k]) ELSE g[k - 1]
        <5>1. k \in 0 .. (m - 1)
          BY <2>1, <3>1
        <5> QED BY <2>1, <2>2, <5>1, SelectsEach
      <4>2. h[k] = g[k] /\ (k # 0 => h[k - 1] = g[k - 1])
        BY <3>1
      <4> HIDE DEF h
      <4> QED BY <4>1, <4>2
    <3>2. CASE k = m
      BY <1>4, <3>2
    <3> QED BY <3>1, <3>2
  <2>4. Selects(h, s, m)
    <3>1. h = [k \in 0 .. m |-> h[k]]
      OBVIOUS
    <3> HIDE DEF h
    <3> QED BY <2>3, <3>1 DEF Selects
  <2> QED BY <1>2, <2>4
<1> QED BY <1>3, <1>4

\* Two such functions agree as far as their sequences do.
LEMMA SelectsAgree ==
  ASSUME NEW g, NEW s, NEW n \in Nat, Selects(g, s, n),
         NEW h, NEW t, NEW m \in Nat, Selects(h, t, m),
         n <= m, \A k \in 1 .. n : s[k] = t[k]
  PROVE  \A k \in 0 .. n : g[k] = h[k]
<1> DEFINE Differ == {k \in 0 .. n : g[k] # h[k]}
<1>1. SUFFICES ASSUME Differ # {}
               PROVE  FALSE
  OBVIOUS
<1>2. PICK k \in Differ : \A l \in Differ : ~(l < k)
  <2>1. IsWellFoundedOn(OpToRel(<, Nat), Nat) /\ Differ \subseteq Nat
    <3>1. 0 .. n \subseteq Nat
      OBVIOUS
    <3> HIDE DEF Differ
    <3>2. Differ \subseteq 0 .. n
      BY DEF Differ
    <3> QED BY <3>1, <3>2, NatLessThanWellFounded
  <2>2. \E k \in Differ : \A l \in Differ : ~(<<l, k>> \in OpToRel(<, Nat))
    BY <1>1, <2>1, WFMin
  <2> QED BY <2>1, <2>2 DEF OpToRel
<1>3. k \in 0 .. n /\ k \in 0 .. m /\ g[k] # h[k]
  BY <1>2
<1>4. /\ g[k] = IF k = 0 THEN <<>>
                ELSE IF IsMemory(s[k]) THEN Append(g[k - 1], s[k]) ELSE g[k - 1]
      /\ h[k] = IF k = 0 THEN <<>>
                ELSE IF IsMemory(t[k]) THEN Append(h[k - 1], t[k]) ELSE h[k - 1]
  BY <1>3, SelectsEach
<1>5. k # 0
  BY <1>3, <1>4
<1>6. g[k - 1] = h[k - 1] /\ s[k] = t[k]
  <2>1. k - 1 \in 0 .. n /\ k - 1 < k /\ k \in 1 .. n
    BY <1>3, <1>5
  <2> QED BY <1>2, <2>1
<1> QED BY <1>3, <1>4, <1>5, <1>6

Answers == [kind : Kinds, number : Nat]

\* The entries with memory, as reports come in.
LEMMA SelectionGrows ==
  /\ Selection(<<>>)[0] = <<>>
  /\ \A s \in Seq(Answers), answer \in Answers :
       Selection(Append(s, answer))[Len(s) + 1] =
         IF IsMemory(answer) THEN Append(Selection(s)[Len(s)], answer) ELSE Selection(s)[Len(s)]
<1>1. ASSUME NEW s, Len(s) \in Nat
      PROVE  Selects(Selection(s), s, Len(s))
  BY <1>1, SomeSelects DEF Selection
<1>2. Selection(<<>>)[0] = <<>>
  <2>1. Len(<<>>) = 0 /\ 0 \in 0 .. 0
    OBVIOUS
  <2>2. Selects(Selection(<<>>), <<>>, 0)
    BY <1>1, <2>1
  <2> QED BY <2>1, <2>2, SelectsEach
<1>3. ASSUME NEW s \in Seq(Answers), NEW answer \in Answers
      PROVE  Selection(Append(s, answer))[Len(s) + 1] =
               IF IsMemory(answer) THEN Append(Selection(s)[Len(s)], answer) ELSE Selection(s)[Len(s)]
  <2> DEFINE t == Append(s, answer)
  <2>1. PICK n \in Nat : n = Len(s)
    BY LenProperties
  <2>2. Len(t) = n + 1 /\ t[n + 1] = answer /\ \A k \in 1 .. n : s[k] = t[k]
    BY <2>1, AppendProperties
  <2> HIDE DEF t
  <2>3. Selects(Selection(s), s, n) /\ Selects(Selection(t), t, n + 1)
    BY <1>1, <2>1, <2>2
  <2>4. Selection(s)[n] = Selection(t)[n]
    <3>1. n \in 0 .. n /\ n <= n + 1 /\ n + 1 \in Nat
      OBVIOUS
    <3> QED BY <2>2, <2>3, <3>1, SelectsAgree
  <2>5. Selection(t)[n + 1] = IF IsMemory(t[n + 1]) THEN Append(Selection(t)[n], t[n + 1]) ELSE Selection(t)[n]
    <3>1. n + 1 \in 0 .. n + 1 /\ n + 1 # 0 /\ (n + 1) - 1 = n /\ n + 1 \in Nat
      OBVIOUS
    <3> QED BY <2>3, <3>1, SelectsEach
  <2> QED BY <2>1, <2>2, <2>4, <2>5 DEF t
<1> QED BY <1>2, <1>3

\* WithMemory is such a function.
LEMMA AllIsSelection == AllWithMemory = Selection(reported)[Len(reported)]
BY DEF AllWithMemory, WithMemory, Selection, Selects

Asking == {"next_entry", "asking_for_ever"}

\* The slots below bp hold what had memory so far; only after an error of the
\* first call bp is 0 all the same, and then there was at most one report.
\* What ends the list by the carry never gets past the loop.
MapInv ==
  /\ reported \in Seq(Answers) /\ table \in Seq(Answers) /\ bp \in Nat
  /\ Len(reported) <= MaxReports /\ bp <= Len(reported)
  /\ Len(table) = bp \/ Len(table) = bp + 1
  /\ \/ bp = 0 /\ Len(reported) <= 1 /\ pc \notin Asking
     \/ /\ AllWithMemory = SubSeq(table, 1, bp)
        /\ Len(reported) >= 1
        /\ Len(reported) >= 2 \/ (pc = "next_entry" /\ more) \/ pc = "asking_for_ever"
  /\ pc = "first_entry" => reported = <<>> /\ table = <<>>
  /\ pc \in {"first_entry", "done"} \cup Asking => number_of_entries = -1
  /\ number_of_entries \in {-1, bp}
  /\ endsList = "carry" => (pc = "next_entry" => more) /\ (pc \notin Asking => bp = 0)
  /\ pc \notin {"Load_GDT", "kernel"} => shown = 0
  /\ shown \in {0, offset} /\ offset <= Len(modes) + 1
  /\ pc \in BeforeVideo \cup Inspecting \cup Found
              \cup {"find_mode", "end_of_modes", "divide_error", "error"}

\* A slot is stored: those below it stay, and the counted ones are what it ends.
LEMMA StoreFacts ==
  ASSUME NEW s \in Seq(Answers), NEW n \in Nat, n <= Len(s), NEW answer \in Answers
  PROVE  /\ Append(SubSeq(s, 1, n), answer) \in Seq(Answers)
         /\ Len(Append(SubSeq(s, 1, n), answer)) = n + 1
         /\ SubSeq(Append(SubSeq(s, 1, n), answer), 1, n) = SubSeq(s, 1, n)
         /\ SubSeq(Append(SubSeq(s, 1, n), answer), 1, n + 1) = Append(SubSeq(s, 1, n), answer)
<1>1. ASSUME NEW r, NEW m \in Nat, \A k \in 1 .. m : r[k] \in Answers
      PROVE  /\ SubSeq(r, 1, m) \in Seq(Answers)
             /\ Len(SubSeq(r, 1, m)) = m
             /\ \A k \in 1 .. m : SubSeq(r, 1, m)[k] = r[k]
  BY <1>1
<1>2. PICK l \in Nat : l = Len(s)
  BY LenProperties
<1>3. \A k \in 1 .. l : s[k] \in Answers
  BY <1>2, ElementOfSeq
<1> DEFINE front == SubSeq(s, 1, n)
           stored == Append(front, answer)
<1>4. front \in Seq(Answers) /\ Len(front) = n /\ \A k \in 1 .. n : front[k] = s[k] /\ s[k] \in Answers
  <2>1. \A k \in 1 .. n : s[k] \in Answers
    BY <1>2, <1>3
  <2> QED BY <1>1, <2>1
<1> HIDE DEF front
<1>5. /\ stored \in Seq(Answers) /\ Len(stored) = n + 1 /\ stored[n + 1] = answer
      /\ \A k \in 1 .. n : stored[k] = front[k]
  BY <1>4, AppendProperties
<1> HIDE DEF stored
<1>6. \A k \in 1 .. n + 1 : stored[k] \in Answers
  BY <1>5, ElementOfSeq
<1>7. SubSeq(stored, 1, n) = front
  <2>1. /\ SubSeq(stored, 1, n) \in Seq(Answers) /\ Len(SubSeq(stored, 1, n)) = n
        /\ \A k \in 1 .. n : SubSeq(stored, 1, n)[k] = stored[k]
    <3>1. \A k \in 1 .. n : stored[k] \in Answers
      BY <1>6
    <3> QED BY <1>1, <3>1
  <2> QED BY <1>4, <1>5, <2>1, SeqEqual
<1>8. SubSeq(stored, 1, n + 1) = stored
  <2>1. /\ SubSeq(stored, 1, n + 1) \in Seq(Answers) /\ Len(SubSeq(stored, 1, n + 1)) = n + 1
        /\ \A k \in 1 .. n + 1 : SubSeq(stored, 1, n + 1)[k] = stored[k]
    BY <1>1, <1>6
  <2> QED BY <1>5, <2>1, SeqEqual
<1> QED BY <1>5, <1>7, <1>8 DEF stored, front

\* The BIOS reports an entry, while the counted slots are right.
LEMMA ReportFacts ==
  ASSUME reported \in Seq(Answers), table \in Seq(Answers), bp \in Nat, bp <= Len(reported),
         Len(table) = bp \/ Len(table) = bp + 1,
         NEW kind \in Kinds, Report(kind)
  PROVE  /\ reported' \in Seq(Answers) /\ Len(reported') = Len(reported) + 1
         /\ Len(reported') <= MaxReports
         /\ table' \in Seq(Answers)
         /\ Len(table') = bp \/ Len(table') = bp + 1
         /\ SubSeq(table', 1, bp) = SubSeq(table, 1, bp)
         /\ Count(kind) \in {bp, bp + 1}
         /\ Len(table') = Count(kind) \/ Len(table') = Count(kind) + 1
         /\ AllWithMemory = SubSeq(table, 1, bp) =>
              AllWithMemory' = SubSeq(table', 1, Count(kind))
<1>1. /\ Len(reported) < MaxReports /\ reported' = Append(reported, Answer(kind))
      /\ kind = "no_bytes" => table' = table
      /\ kind # "no_bytes" => table' = Append(SubSeq(table, 1, bp), Answer(kind))
  BY DEF Report, StoreInPlace
<1>2. Answer(kind) \in Answers /\ (IsMemory(Answer(kind)) <=> kind = "memory")
  <2>1. Len(reported) + 1 \in Nat
    BY LenProperties
  <2> QED BY <2>1 DEF Answer, Answers, IsMemory
<1>3. PICK n \in Nat : n = Len(reported)
  BY LenProperties
<1>4. reported' \in Seq(Answers) /\ Len(reported') = n + 1 /\ n + 1 <= MaxReports
  <2>1. n < MaxReports /\ MaxReports \in Nat
    BY <1>1, <1>3, ConstantsAssumption
  <2>2. n + 1 <= MaxReports
    BY <2>1
  <2>3. Append(reported, Answer(kind)) \in Seq(Answers) /\ Len(Append(reported, Answer(kind))) = n + 1
    BY <1>3, <1>2, AppendProperties
  <2> QED BY <1>1, <2>2, <2>3
<1>5. AllWithMemory' = IF IsMemory(Answer(kind)) THEN Append(AllWithMemory, Answer(kind)) ELSE AllWithMemory
  <2>1. AllWithMemory' = Selection(reported')[Len(reported')]
    BY DEF AllWithMemory, WithMemory, Selection, Selects
  <2>2. Selection(Append(reported, Answer(kind)))[n + 1] =
          IF IsMemory(Answer(kind)) THEN Append(Selection(reported)[n], Answer(kind)) ELSE Selection(reported)[n]
    BY <1>3, <1>2, SelectionGrows
  <2> QED BY <1>1, <1>3, <1>4, <2>1, <2>2, AllIsSelection
<1>6. bp <= Len(table)
  BY LenProperties
<1>7. CASE kind = "no_bytes"
  <2>1. table' = table /\ Count(kind) = bp /\ ~IsMemory(Answer(kind))
    BY <1>1, <1>7, <1>2 DEF Count
  <2> QED BY <1>3, <1>4, <1>5, <2>1
<1>8. CASE kind # "no_bytes"
  <2>1. table' = Append(SubSeq(table, 1, bp), Answer(kind))
    BY <1>1, <1>8
  <2>2. /\ table' \in Seq(Answers) /\ Len(table') = bp + 1
        /\ SubSeq(table', 1, bp) = SubSeq(table, 1, bp)
        /\ SubSeq(table', 1, bp + 1) = Append(SubSeq(table, 1, bp), Answer(kind))
    BY <1>6, <1>2, <2>1, StoreFacts
  <2>3. CASE kind = "memory"
    BY <1>3, <1>4, <1>5, <1>2, <2>2, <2>3 DEF Count
  <2>4. CASE kind # "memory"
    BY <1>3, <1>4, <1>5, <1>2, <2>2, <2>4 DEF Count
  <2> QED BY <2>3, <2>4
<1> QED BY <1>7, <1>8

\* The stage starts with nothing reported.
LEMMA InitMap == StageInit => MapInv
<1> SUFFICES ASSUME StageInit PROVE MapInv
  OBVIOUS
<1>1. <<>> \in Seq(Answers) /\ Len(<<>>) = 0
  OBVIOUS
<1>2. 0 <= MaxReports
  BY ConstantsAssumption
<1>3. /\ pc = "first_entry" /\ bp = 0 /\ number_of_entries = -1 /\ shown = 0
      /\ reported = <<>> /\ table = <<>>
  BY DEF StageInit
<1>4. reported \in Seq(Answers) /\ table \in Seq(Answers) /\ Len(reported) = 0 /\ Len(table) = 0
  BY <1>1, <1>3
<1>5. /\ bp \in Nat /\ Len(reported) <= MaxReports /\ bp <= Len(reported) /\ Len(table) = bp
      /\ Len(reported) <= 1
  BY <1>2, <1>3, <1>4
<1>6. pc \in BeforeVideo /\ pc \notin Asking /\ pc # "next_entry"
  BY <1>3 DEF BeforeVideo, Asking
<1>7. offset <= Len(modes) + 1
  <2>1. offset = 0 /\ SearchInv
    BY InitSearch DEF StageInit
  <2>2. Len(modes) \in Nat
    BY <2>1, ModeFacts
  <2> QED BY <2>1, <2>2
<1> QED BY <1>3, <1>4, <1>5, <1>6, <1>7, Zenon DEF MapInv

\* Nothing is counted before the first report.
LEMMA FirstSlots ==
  ASSUME MapInv, pc = "first_entry"
  PROVE  bp = 0 /\ Len(reported) = 0 /\ AllWithMemory = SubSeq(table, 1, bp)
<1>1. reported = <<>> /\ table = <<>> /\ bp \in Nat /\ bp <= Len(reported)
  BY DEF MapInv
<1>2. Len(<<>>) = 0 /\ SubSeq(<<>>, 1, 0) = <<>>
  <2>1. 1 \in Int /\ 0 \in Int /\ 0 < 1
    OBVIOUS
  <2>2. SubSeq(<<>>, 1, 0) = <<>>
    BY <2>1, SubSeqEmpty, Zenon
  <2>3. Len(<<>>) = 0
    BY EmptySeq
  <2> QED BY <2>2, <2>3
<1>3. bp = 0
  <2>1. Len(reported) = 0
    BY <1>1, <1>2
  <2> QED BY <1>1, <2>1
<1>4. AllWithMemory = Selection(<<>>)[0]
  BY <1>1, <1>2, AllIsSelection
<1> QED BY <1>1, <1>2, <1>3, <1>4, SelectionGrows

\* An entry is reported and counted or not (load_kernel.asm:18-54).
LEMMA EntryStep ==
  ASSUME MapInv, FirstEntry \/ NextReport
  PROVE  MapInv'
<1>1. PICK kind \in Kinds : Start(kind) /\ (pc = "first_entry" => more')
  BY DEF FirstEntry, NextReport
<1>2. /\ Report(kind) /\ bp' = Count(kind)
      /\ UNCHANGED <<endsList, number_of_entries, modes, offset, info, shown>>
      /\ endsList = "carry" => more'
  BY <1>1 DEF Start, videoVars
<1>3. pc \in {"first_entry", "next_entry"} /\ pc' = "next_entry" /\ (pc = "next_entry" => more)
  BY DEF FirstEntry, NextReport, Goto
<1>4. /\ reported \in Seq(Answers) /\ table \in Seq(Answers) /\ bp \in Nat /\ bp <= Len(reported)
      /\ Len(table) = bp \/ Len(table) = bp + 1
  BY DEF MapInv
<1>5. /\ reported' \in Seq(Answers) /\ Len(reported') = Len(reported) + 1
      /\ Len(reported') <= MaxReports
      /\ table' \in Seq(Answers)
      /\ Count(kind) \in {bp, bp + 1}
      /\ Len(table') = Count(kind) \/ Len(table') = Count(kind) + 1
      /\ AllWithMemory = SubSeq(table, 1, bp) =>
           AllWithMemory' = SubSeq(table', 1, Count(kind))
  BY <1>2, <1>4, ReportFacts
<1>6. AllWithMemory = SubSeq(table, 1, bp) /\ (Len(reported) >= 1 \/ more')
  <2>1. CASE pc = "first_entry"
    BY <1>1, <2>1, FirstSlots
  <2>2. CASE pc = "next_entry"
    BY <2>2 DEF MapInv, Asking
  <2> QED BY <1>3, <2>1, <2>2
<1>7. Len(reported) \in Nat
  BY <1>4, LenProperties
<1>8. bp' \in Nat /\ bp' <= Len(reported')
  BY <1>2, <1>4, <1>5, <1>7
<1>9. AllWithMemory' = SubSeq(table', 1, bp')
  BY <1>2, <1>5, <1>6
<1>10. Len(reported') >= 1 /\ (Len(reported') >= 2 \/ more')
  BY <1>5, <1>6, <1>7
<1>11. number_of_entries' = -1 /\ shown' = 0
  BY <1>2, <1>3 DEF MapInv, Asking
<1> QED BY <1>2, <1>3, <1>5, <1>8, <1>9, <1>10, <1>11 DEF MapInv, Asking, BeforeVideo

\* The first call fails, or reports the only entry: nothing is counted.
LEMMA ErrorStep ==
  ASSUME MapInv, FirstError
  PROVE  MapInv'
<1>1. /\ pc = "first_entry" /\ pc' = "done"
      /\ UNCHANGED <<bp, more, endsList, number_of_entries, modes, offset, info, shown>>
      /\ UNCHANGED <<table, reported>> \/ \E kind \in Kinds : Report(kind)
  BY DEF FirstError, Goto, videoVars
<1>2. bp = 0 /\ Len(reported) = 0
  BY <1>1, FirstSlots
<1>3. /\ reported \in Seq(Answers) /\ table \in Seq(Answers) /\ bp \in Nat /\ bp <= Len(reported)
      /\ Len(table) = bp \/ Len(table) = bp + 1
      /\ Len(reported) <= MaxReports
  BY DEF MapInv
<1>4. /\ reported' \in Seq(Answers) /\ table' \in Seq(Answers) /\ Len(reported') <= MaxReports
      /\ Len(table') = bp \/ Len(table') = bp + 1
      /\ Len(reported') \in {0, 1}
  <2>1. CASE UNCHANGED <<table, reported>>
    BY <1>2, <1>3, <2>1
  <2>2. CASE \E kind \in Kinds : Report(kind)
    BY <1>2, <1>3, <2>2, ReportFacts
  <2> QED BY <1>1, <2>1, <2>2
<1>5. bp' = 0 /\ (Len(table') = bp' \/ Len(table') = bp' + 1) /\ bp' <= Len(reported') /\ Len(reported') <= 1
  <2>1. bp' = 0
    BY <1>1, <1>2
  <2>2. Len(reported') = 0 \/ Len(reported') = 1
    BY <1>4
  <2>3. Len(table') = bp' \/ Len(table') = bp' + 1
    BY <1>2, <1>4, <2>1
  <2>4. bp' <= Len(reported') /\ Len(reported') <= 1
    BY <2>1, <2>2
  <2> QED BY <2>1, <2>3, <2>4
<1>6. number_of_entries' = -1 /\ shown' = 0
  BY <1>1 DEF MapInv
<1> QED BY <1>1, <1>4, <1>5, <1>6 DEF MapInv, Asking, BeforeVideo

\* The end of the list, its storing, and everything behind it.
LEMMA LaterSteps ==
  ASSUME MapInv, SearchInv, SearchInv',
         UNCHANGED <<bp, table, more, endsList, reported>>,
         \/ CarryAtEnd \/ LastEntry \/ MapDone \/ VideoInformation \/ find_mode
         \/ ModeInformation \/ Resolution \/ not_resolution \/ Load_Kernel \/ LoadSector \/ FollowFat \/ EnableMode
         \/ Load_GDT \/ UNCHANGED stageVars
  PROVE  MapInv'
<1>1. AllWithMemory' = AllWithMemory /\ SubSeq(table, 1, bp)' = SubSeq(table, 1, bp)
  BY DEF AllWithMemory, WithMemory
<1>2. /\ reported' \in Seq(Answers) /\ table' \in Seq(Answers) /\ bp' \in Nat
      /\ Len(reported') <= MaxReports /\ bp' <= Len(reported')
      /\ Len(table') = bp' \/ Len(table') = bp' + 1
  BY DEF MapInv
<1>3. pc' \in BeforeVideo \cup Inspecting \cup Found
                \cup {"find_mode", "end_of_modes", "divide_error", "error"}
  BY DEF SearchInv
<1>4. CASE CarryAtEnd \/ LastEntry \/ MapDone
  <2>1. UNCHANGED <<modes, offset, shown>>
    BY <1>4 DEF CarryAtEnd, LastEntry, MapDone, videoVars
  <2>2. \/ pc = "next_entry" /\ pc' = "asking_for_ever" /\ number_of_entries' = number_of_entries
        \/ pc = "next_entry" /\ ~more /\ pc' = "done" /\ number_of_entries' = number_of_entries
        \/ pc = "done" /\ pc' = "video" /\ number_of_entries' = bp
    BY <1>4 DEF CarryAtEnd, LastEntry, MapDone, Goto, mapVars
  <2>3. CASE pc = "next_entry" /\ pc' = "asking_for_ever" /\ number_of_entries' = number_of_entries
    BY <1>1, <1>2, <1>3, <2>1, <2>3 DEF MapInv, Asking
  <2>4. CASE pc = "next_entry" /\ ~more /\ pc' = "done" /\ number_of_entries' = number_of_entries
    BY <1>1, <1>2, <1>3, <2>1, <2>4 DEF MapInv, Asking
  <2>5. CASE pc = "done" /\ pc' = "video" /\ number_of_entries' = bp
    BY <1>1, <1>2, <1>3, <2>1, <2>5 DEF MapInv, Asking
  <2> QED BY <2>2, <2>3, <2>4, <2>5
<1>5. CASE VideoInformation \/ find_mode \/ ModeInformation \/ Resolution \/ not_resolution
           \/ Load_Kernel \/ LoadSector \/ FollowFat \/ EnableMode \/ Load_GDT
  <2>1. /\ pc \notin {"first_entry", "done"} \cup Asking
        /\ pc' \notin {"first_entry", "done"} \cup Asking
        /\ number_of_entries' = number_of_entries
    BY <1>5 DEF VideoInformation, find_mode, ModeInformation, Resolution, not_resolution,
       Load_Kernel, LoadSector, FollowFat, EnableMode, Load_GDT, Goto, mapVars, Asking, NextLabel
  <2>2. \/ UNCHANGED shown /\ (shown = 0 \/ UNCHANGED offset)
        \/ shown' \in {offset, shown} /\ UNCHANGED offset
    BY <1>5 DEF VideoInformation, find_mode, ModeInformation, Resolution, not_resolution,
       Load_Kernel, LoadSector, FollowFat, EnableMode, Load_GDT, Goto, videoVars, MapInv
  <2>3. shown' \in {0, offset'}
    BY <2>2 DEF MapInv
  <2>4. pc' \notin {"Load_GDT", "kernel"} => shown' = 0
    BY <1>5 DEF VideoInformation, find_mode, ModeInformation, Resolution, not_resolution,
       Load_Kernel, LoadSector, FollowFat, EnableMode, Load_GDT, Goto, videoVars, MapInv
  <2>5. offset' <= Len(modes') + 1
    <3>1. Len(modes) \in Nat /\ offset \in Nat /\ offset <= Len(modes) + 1
      BY ModeFacts DEF SearchInv, MapInv
    <3>2. CASE find_mode
      <4>1. offset' = offset + 1 /\ UNCHANGED modes /\ offset <= Len(modes)
        BY <3>2 DEF find_mode, SearchInv
      <4> QED BY <3>1, <4>1
    <3>3. CASE ~find_mode
      <4>1. UNCHANGED <<offset, modes>>
        BY <1>5, <3>3 DEF VideoInformation, ModeInformation, Resolution, not_resolution,
           Load_Kernel, LoadSector, FollowFat, EnableMode, Load_GDT, videoVars
      <4> QED BY <3>1, <4>1
    <3> QED BY <3>2, <3>3
  <2> QED BY <1>1, <1>2, <1>3, <2>1, <2>3, <2>4, <2>5 DEF MapInv, Asking
<1>6. CASE UNCHANGED stageVars
  <2>1. UNCHANGED <<pc, modes, offset, shown, number_of_entries>>
    BY <1>6 DEF stageVars, mapVars, videoVars
  <2> QED BY <1>1, <1>2, <1>3, <2>1 DEF MapInv
<1> QED BY <1>4, <1>5, <1>6

\* Every step keeps the map right.
LEMMA StepMap == SearchInv /\ MapInv /\ [StageNext]_stageVars => MapInv'
<1> SUFFICES ASSUME SearchInv, MapInv, [StageNext]_stageVars PROVE MapInv'
  OBVIOUS
<1>1. SearchInv'
  BY StepSearch
<1>2. CASE FirstEntry \/ NextReport
  BY <1>2, EntryStep
<1>3. CASE FirstError
  BY <1>3, ErrorStep
<1>4. CASE \/ CarryAtEnd \/ LastEntry \/ MapDone \/ VideoInformation \/ find_mode
           \/ ModeInformation \/ Resolution \/ not_resolution \/ Load_Kernel \/ LoadSector \/ FollowFat \/ EnableMode
           \/ Load_GDT \/ UNCHANGED stageVars
  <2>1. UNCHANGED <<bp, table, more, endsList, reported>>
    BY <1>4 DEF CarryAtEnd, LastEntry, MapDone, VideoInformation, find_mode, ModeInformation,
       Resolution, not_resolution, Load_Kernel, LoadSector, FollowFat, EnableMode, Load_GDT, stageVars, mapVars
  <2> QED BY <1>1, <1>4, <2>1, LaterSteps
<1> QED BY <1>2, <1>3, <1>4 DEF StageNext, StageCode

\* Where the stored map ends: one slot behind what has memory, at most, and not
\* before it, unless a map of one entry was discarded.
LEMMA MapEnds ==
  ASSUME MapInv
  PROVE  /\ Len(AllWithMemory) \in Nat /\ Len(table) \in Nat
         /\ Len(table) <= Len(AllWithMemory) + 1
         /\ Len(reported) > 1 => Len(AllWithMemory) <= Len(table)
<1>1. /\ table \in Seq(Answers) /\ bp \in Nat /\ Len(reported) \in Nat /\ Len(table) \in Nat
      /\ Len(table) = bp \/ Len(table) = bp + 1
      /\ reported \in Seq(Answers)
  <2>1. /\ table \in Seq(Answers) /\ bp \in Nat /\ reported \in Seq(Answers)
        /\ Len(table) = bp \/ Len(table) = bp + 1
    BY DEF MapInv
  <2> QED BY <2>1, LenProperties
<1>2. ASSUME AllWithMemory = SubSeq(table, 1, bp)
      PROVE  Len(AllWithMemory) = bp
  <2>1. ASSUME NEW r, NEW m \in Nat, \A k \in 1 .. m : r[k] \in Answers
        PROVE  Len(SubSeq(r, 1, m)) = m
    BY <2>1
  <2>2. \A k \in 1 .. Len(table) : table[k] \in Answers
    BY <1>1, ElementOfSeq
  <2>3. \A k \in 1 .. bp : table[k] \in Answers
    BY <1>1, <2>2
  <2> QED BY <1>1, <1>2, <2>1, <2>3
<1>3. CASE AllWithMemory = SubSeq(table, 1, bp)
  BY <1>1, <1>2, <1>3
<1>4. CASE bp = 0 /\ Len(reported) <= 1
  <2>1. Len(AllWithMemory) \in Nat
    <3>1. CASE Len(reported) = 0
      <4>1. reported = <<>>
        BY <1>1, <3>1, EmptySeq
      <4>2. AllWithMemory = <<>>
        BY <3>1, <4>1, AllIsSelection, SelectionGrows
      <4> QED BY <4>2
    <3>2. CASE Len(reported) = 1
      <4>1. PICK s \in Seq(Answers), answer \in Answers : reported = Append(s, answer)
        <5>1. reported # <<>>
          BY <3>2
        <5> QED BY <1>1, <5>1, SequenceEmptyOrAppend
      <4>2. Len(s) = 0
        BY <3>2, <4>1, AppendProperties, LenProperties
      <4>3. s = <<>>
        BY <4>2, EmptySeq
      <4>4. AllWithMemory = IF IsMemory(answer) THEN Append(<<>>, answer) ELSE <<>>
        <5>1. Selection(Append(s, answer))[Len(s) + 1] =
                IF IsMemory(answer) THEN Append(Selection(s)[Len(s)], answer) ELSE Selection(s)[Len(s)]
          BY SelectionGrows
        <5>2. Len(s) + 1 = 1 /\ Selection(s)[Len(s)] = <<>>
          BY <4>2, <4>3, SelectionGrows
        <5>3. AllWithMemory = Selection(Append(s, answer))[1]
          BY <3>2, <4>1, AllIsSelection
        <5> QED BY <5>1, <5>2, <5>3
      <4>5. Append(<<>>, answer) \in Seq(Answers) /\ <<>> \in Seq(Answers)
        OBVIOUS
      <4> QED BY <4>4, <4>5, LenProperties
    <3> QED BY <1>1, <1>4, <3>1, <3>2
  <2> DEFINE counted == Len(AllWithMemory)
             stored == Len(table)
             heard == Len(reported)
  <2>2. /\ counted \in Nat /\ stored \in Nat /\ heard \in Nat
        /\ stored = 0 \/ stored = 1
        /\ heard <= 1
    BY <1>1, <1>4, <2>1
  <2> HIDE DEF counted, stored, heard
  <2>3. stored <= counted + 1 /\ (heard > 1 => counted <= stored)
    BY <2>2
  <2> QED BY <2>2, <2>3 DEF counted, stored, heard
<1>5. AllWithMemory = SubSeq(table, 1, bp) \/ (bp = 0 /\ Len(reported) <= 1)
  BY DEF MapInv
<1> QED BY <1>3, <1>4, <1>5

\* Room is the division it is.
LEMMA RoomFits ==
  /\ Room \in Nat /\ EntryWords \in Nat \ {0} /\ SectorWords \in Nat \ {0}
  /\ EntryWords * Room <= SectorWords - 1
  /\ SectorWords - 1 < EntryWords * (Room + 1)
<1>1. EntryWords \in Nat \ {0} /\ SectorWords - 1 \in Nat /\ SectorWords \in Nat \ {0}
  BY ConstantsAssumption
<1>2. ASSUME NEW a \in Nat, NEW b \in Nat \ {0}
      PROVE  a \div b \in Nat /\ b * (a \div b) <= a /\ a < b * ((a \div b) + 1)
  OBVIOUS
<1> QED BY <1>1, <1>2 DEF Room

\* The stored map runs into the FAT when it is too long, and only then
\* (load_kernel.asm:34-50).
LEMMA FatFromMap ==
  ASSUME MapInv
  PROVE  FatIntact
<1> DEFINE counted == Len(AllWithMemory)
           stored == Len(table)
<1>1. /\ counted \in Nat /\ stored \in Nat /\ stored <= counted + 1
      /\ Len(reported) > 1 => counted <= stored
  BY MapEnds
<1>2. Overwritten = { w \in 0 .. (EntryWords * (MaxReports + 1)) :
                        SectorWords + w < 1 + EntryWords * stored }
  BY DEF Overwritten
<1> HIDE DEF counted, stored
<1>3. ASSUME NEW a \in Nat, NEW b \in Nat, a <= b
      PROVE  EntryWords * a <= EntryWords * b /\ EntryWords * a \in Nat
  <2>1. EntryWords \in Nat
    BY RoomFits
  <2> QED BY <1>3, <2>1
<1>4. counted < Room => Overwritten = {}
  <2>1. SUFFICES ASSUME counted < Room, NEW w \in Nat, SectorWords + w < 1 + EntryWords * stored
                 PROVE  FALSE
    BY <1>2
  <2>2. EntryWords * stored <= EntryWords * Room /\ EntryWords * stored \in Nat
    BY <1>1, <1>3, <2>1, RoomFits
  <2> DEFINE have == EntryWords * stored
             room == EntryWords * Room
  <2>3. have <= room /\ have \in Nat /\ room <= SectorWords - 1 /\ SectorWords + w < 1 + have
    BY <2>1, <2>2, RoomFits
  <2>4. room \in Int /\ SectorWords \in Nat
    BY RoomFits
  <2> HIDE DEF have, room
  <2> QED BY <2>3, <2>4
<1>5. counted > Room /\ Len(reported) > 1 => Overwritten # {}
  <2>1. SUFFICES ASSUME counted > Room, Len(reported) > 1
                 PROVE  0 \in Overwritten
    OBVIOUS
  <2>2. EntryWords * (Room + 1) <= EntryWords * stored
    <3>1. Room + 1 \in Nat /\ Room + 1 <= stored
      BY <1>1, <2>1, RoomFits
    <3> QED BY <1>1, <1>3, <3>1
  <2>3. EntryWords * (MaxReports + 1) \in Nat
    BY ConstantsAssumption
  <2> DEFINE have == EntryWords * stored
             most == EntryWords * (Room + 1)
  <2>4. /\ most <= have /\ SectorWords - 1 < most /\ SectorWords \in Nat
        /\ most \in Nat /\ have \in Nat
    BY <1>1, <2>2, RoomFits
  <2> HIDE DEF have, most
  <2>5. SectorWords + 0 < 1 + have
    BY <2>4
  <2> QED BY <1>2, <2>3, <2>5 DEF have
<1>6. SectorWords + FirstCluster > EntryWords * (counted + 1) =>
        \A w \in Overwritten : w < FirstCluster
  <2>1. SUFFICES ASSUME SectorWords + FirstCluster > EntryWords * (counted + 1),
                        NEW w \in Nat, SectorWords + w < 1 + EntryWords * stored
                 PROVE  w < FirstCluster
    BY <1>2
  <2>2. EntryWords * stored <= EntryWords * (counted + 1)
    <3>1. counted + 1 \in Nat
      BY <1>1
    <3> QED BY <1>1, <1>3, <3>1
  <2> DEFINE have == EntryWords * stored
             most == EntryWords * (counted + 1)
  <2>3. /\ have <= most /\ have \in Nat /\ most \in Nat /\ SectorWords \in Nat /\ FirstCluster \in Nat
        /\ SectorWords + FirstCluster > most /\ SectorWords + w < 1 + have
    BY <1>1, <2>1, <2>2, RoomFits, ConstantsAssumption
  <2> HIDE DEF have, most
  <2> QED BY <2>3
<1> QED BY <1>4, <1>5, <1>6 DEF FatIntact, counted

\* What is covered now may be covered by a map of what was reported.
LEMMA OverwrittenReaches ==
  ASSUME MapInv, NEW w \in Overwritten, NEW x \in Nat, x <= w
  PROVE  Reaches(x)
<1> DEFINE counted == Len(AllWithMemory)
           stored == Len(table)
<1>1. counted \in Nat /\ stored \in Nat /\ stored <= counted + 1
  BY MapEnds
<1>2. w \in Nat /\ SectorWords + w < 1 + EntryWords * stored
  BY ConstantsAssumption DEF Overwritten
<1> HIDE DEF counted, stored
<1>3. /\ EntryWords * stored <= EntryWords * (counted + 1)
      /\ EntryWords * stored \in Nat /\ EntryWords * (counted + 1) \in Nat
  <2>1. EntryWords \in Nat
    BY RoomFits
  <2> QED BY <1>1, <2>1
<1> DEFINE have == EntryWords * stored
           most == EntryWords * (counted + 1)
<1>4. have \in Nat /\ most \in Nat /\ have <= most /\ SectorWords \in Nat /\ SectorWords + w < 1 + have
  BY <1>2, <1>3, RoomFits
<1> HIDE DEF have, most
<1>5. SectorWords + x < 1 + most
  BY <1>2, <1>4
<1> QED BY <1>5 DEF Reaches, counted, most

LinkWords == FirstCluster .. (FatWords - 1)

LinksKept(n) == \A m \in 1 .. n : m \in DOMAIN kernelChain => kernelChain[m] \notin Overwritten

\* How far the kernel has come, and that the links followed are the disk's.
LoadInv ==
  /\ kernelChain \in Seq(LinkWords) /\ sectorsLoaded \in Nat /\ sectorsLoaded <= Len(kernelChain)
  /\ pc \notin Found \ {"Load_Kernel"} => sectorsLoaded = 0
  /\ pc = "more" => sectorsLoaded < Len(kernelChain) /\ LinksKept(sectorsLoaded)
  /\ pc = "follow" => sectorsLoaded >= 1 /\ LinksKept(sectorsLoaded - 1)
  /\ pc \in {"enable_mode", "Load_GDT", "kernel"} =>
       kernelChain # <<>> /\ sectorsLoaded = Len(kernelChain) /\ LinksKept(sectorsLoaded)
  /\ pc = "searching_for_ever" => MayBeMissed
  /\ pc = "astray" => MayGoAstray

\* Nothing is loaded when the stage starts.
LEMMA InitLoad == StageInit => LoadInv
<1> SUFFICES ASSUME StageInit PROVE LoadInv
  OBVIOUS
<1>1. pc = "first_entry" /\ sectorsLoaded = 0 /\ kernelChain \in KernelChains
  BY DEF StageInit
<1>2. kernelChain \in Seq(LinkWords)
  BY <1>1, ConstantsAssumption DEF LinkWords
<1>3. Len(kernelChain) \in Nat
  BY <1>2, LenProperties
<1> QED BY <1>1, <1>2, <1>3 DEF LoadInv

\* Without a step of the map, what it covers and may cover stays.
LEMMA SameMap ==
  ASSUME UNCHANGED <<table, reported, kernelChain>>
  PROVE  /\ Overwritten' = Overwritten
         /\ MayBeMissed' <=> MayBeMissed
         /\ MayGoAstray' <=> MayGoAstray
<1>1. Overwritten' = Overwritten
  BY DEF Overwritten
<1>2. AllWithMemory' = AllWithMemory
  BY DEF AllWithMemory, WithMemory
<1>3. \A w : Reaches(w)' <=> Reaches(w)
  BY <1>2 DEF Reaches
<1>4. MayBeMissed' <=> MayBeMissed
  BY <1>3 DEF MayBeMissed
<1>5. MayGoAstray' <=> MayGoAstray
  BY <1>3 DEF MayGoAstray, Range
<1> QED BY <1>1, <1>4, <1>5

\* The search for the kernel (load_kernel.asm:170-178, _FAT16.asm:19-31).
LEMMA KernelSearchStep ==
  ASSUME MapInv, LoadInv, Load_Kernel
  PROVE  LoadInv'
<1>1. /\ pc = "Load_Kernel" /\ UNCHANGED <<table, reported, kernelChain, sectorsLoaded>>
      /\ \/ kernelChain # <<>> /\ pc' = "more"
         \/ (kernelChain = <<>> \/ DirectoryHit) /\ pc' = "searching_for_ever"
         \/ (IF kernelChain = <<>> THEN Overwritten # {} ELSE DirectoryHit) /\ pc' = "astray"
  BY DEF Load_Kernel, Goto, mapVars, loadVars
<1>2. /\ kernelChain \in Seq(LinkWords) /\ sectorsLoaded = 0 /\ Len(kernelChain) \in Nat
  <2>1. kernelChain \in Seq(LinkWords) /\ sectorsLoaded = 0
    BY <1>1 DEF LoadInv
  <2> QED BY <2>1, LenProperties
<1>3. ASSUME DirectoryHit
      PROVE  Reaches(FatWords)
  <2>1. PICK w \in Overwritten : w >= FatWords
    BY <1>3 DEF DirectoryHit
  <2>2. w \in Nat /\ FatWords \in Nat
    BY <2>1, ConstantsAssumption DEF Overwritten
  <2>3. FatWords <= w
    BY <2>1, <2>2
  <2> QED BY <2>2, <2>3, OverwrittenReaches
<1>4. ASSUME Overwritten # {}
      PROVE  Reaches(0)
  <2>1. PICK w : w \in Overwritten
    BY <1>4
  <2>2. w \in Nat
    BY <2>1, ConstantsAssumption DEF Overwritten
  <2>3. 0 \in Nat /\ 0 <= w
    BY <2>2
  <2> QED BY <2>1, <2>3, OverwrittenReaches
<1>5. CASE kernelChain # <<>> /\ pc' = "more"
  <2>1. 0 < Len(kernelChain)
    BY <1>2, <1>5, EmptySeq
  <2>2. LinksKept(sectorsLoaded)'
    <3>1. 1 .. 0 = {}
      OBVIOUS
    <3> QED BY <1>1, <1>2, <3>1 DEF LinksKept
  <2> QED BY <1>1, <1>2, <1>5, <2>1, <2>2 DEF LoadInv, Found
<1>6. CASE (kernelChain = <<>> \/ DirectoryHit) /\ pc' = "searching_for_ever"
  <2>1. MayBeMissed
    BY <1>3, <1>6 DEF MayBeMissed
  <2>2. MayBeMissed'
    BY <1>1, <2>1, SameMap
  <2> QED BY <1>1, <1>2, <1>6, <2>2 DEF LoadInv, Found
<1>7. CASE (IF kernelChain = <<>> THEN Overwritten # {} ELSE DirectoryHit) /\ pc' = "astray"
  <2>1. MayGoAstray
    BY <1>3, <1>4, <1>7 DEF MayGoAstray
  <2>2. MayGoAstray'
    BY <1>1, <2>1, SameMap
  <2> QED BY <1>1, <1>2, <1>7, <2>2 DEF LoadInv, Found
<1> QED BY <1>1, <1>5, <1>6, <1>7

\* A sector is loaded, or the loader stops (_FAT16.asm:33-40).
LEMMA SectorStep ==
  ASSUME LoadInv, LoadSector
  PROVE  LoadInv'
<1>1. /\ pc = "more" /\ UNCHANGED <<table, reported, kernelChain>>
      /\ \/ sectorsLoaded' = sectorsLoaded + 1 /\ pc' = "follow"
         \/ sectorsLoaded' = sectorsLoaded /\ pc' = "read_error"
  BY DEF LoadSector, Goto, mapVars
<1>2. /\ kernelChain \in Seq(LinkWords) /\ sectorsLoaded \in Nat /\ Len(kernelChain) \in Nat
      /\ sectorsLoaded < Len(kernelChain) /\ LinksKept(sectorsLoaded)
  <2>1. kernelChain \in Seq(LinkWords)
    BY DEF LoadInv
  <2> QED BY <1>1, <2>1, LenProperties DEF LoadInv
<1>3. CASE sectorsLoaded' = sectorsLoaded + 1 /\ pc' = "follow"
  <2>1. sectorsLoaded' \in Nat /\ sectorsLoaded' >= 1 /\ sectorsLoaded' - 1 = sectorsLoaded
        /\ sectorsLoaded' <= Len(kernelChain)
    BY <1>2, <1>3
  <2>2. LinksKept(sectorsLoaded - 1)'
    BY <1>1, <1>2, <2>1, SameMap DEF LinksKept
  <2> QED BY <1>1, <1>2, <1>3, <2>1, <2>2 DEF LoadInv, Found
<1>4. CASE sectorsLoaded' = sectorsLoaded /\ pc' = "read_error"
  <2>1. sectorsLoaded <= Len(kernelChain)
    BY <1>2
  <2> QED BY <1>1, <1>2, <1>4, <2>1 DEF LoadInv, Found
<1> QED BY <1>1, <1>3, <1>4

\* Its link, as it is in memory (_FAT16.asm:42-48).
LEMMA FollowStep ==
  ASSUME MapInv, LoadInv, FollowFat
  PROVE  LoadInv'
<1>1. /\ pc = "follow" /\ UNCHANGED <<table, reported, kernelChain, sectorsLoaded>>
      /\ pc' = IF LinkRead \in Overwritten THEN "astray"
               ELSE IF sectorsLoaded = Len(kernelChain) THEN "enable_mode" ELSE "more"
  BY DEF FollowFat, Goto, mapVars, loadVars
<1>2. /\ kernelChain \in Seq(LinkWords) /\ sectorsLoaded \in Nat /\ Len(kernelChain) \in Nat
      /\ sectorsLoaded <= Len(kernelChain) /\ sectorsLoaded >= 1 /\ LinksKept(sectorsLoaded - 1)
      /\ DOMAIN kernelChain = 1 .. Len(kernelChain)
  <2>1. kernelChain \in Seq(LinkWords)
    BY DEF LoadInv
  <2> QED BY <1>1, <2>1, LenProperties DEF LoadInv
<1>3. sectorsLoaded \in DOMAIN kernelChain /\ kernelChain # <<>>
  <2>1. sectorsLoaded \in DOMAIN kernelChain /\ Len(kernelChain) # 0
    BY <1>2
  <2> QED BY <2>1, EmptySeq
<1>4. CASE LinkRead \in Overwritten
  <2>1. LinkRead \in Range(kernelChain) /\ LinkRead \in Nat
    <3>1. LinkRead \in Range(kernelChain) /\ LinkRead \in LinkWords
      BY <1>2, <1>3, ElementOfSeq DEF LinkRead, Range
    <3>2. LinkWords \subseteq Nat
      BY ConstantsAssumption DEF LinkWords
    <3> QED BY <3>1, <3>2
  <2>2. LinkRead <= LinkRead
    BY <2>1
  <2>3. Reaches(LinkRead)
    BY <1>4, <2>1, <2>2, OverwrittenReaches
  <2>4. MayGoAstray
    BY <1>3, <2>1, <2>3 DEF MayGoAstray
  <2>5. MayGoAstray' /\ pc' = "astray"
    BY <1>1, <1>4, <2>4, SameMap
  <2> QED BY <1>1, <1>2, <2>5 DEF LoadInv, Found
<1>5. CASE LinkRead \notin Overwritten
  <2>1. LinksKept(sectorsLoaded)
    <3>1. \A m \in 1 .. sectorsLoaded : m \in 1 .. (sectorsLoaded - 1) \/ m = sectorsLoaded
      BY <1>2
    <3> QED BY <1>2, <1>5, <3>1 DEF LinksKept, LinkRead
  <2>2. LinksKept(sectorsLoaded)'
    BY <1>1, <2>1, SameMap DEF LinksKept
  <2>3. CASE sectorsLoaded = Len(kernelChain)
    BY <1>1, <1>2, <1>3, <1>5, <2>2, <2>3 DEF LoadInv, Found
  <2>4. CASE sectorsLoaded # Len(kernelChain)
    <3>1. sectorsLoaded < Len(kernelChain)
      <4> DEFINE len == Len(kernelChain)
      <4>1. sectorsLoaded \in Nat /\ len \in Nat /\ sectorsLoaded <= len /\ sectorsLoaded # len
        BY <1>2, <2>4
      <4> HIDE DEF len
      <4>2. sectorsLoaded < len
        BY <4>1
      <4> QED BY <4>2 DEF len
    <3>2. pc' = "more" /\ pc' \in Found
      BY <1>1, <1>5, <2>4 DEF Found
    <3> QED BY <1>1, <1>2, <2>2, <3>1, <3>2 DEF LoadInv
  <2> QED BY <2>3, <2>4
<1> QED BY <1>4, <1>5

\* Every step keeps the kernel's sectors right.
LEMMA StepLoad == SearchInv /\ MapInv /\ LoadInv /\ [StageNext]_stageVars => LoadInv'
<1> SUFFICES ASSUME SearchInv, MapInv, LoadInv, [StageNext]_stageVars PROVE LoadInv'
  OBVIOUS
<1>1. CASE \/ FirstEntry \/ FirstError \/ NextReport \/ CarryAtEnd \/ LastEntry \/ MapDone
           \/ VideoInformation \/ find_mode \/ ModeInformation \/ Resolution \/ not_resolution
  <2>1. UNCHANGED <<kernelChain, sectorsLoaded>>
    BY <1>1 DEF FirstEntry, FirstError, NextReport, CarryAtEnd, LastEntry, MapDone, Start,
       VideoInformation, find_mode, ModeInformation, Resolution, not_resolution, loadVars
  <2>2. pc \notin Found \ {"Load_Kernel"} /\ pc' \notin Found \ {"Load_Kernel"}
    BY <1>1 DEF FirstEntry, FirstError, NextReport, CarryAtEnd, LastEntry, MapDone,
       VideoInformation, find_mode, ModeInformation, Resolution, not_resolution, NextLabel, Goto, Found
  <2> QED BY <2>1, <2>2 DEF LoadInv, Found
<1>2. CASE Load_Kernel \/ LoadSector \/ FollowFat
  BY <1>2, KernelSearchStep, SectorStep, FollowStep
<1>3. CASE EnableMode \/ Load_GDT \/ UNCHANGED stageVars
  <2>1. UNCHANGED <<table, reported, kernelChain, sectorsLoaded>>
    BY <1>3 DEF EnableMode, Load_GDT, stageVars, mapVars, loadVars
  <2>2. \/ pc \in {"enable_mode", "Load_GDT"} /\ pc' \in {"Load_GDT", "kernel"}
        \/ UNCHANGED pc
    BY <1>3 DEF EnableMode, Load_GDT, Goto, stageVars
  <2>3. /\ MayBeMissed' <=> MayBeMissed
        /\ MayGoAstray' <=> MayGoAstray
        /\ LinksKept(sectorsLoaded)' <=> LinksKept(sectorsLoaded)
        /\ LinksKept(sectorsLoaded - 1)' <=> LinksKept(sectorsLoaded - 1)
    BY <2>1, SameMap DEF LinksKept
  <2>4. CASE pc \in {"enable_mode", "Load_GDT"} /\ pc' \in {"Load_GDT", "kernel"}
    BY <2>1, <2>3, <2>4 DEF LoadInv, Found
  <2>5. CASE UNCHANGED pc
    BY <2>1, <2>3, <2>5, Zenon DEF LoadInv
  <2> QED BY <2>2, <2>4, <2>5
<1> QED BY <1>1, <1>2, <1>3 DEF StageNext, StageCode

\* What LoadRight says of a state.
LEMMA LoadFromInv ==
  ASSUME LoadInv
  PROVE  LoadRight
<1>1. ASSUME pc \in {"enable_mode", "Load_GDT", "kernel"}
      PROVE  /\ kernelChain # <<>> /\ sectorsLoaded = Len(kernelChain)
             /\ Range(kernelChain) \cap Overwritten = {}
  <2>1. /\ kernelChain # <<>> /\ sectorsLoaded = Len(kernelChain) /\ LinksKept(sectorsLoaded)
        /\ kernelChain \in Seq(LinkWords)
    BY <1>1 DEF LoadInv
  <2>2. DOMAIN kernelChain = 1 .. Len(kernelChain)
    BY <2>1, LenProperties
  <2> QED BY <2>1, <2>2 DEF LinksKept, Range
<1> QED BY <1>1 DEF LoadInv, LoadRight

\* The kernel's memory map is what was reported, it runs into the FAT when it is
\* too long, and a BIOS that ends its list by the carry never gets past it
\* (load_kernel.asm:18-55).  A kernel that starts was loaded whole, whatever the
\* map covers (load_kernel.asm:170-178, _FAT16.asm:19-48).
THEOREM MapIsRight == StageSpec => []MapRight
<1>1. SearchInv /\ MapInv /\ LoadInv => StageTypeOK
  <2>1. SUFFICES ASSUME SearchInv, MapInv, LoadInv PROVE StageTypeOK
    OBVIOUS
  <2>2. pc \in Stopped \cup {"first_entry", "next_entry", "asking_for_ever", "done", "video", "find_mode",
          "mode_info", "resolution", "not_resolution", "Load_Kernel", "searching_for_ever", "astray",
          "more", "follow", "enable_mode", "Load_GDT"}
    BY <2>1 DEF SearchInv, BeforeVideo, Inspecting, Found, Stopped
  <2>3. /\ bp \in 0 .. Len(reported) /\ Len(table) \in {bp, bp + 1}
        /\ number_of_entries \in {-1, bp} /\ shown \in {0, offset}
    BY <2>1, LenProperties DEF MapInv
  <2>4. offset \in 0 .. (Len(modes) + 1)
    <3>1. /\ Len(modes) \in Nat /\ DOMAIN modes = 1 .. Len(modes) /\ offset \in Nat
      BY <2>1, ModeFacts DEF SearchInv
    <3>2. offset <= Len(modes) + 1
      BY <2>1 DEF MapInv
    <3> QED BY <3>1, <3>2
  <2>5. sectorsLoaded \in 0 .. Len(kernelChain)
    <3>1. kernelChain \in Seq(LinkWords) /\ sectorsLoaded \in Nat /\ sectorsLoaded <= Len(kernelChain)
      BY <2>1 DEF LoadInv
    <3> QED BY <3>1, LenProperties
  <2> QED BY <2>2, <2>3, <2>4, <2>5 DEF StageTypeOK
<1>2. MapInv => MapExact
  <2>1. SUFFICES ASSUME MapInv, number_of_entries >= 0
                 PROVE  SubSeq(table, 1, number_of_entries) =
                          IF Len(reported) <= 1 THEN <<>> ELSE AllWithMemory
    BY DEF MapExact
  <2>2. /\ number_of_entries = bp /\ pc \notin {"first_entry", "done"} \cup Asking
        /\ reported \in Seq(Answers)
    BY <2>1 DEF MapInv
  <2>3. CASE bp = 0 /\ Len(reported) <= 1
    <3>1. 1 \in Int /\ 0 \in Int /\ 0 < 1
      OBVIOUS
    <3>2. SubSeq(table, 1, 0) = <<>>
      BY <3>1, SubSeqEmpty, Zenon
    <3> QED BY <2>2, <2>3, <3>2
  <2>4. CASE AllWithMemory = SubSeq(table, 1, bp) /\ Len(reported) >= 2
    <3>1. Len(reported) \in Nat
      BY <2>2, LenProperties
    <3>2. ~(Len(reported) <= 1)
      BY <2>4, <3>1
    <3> QED BY <2>2, <2>4, <3>2
  <2> QED BY <2>1, <2>2, <2>3, <2>4 DEF MapInv, Asking
<1>3. MapInv => CarryNeverEnds
  <2>1. SUFFICES ASSUME MapInv, endsList = "carry", number_of_entries # -1
                 PROVE  number_of_entries = 0
    BY DEF CarryNeverEnds
  <2> QED BY <2>1 DEF MapInv
<1>4. SearchInv /\ MapInv /\ LoadInv => MapRight
  BY <1>1, <1>2, <1>3, FatFromMap, LoadFromInv DEF MapRight
<1> QED BY <1>4, InitMap, StepMap, InitLoad, StepLoad, SearchInvariance, PTL DEF StageSpec

=============================================================================
