------------------------------ MODULE FileSystem ------------------------------
(***************************************************************************)
(* The two readers of the image: the boot loader, which finds and loads    *)
(* the kernel (_FAT16.asm), and the kernel, which finds and reads a file   *)
(* (FAT16.c) through the ATA driver (drive.c).  The copies of FAT and root *)
(* directory they use are those of the packaged image.  A sector is a      *)
(* cluster (bootloader.asm:12).                                            *)
(***************************************************************************)
EXTENDS ImageBuilder, Integers

CONSTANTS
  KernelName,       \* "kernel_lbin"
  FileName,         \* "ap_2    bin"
  CountModulus      \* 256: number_of_sectors is a byte

ASSUME ReadersAssumption ==
  /\ CountModulus \in Nat \ {0, 1}
  /\ KernelName # VolumeName /\ FileName # VolumeName

VARIABLES
  loader,      \* the loader: "search", "more" or "done"
  di,          \* the entry it looks at, then the cluster it loads
  loaded,      \* the sectors at 0x10000
  kernel,      \* where the kernel is
  entry,       \* the entry find_entry looks at, then the one read
  first, current, run,       \* locals of read_all_to
  to,          \* the sectors "to" has moved on from the start of the buffer
  memory,      \* the buffer: what each of its sectors holds
  count, i,    \* disk_read_from: the sector count it is given, its loop counter
  disk         \* external: the state of the drive

loaderVars == <<loader, di, loaded>>
driveVars == <<count, i, disk>>
kernelVars == <<kernel, entry, first, current, run, to, memory, driveVars>>
vars == <<imageVars, loaderVars, kernelVars>>

Untouched == <<0, 3>>
Offsets == 0 .. TableEntries

------------------------------------------------------------------------------
Init ==
  /\ ImageInit
  /\ loader = "search" /\ di = 1 /\ loaded = <<>>
  /\ kernel = "off" /\ entry = 1
  /\ first = 0 /\ current = 0 /\ run = 1 /\ to = 0
  /\ memory = [o \in Offsets |-> Untouched]
  /\ count = 0 /\ i = 0 /\ disk = "idle"

Building == Build /\ UNCHANGED <<loaderVars, kernelVars>>

\* The entries on the sectors that both readers have in memory.
RootDirectory ==
  [k \in { k \in 1 .. Len(filetable) : k <= RootEntries } |-> filetable[k]]

\* What follows the last entry of the directory sectors: no name of a file.
SearchArea == RootEntries + 1

NextInLoader == (di % SearchArea) + 1

\* repe cmpsb over the entry; no match goes on to the next one, with no end.
LoaderSearch ==
  /\ make = "packaged" /\ loader = "search"
  /\ IF di \in DOMAIN RootDirectory /\ RootDirectory[di].name = KernelName
     THEN loader' = "more" /\ di' = filetable[di].start
     ELSE di' = NextInLoader /\ UNCHANGED loader
  /\ UNCHANGED <<imageVars, loaded, kernelVars>>

\* One sector, then the FAT; the kernel starts when the chain has ended.
LoaderMore ==
  /\ loader = "more"
  /\ loaded' = Append(loaded, Sector(di))
  /\ di' = Follow(di)
  /\ IF Follow(di) >= Reserved
     THEN loader' = "done" /\ kernel' = "find"
     ELSE UNCHANGED <<loader, kernel>>
  /\ UNCHANGED <<imageVars, entry, first, current, run, to, memory, driveVars>>

------------------------------------------------------------------------------
NextEntrySkipsOne == entry + 2
NextEntryStays == entry
NextEntry == entry + 1

\* One iteration of find_entry.  The array ends after RootEntries entries, the
\* loop at a name that starts with 0: what is read past a full array is not
\* known ("wild").
find_entry ==
  /\ kernel = "find"
  /\ \/ /\ entry > RootEntries
        /\ kernel' = "wild"
        /\ UNCHANGED <<entry, first, current>>
     \/ /\ entry <= RootEntries /\ entry > Len(filetable)
        /\ kernel' = "not found"
        /\ UNCHANGED <<entry, first, current>>
     \/ /\ entry \in DOMAIN RootDirectory
        /\ IF RootDirectory[entry].name = FileName
           THEN /\ kernel' = "extend"
                /\ first' = RootDirectory[entry].start /\ current' = first'
                /\ UNCHANGED entry
           ELSE entry' = NextEntry /\ UNCHANGED <<kernel, first, current>>
  /\ UNCHANGED <<imageVars, loaderVars, run, to, memory, driveVars>>

\* The inner loop goes on: the next cluster is the next sector.  The bound is
\* one more than what fits the byte.
RunLimit == CountModulus

RunGoesOn == current < Reserved /\ Follow(current) = current + 1 /\ run < RunLimit

ExtendRun ==
  /\ kernel = "extend" /\ RunGoesOn
  /\ run' = run + 1 /\ current' = Follow(current)
  /\ UNCHANGED <<imageVars, loaderVars, kernel, entry, first, to, memory, driveVars>>

\* The call of disk_read_from: the number of sectors becomes a byte, and with
\* none to read it returns at once.
CallRead ==
  /\ kernel = "extend" /\ ~RunGoesOn
  /\ count' = run % CountModulus
  /\ kernel' = IF run % CountModulus = 0 THEN "next run" ELSE "command"
  /\ UNCHANGED <<imageVars, loaderVars, entry, first, current, run, to, memory, i, disk>>

\* disk_read_from: the busy wait, the registers and the command.
SendCommand ==
  /\ kernel = "command" /\ disk # "busy"
  /\ i' = 0
  /\ disk' = "busy"
  /\ kernel' = "transfer"
  /\ UNCHANGED <<imageVars, loaderVars, entry, first, current, run, to, memory, count>>

\* One iteration of its loop: spin until a sector is ready, then take it.
Transfer ==
  /\ kernel = "transfer" /\ disk = "ready"
  /\ memory' = [memory EXCEPT ![to + i] = Sector(first + i)]
  /\ i' = i + 1
  /\ IF i + 1 < count
     THEN disk' = "busy" /\ UNCHANGED kernel
     ELSE disk' = "idle" /\ kernel' = "next run"
  /\ UNCHANGED <<imageVars, loaderVars, entry, first, current, run, to, count>>

AdvanceByCount == count
Advance == run

\* The rest of the outer loop: "to" moves on by the run, read or not.
NextRun ==
  /\ kernel = "next run"
  /\ to' = to + Advance
  /\ current' = Follow(current) /\ first' = Follow(current)
  /\ IF Follow(current) < Reserved
     THEN kernel' = "extend" /\ run' = 1
     ELSE kernel' = "done" /\ UNCHANGED run
  /\ UNCHANGED <<imageVars, loaderVars, entry, memory, driveVars>>

\* The drive, busy, has the next sector ready or gives up with an error.
Drive ==
  /\ disk = "busy"
  /\ disk' \in {"ready", "error"}
  /\ UNCHANGED <<imageVars, loaderVars, kernel, entry, first, current, run, to, memory,
                 count, i>>

Code == LoaderSearch \/ LoaderMore \/ find_entry \/ ExtendRun \/ CallRead
          \/ SendCommand \/ Transfer \/ NextRun

Next == Building \/ Code \/ Drive

Spec == Init /\ [][Next]_vars

\* make ends, the CPU runs and the drive answers.
FairSpec == Spec /\ WF_vars(Building) /\ WF_vars(Code) /\ WF_vars(Drive)

------------------------------------------------------------------------------
TypeOK ==
  /\ clust \in reserved_sectors .. TableEntries
  /\ clustertable \in [0 .. (TableEntries - 1) -> 0 .. EndOfFile]
  /\ make \in {"adding", "failed", "packaged"}
  /\ loader \in {"search", "more", "done"}
  /\ kernel \in {"off", "find", "wild", "not found", "extend", "command", "transfer",
                 "next run", "done"}
  /\ run \in 1 .. RunLimit
  /\ count \in 0 .. (CountModulus - 1)
  /\ to \in Offsets
  /\ DOMAIN memory = Offsets
  /\ disk \in {"idle", "busy", "ready", "error"}

Matches(name) == { k \in 1 .. Len(filetable) : filetable[k].name = name }
IsFirst(k, name) == k \in Matches(name) /\ \A j \in Matches(name) : k <= j

\* The bytes of file k, as sectors.
Contents(k) ==
  [s \in 1 .. (Links(filetable[k].size) + 1) |-> <<k - 1, s - 1>>]

DirectoryFits == Len(filetable) <= RootEntries

\* What the loader put at 0x10000 is the first file added under the kernel's
\* name, whole and in order (_FAT16.asm:18-48 against add_file.py).
KernelLoaded ==
  loader = "done" /\ DirectoryFits =>
    \E k \in Matches(KernelName) : IsFirst(k, KernelName) /\ loaded = Contents(k)

\* find_entry leaves its array only when all of it is in use and the name is
\* not there (FAT16.c:21 has no bound); else it returns the first match, or 0
\* when there is none.
FindsFirst ==
  /\ kernel = "wild" => Len(filetable) >= RootEntries
                          /\ \A k \in Matches(FileName) : k > RootEntries
  /\ kernel = "not found" => Matches(FileName) = {}
  /\ kernel \in {"extend", "command", "transfer", "next run", "done"} => IsFirst(entry, FileName)

\* When read_all_to returns, each sector of the file is at its place in the
\* buffer, but for the runs of 256: their count is 0 as a byte, so nothing is
\* read for them (FAT16.c:35,39; drive.c:24-25).  Nothing past the file's last
\* sector is written.
Sectors == Links(filetable[entry].size) + 1

InFullRun(s) == s < (Sectors \div CountModulus) * CountModulus

ReadWhole ==
  kernel = "done" /\ DirectoryFits =>
    \A o \in Offsets :
      memory[o] = IF o < Sectors /\ ~InFullRun(o) THEN <<entry - 1, o>> ELSE Untouched

\* During the read: what the drive is asked for are sectors of this file, and
\* they go where they belong (the truncation never moves one).
ReadInPlace ==
  kernel \in {"command", "transfer"} =>
    /\ first = filetable[entry].start + to
    /\ count = run
    /\ to + count <= Sectors

\* What read_all_to delivers is the file, at the end and on the way there
\* (FAT16.c:27-44).
FilesExact == TypeOK /\ ReadWhole /\ ReadInPlace

\* An image that has the kernel boots: the loader's search and its walk along
\* the FAT end.
LoaderEnds ==
  make = "packaged" /\ (\E k \in Matches(KernelName) : k <= RootEntries) ~> loader = "done"

\* The kernel's file access comes to an end unless the drive reports an error:
\* then the loop of drive.c:39-41 spins for ever.
FileAccessEnds ==
  kernel # "off" ~> (kernel \in {"wild", "not found", "done"} \/ disk = "error")

\* The accesses of both readers end, as far as stated above (_FAT16.asm:9-48,
\* FAT16.c:19-44).
AccessEnds == LoaderEnds /\ FileAccessEnds
==============================================================================
