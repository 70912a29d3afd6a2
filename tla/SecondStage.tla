----------------------------- MODULE SecondStage -----------------------------
(***************************************************************************)
(* The second stage of the boot loader (load_kernel.asm): it asks the BIOS *)
(* for the memory map and for a video mode, loads the kernel, sets the     *)
(* mode and enters protected mode.                                         *)
(*                                                                         *)
(* The map is the last thing of the boot code: its sector holds the number *)
(* and the entries, the FAT that find_entry will walk comes right behind.  *)
(* Memory is counted in words, a FAT entry each; behind the FAT comes the  *)
(* root directory.                                                         *)
(***************************************************************************)
EXTENDS Integers, Sequences, SequencesExt, FiniteSetsExt

CONSTANTS
  EntryWords,    \* 12
  SectorWords,   \* 256
  FirstCluster,  \* the first FAT entry that belongs to a file
  FatWords,      \* 3072: the entries of the FAT
  KernelChains,  \* the FAT entries the kernel may occupy, none where it is missing
  MaxReports,    \* bound: entries the BIOS reports
  ModeLists,     \* lists of video modes the BIOS may offer
  Wanted         \* the mode looked for: 1280 x 720, 32 bits

ASSUME ConstantsAssumption ==
  /\ EntryWords \in Nat \ {0} /\ SectorWords \in Nat \ {0}
  /\ FirstCluster \in Nat /\ FatWords \in Nat
  /\ KernelChains \subseteq Seq(FirstCluster .. (FatWords - 1))
  /\ MaxReports \in Nat
  /\ Wanted \in [x : Nat, y : Nat, bits : Nat] /\ Wanted.y \div 9 < 256
  /\ \A list \in ModeLists : list \in Seq([x : Nat, y : Nat, bits : Nat])

VARIABLES
  pc,
  bp,          \* entries counted, di is behind them
  table,       \* the entries in the slots from SMAP_entries on
  more,        \* the BIOS left a continuation value in ebx
  endsList,    \* how the BIOS ends its list: ebx is "zero", or the "carry" is set
  reported,    \* history: what the BIOS has reported
  number_of_entries,   \* the word at SMAP_entries, -1 before it is stored
  modes,       \* the list of modes the BIOS has
  offset,      \* the modes of the list that were looked at
  info,        \* mode_info_block
  shown,       \* the mode the screen is in, 0 for that of the BIOS
  kernelChain,    \* the kernel's chain in the FAT, <<>> if no file has its name
  sectorsLoaded   \* the sectors at 0x10000

mapVars == <<bp, table, more, endsList, reported, number_of_entries>>
videoVars == <<modes, offset, info, shown>>
loadVars == <<kernelChain, sectorsLoaded>>
stageVars == <<pc, mapVars, videoVars, loadVars>>

NoInfo == [x |-> 0, y |-> 0, bits |-> 0]

StageInit ==
  /\ pc = "first_entry"
  /\ bp = 0 /\ table = <<>> /\ more = FALSE /\ reported = <<>> /\ number_of_entries = -1
  /\ endsList \in {"zero", "carry"}
  /\ modes \in ModeLists /\ offset = 0 /\ info = NoInfo /\ shown = 0
  /\ kernelChain \in KernelChains /\ sectorsLoaded = 0

Goto(label) == pc' = label

------------------------------------------------------------------------------
\* What INT 15h, E820h writes to es:di: an entry, of no length or not; an
\* entry it says is 0 bytes long is not counted either.
Kinds == {"memory", "empty", "no_bytes"}

\* The entry reported now, which differs from those before it.
Answer(kind) == [kind |-> kind, number |-> Len(reported) + 1]

\* Slot bp + 1 of the table; a slot is written again until it is counted.
StoreInPlace(kind) == Append(SubSeq(table, 1, bp), Answer(kind))

Report(kind) ==
  /\ Len(reported) < MaxReports
  /\ reported' = Append(reported, Answer(kind))
  /\ table' = IF kind = "no_bytes" THEN table ELSE StoreInPlace(kind)

CountEmptyToo(kind) == IF kind = "no_bytes" THEN bp ELSE bp + 1

Count(kind) == IF kind = "memory" THEN bp + 1 ELSE bp

\* start: count the entry or not, then go on while ebx is not 0.
Start(kind) ==
  /\ Report(kind)
  /\ bp' = Count(kind)
  /\ more' \in IF endsList = "carry" THEN {TRUE}
               ELSE IF Len(reported') = MaxReports THEN {FALSE} ELSE BOOLEAN
  /\ UNCHANGED <<endsList, number_of_entries, videoVars, loadVars>>

\* The first call is checked: no carry, the signature, and more to come.
FirstEntry ==
  /\ pc = "first_entry"
  /\ \E kind \in Kinds : Start(kind) /\ more'
  /\ Goto("next_entry")

\* error: it differs from done in a carry that is cleared again.
FirstError ==
  /\ pc = "first_entry"
  /\ \/ UNCHANGED <<table, reported>>
     \/ \E kind \in Kinds : Report(kind)     \* the only entry of the map
  /\ Goto("done")
  /\ UNCHANGED <<bp, more, endsList, number_of_entries, videoVars, loadVars>>

NextReport ==
  /\ pc = "next_entry" /\ more
  /\ \E kind \in Kinds : Start(kind)
  /\ UNCHANGED pc

\* The carry is not looked at here: with ebx and the buffer as they were, the
\* same call is made for ever (and the same entry counted again or not).

CarryAtEnd ==
  /\ pc = "next_entry" /\ more /\ endsList = "carry"
  /\ Goto("asking_for_ever")
  /\ UNCHANGED <<mapVars, videoVars, loadVars>>

LastEntry ==
  /\ pc = "next_entry" /\ ~more
  /\ Goto("done")
  /\ UNCHANGED <<mapVars, videoVars, loadVars>>

MapDone ==
  /\ pc = "done"
  /\ number_of_entries' = bp
  /\ Goto("video")
  /\ UNCHANGED <<bp, table, more, endsList, reported, videoVars, loadVars>>

------------------------------------------------------------------------------
VideoInformation ==
  /\ pc = "video"
  /\ Goto("find_mode") \/ Goto("error")
  /\ UNCHANGED <<mapVars, videoVars, loadVars>>

\* offset moves on even behind the end of the list.
find_mode ==
  /\ pc = "find_mode"
  /\ offset' = offset + 1
  /\ Goto(IF offset' \in DOMAIN modes THEN "mode_info" ELSE "end_of_modes")
  /\ UNCHANGED <<mapVars, modes, info, shown, loadVars>>

ModeInformation ==
  /\ pc = "mode_info"
  /\ \/ info' = modes[offset] /\ Goto("resolution")
     \/ Goto("error") /\ UNCHANGED info
  /\ UNCHANGED <<mapVars, modes, offset, shown, loadVars>>

\* The quotient of a division by a byte must fit a byte.
QuotientFits == info.y \div 9 < 256

\* Which modes are listed on the screen depends on the remainder, what follows
\* does not.
Resolution ==
  /\ pc = "resolution"
  /\ Goto(IF QuotientFits THEN "not_resolution" ELSE "divide_error")
  /\ UNCHANGED <<mapVars, videoVars, loadVars>>

IsWantedSize == info.x = Wanted.x /\ info.y = Wanted.y
IsWanted == info.x = Wanted.x /\ info.y = Wanted.y /\ info.bits = Wanted.bits

NextLabelSameMode == IF IsWanted THEN "Load_Kernel" ELSE "mode_info"
NextLabel == IF IsWanted THEN "Load_Kernel" ELSE "find_mode"

not_resolution ==
  /\ pc = "not_resolution"
  /\ Goto(NextLabel)
  /\ UNCHANGED <<mapVars, videoVars, loadVars>>

------------------------------------------------------------------------------
\* The words behind the sector that the stored map covers: FAT entries, then
\* the directory.
Overwritten ==
  { w \in 0 .. (EntryWords * (MaxReports + 1)) : SectorWords + w < 1 + EntryWords * Len(table) }

DirectoryHit == \E w \in Overwritten : w >= FatWords

\* find_entry (_FAT16.asm) goes through the directory, which FileSystem models,
\* and round the segment for ever if the name is not there.  What the map wrote
\* over the directory, or over the FAT if the search comes there, may match or
\* hide anything: nothing is known of the way on ("astray").
Load_Kernel ==
  /\ pc = "Load_Kernel"
  /\ \/ kernelChain # <<>> /\ Goto("more")
     \/ (kernelChain = <<>> \/ DirectoryHit) /\ Goto("searching_for_ever")
     \/ (IF kernelChain = <<>> THEN Overwritten # {} ELSE DirectoryHit) /\ Goto("astray")
  /\ UNCHANGED <<mapVars, videoVars, loadVars>>

\* load_lba_sector: an error is reported and the loader stops.
LoadSector ==
  /\ pc = "more"
  /\ \/ sectorsLoaded' = sectorsLoaded + 1 /\ Goto("follow")
     \/ UNCHANGED sectorsLoaded /\ Goto("read_error")
  /\ UNCHANGED <<mapVars, videoVars, kernelChain>>

LinkRead == kernelChain[sectorsLoaded]

\* The link of the sector just loaded, as it is in memory now.
FollowFat ==
  /\ pc = "follow"
  /\ Goto(IF LinkRead \in Overwritten THEN "astray"
          ELSE IF sectorsLoaded = Len(kernelChain) THEN "enable_mode" ELSE "more")
  /\ UNCHANGED <<mapVars, videoVars, loadVars>>

\* ax is loaded with the value it is then compared with: error is not reached.

EnableMode ==
  /\ pc = "enable_mode"
  /\ shown' \in {offset, shown}
  /\ Goto("Load_GDT")
  /\ UNCHANGED <<mapVars, modes, offset, info, loadVars>>

\* The switch to protected mode and the jump to the kernel.
Load_GDT ==
  /\ pc = "Load_GDT"
  /\ Goto("kernel")
  /\ UNCHANGED <<mapVars, videoVars, loadVars>>

StageCode ==
  \/ FirstEntry \/ FirstError \/ NextReport \/ CarryAtEnd \/ LastEntry \/ MapDone
  \/ VideoInformation \/ find_mode \/ ModeInformation \/ Resolution \/ not_resolution
  \/ Load_Kernel \/ LoadSector \/ FollowFat \/ EnableMode \/ Load_GDT

StageNext == StageCode

\* The CPU runs; a BIOS that has reported MaxReports entries has no more.
StageSpec == StageInit /\ [][StageNext]_stageVars /\ WF_stageVars(StageCode)

------------------------------------------------------------------------------
Stopped == {"error", "end_of_modes", "divide_error", "read_error", "kernel"}

StageTypeOK ==
  /\ pc \in Stopped \cup {"first_entry", "next_entry", "asking_for_ever", "done", "video", "find_mode",
       "mode_info", "resolution", "not_resolution", "Load_Kernel", "searching_for_ever", "astray",
       "more", "follow", "enable_mode", "Load_GDT"}
  /\ bp \in 0 .. Len(reported) /\ Len(table) \in {bp, bp + 1}
  /\ number_of_entries \in {-1, bp}
  /\ offset \in 0 .. (Len(modes) + 1) /\ shown \in {0, offset}
  /\ sectorsLoaded \in 0 .. Len(kernelChain)

IsMemory(answer) == answer.kind = "memory"

\* What has memory among the first n entries the BIOS reported, and among all.
WithMemory[n \in 0 .. Len(reported)] ==
  IF n = 0 THEN <<>>
  ELSE IF IsMemory(reported[n]) THEN Append(WithMemory[n - 1], reported[n]) ELSE WithMemory[n - 1]

AllWithMemory == WithMemory[Len(reported)]

\* The map the kernel gets is what the BIOS reported, in order and without the
\* empty entries, also where an empty entry was stored first and overwritten;
\* a map of a single entry is discarded whole (load_kernel.asm:18-54).
MapExact ==
  number_of_entries >= 0 =>
    SubSeq(table, 1, number_of_entries) =
      IF Len(reported) <= 1 THEN <<>> ELSE AllWithMemory

Room == (SectorWords - 1) \div EntryWords    \* 21, as SMAP_t has it (bootcode.h:85)

\* The loop has no limit (load_kernel.asm:34-50).  The map stays clear of the
\* FAT behind it while fewer entries have memory than SMAP_t has places, even
\* though one more entry may be stored and not counted, and runs into it as
\* soon as there are more; the chains of files are reached later.
FatIntact ==
  LET counted == Len(AllWithMemory)
  IN  /\ counted < Room => Overwritten = {}
      /\ counted > Room /\ Len(reported) > 1 => Overwritten # {}
      /\ SectorWords + FirstCluster > EntryWords * (counted + 1) =>
           \A w \in Overwritten : w < FirstCluster

\* The kernel starts with the information of the first mode that is what it
\* wants (load_kernel.asm:78-156).
FirstWantedMode ==
  pc = "kernel" => /\ info = Wanted /\ modes[offset] = Wanted
                   /\ \A m \in 1 .. (offset - 1) : modes[m] # Wanted

\* The search comes to the end of the list only if the wanted mode is not in
\* it, and to a divide error (a quotient of a byte, load_kernel.asm:100-102)
\* only by a mode of 2304 lines or more in front of it.
SearchFailsRightly ==
  /\ pc = "end_of_modes" => Wanted \notin Range(modes)
  /\ pc = "divide_error" => /\ modes[offset].y >= 9 * 256
                            /\ Wanted \notin {modes[m] : m \in 1 .. offset}

\* The map may cover word w: one entry more than what has memory is stored.
Reaches(w) == SectorWords + w < 1 + EntryWords * (Len(AllWithMemory) + 1)

\* The name is not there, or the map is long enough to cover part of the
\* directory.
MayBeMissed == kernelChain = <<>> \/ Reaches(FatWords)

\* The map is long enough to cover a link of the kernel, or part of the
\* directory; without a kernel, to cover what the search finds instead.
MayGoAstray ==
  IF kernelChain = <<>> THEN Reaches(0)
  ELSE \E w \in Range(kernelChain) \cup {FatWords} : Reaches(w)

\* Protected mode is entered with the whole kernel in memory, along links that
\* the map has not touched; the search rings for ever, and the loader goes
\* astray, only on a disk without a kernel or behind a map that is too long
\* (load_kernel.asm:170-178, _FAT16.asm:19-48).
LoadRight ==
  /\ pc \in {"enable_mode", "Load_GDT", "kernel"} =>
       /\ kernelChain # <<>> /\ sectorsLoaded = Len(kernelChain)
       /\ Range(kernelChain) \cap Overwritten = {}
  /\ pc = "searching_for_ever" => MayBeMissed
  /\ pc = "astray" => MayGoAstray

\* With a BIOS that ends its map by ebx = 0 the stage ends, in the kernel, at a
\* message or a divide error, but for the search and the stray loader of
\* LoadRight: the loops over entries, modes and sectors end.
StageEnds ==
  endsList = "zero" =>
    <>(\/ pc \in Stopped
       \/ pc = "searching_for_ever" /\ MayBeMissed
       \/ pc = "astray" /\ MayGoAstray)

\* With a BIOS that ends its map by the carry no map is ever stored: the stage
\* asks for ever, unless its first call fails (load_kernel.asm:34-50).
CarryNeverEnds == endsList = "carry" => number_of_entries <= 0

\* The kernel's memory map is the one reported (load_kernel.asm:18-55), and what
\* it covers keeps no kernel that starts from being whole.
MapRight == StageTypeOK /\ MapExact /\ FatIntact /\ CarryNeverEnds /\ LoadRight

\* The mode the kernel draws in is the first one wanted, or none is reached
\* (load_kernel.asm:78-156).
ModeRight == FirstWantedMode /\ SearchFailsRightly
==============================================================================
