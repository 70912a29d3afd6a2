-------------------------------- MODULE Drive --------------------------------
(***************************************************************************)
(* The ATA driver (drive.c): reads and writes of runs of sectors, polled.  *)
(* FileSystem models the reads of the FAT16 reader on a packaged image;    *)
(* here reads and writes follow each other, and the block address goes     *)
(* through the registers of the drive, three bytes and a nibble.           *)
(***************************************************************************)
EXTENDS Integers, Sequences

CONSTANTS
  ByteBase,       \* 256
  NibbleBase,     \* 16
  Addresses,      \* block addresses that are used
  MaxSectors,     \* bound: sectors of a call
  MaxCalls,       \* bound: calls
  DriveNumbers    \* what the boot loader may have stored in BS_DriveNum

\* What a register counts for, and the addresses there are.
Weight == <<1, ByteBase, ByteBase * ByteBase, ByteBase * ByteBase * ByteBase>>
Capacity == Weight[4] * NibbleBase

ConstantsAssumption ==
  /\ ByteBase \in Nat \ {0, 1} /\ NibbleBase \in Nat \ {0, 1}
  /\ Addresses \subseteq 0 .. (Capacity - MaxSectors)
  /\ MaxSectors \in Nat \ {0} /\ DriveNumbers \subseteq Nat

VARIABLES
  DriveNumber,    \* of FS_info
  memory, platter,   \* what the sectors of either hold, 0 for nothing yet
  running, at,    \* "read", "write" or "none", and where in it
  location, linear_block_address, number_of_sectors, i,
  registers,      \* of the drive: the address, low byte first
  device,         \* "idle", "busy", "ready" for a sector, or "error"
  calls,          \* bound: the calls so far
  written,        \* history: what callers wrote last to each address
  misplaced       \* history: some write used another address than that of a read

fsVars == <<DriveNumber>>
args == <<location, linear_block_address, number_of_sectors>>
history == <<calls, written, misplaced>>
vars == <<fsVars, memory, platter, running, at, args, i, registers, device, history>>

Places == 0 .. MaxSectors
Sectors == UNION { a .. (a + MaxSectors - 1) : a \in 0 .. (Capacity - MaxSectors) }

\* initialize_disk: the number the BIOS passed to the boot sector.
Init ==
  /\ DriveNumber \in DriveNumbers
  /\ memory = [p \in Places |-> p + 1] /\ platter = [s \in Sectors |-> 0]
  /\ running = "none" /\ at = "start"
  /\ location = 0 /\ linear_block_address = 0 /\ number_of_sectors = 1 /\ i = 0
  /\ registers = <<0, 0, 0, 0>> /\ device = "idle"
  /\ calls = 0 /\ written = platter /\ misplaced = FALSE

Byte(address, n) == (address \div Weight[n]) % ByteBase
TopNibble(address) == (address \div Weight[4]) % NibbleBase

\* With no sectors a call returns at once.
Call(function) ==
  /\ running = "none" /\ calls < MaxCalls
  /\ running' = function /\ at' = "start"
  /\ linear_block_address' \in Addresses /\ number_of_sectors' \in 1 .. MaxSectors
  /\ location' \in 0 .. (MaxSectors + 1 - number_of_sectors')
  /\ calls' = calls + 1
  /\ UNCHANGED <<fsVars, memory, platter, i, registers, device, written, misplaced>>

DriveFree == device # "busy"

\* Of a read the address, of a write the number of the drive.
DriveBits ==
  IF running = "read" THEN TopNibble(linear_block_address) ELSE DriveNumber % NibbleBase

RegistersSwapped(address) == <<Byte(address, 1), Byte(address, 3), Byte(address, 2)>>
Registers(address) == <<Byte(address, 1), Byte(address, 2), Byte(address, 3)>>

\* The wait for BSY to clear, the registers and the command.
Command ==
  /\ running # "none" /\ at = "start" /\ DriveFree
  /\ registers' = Append(Registers(linear_block_address), DriveBits)
  /\ device' = "busy" /\ at' = "transfer" /\ i' = 0
  /\ UNCHANGED <<fsVars, memory, platter, running, args, history>>

\* The sector the drive is at: it counts on from the one in its registers.
FirstSector ==
  registers[1] + (Weight[2] * registers[2]) + (Weight[3] * registers[3]) + (Weight[4] * registers[4])

Sector == FirstSector + i

\* A loop waits for data; its counter never counts, and an error is no data.
Transferred ==
  /\ at = "transfer" /\ device = "ready"
  /\ device' = "busy"
  /\ i' = i + 1
  /\ IF i + 1 < number_of_sectors THEN UNCHANGED <<running, at>>
     ELSE running' = "none" /\ at' = "start"
  /\ UNCHANGED <<fsVars, args, registers, calls>>

disk_read_from ==
  /\ running = "read" /\ Transferred
  /\ memory' = [memory EXCEPT ![location + i] = platter[Sector]]
  /\ UNCHANGED <<platter, written, misplaced>>

disk_write_to ==
  /\ running = "write" /\ Transferred
  /\ platter' = [platter EXCEPT ![Sector] = memory[location + i]]
  /\ written' = [written EXCEPT ![linear_block_address + i] = memory[location + i]]
  /\ misplaced' = (misplaced \/ DriveBits # TopNibble(linear_block_address))
  /\ UNCHANGED memory

Code == Command \/ disk_read_from \/ disk_write_to

\* External: the drive is busy until it has the next sector, is done, or fails.
Device ==
  /\ device = "busy"
  /\ device' \in IF at = "transfer" THEN {"ready", "error"} ELSE {"idle"}
  /\ UNCHANGED <<fsVars, memory, platter, running, at, args, i, registers, history>>

Next == Code \/ Device \/ \E function \in {"read", "write"} : Call(function)

\* The CPU runs and the drive answers, be it with an error.
Fairness == WF_vars(Code) /\ WF_vars(Device)

Spec == Init /\ [][Next]_vars /\ Fairness

------------------------------------------------------------------------------
Contents == 0 .. (MaxSectors + 1)

TypeOK ==
  /\ memory \in [Places -> Contents] /\ DOMAIN platter = Sectors
  /\ running \in {"none", "read", "write"} /\ at \in {"start", "transfer"}
  /\ number_of_sectors \in 1 .. MaxSectors /\ i \in 0 .. MaxSectors
  /\ \A n \in 1 .. 3 : registers[n] \in 0 .. (ByteBase - 1)
  /\ registers[4] \in 0 .. (NibbleBase - 1)
  /\ device \in {"idle", "busy", "ready", "error"}

\* The disk holds what was written at the addresses it was written to, across
\* any sequence of calls, until the first write whose address has other top
\* bits than the number of the drive (drive.c:51 puts the one in the place of
\* the other): with drive 0x80 that is any address of 2^24 or more.
DiskAsWritten == ~misplaced => platter = written

\* What a call has transferred, it has transferred in order between the
\* addresses it was given: no sector of an earlier command, none twice.
RunsAgree ==
  (running = "none" \/ at = "transfer") /\ ~misplaced =>
    \A n \in 0 .. (i - 1) : memory[location + n] = platter[linear_block_address + n]

\* A call returns, unless the drive reports an error: then it waits for ever,
\* the write too, which was to give up after 100000 polls (drive.c:58-64).
CallsReturn == running # "none" ~> running = "none" \/ device = "error"

\* The part of DiskRight below that speaks of single states.
DiskSafe == TypeOK /\ DiskAsWritten /\ RunsAgree

\* What callers write and read is what they meant, in whatever order they call,
\* and each call comes to its end, as far as stated above (drive.c:24-68).
DiskRight == [](TypeOK /\ DiskAsWritten /\ RunsAgree) /\ CallsReturn
==============================================================================
