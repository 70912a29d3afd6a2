-------------------------------- MODULE Services --------------------------------
(***************************************************************************)
(* What a caller finds in the kernel once it is up: memory functions,      *)
(* screen, disk, timer, key events and heap.  They share no state, so a    *)
(* behaviour calls one of them, "subject", and the others stay as they     *)
(* were set up: what holds in all these behaviours holds when calls to     *)
(* different services alternate.                                           *)
(***************************************************************************)
EXTENDS MemoryFunctions

CONSTANTS
  XResolution, YResolution, Pitch, BitsPerPixel, GlyphWidth, GlyphHeight, WordBits, CoordinateRange,
  FontFile, Colors, Mixed, Corners, Thicknesses, Images, Strings, Dumps,
  ByteBase, NibbleBase, DiskAddresses, MaxSectors, MaxCalls, DriveNumbers,
  Counters, Frequencies,
  Keys, Callbacks,
  VMM_PAGE_SIZE, HeaderSize, ByteModulus, malloc_vaddr, InitSizes, Sizes, MaxPages

VARIABLES
  subject,
  frame, font, foreground_color, background_color, mode, cursor, rest, shown, drawn,
  DriveNumber, buffer, platter, transfer, at, location, linear_block_address,
  number_of_sectors, sector, registers, device, calls, written, misplaced,
  low, count, asked, timer,
  keymap, shift_active, control_active, kehandler, event, misled,
  block, total_malloc_pages, pc, cur, request, list, live

screenVars == <<frame, font, foreground_color, background_color, mode, cursor, rest, shown, drawn>>
driveVars == <<DriveNumber, buffer, platter, transfer, at, location, linear_block_address,
               number_of_sectors, sector, registers, device, calls, written, misplaced>>
timerVars == <<low, count, asked, timer>>
keyVars == <<keymap, shift_active, control_active, kehandler, event, misled>>
heapVars == <<block, total_malloc_pages, pc, cur, request, list, live>>

------------------------------------------------------------------------------
Vbe == INSTANCE Screen WITH call <- drawn, Word <- CoordinateRange

Disk == INSTANCE Drive WITH
  memory <- buffer, running <- transfer, i <- sector, Addresses <- DiskAddresses

Pit == INSTANCE Timer WITH state <- timer

Keyboard == INSTANCE KeyEvents

Malloc == INSTANCE Heap WITH state <- list

ASSUME ServicesAssumption ==
  /\ Vbe!ConstantsAssumption /\ Disk!ConstantsAssumption /\ Pit!ConstantsAssumption
  /\ Keyboard!ConstantsAssumption /\ Malloc!ConstantsAssumption

------------------------------------------------------------------------------
\* Memory and drive number vary only for the service that looks at them.
ServicesInit ==
  /\ subject \in {"memory", "screen", "disk", "timer", "keys", "heap"}
  /\ Init /\ (subject # "memory" => \A a \in Addresses : memory[a] = CHOOSE v \in Values : TRUE)
  /\ Vbe!Init /\ Pit!Init /\ Keyboard!Init /\ Malloc!Init
  /\ Disk!Init /\ (subject # "disk" => DriveNumber = CHOOSE n \in DriveNumbers : TRUE)

MemoryCalls ==
  /\ subject = "memory" /\ Next
  /\ UNCHANGED <<subject, screenVars, driveVars, timerVars, keyVars, heapVars>>

ScreenCalls ==
  /\ subject = "screen" /\ Vbe!Next
  /\ UNCHANGED <<subject, vars, driveVars, timerVars, keyVars, heapVars>>

DiskCalls ==
  /\ subject = "disk" /\ Disk!Next
  /\ UNCHANGED <<subject, vars, screenVars, timerVars, keyVars, heapVars>>

TimerCalls ==
  /\ subject = "timer" /\ Pit!Next
  /\ UNCHANGED <<subject, vars, screenVars, driveVars, keyVars, heapVars>>

KeyCalls ==
  /\ subject = "keys" /\ Keyboard!Next
  /\ UNCHANGED <<subject, vars, screenVars, driveVars, timerVars, heapVars>>

HeapCalls ==
  /\ subject = "heap" /\ Malloc!Next
  /\ UNCHANGED <<subject, vars, screenVars, driveVars, timerVars, keyVars>>

ServicesNext ==
  \/ MemoryCalls
  \/ ScreenCalls
  \/ DiskCalls
  \/ TimerCalls
  \/ KeyCalls
  \/ HeapCalls

ServicesSpec ==
  ServicesInit /\ [][ServicesNext]_<<subject, vars, screenVars, driveVars, timerVars, keyVars, heapVars>>
    /\ Disk!Fairness

\* The properties of the services, each stated in full in its module.

\* Text and dumps are readable on the screen (vbe_driver.c:69-172).
TextRight == Vbe!TextRight

\* Lines, boxes and images have their shape (vbe_driver.c:174-253).
ShapesRight == Vbe!ShapesRight

\* What is read back is what was written, where it was asked for, and calls
\* return unless the drive fails (drive.c:24-68).
DiskRight == Disk!DiskRight

\* pit_start_counter loads selectors in place of the divisor asked for, and the
\* counter stands still unless both bytes lie in its quarter (pit.c:21-37).
CountersMisloaded == Pit!CountersMisloaded

\* The driver's shift and control flags say what is held, but for the look-alike
\* keys (ps2.c:101-125).
KeysRight == Keyboard!KeysRight

\* The heap's list of blocks stays whole over every order of calls that avoids
\* the paths that break it (virtual_memory_manager.c:116-216).
HeapIntact == Malloc!HeapIntact

\* No heap call hands out memory in use but through the loop of line 150, and
\* all others are those of an allocator (virtual_memory_manager.c:146-216).
HeapSteps == Malloc!HeapSteps

\* virtual_memory_manager.c:155 "should be last element since it couldnt find a
\* big enough block".
GrownIsLast == Malloc!GrownIsLast
==============================================================================
