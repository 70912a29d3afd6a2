----------------------------- MODULE Ps2Hardware -----------------------------
(***************************************************************************)
(* What the keyboard driver talks to: the PS/2 controller (8042), the      *)
(* keyboard behind it and line 1 of the interrupt controller (8259).  None *)
(* of it is code of this repository; it is modelled from how ps2.c and     *)
(* pic.c use it, after the QEMU machine the Makefile starts.               *)
(*                                                                         *)
(* Bytes are numbers, because the driver works on the bits of whatever     *)
(* byte it happens to read.                                                *)
(***************************************************************************)
EXTENDS Scancodes, Sequences

CONSTANT BiosModes    \* the configuration bytes the BIOS may leave behind

ASSUME BiosModesAssumption == BiosModes \subseteq 0 .. 255

VARIABLES
  mode,         \* the configuration byte of the controller
  input,        \* <<port, byte>> written by the CPU and not yet taken, or NoInput
  awaiting,     \* the next data byte is the new configuration byte
  output,       \* the output buffer; an empty one still reads as its last byte
  outputFull,   \* bit 0 of the status port
  queue,        \* bytes the keyboard has yet to send
  masked,       \* line 1 in the mask register of the 8259
  requested,    \* line 1 in its request register
  inService     \* line 1 in its service register

controllerVars == <<mode, input, awaiting, output, outputFull>>
picVars == <<masked, requested, inService>>
hardwareVars == <<controllerVars, queue, picVars>>

------------------------------------------------------------------------------
Interrupting(byte) == Bit(byte, 0)    \* first_port_int
PortDisabled(byte) == Bit(byte, 4)    \* first_port_clock

ReadConfig  == 32    \* the command bytes ps2.c sends
WriteConfig == 96
Disable2nd  == 167
TestSelf    == 170
Disable1st  == 173
Enable1st   == 174

TestPassed == 85     \* the reply to TestSelf
ResetReply == <<250, 170>>   \* the keyboard's: acknowledged, self test passed

NoInput == <<"none", 0>>

------------------------------------------------------------------------------
\* The wire to the 8259, and its edge-triggered request: a request stays even
\* if the byte is read before the interrupt is taken.
Line == outputFull /\ Interrupting(mode) /\ ~PortDisabled(mode)

LatchEdge ==
  /\ requested' = (requested \/ (~Line /\ Line'))
  /\ UNCHANGED <<masked, inService>>

HardwareInit ==
  /\ mode \in BiosModes
  /\ input = NoInput /\ awaiting = FALSE
  /\ output = 0 /\ outputFull = FALSE
  /\ queue = <<>>
  /\ masked \in BOOLEAN /\ requested = FALSE /\ inService = FALSE

Emit(byte) ==
  /\ ~outputFull
  /\ output' = byte
  /\ outputFull' = TRUE

ControllerCommand(code) ==
  /\ input = <<"command", code>>
  /\ mode' = CASE code = Disable1st -> SetBit(mode, 4)
               [] code = Disable2nd -> SetBit(mode, 5)
               [] code = Enable1st  -> ClearBit(mode, 4)
               [] OTHER -> mode
  /\ awaiting' = (code = WriteConfig)
  /\ CASE code = ReadConfig -> Emit(mode)
       [] code = TestSelf   -> Emit(TestPassed)
       [] OTHER -> UNCHANGED <<output, outputFull>>
  /\ UNCHANGED queue

\* A data byte is the configuration announced before, or goes to the keyboard,
\* which on 255 forgets what it had to send and answers.
ControllerData(byte) ==
  /\ input = <<"data", byte>>
  /\ awaiting' = FALSE
  /\ mode' = IF awaiting THEN byte ELSE mode
  /\ queue' = IF ~awaiting /\ byte = 255 THEN ResetReply ELSE queue
  /\ UNCHANGED <<output, outputFull>>

ControllerTakes ==
  /\ input # NoInput
  /\ input' = NoInput
  /\ ControllerCommand(input[2]) \/ ControllerData(input[2])
  /\ LatchEdge

KeyboardSends ==
  /\ queue # <<>> /\ ~PortDisabled(mode)
  /\ Emit(Head(queue))
  /\ queue' = Tail(queue)
  /\ UNCHANGED <<mode, input, awaiting>>
  /\ LatchEdge

\* Somebody presses or releases a key: one byte, or two with a prefix.
KeyAction(bytes) ==
  /\ queue' = queue \o bytes
  /\ UNCHANGED <<controllerVars, picVars>>

\* The devices have something to do that no CPU step has to precede.
DevicesBusy ==
  \/ input # NoInput /\ ~(input[1] = "command" /\ outputFull
                            /\ input[2] \in {ReadConfig, TestSelf})
  \/ queue # <<>> /\ ~PortDisabled(mode) /\ ~outputFull

HardwareTypeOK ==
  /\ mode \in 0 .. 255
  /\ input \in {"none", "command", "data"} \X (0 .. 255)
  /\ awaiting \in BOOLEAN
  /\ output \in 0 .. 255
  /\ outputFull \in BOOLEAN
  /\ queue \in Seq(0 .. 255)
  /\ masked \in BOOLEAN /\ requested \in BOOLEAN /\ inService \in BOOLEAN

------------------------------------------------------------------------------
\* What the CPU does to it.

WritePort(port, byte) ==
  /\ input = NoInput
  /\ input' = <<port, byte>>
  /\ UNCHANGED <<mode, awaiting, output, outputFull, queue, picVars>>

ReadData ==
  /\ outputFull' = FALSE
  /\ UNCHANGED <<mode, input, awaiting, output, queue, picVars>>

EndOfInterrupt ==
  /\ inService' = FALSE
  /\ UNCHANGED <<controllerVars, queue, masked, requested>>

AcceptInterrupt ==
  /\ requested /\ ~masked /\ ~inService
  /\ requested' = FALSE /\ inService' = TRUE
  /\ UNCHANGED <<controllerVars, queue, masked>>
==============================================================================
