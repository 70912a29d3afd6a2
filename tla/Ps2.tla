--------------------------------- MODULE Ps2 ---------------------------------
(***************************************************************************)
(* The keyboard driver (ps2.c) with what it needs of the interrupt setup   *)
(* (pic.c, idt.c): the boot code of entry() from initialize_pic on, and    *)
(* the interrupt handler, which from the moment line 1 is unmasked may run *)
(* between any two port accesses of the boot code.                         *)
(*                                                                         *)
(* The boot code is straight-line, so it is a table, Program, of port      *)
(* accesses and other steps the rest of the machine can see; "at" is the   *)
(* line of the table.  A status poll and the read after it are two steps.  *)
(***************************************************************************)
EXTENDS Ps2Hardware

CONSTANTS
  Typed,         \* what is typed, a sequence of byte sequences of the keyboard
  Synchronous,   \* the devices answer before the CPU goes on, as in QEMU
  QuietBoot      \* nobody types before the boot code is done

ASSUME ConstantsAssumption ==
  /\ Typed \in Seq(Seq(0 .. 255))
  /\ Synchronous \in BOOLEAN
  /\ QuietBoot \in BOOLEAN

VARIABLES
  at,              \* the step of Program the boot code is at
  phase,           \* where in it: "start", or inside ps2_controller_in_data
  config,          \* the byte in_data returned last, and what became of it
  genuine,         \* history: that byte was sent as a controller reply
  panicked,        \* the controller test failed: interrupts off, endless loop
  interruptFlag,   \* the interrupt flag of the CPU
  gate,            \* the descriptor of vector BASE0 + 1
  handler,         \* where the interrupt code is, or "none"
  keymap,          \* the keys down, as kbh sees it
  shift_active, control_active,
  reply,           \* history: the byte in the output buffer is a controller reply
  typed,           \* history: how much of Typed was typed
  handled          \* history: the bytes kbh took as scancodes

mainVars == <<at, phase, config, genuine, panicked>>
kbhVars == <<keymap, shift_active, control_active, handled>>
vars == <<hardwareVars, mainVars, interruptFlag, gate, handler, kbhVars, reply, typed>>

------------------------------------------------------------------------------
\* entry (kernel_loader.c:20-22) runs initialize_pic, initialize_idt and
\* initialize_ps2.  "tear" and "install" are the stores of idt_install_handler,
\* which replace a gate that interrupts may already use.
initialize_pic == << <<"icw", 0>>, <<"mask", 0>> >>

initialize_idt == << <<"gates", 0>>, <<"sti", 0>> >>

Flush == << <<"flush", 0>> >>

DisablePorts ==
  << <<"command", Disable1st>>, <<"command", Disable2nd>> >> \o Flush

\* Read the configuration, set the bits of mask, write it back.
Configure(mask) ==
  << <<"command", ReadConfig>>, <<"in", 0>>, <<"or", mask>>,
     <<"command", WriteConfig>>, <<"out", 0>> >>

TestController == << <<"command", TestSelf>>, <<"in", 0>>, <<"test", 0>> >>

EnablePort == << <<"command", Enable1st>> >>

ResetKeyboard == << <<"reset", 255>> >>

WaitForAnswer == << <<"in", 0>> >>

pic_set_irq == << <<"tear", 0>>, <<"install", 0>> >>

Unmask == << <<"unmask", 0>> >>

ProgramUnmaskFirst ==
  initialize_pic \o initialize_idt \o DisablePorts \o Configure(252) \o TestController
    \o EnablePort \o Flush \o ResetKeyboard \o Flush \o Unmask \o pic_set_irq \o Configure(1)

ProgramPortOpen ==
  initialize_pic \o initialize_idt \o Flush \o TestController
    \o EnablePort \o Flush \o ResetKeyboard \o Flush \o pic_set_irq \o Unmask \o Configure(1)

ProgramResetDisabled ==
  initialize_pic \o initialize_idt \o DisablePorts \o TestController
    \o ResetKeyboard \o WaitForAnswer \o EnablePort \o Flush \o pic_set_irq \o Unmask \o Configure(1)

ProgramResetLast ==
  initialize_pic \o initialize_idt \o DisablePorts \o Configure(252) \o TestController
    \o EnablePort \o Flush \o pic_set_irq \o Unmask \o Configure(1) \o ResetKeyboard \o Flush

Program ==
  initialize_pic \o initialize_idt \o DisablePorts \o Configure(252) \o TestController
    \o EnablePort \o Flush \o ResetKeyboard \o Flush \o pic_set_irq \o Unmask \o Configure(1)

Done == at = Len(Program) + 1    \* entry is in its hlt loop

Is(op) == ~Done /\ Program[at][1] = op
Arg == Program[at][2]

\* The step at which the handler becomes reachable.
UnmaskStep == CHOOSE n \in DOMAIN Program : Program[n][1] = "unmask"

------------------------------------------------------------------------------
Init ==
  /\ HardwareInit
  /\ at = 1 /\ phase = "start" /\ config = 0 /\ genuine = FALSE
  /\ panicked = FALSE /\ interruptFlag = FALSE /\ gate = "empty" /\ handler = "none"
  /\ keymap = {} /\ shift_active = FALSE /\ control_active = FALSE
  /\ reply = FALSE /\ typed = 0 /\ handled = <<>>

\* The boot code runs: no interrupt is being handled.
Running ==
  /\ handler = "none" /\ ~panicked
  /\ Synchronous => ~DevicesBusy
  /\ UNCHANGED <<handler, kbhVars, reply, typed>>

NextStep == at' = at + 1 /\ phase' = "start"

\* pic.c:52-62: the first initialisation word clears the 8259.
InitializePic ==
  /\ Running /\ Is("icw") /\ NextStep
  /\ masked' = FALSE /\ requested' = FALSE /\ inService' = FALSE
  /\ UNCHANGED <<controllerVars, queue, config, genuine, panicked, interruptFlag, gate>>

MaskAll ==
  /\ Running /\ Is("mask") /\ NextStep
  /\ masked' = TRUE
  /\ UNCHANGED <<controllerVars, queue, requested, inService, config, genuine,
                 panicked, interruptFlag, gate>>

pic_enable_irq ==
  /\ Running /\ Is("unmask") /\ NextStep
  /\ masked' = FALSE
  /\ UNCHANGED <<controllerVars, queue, requested, inService, config, genuine,
                 panicked, interruptFlag, gate>>

SetGate(op, value) ==
  /\ Running /\ Is(op) /\ NextStep
  /\ gate' = value
  /\ UNCHANGED <<hardwareVars, config, genuine, panicked, interruptFlag>>

idt_install_handler ==
  \/ SetGate("gates", "default")
  \/ SetGate("tear", "torn")
  \/ SetGate("install", "keyboard")

\* lidt and initialize_idt end with sti.
EnableInterrupts ==
  /\ Running /\ Is("sti") /\ NextStep
  /\ interruptFlag' = TRUE
  /\ UNCHANGED <<hardwareVars, config, genuine, panicked, gate>>

\* ps2_input_wait, then the byte goes out: no other code writes these ports.
ps2_controller_command ==
  /\ Running /\ Is("command") /\ NextStep
  /\ WritePort("command", Arg)
  /\ UNCHANGED <<config, genuine, panicked, interruptFlag, gate>>

ps2_controller_out_data ==
  /\ Running /\ NextStep
  /\ \/ Is("out") /\ WritePort("data", config)
     \/ Is("reset") /\ WritePort("data", Arg)
  /\ UNCHANGED <<config, genuine, panicked, interruptFlag, gate>>

\* while(ps2_output_available()): leave the loop, or call in_data.
FlushPoll ==
  /\ Running /\ Is("flush") /\ phase = "start"
  /\ IF outputFull THEN phase' = "wait" /\ UNCHANGED at ELSE NextStep
  /\ UNCHANGED <<hardwareVars, config, genuine, panicked, interruptFlag, gate>>

\* ps2_output_wait sees a full buffer (and spins while it is empty).
OutputWait ==
  /\ Running /\ ~Done
  /\ <<Program[at][1], phase>> \in {<<"in", "start">>, <<"flush", "wait">>}
  /\ outputFull
  /\ phase' = "read"
  /\ UNCHANGED <<hardwareVars, at, config, genuine, panicked, interruptFlag, gate>>

\* The read of ps2_controller_in_data, whatever happened since the poll.
ps2_controller_in_data ==
  /\ Running /\ phase = "read"
  /\ ReadData
  /\ config' = output /\ genuine' = reply
  /\ IF Is("flush") THEN phase' = "start" /\ UNCHANGED at ELSE NextStep
  /\ UNCHANGED <<panicked, interruptFlag, gate>>

OrMaskAdds(byte, mask) == byte + mask

OrMask(byte, mask) ==
  IF mask = 1 THEN SetBit(byte, 0) ELSE (byte % 4) + 252

OrConfig ==
  /\ Running /\ Is("or") /\ NextStep
  /\ config' = OrMask(config, Arg)
  /\ UNCHANGED <<hardwareVars, genuine, panicked, interruptFlag, gate>>

\* The controller test: anything but 0x55 ends in cli and an endless loop.
TestResult ==
  /\ Running /\ Is("test")
  /\ IF config = TestPassed
     THEN NextStep /\ UNCHANGED <<panicked, interruptFlag>>
     ELSE panicked' = TRUE /\ interruptFlag' = FALSE /\ UNCHANGED <<at, phase>>
  /\ UNCHANGED <<hardwareVars, config, genuine, gate>>

Boot ==
  \/ InitializePic \/ MaskAll \/ pic_enable_irq
  \/ idt_install_handler \/ EnableInterrupts
  \/ ps2_controller_command \/ ps2_controller_out_data
  \/ FlushPoll \/ OutputWait \/ ps2_controller_in_data
  \/ OrConfig \/ TestResult

------------------------------------------------------------------------------
\* The CPU takes the interrupt through the gate, which clears the flag.
Interrupt ==
  /\ interruptFlag /\ handler = "none"
  /\ AcceptInterrupt
  /\ interruptFlag' = FALSE
  /\ handler' = CASE gate = "keyboard" -> "kbh"
                  [] gate = "default"  -> "iret"
                  [] OTHER -> "lost"
  /\ UNCHANGED <<mainVars, gate, kbhVars, reply, typed>>

Handling ==
  /\ Synchronous => ~DevicesBusy
  /\ UNCHANGED <<mainVars, gate, reply, typed>>

\* kbh with the byte it read: a prefix makes it read (and drop) another one.
kbh ==
  /\ handler = "kbh" /\ Handling
  /\ ReadData
  /\ IF output = KEY_ALTERNATE
     THEN handler' = "drop" /\ UNCHANGED kbhVars
     ELSE /\ handler' = "eoi"
          /\ handled' = Append(handled, output)
          /\ keymap' = KeymapAfter(keymap, output)
          /\ shift_active' = ShiftAfter(output, shift_active)
          /\ control_active' = ControlAfter(output, control_active)
  /\ UNCHANGED interruptFlag

DropByte ==
  /\ handler = "drop" /\ Handling
  /\ ReadData
  /\ handler' = "eoi"
  /\ UNCHANGED <<interruptFlag, kbhVars>>

NoEoi ==
  /\ handler = "eoi" /\ Handling
  /\ handler' = "iret"
  /\ UNCHANGED <<hardwareVars, interruptFlag, kbhVars>>

pic_eoi ==
  /\ handler = "eoi" /\ Handling
  /\ EndOfInterrupt
  /\ handler' = "iret"
  /\ UNCHANGED <<interruptFlag, kbhVars>>

\* iret restores the flags; default_interrupt_handler does nothing else.
InterruptReturn ==
  /\ handler = "iret" /\ Handling
  /\ handler' = "none" /\ interruptFlag' = TRUE
  /\ UNCHANGED <<hardwareVars, kbhVars>>

Handler == kbh \/ DropByte \/ pic_eoi \/ InterruptReturn

------------------------------------------------------------------------------
CodeUnchanged == UNCHANGED <<mainVars, interruptFlag, gate, handler, kbhVars>>

Controller ==
  /\ ControllerTakes
  /\ reply' = IF ~outputFull /\ outputFull' THEN TRUE ELSE reply
  /\ CodeUnchanged /\ UNCHANGED typed

Keyboard ==
  /\ KeyboardSends
  /\ reply' = FALSE
  /\ CodeUnchanged /\ UNCHANGED typed

Type ==
  /\ typed < Len(Typed)
  /\ QuietBoot => Done
  /\ KeyAction(Typed[typed + 1])
  /\ typed' = typed + 1
  /\ CodeUnchanged /\ UNCHANGED reply

Next == Boot \/ Interrupt \/ Handler \/ Controller \/ Keyboard \/ Type

Spec == Init /\ [][Next]_vars

\* The CPU runs, the devices answer, a pending interrupt is taken; nobody has
\* to type.
FairSpec ==
  /\ Spec
  /\ WF_vars(Boot) /\ WF_vars(Interrupt) /\ WF_vars(Handler)
  /\ WF_vars(Controller) /\ WF_vars(Keyboard)

------------------------------------------------------------------------------
TypeOK ==
  /\ HardwareTypeOK
  /\ at \in 1 .. (Len(Program) + 1)
  /\ phase \in {"start", "wait", "read"}
  /\ config \in 0 .. 255
  /\ gate \in {"empty", "default", "torn", "keyboard"}
  /\ handler \in {"none", "kbh", "drop", "eoi", "iret", "lost"}
  /\ keymap \subseteq 0 .. 127
  /\ typed \in 0 .. Len(Typed)
  /\ handled \in Seq(0 .. 255)

\* An interrupt never goes through a gate that is empty or half written: the
\* stores of idt_install_handler (idt.c:28-32) are not atomic and run with
\* interrupts on, so it is the mask (pic.c:64, ps2.c:55-56) that protects them.
NeverLost == handler # "lost"

\* Line 1 is in service only while keyboard_handler is on its way to pic_eoi
\* (ps2.c:130-131): default_interrupt_handler (idt.c:36) would leave it in
\* service for ever and end all keyboard input.
ServiceEnds == inService => handler \in {"kbh", "drop", "eoi"}

\* With a working controller the test at ps2.c:41 never fails: no key, no late
\* byte and no left-over of the BIOS is taken for the controller's answer.
NeverPanics == ~panicked

\* The boot code gets as far as unmasking the keyboard interrupt, whatever is
\* typed meanwhile: none of its waits and flush loops hangs (ps2.c:24-56).
InitReachesUnmask == <>(at > UnmaskStep)

\* The bytes of the first n of Typed, and the bytes typed so far.
BytesOf[n \in 0 .. Len(Typed)] == IF n = 0 THEN <<>> ELSE BytesOf[n - 1] \o Typed[n]

TypedBytes == BytesOf[typed]

\* In a machine that answers at once and is left alone during boot, each byte
\* typed reaches kbh once, in order, and nothing else does: the handler never
\* reads an empty buffer and no edge is missed (ps2.c:101-131).
HandledInOrder ==
  /\ Len(handled) <= Len(TypedBytes)
  /\ handled = SubSeq(TypedBytes, 1, Len(handled))

\* In such a machine the boot code finishes (no wait of ps2.c:57-61 starves) and
\* no byte stays in the keyboard or the controller for ever.
QuietBootServesAll == <>Done /\ []<>(handled = TypedBytes)

------------------------------------------------------------------------------
\* ps2.c:36 "disable irqs for now": from the moment the controller has taken
\* the byte of line 38 until line 56, its keyboard interrupt is off.
ConfigTaken == \E n \in 1 .. (at - 2) : Program[n][1] = "out"

IrqsDisabledForNow == ConfigTaken /\ at <= UnmaskStep => ~Interrupting(mode)

\* ps2.c:57 "read configuration byte": what line 58 got is the controller's
\* answer to line 57.
ConfigurationByteRead == at > UnmaskStep + 2 => genuine
==============================================================================
