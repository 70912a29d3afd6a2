------------------------------- MODULE Interrupts -------------------------------
(***************************************************************************)
(* Interrupts and exceptions of the whole kernel: the descriptor table     *)
(* (idt.c), the two interrupt controllers (pic.c), the default handlers    *)
(* and the exception handlers (exceptions.c).  The kernel's own code is    *)
(* "main"; it may call the functions of pic.c at any time after the set-up *)
(* of entry(), and handlers it installs end their interrupt with pic_eoi,  *)
(* as that of the keyboard does.  Once control has gone where no code of   *)
(* the kernel put it (boot is "lost") nothing more is said of the machine. *)
(*                                                                         *)
(* Lines 8 to 15 are those of the second controller, which is connected to *)
(* line 2 of the first.                                                    *)
(***************************************************************************)
EXTENDS Integers, Sequences, FiniteSetsExt

CONSTANTS
  Lines,       \* the lines with a device, without 2
  Exceptions,  \* the exceptions that may be raised, 2 is NMI
  MaxEvents,   \* bound: requests of devices and exceptions in all
  MaxNesting   \* bound: handlers and exceptions on top of each other

ASSUME ConstantsAssumption ==
  /\ Lines \subseteq (0 .. 15) \ {2} /\ Exceptions \subseteq 0 .. 18
  /\ MaxEvents \in Nat /\ MaxNesting \in Nat \ {0}

VARIABLES
  boot,            \* "entry", "pic", "on"; "reset" by a triple fault, or "lost"
  idt,             \* vector -> the handler in the gate, "none" for none, "torn"
                   \* for half the address of one and half of another
  installing,      \* the line whose gate main is in the middle of storing, if any
  interruptFlag,
  masked, irr, isr,  \* the mask, request and in-service registers of both
  context,         \* what runs on top of main, innermost first
  skewed,          \* how many run below code whose stack has words too many
  foreground, background, report,  \* the colours and the message on the screen
  events,          \* how many requests and exceptions there were
  kept             \* history: in-service lines whose handler returned without EOI

picVars == <<masked, irr, isr>>
screenVars == <<foreground, background, report>>
gateVars == <<idt, installing>>
vars == <<boot, gateVars, interruptFlag, picVars, context, skewed, screenVars, events, kept>>

CascadeLine == 2
AllLines == Lines \cup {CascadeLine}
BASE0 == 32
Vector(line) == BASE0 + line
Vectors == (0 .. 18) \cup {Vector(l) : l \in Lines \cup {7, 15}}

Slave(line) == line >= 8

------------------------------------------------------------------------------
\* What the boot loader leaves: interrupts off, no table, the BIOS's masks.
Init ==
  /\ boot = "entry"
  /\ idt = [v \in Vectors |-> "none"]
  /\ interruptFlag = FALSE
  /\ masked \in SUBSET AllLines /\ irr = {} /\ isr = {}
  /\ installing = {} /\ context = <<>> /\ skewed = {}
  /\ foreground = "main" /\ background = "main" /\ report = "none"
  /\ events = 0 /\ kept = {}

Main == context = <<>> /\ UNCHANGED <<context, skewed, events, kept>>

\* An index the table does not have, or no handler, changes nothing.
idt_install_handler(gates, index, handler) ==
  IF index > 256 \/ handler = "null" THEN gates ELSE [gates EXCEPT ![index] = handler]

\* The handler of line 7 goes into a table that initialize_idt fills anew; the
\* initialisation words clear requests and in-service bits.
initialize_pic ==
  /\ Main /\ boot = "entry" /\ boot' = "pic"
  /\ idt' = idt_install_handler(idt, Vector(7), "irq7_handler")
  /\ masked' = AllLines /\ irr' = {} /\ isr' = {}
  /\ UNCHANGED <<installing, interruptFlag, screenVars>>

error_handlers ==
  << "divide_by_zero_fault", "single_step", "non_maskable_interrupt", "break_point",
     "overflow", "bounds_check", "undefined_opcode", "no_coprocessor", "double_fault",
     "coprocessor_segment_overrun", "invalid_task_segment", "segment_not_present",
     "stack_segment_overrun", "general_protection_fault", "page_fault", "unassigned",
     "coprocessor_error", "alignment_check", "machine_check" >>

get_default_exception_handler(i) == error_handlers[i + 1]

FatalHandlers == {error_handlers[i] : i \in DOMAIN error_handlers} \ {"single_step"}

ExceptionGatesOnly ==
  [v \in Vectors |-> IF v < 19 THEN get_default_exception_handler(v) ELSE "none"]

DefaultGates ==
  [v \in Vectors |-> IF v < 19 THEN get_default_exception_handler(v)
                                ELSE "default_interrupt_handler"]

\* All gates, then lidt, which enables interrupts.
initialize_idt ==
  /\ Main /\ boot = "pic" /\ boot' = "on"
  /\ idt' = DefaultGates
  /\ interruptFlag' = TRUE
  /\ UNCHANGED <<installing, picVars, screenVars>>

Kernel == Main /\ boot = "on" /\ installing = {}

\* Interrupts may come between the stores of idt_install_handler.  The first,
\* of the upper half of the address, tears the gate, unless both handlers have
\* that half in common; type and segment are the same in all gates.
pic_set_irq(line) ==
  /\ Kernel /\ installing' = {line}
  /\ idt' \in {idt, idt_install_handler(idt, Vector(line), "torn")}
  /\ UNCHANGED <<boot, interruptFlag, picVars, screenVars>>

\* The last store is that of the lower half.
StoreBaseLow(line) ==
  /\ Main /\ boot = "on" /\ line \in installing /\ installing' = {}
  /\ idt' = idt_install_handler(idt, Vector(line), "handler")
  /\ UNCHANGED <<boot, interruptFlag, picVars, screenVars>>

\* Lines of the second controller need line 2 as well, which nothing does for them.
pic_enable_irq(line) ==
  /\ Kernel /\ masked' = masked \ {line}
  /\ UNCHANGED <<boot, gateVars, interruptFlag, irr, isr, screenVars>>

pic_disable_irq(line) ==
  /\ Kernel /\ masked' = masked \cup {line}
  /\ UNCHANGED <<boot, gateVars, interruptFlag, irr, isr, screenVars>>

\* What it does to the timer is in module Timer.  It ends with sti, whether or
\* not interrupts were enabled before.
pit_start_counter ==
  /\ Kernel /\ masked' = masked \ {0} /\ interruptFlag' = TRUE
  /\ UNCHANGED <<boot, gateVars, irr, isr, screenVars>>

------------------------------------------------------------------------------
\* The hardware.

Running == boot \notin {"reset", "lost"}

Raise(line) ==
  /\ events < MaxEvents /\ Running
  /\ irr' = irr \cup {line} /\ events' = events + 1
  /\ UNCHANGED <<boot, gateVars, interruptFlag, masked, isr, context, skewed, screenVars, kept>>

\* The first controller sees the second as its line 2; fully nested priorities.
MasterLine(line) == IF Slave(line) THEN CascadeLine ELSE line

Deliverable(line) ==
  /\ line \in irr \ masked
  /\ \A s \in isr : ~Slave(s) => s > MasterLine(line)
  /\ Slave(line) => CascadeLine \notin masked /\ \A s \in isr : Slave(s) => s > line

Before(l, k) ==
  MasterLine(l) < MasterLine(k) \/ (MasterLine(l) = MasterLine(k) /\ l <= k)

Chosen(line) == Deliverable(line) /\ \A k \in Lines : Deliverable(k) => Before(line, k)

FlagInTrapGate == interruptFlag

\* IDT_DESC_BIT32 makes all gates interrupt gates.
FlagInGate == FALSE

Push(handler, line) ==
  /\ context' = <<[handler |-> handler, line |-> line, at |-> "start",
                   flag |-> interruptFlag]>> \o context
  /\ interruptFlag' = FlagInGate /\ UNCHANGED boot

\* The machine is not in the hands of the kernel any more.
Stop(how) == boot' = how /\ UNCHANGED <<interruptFlag, context>>

\* The CPU goes through a gate; an empty one is a general protection fault, and
\* a torn one leads to an address of nobody's.
Enter(vector, line) ==
  \/ idt[vector] \notin {"none", "torn"} /\ Push(idt[vector], line)
  \/ idt[vector] = "torn" /\ Stop("lost")
  \/ idt[vector] = "none" /\ idt[13] # "none" /\ Push(idt[13], -1)
  \/ idt[vector] = "none" /\ idt[13] = "none" /\ Stop("reset")

Acknowledge(line) ==
  /\ interruptFlag /\ Running /\ Chosen(line)
  /\ irr' = irr \ {line}
  /\ isr' = isr \cup {line, MasterLine(line)}
  /\ Enter(Vector(line), line)
  /\ UNCHANGED <<gateVars, masked, skewed, screenVars, events, kept>>

\* The request is gone when the CPU answers: the controller that was asked
\* answers with its last line and puts nothing in service.
Spurious(line) ==
  /\ interruptFlag /\ Running /\ Chosen(line)
  /\ irr' = irr \ {line}
  /\ isr' = IF Slave(line) THEN isr \cup {CascadeLine} ELSE isr
  /\ Enter(Vector(IF Slave(line) THEN 15 ELSE 7), IF Slave(line) THEN -15 ELSE -7)
  /\ UNCHANGED <<gateVars, masked, skewed, screenVars, events, kept>>

\* The code that runs events an exception, or NMI arrives.
Exception(v) ==
  /\ events < MaxEvents /\ Running /\ Len(context) < MaxNesting
  /\ Enter(v, -1) /\ events' = events + 1
  /\ UNCHANGED <<gateVars, picVars, skewed, screenVars, kept>>

------------------------------------------------------------------------------
\* The handlers.

In(handler, at) ==
  /\ Running /\ context # <<>>
  /\ Head(context).handler = handler /\ Head(context).at = at

At(at) == context' = <<[Head(context) EXCEPT !.at = at]>> \o Tail(context)

\* iret restores the interrupt flag; with words too many on the stack it takes
\* them for the address, the segment and the flags.
Return ==
  \/ /\ Len(context) \notin skewed
     /\ context' = Tail(context) /\ interruptFlag' = Head(context).flag
     /\ UNCHANGED boot
  \/ Len(context) \in skewed /\ Stop("lost")

\* Neither the default handler nor that of line 7 sends an end of interrupt.
default_interrupt_handler ==
  /\ In("default_interrupt_handler", "start") \/ In("irq7_handler", "start")
  /\ Return
  /\ kept' = kept \cup CASE Head(context).line >= 8   -> {Head(context).line, CascadeLine}
                         [] Head(context).line = -15  -> {CascadeLine}
                         [] Head(context).line \in 0 .. 7 -> {Head(context).line}
                         [] OTHER -> {}
  /\ UNCHANGED <<gateVars, picVars, skewed, screenVars, events>>

\* A non-specific end of interrupt: the in-service line of highest priority.
Ended(chip) == IF chip = {} THEN {} ELSE {Min(chip)}

EoiOneChip(intno, inService) ==
  inService \ Ended({s \in inService : Slave(s) <=> Slave(intno)})

pic_eoi(intno, inService) ==
  inService \ (Ended({s \in inService : ~Slave(s)})
                 \cup IF Slave(intno) THEN Ended({s \in inService : Slave(s)}) ELSE {})

\* A handler the kernel installed: it knows the line of its vector, not whether
\* the interrupt was spurious.
HandlerEoi ==
  LET line == Head(context).line
      intno == IF line < 0 THEN -line ELSE line
  IN  /\ In("handler", "start") /\ At("ended")
      /\ isr' = pic_eoi(intno, isr)
      /\ kept' = kept \cap isr'
      /\ UNCHANGED <<boot, gateVars, interruptFlag, masked, irr, skewed, screenVars, events>>

HandlerReturn ==
  /\ In("handler", "ended") /\ Return
  /\ UNCHANGED <<gateVars, picVars, skewed, screenVars, events, kept>>

\* An ordinary function: its ret takes the address only.  The interrupted code
\* goes on with the interrupt flag cleared and with the segment and the flags
\* left on its stack.
single_step ==
  /\ In("single_step", "start")
  /\ \/ /\ Len(context) \notin skewed
        /\ context' = Tail(context) /\ skewed' = skewed \cup {Len(context) - 1}
        /\ UNCHANGED <<boot, interruptFlag>>
     \/ Len(context) \in skewed /\ Stop("lost") /\ UNCHANGED skewed
  /\ UNCHANGED <<gateVars, picVars, screenVars, events, kept>>

\* Code whose stack has these words returns from the function it is in, and
\* takes one of them for its address.  The loop of a fatal handler never does.
ReturnAstray ==
  /\ Running /\ Len(context) \in skewed
  /\ context # <<>> => Head(context).at # "loop"
  /\ Stop("lost")
  /\ UNCHANGED <<gateVars, picVars, skewed, screenVars, events, kept>>

\* The other eighteen: white on red, a message, and an endless loop.
FatalColors ==
  /\ \E h \in FatalHandlers : In(h, "start")
  /\ At("colors")
  /\ foreground' = "white" /\ background' = "red"
  /\ UNCHANGED <<boot, gateVars, interruptFlag, picVars, skewed, report, events, kept>>

FatalReport ==
  /\ \E h \in FatalHandlers : In(h, "colors")
  /\ At("loop")
  /\ report' = Head(context).handler
  /\ UNCHANGED <<boot, gateVars, interruptFlag, picVars, skewed, foreground, background,
                 events, kept>>

Handlers ==
  default_interrupt_handler \/ HandlerEoi \/ HandlerReturn \/ single_step
    \/ FatalColors \/ FatalReport

Interrupt == \E line \in Lines : Acknowledge(line) \/ Spurious(line)

Next ==
  \/ initialize_pic \/ initialize_idt \/ pit_start_counter
  \/ \E line \in Lines : pic_set_irq(line) \/ StoreBaseLow(line)
  \/ \E line \in AllLines : pic_enable_irq(line) \/ pic_disable_irq(line)
  \/ \E line \in Lines : Raise(line)
  \/ Interrupt
  \/ \E v \in Exceptions : Exception(v)
  \/ Handlers \/ ReturnAstray

\* The CPU runs the handler it is in and answers requests while the flag is set.
Fairness == WF_vars(Handlers) /\ WF_vars(Interrupt)

Spec == Init /\ [][Next]_vars /\ Fairness

------------------------------------------------------------------------------
HandlerNames == FatalHandlers \cup
  {"single_step", "default_interrupt_handler", "irq7_handler", "handler"}

TypeOK ==
  /\ boot \in {"entry", "pic", "on", "reset", "lost"}
  /\ idt \in [Vectors -> HandlerNames \cup {"none", "torn"}] /\ installing \subseteq Lines
  /\ interruptFlag \in BOOLEAN
  /\ masked \subseteq AllLines /\ irr \subseteq Lines /\ isr \subseteq AllLines
  /\ kept \subseteq isr /\ Len(context) <= MaxNesting
  /\ skewed \subseteq 0 .. Len(context)
  /\ \A i \in DOMAIN context : context[i].handler \in HandlerNames
  /\ foreground \in {"main", "white"} /\ background \in {"main", "red"}
  /\ report \in FatalHandlers \cup {"none"}

Fatal == \E i \in DOMAIN context : context[i].handler \in FatalHandlers

\* A device interrupt, real or spurious and however early it was requested,
\* finds a handler: it never ends in an exception or a reset, because the
\* flag is off until all gates are filled (kernel_loader.c:16, idt.c:40-51).
\* The one other thing it can find is the gate that main is storing just then
\* (idt.c:28-32): that of its own line, which was unmasked too early, or of
\* lines 7 and 15, where spurious interrupts arrive even if these are masked.
InterruptsFindHandlers ==
  [][boot # "entry" /\ ~(irr \subseteq irr') =>
       \/ boot' = "on" /\ Head(context').handler \notin FatalHandlers
       \/ /\ boot' = "lost"
          /\ \E line \in installing : line \in irr \ (irr' \cup masked) \/ line \in {7, 15}]_vars

\* What is in service is being handled, or is of a handler that returned
\* without end of interrupt: nothing else is left in service by any order of
\* nested, spurious and cascaded interrupts (pic.c:72-77).
InServiceAccounted ==
  boot # "lost" => isr \subseteq kept \cup UNION {
    IF context[i].line >= 0 THEN {context[i].line, MasterLine(context[i].line)}
    ELSE IF context[i].line = -15 THEN {CascadeLine} ELSE {} :
      i \in {j \in DOMAIN context : context[j].at = "start"}}

\* The end of interrupt is not specific, yet it always ends the line of the
\* handler that sends it, with that of the second controller: a request is
\* only delivered over lines of lower priority.  After a spurious interrupt it
\* may end another one, which is why the handler of line 7 sends none.
EoiEndsOwnLine ==
  [][HandlerEoi /\ Head(context).line >= 0 =>
       isr \ isr' = {Head(context).line, MasterLine(Head(context).line)}]_vars

\* Handlers of lines never run on top of each other: all gates clear the flag,
\* and an exception in a handler does not set it.
OneLineAtATime ==
  Cardinality({i \in DOMAIN context : context[i].line # -1}) <= 1

\* After a fatal exception the message stays: no interrupt is served and main
\* does not run again, and the colours are white on red when it is printed.
\* Only a single step trap, which leaves words on the stack of the handler,
\* lets it go astray (exceptions.c:45), and only while it still prints.
FatalStays ==
  [][Fatal => \/ /\ boot' = "lost" /\ Len(context) \in skewed
                 /\ Head(context).at # "loop"
              \/ /\ Fatal' /\ UNCHANGED <<boot, idt, masked, isr>>
                 /\ report' # report => foreground = "white" /\ background = "red"]_vars

\* A request waits for ever only if its line is masked (or line 2 is), if a
\* line of its priority or a higher one was left in service, after a fatal
\* exception, after a single step trap in main, which leaves the flag cleared,
\* and after one in a handler, whose iret then goes astray (boot is "lost").
Excused(line) ==
  \/ boot # "on" \/ Fatal
  \/ {line, MasterLine(line)} \cap masked # {}
  \/ \E k \in kept : Before(k, line) \/ k = MasterLine(line)
  \/ context = <<>> /\ ~interruptFlag

LinesServed ==
  \A line \in Lines : line \in irr ~> line \notin irr \/ Excused(line)

\* What the registers of the controllers hold is what is being handled, one
\* line at a time, but for what was left in service by a handler.
LinesAccounted == TypeOK /\ InServiceAccounted /\ OneLineAtATime

\* Every interrupt meets a handler that ends the right line, but for a gate
\* that is half written, until a fatal exception, which nothing gets past.
HandlersRight == InterruptsFindHandlers /\ EoiEndsOwnLine /\ FatalStays
==============================================================================
