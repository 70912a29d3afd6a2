---------------------------- MODULE InterruptsProofs ----------------------------
(***************************************************************************)
(* Proofs about interrupts and exceptions, for every set of lines and      *)
(* exceptions and any number of requests.  The inductive invariant Inv     *)
(* says what the handlers on top of each other can be: only the outermost  *)
(* one serves a line, since nothing else runs with the interrupt flag set, *)
(* and while it has not sent its end of interrupt its line is the one of   *)
(* highest priority in service.                                            *)
(***************************************************************************)
EXTENDS Interrupts, TLAPS, SequenceTheorems, FiniteSetTheorems

Contexts ==
  [handler : HandlerNames, line : Lines \cup {-1, -7, -15},
   at : {"start", "ended", "colors", "loop"}, flag : BOOLEAN]

\* A context is an exception, or it serves a line and is the outermost one.
\* Only the outermost one may have interrupted code with interrupts enabled.
ContextsRight ==
  /\ context \in Seq(Contexts)
  /\ \A i \in 1 .. Len(context) :
       LET c == context[i]
       IN  /\ c.line = -1 => c.handler \in FatalHandlers \cup {"single_step"}
           /\ c.line # -1 => c.handler \in {"handler", "default_interrupt_handler"}
           /\ i # Len(context) => c.line = -1 /\ ~c.flag
           /\ c.at \in {"colors", "loop"} => foreground = "white" /\ background = "red"

SetUp == boot \in {"on", "lost"}

\* The gates of interrupts hold a handler, but for the one main is storing.
GatesOfLines ==
  \A v \in Vectors \ (0 .. 18) :
    \/ idt[v] \in {"handler", "default_interrupt_handler"}
    \/ idt[v] = "torn" /\ \E line \in installing : v = Vector(line)

\* Until the table is set up nothing can be handled; then every gate is filled.
BootRight ==
  /\ ~SetUp =>
       /\ context = <<>> /\ ~interruptFlag /\ kept = {} /\ installing = {}
       /\ skewed = {}
       /\ \A v \in 0 .. 18 : idt[v] = "none"
  /\ SetUp =>
       /\ \A v \in 0 .. 18 : idt[v] \in FatalHandlers \cup {"single_step"}
       /\ GatesOfLines
  /\ \A l, m \in installing : l = m
  /\ context # <<>> => ~interruptFlag

\* What a context that serves a line put in service.
InServiceOf(line) ==
  IF line = -15 THEN {CascadeLine}
  ELSE IF line < 0 THEN {} ELSE {line, MasterLine(line)}

Outermost == context[Len(context)]

\* What is in service for the handler that runs, of highest priority on each
\* controller.
Serves ==
  IF context = <<>> \/ Outermost.at # "start" THEN {} ELSE InServiceOf(Outermost.line)

ServiceRight ==
  boot # "lost" =>
    /\ Serves \subseteq isr
    /\ isr \subseteq kept \cup Serves
    /\ \A s \in Serves, t \in isr : (Slave(s) <=> Slave(t)) => s <= t

Inv == TypeOK /\ ContextsRight /\ BootRight /\ ServiceRight

------------------------------------------------------------------------------
(***************************************************************************)
(* Lines, gates and handlers.                                              *)
(***************************************************************************)

\* Lines and vectors (pic.h, idt.h): a line's vector is in the table and is no
\* exception's.
LEMMA LineTypes ==
  /\ Lines \subseteq (0 .. 15) \ {2} /\ AllLines \subseteq 0 .. 15
  /\ CascadeLine \in AllLines /\ CascadeLine = 2 /\ 13 \in Vectors
  /\ \A line \in Lines \cup {7, 15} :
       Vector(line) \in Vectors \ (0 .. 18) /\ ~(Vector(line) > 256)
  /\ \A v \in 0 .. 18 : v \in Vectors
  /\ MaxNesting \in Nat \ {0}
<1>1. \A line \in Lines \cup {7, 15} : line \in 0 .. 15 /\ Vector(line) = 32 + line
  BY ConstantsAssumption DEF Vector, BASE0
<1>2. \A line \in Lines \cup {7, 15} : Vector(line) \in Vectors
  BY DEF Vectors
<1>3. QED
  BY <1>1, <1>2, ConstantsAssumption DEF AllLines, CascadeLine, Vectors

\* What pic.c takes for the line of the first controller.
LEMMA MasterLines ==
  \A line \in Lines : /\ MasterLine(line) \in AllLines /\ ~Slave(MasterLine(line))
                      /\ ~Slave(line) => MasterLine(line) = line
                      /\ Slave(line) => MasterLine(line) = CascadeLine
BY LineTypes DEF MasterLine, Slave, AllLines

\* The table of the exception handlers has one for every exception, and none of
\* them is a handler of interrupts (exceptions.c).
LEMMA ExceptionHandlers ==
  /\ \A v \in 0 .. 18 : get_default_exception_handler(v) \in FatalHandlers \cup {"single_step"}
  /\ "single_step" \notin FatalHandlers /\ "handler" \notin FatalHandlers
  /\ "default_interrupt_handler" \notin FatalHandlers /\ "none" \notin FatalHandlers
  /\ "irq7_handler" \notin FatalHandlers /\ "torn" \notin FatalHandlers
<1>1. DOMAIN error_handlers = 1 .. 19
  BY DEF error_handlers
<1>2. \A i \in 1 .. 19 : error_handlers[i] \in FatalHandlers \cup {"single_step"}
  BY <1>1 DEF FatalHandlers
<1>3. /\ \A i \in 1 .. 19 : error_handlers[i] # "handler"
      /\ \A i \in 1 .. 19 : error_handlers[i] # "default_interrupt_handler"
      /\ \A i \in 1 .. 19 : error_handlers[i] # "none"
      /\ \A i \in 1 .. 19 : error_handlers[i] # "irq7_handler"
      /\ \A i \in 1 .. 19 : error_handlers[i] # "torn"
  BY DEF error_handlers
<1>4. \A v \in 0 .. 18 : v + 1 \in 1 .. 19
  OBVIOUS
<1>5. \A v \in 0 .. 18 : get_default_exception_handler(v) \in FatalHandlers \cup {"single_step"}
  BY <1>2, <1>4 DEF get_default_exception_handler
<1>6. QED
  BY <1>1, <1>3, <1>5 DEF FatalHandlers

------------------------------------------------------------------------------
(***************************************************************************)
(* The stack of contexts.                                                  *)
(***************************************************************************)

\* What a sequence of contexts is.
LEMMA ContextTypes ==
  ASSUME context \in Seq(Contexts)
  PROVE  /\ Len(context) \in Nat
         /\ \A n \in 1 .. Len(context) : context[n] \in Contexts
         /\ DOMAIN context = 1 .. Len(context)
         /\ context = <<>> <=> Len(context) = 0
         /\ context # <<>> => Head(context) = context[1] /\ 1 \in 1 .. Len(context)
<1>1. Len(context) \in Nat /\ DOMAIN context = 1 .. Len(context)
  BY LenProperties
<1>2. context = <<>> <=> Len(context) = 0
  BY EmptySeq
<1>3. \A n \in 1 .. Len(context) : context[n] \in Contexts
  BY ElementOfSeq
<1>4. context # <<>> => Head(context) = context[1] /\ 1 \in 1 .. Len(context)
  BY <1>1, <1>2
<1>5. QED
  BY <1>1, <1>2, <1>3, <1>4

\* A context on top.
LEMMA Pushed ==
  ASSUME context \in Seq(Contexts), NEW c \in Contexts, context' = <<c>> \o context
  PROVE  /\ context' \in Seq(Contexts) /\ context' # <<>>
         /\ Len(context') = Len(context) + 1
         /\ context'[1] = c
         /\ \A n \in 1 .. Len(context) : context'[n + 1] = context[n]
         /\ \A n \in 2 .. Len(context') : context'[n] = context[n - 1]
<1>1. <<c>> \in Seq(Contexts) /\ Len(<<c>>) = 1 /\ <<c>>[1] = c
  OBVIOUS
<1>2. /\ context' \in Seq(Contexts)
      /\ Len(context') = 1 + Len(context)
      /\ \A n \in 1 .. 1 + Len(context) :
           context'[n] = IF n <= 1 THEN <<c>>[n] ELSE context[n - 1]
  BY <1>1, ConcatProperties
<1>3. Len(context) \in Nat
  BY ContextTypes
<1>4. \A n \in 1 .. Len(context) : context'[n + 1] = context[n]
  <2>1. ASSUME NEW n \in 1 .. Len(context)
        PROVE  context'[n + 1] = context[n]
    <3>1. n + 1 \in 1 .. 1 + Len(context) /\ ~(n + 1 <= 1) /\ n + 1 - 1 = n
      BY <1>3
    <3>2. QED
      BY <1>2, <3>1
  <2>2. QED
    BY <2>1
<1>5. context' # <<>>
  BY <1>2, <1>3
<1>6. QED
  BY <1>1, <1>2, <1>3, <1>4, <1>5

\* The innermost context is gone.
LEMMA Popped ==
  ASSUME context \in Seq(Contexts), context # <<>>, context' = Tail(context)
  PROVE  /\ context' \in Seq(Contexts)
         /\ Len(context') = Len(context) - 1
         /\ \A n \in 1 .. Len(context') : context'[n] = context[n + 1]
BY HeadTailProperties

\* The innermost context is at another place of its handler.
LEMMA Moved ==
  ASSUME context \in Seq(Contexts), context # <<>>,
         NEW at \in {"start", "ended", "colors", "loop"}, At(at)
  PROVE  /\ context' \in Seq(Contexts) /\ context' # <<>>
         /\ Len(context') = Len(context)
         /\ context'[1] = [context[1] EXCEPT !.at = at]
         /\ \A n \in 2 .. Len(context) : context'[n] = context[n]
<1> DEFINE c == [context[1] EXCEPT !.at = at]
           rest == Tail(context)
<1>1. Head(context) = context[1] /\ context[1] \in Contexts /\ Len(context) \in Nat \ {0}
  BY ContextTypes
<1>2. c \in Contexts
  BY <1>1 DEF Contexts
<1>3. context' = <<c>> \o rest
  BY <1>1 DEF At
<1>4. /\ rest \in Seq(Contexts) /\ Len(rest) = Len(context) - 1
      /\ \A n \in 1 .. Len(rest) : rest[n] = context[n + 1]
  BY HeadTailProperties
<1> HIDE DEF c, rest
<1>5. <<c>> \in Seq(Contexts) /\ Len(<<c>>) = 1 /\ <<c>>[1] = c
  BY <1>2
<1>6. /\ context' \in Seq(Contexts)
      /\ Len(context') = 1 + Len(rest)
      /\ \A n \in 1 .. 1 + Len(rest) :
           context'[n] = IF n <= 1 THEN <<c>>[n] ELSE rest[n - 1]
  BY <1>3, <1>4, <1>5, ConcatProperties
<1>7. \A n \in 2 .. Len(context) : context'[n] = context[n]
  <2>1. ASSUME NEW n \in 2 .. Len(context)
        PROVE  context'[n] = context[n]
    <3>1. n \in 1 .. 1 + Len(rest) /\ ~(n <= 1) /\ n - 1 \in 1 .. Len(rest) /\ n - 1 + 1 = n
      BY <1>1, <1>4
    <3>2. QED
      BY <1>4, <1>6, <3>1
  <2>2. QED
    BY <2>1
<1>8. context'[1] = c
  BY <1>1, <1>4, <1>5, <1>6
<1>9. context' # <<>>
  BY <1>1, <1>4, <1>6
<1>10. QED
  BY <1>1, <1>4, <1>6, <1>7, <1>8, <1>9 DEF c

\* A new context changes what is served only if it is the outermost one.
LEMMA ServesPushed ==
  ASSUME context \in Seq(Contexts), NEW c \in Contexts, c.at = "start",
         context' = <<c>> \o context
  PROVE  Serves' = IF context = <<>> THEN InServiceOf(c.line) ELSE Serves
<1>1. /\ context' # <<>> /\ Len(context') = Len(context) + 1 /\ context'[1] = c
      /\ \A n \in 1 .. Len(context) : context'[n + 1] = context[n]
  BY Pushed
<1>2. CASE context = <<>>
  <2>1. Len(context) = 0
    BY <1>2
  <2>2. context'[Len(context')] = c
    BY <1>1, <2>1
  <2>3. QED
    BY <1>1, <1>2, <2>2 DEF Serves, Outermost
<1>3. CASE context # <<>>
  <2>1. Len(context) \in 1 .. Len(context)
    BY <1>3, ContextTypes
  <2>2. context'[Len(context')] = context[Len(context)]
    BY <1>1, <2>1
  <2>3. QED
    BY <1>1, <1>3, <2>2 DEF Serves, Outermost
<1>4. QED
  BY <1>2, <1>3

\* The outermost context ends its service when it returns.
LEMMA ServesPopped ==
  ASSUME context \in Seq(Contexts), context # <<>>, context' = Tail(context)
  PROVE  /\ Serves' = IF Len(context) = 1 THEN {} ELSE Serves
         /\ context' = <<>> <=> Len(context) = 1
<1>1. /\ context' \in Seq(Contexts) /\ Len(context') = Len(context) - 1
      /\ \A n \in 1 .. Len(context') : context'[n] = context[n + 1]
      /\ Len(context) \in Nat \ {0}
  BY Popped, ContextTypes
<1>2. context' = <<>> <=> Len(context') = 0
  BY <1>1, EmptySeq
<1>3. CASE Len(context) = 1
  BY <1>1, <1>2, <1>3 DEF Serves
<1>4. CASE Len(context) # 1
  <2>1. Len(context') \in 1 .. Len(context') /\ Len(context') + 1 = Len(context)
    BY <1>1, <1>4
  <2>2. context'[Len(context')] = context[Len(context)]
    BY <1>1, <2>1
  <2>3. QED
    BY <1>1, <1>2, <1>4, <2>2 DEF Serves, Outermost
<1>5. QED
  BY <1>3, <1>4

\* The outermost context ends its service when it leaves its start.
LEMMA ServesMoved ==
  ASSUME context \in Seq(Contexts), context # <<>>,
         NEW at \in {"ended", "colors", "loop"}, At(at)
  PROVE  Serves' = IF Len(context) = 1 THEN {} ELSE Serves
<1>1. /\ context' # <<>> /\ Len(context') = Len(context)
      /\ context'[1] = [context[1] EXCEPT !.at = at]
      /\ \A n \in 2 .. Len(context) : context'[n] = context[n]
      /\ Len(context) \in Nat \ {0} /\ context[1] \in Contexts
  BY Moved, ContextTypes
<1>2. CASE Len(context) = 1
  <2>1. context'[1].at = at
    BY <1>1 DEF Contexts
  <2>2. QED
    BY <1>1, <1>2, <2>1 DEF Serves, Outermost
<1>3. CASE Len(context) # 1
  <2>1. Len(context) \in 2 .. Len(context)
    BY <1>1, <1>3
  <2>2. context'[Len(context')] = context[Len(context)]
    BY <1>1, <2>1
  <2>3. QED
    BY <1>1, <1>3, <2>2 DEF Serves, Outermost
<1>4. QED
  BY <1>2, <1>3

------------------------------------------------------------------------------
(***************************************************************************)
(* Entering a handler.                                                     *)
(***************************************************************************)

\* With the table set up the CPU finds a handler behind every gate, which
\* starts with the interrupt flag clear (idt.c:40-51).
LEMMA Entered ==
  ASSUME TypeOK, ContextsRight, BootRight, boot = "on",
         NEW vector \in Vectors, NEW line \in Lines \cup {-1, -7, -15},
         line = -1 <=> vector \in 0 .. 18,
         context # <<>> => line = -1 /\ Len(context) < MaxNesting,
         idt[vector] # "torn", Enter(vector, line),
         UNCHANGED <<idt, skewed, foreground, background>>
  PROVE  /\ UNCHANGED boot /\ interruptFlag' = FALSE
         /\ Len(context') <= MaxNesting /\ skewed' \subseteq 0 .. Len(context')
         /\ \A n \in DOMAIN context' : context'[n].handler \in HandlerNames
         /\ context' # <<>> /\ context'[1].handler = idt[vector]
         /\ Len(context') = Len(context) + 1
         /\ \A n \in 1 .. Len(context) : context'[n + 1] = context[n]
         /\ ContextsRight'
         /\ Serves' = IF context = <<>> THEN InServiceOf(line) ELSE Serves
<1> DEFINE c == [handler |-> idt[vector], line |-> line, at |-> "start",
                 flag |-> interruptFlag]
<1>1. /\ line = -1 => idt[vector] \in FatalHandlers \cup {"single_step"}
      /\ line # -1 => idt[vector] \in {"handler", "default_interrupt_handler"}
      /\ idt[vector] \in HandlerNames /\ idt[vector] # "none"
  BY ExceptionHandlers DEF BootRight, SetUp, GatesOfLines, HandlerNames
<1>2. /\ context' = <<c>> \o context /\ interruptFlag' = FALSE /\ UNCHANGED boot
  <2>1. Push(idt[vector], line)
    BY <1>1 DEF Enter
  <2>2. QED
    BY <2>1 DEF Push, FlagInGate
<1>3. c \in Contexts /\ c.at = "start" /\ c.line = line /\ c.handler = idt[vector]
      /\ c.flag = interruptFlag
  BY <1>1 DEF Contexts, TypeOK
<1>4. context \in Seq(Contexts)
  BY DEF ContextsRight
<1> HIDE DEF c
<1>5. /\ context' \in Seq(Contexts) /\ context' # <<>>
      /\ Len(context') = Len(context) + 1 /\ context'[1] = c
      /\ \A n \in 1 .. Len(context) : context'[n + 1] = context[n]
      /\ \A n \in 2 .. Len(context') : context'[n] = context[n - 1]
      /\ Len(context) \in Nat /\ (context = <<>> <=> Len(context) = 0)
  BY <1>2, <1>3, <1>4, Pushed, ContextTypes
<1>6. /\ \A n \in 1 .. Len(context') : context'[n] \in Contexts
      /\ DOMAIN context' = 1 .. Len(context')
  BY <1>5, ElementOfSeq, LenProperties
<1>7. \A n \in DOMAIN context' : context'[n].handler \in HandlerNames
  BY <1>6 DEF Contexts
<1>8. Len(context') <= MaxNesting
  <2>1. PICK len \in Nat : len = Len(context) /\ Len(context') = len + 1
                          /\ (len = 0 \/ len < MaxNesting)
    BY <1>5
  <2>2. MaxNesting \in Nat \ {0}
    BY LineTypes
  <2>3. QED
    BY <2>1, <2>2
<1>9. ContextsRight'
  <2>1. ASSUME NEW n \in 1 .. Len(context')
        PROVE  /\ context'[n].line = -1
                    => context'[n].handler \in FatalHandlers \cup {"single_step"}
               /\ context'[n].line # -1
                    => context'[n].handler \in {"handler", "default_interrupt_handler"}
               /\ n # Len(context') => context'[n].line = -1 /\ ~context'[n].flag
               /\ context'[n].at \in {"colors", "loop"}
                    => foreground' = "white" /\ background' = "red"
    <3>1. CASE n = 1
      <4>1. n # Len(context') => context # <<>>
        BY <1>5, <3>1
      <4>2. n # Len(context') => line = -1 /\ ~interruptFlag
        BY <4>1 DEF BootRight
      <4>3. QED
        BY <1>1, <1>3, <1>5, <3>1, <4>2
    <3>2. CASE n # 1
      <4>1. /\ n - 1 \in 1 .. Len(context) /\ context'[n] = context[n - 1]
            /\ n # Len(context') => n - 1 # Len(context)
        BY <1>5, <3>2
      <4>2. QED
        BY <4>1 DEF ContextsRight
    <3>3. QED
      BY <3>1, <3>2
  <2>2. QED
    BY <1>5, <2>1 DEF ContextsRight
<1>10. Serves' = IF context = <<>> THEN InServiceOf(line) ELSE Serves
  BY <1>2, <1>3, <1>4, ServesPushed
<1>11. skewed' \subseteq 0 .. Len(context')
  <2>1. skewed \subseteq 0 .. Len(context)
    BY DEF TypeOK
  <2>2. QED
    BY <1>5, <2>1
<1>12. QED
  BY <1>2, <1>3, <1>5, <1>7, <1>8, <1>9, <1>10, <1>11

------------------------------------------------------------------------------
(***************************************************************************)
(* The actions.  HandlersRight in three parts, of which each step keeps    *)
(* its own.                                                                *)
(***************************************************************************)
FindsHandler ==
  boot # "entry" /\ ~(irr \subseteq irr') =>
    \/ boot' = "on" /\ Head(context').handler \notin FatalHandlers
    \/ /\ boot' = "lost"
       /\ \E line \in installing : line \in irr \ (irr' \cup masked) \/ line \in {7, 15}

EndsOwnLine ==
  HandlerEoi /\ Head(context).line >= 0 =>
    isr \ isr' = {Head(context).line, MasterLine(Head(context).line)}

StaysFatal ==
  Fatal => \/ /\ boot' = "lost" /\ Len(context) \in skewed
              /\ Head(context).at # "loop"
           \/ /\ Fatal' /\ UNCHANGED <<boot, idt, masked, isr>>
              /\ report' # report => foreground = "white" /\ background = "red"

\* While main runs nothing fatal has happened and nothing is served.
LEMMA MainRuns ==
  ASSUME ContextsRight, context = <<>>
  PROVE  ~Fatal /\ ~HandlerEoi /\ Serves = {}
BY DEF Fatal, HandlerEoi, In, Serves

\* Control goes where no handler is: the rest stays as it was.
LEMMA StopRight ==
  ASSUME Inv, boot = "on", Stop("lost"),
         UNCHANGED <<gateVars, masked, skewed, screenVars>>,
         irr' \subseteq Lines, isr' \subseteq AllLines, kept' \subseteq isr'
  PROVE  /\ TypeOK' /\ ContextsRight' /\ BootRight' /\ ServiceRight'
         /\ boot' = "lost" /\ UNCHANGED context /\ (Fatal => Fatal')
<1>1. /\ boot' = "lost"
      /\ UNCHANGED <<idt, installing, interruptFlag, context, masked, skewed,
                     foreground, background, report>>
  BY DEF Stop, gateVars, screenVars
<1>2. TypeOK'
  BY <1>1 DEF Inv, TypeOK
<1>3. ContextsRight'
  BY <1>1 DEF Inv, ContextsRight
<1>4. BootRight'
  BY <1>1 DEF Inv, BootRight, SetUp, GatesOfLines
<1>5. QED
  BY <1>1, <1>2, <1>3, <1>4 DEF ServiceRight, Fatal

\* The initial states.
LEMMA InitInv == ASSUME Init PROVE Inv
<1>1. context = <<>> /\ Len(context) = 0 /\ DOMAIN context = {}
  BY DEF Init
<1>2. context \in Seq(Contexts)
  BY <1>1, EmptySeq
<1>3. TypeOK
  <2>1. Len(context) <= MaxNesting
    BY <1>1, LineTypes
  <2>2. \A n \in DOMAIN context : context[n].handler \in HandlerNames
    BY <1>1
  <2>3. idt \in [Vectors -> HandlerNames \cup {"none", "torn"}]
    BY DEF Init
  <2>4. QED
    BY <2>1, <2>2, <2>3 DEF Init, TypeOK
<1>4. ContextsRight
  BY <1>1, <1>2 DEF ContextsRight
<1>5. BootRight
  BY LineTypes DEF Init, BootRight, SetUp
<1>6. ServiceRight
  BY <1>1 DEF Init, ServiceRight, Serves
<1>7. QED
  BY <1>3, <1>4, <1>5, <1>6 DEF Inv

\* The set-up of entry() (kernel_loader.c:14-16).
LEMMA SetUpInv ==
  ASSUME Inv, initialize_pic \/ initialize_idt
  PROVE  Inv' /\ FindsHandler /\ EndsOwnLine /\ StaysFatal
<1>1. /\ context = <<>>
      /\ UNCHANGED <<context, skewed, installing, kept, foreground, background, report>>
      /\ boot \in {"entry", "pic"} /\ kept = {} /\ installing = {}
  BY DEF initialize_pic, initialize_idt, Main, screenVars, Inv, BootRight, SetUp
<1>2. ~Fatal /\ ~HandlerEoi /\ Serves = {} /\ Serves' = Serves
  BY <1>1, MainRuns DEF Inv, Serves, Outermost
<1>3. ContextsRight'
  BY <1>1 DEF Inv, ContextsRight
<1>4. idt' \in [Vectors -> HandlerNames \cup {"none", "torn"}] /\ BootRight'
  <2>1. CASE initialize_pic
    <3>1. boot' = "pic" /\ UNCHANGED interruptFlag
      BY <2>1 DEF initialize_pic
    <3>2. idt' = [idt EXCEPT ![Vector(7)] = "irq7_handler"]
      BY <2>1, LineTypes DEF initialize_pic, idt_install_handler
    <3>3. QED
      BY <1>1, <3>1, <3>2, LineTypes DEF Inv, TypeOK, HandlerNames, BootRight, SetUp
  <2>2. CASE initialize_idt
    <3>1. boot' = "on" /\ idt' = DefaultGates
      BY <2>2 DEF initialize_idt
    <3>2. /\ \A v \in 0 .. 18 : idt'[v] \in FatalHandlers \cup {"single_step"}
          /\ \A v \in Vectors \ (0 .. 18) : idt'[v] = "default_interrupt_handler"
      <4>1. \A v \in 0 .. 18 : v < 19
        OBVIOUS
      <4>2. \A v \in Vectors \ (0 .. 18) : ~(v < 19)
        BY LineTypes, ConstantsAssumption DEF Vectors, Vector, BASE0
      <4>3. QED
        BY <3>1, <4>1, <4>2, LineTypes, ExceptionHandlers DEF DefaultGates
    <3>3. idt' \in [Vectors -> HandlerNames \cup {"none", "torn"}]
      <4>1. \A v \in Vectors : idt'[v] \in HandlerNames \cup {"none", "torn"}
        BY <3>2 DEF HandlerNames
      <4>2. QED
        BY <3>1, <4>1 DEF DefaultGates
    <3>4. QED
      BY <1>1, <3>1, <3>2, <3>3 DEF BootRight, SetUp, GatesOfLines
  <2>3. QED
    BY <2>1, <2>2
<1>5. /\ boot' \in {"pic", "on"} /\ interruptFlag' \in BOOLEAN
      /\ masked' \subseteq AllLines /\ irr' \subseteq Lines /\ isr' \subseteq isr
      /\ boot # "entry" => irr' = irr
  BY DEF initialize_pic, initialize_idt, picVars, Inv, TypeOK
<1>6. TypeOK'
  BY <1>1, <1>4, <1>5 DEF Inv, TypeOK
<1>7. ServiceRight'
  BY <1>1, <1>2, <1>5 DEF Inv, ServiceRight
<1>8. FindsHandler
  BY <1>5 DEF FindsHandler
<1>9. QED
  BY <1>2, <1>3, <1>4, <1>6, <1>7, <1>8 DEF Inv, EndsOwnLine, StaysFatal

\* The functions of pic.c and the timer that main calls, and the devices.
LEMMA MainInv ==
  ASSUME Inv,
         \/ pit_start_counter
         \/ \E line \in Lines : pic_set_irq(line) \/ StoreBaseLow(line) \/ Raise(line)
         \/ \E line \in AllLines : pic_enable_irq(line) \/ pic_disable_irq(line)
  PROVE  Inv' /\ FindsHandler /\ EndsOwnLine /\ StaysFatal
<1>1. /\ UNCHANGED <<context, skewed, kept, foreground, background, report, boot, isr>>
      /\ irr \subseteq irr' /\ irr' \subseteq Lines /\ masked' \subseteq AllLines
  BY LineTypes DEF pit_start_counter, pic_set_irq, StoreBaseLow, Raise, pic_enable_irq,
    pic_disable_irq, Kernel, Main, screenVars, picVars, Inv, TypeOK, AllLines
<1>2. Serves' = Serves
  BY <1>1 DEF Serves, Outermost
<1>3. \/ context = <<>> /\ boot = "on"
      \/ UNCHANGED <<idt, installing, interruptFlag, masked>>
  BY DEF pit_start_counter, pic_set_irq, StoreBaseLow, Raise, pic_enable_irq,
    pic_disable_irq, Kernel, Main, gateVars
<1>4. /\ \/ UNCHANGED <<idt, installing>>
         \/ \E line \in Lines : pic_set_irq(line) \/ StoreBaseLow(line)
      /\ interruptFlag' \in {interruptFlag, TRUE}
  BY DEF pit_start_counter, pic_set_irq, StoreBaseLow, Raise, pic_enable_irq,
    pic_disable_irq, gateVars
<1>5. /\ idt' \in [Vectors -> HandlerNames \cup {"none", "torn"}]
      /\ \A v \in 0 .. 18 : idt'[v] = idt[v]
      /\ GatesOfLines => GatesOfLines'
      /\ installing' \subseteq Lines /\ \A l, m \in installing' : l = m
  <2>1. /\ idt \in [Vectors -> HandlerNames \cup {"none", "torn"}]
        /\ "handler" \in HandlerNames
        /\ installing \subseteq Lines /\ \A l, m \in installing : l = m
    BY DEF Inv, TypeOK, HandlerNames, BootRight
  <2>2. CASE UNCHANGED <<idt, installing>>
    BY <2>1, <2>2, LineTypes DEF GatesOfLines
  <2>3. ASSUME NEW line \in Lines, pic_set_irq(line)
        PROVE  <1>5!1 /\ <1>5!2 /\ <1>5!3 /\ <1>5!4
    <3>1. Vector(line) \in Vectors \ (0 .. 18)
      BY LineTypes
    <3>2. /\ idt' \in {idt, [idt EXCEPT ![Vector(line)] = "torn"]}
          /\ installing = {} /\ installing' = {line}
      BY <2>3, LineTypes DEF pic_set_irq, idt_install_handler, Kernel
    <3>3. QED
      BY <2>1, <3>1, <3>2, LineTypes DEF GatesOfLines
  <2>4. ASSUME NEW line \in Lines, StoreBaseLow(line)
        PROVE  <1>5!1 /\ <1>5!2 /\ <1>5!3 /\ <1>5!4
    <3>1. Vector(line) \in Vectors \ (0 .. 18)
      BY LineTypes
    <3>2. /\ idt' = [idt EXCEPT ![Vector(line)] = "handler"]
          /\ line \in installing /\ installing' = {}
      BY <2>4, LineTypes DEF StoreBaseLow, idt_install_handler
    <3>3. installing = {line}
      BY <2>1, <3>2
    <3>4. QED
      BY <2>1, <3>1, <3>2, <3>3, LineTypes DEF GatesOfLines
  <2>5. QED
    BY <1>4, <2>2, <2>3, <2>4
<1>6. TypeOK'
  BY <1>1, <1>4, <1>5 DEF Inv, TypeOK
<1>7. ContextsRight'
  BY <1>1 DEF Inv, ContextsRight
<1>8. BootRight'
  BY <1>1, <1>3, <1>5 DEF Inv, BootRight, SetUp
<1>9. ServiceRight'
  BY <1>1, <1>2 DEF Inv, ServiceRight
<1>10. ~HandlerEoi /\ StaysFatal
  <2>1. ~HandlerEoi
    <3>1. HandlerEoi => context' # context
      <4>1. SUFFICES ASSUME HandlerEoi, context' = context PROVE FALSE
        OBVIOUS
      <4>2. /\ context # <<>> /\ Head(context).at = "start" /\ At("ended")
            /\ context \in Seq(Contexts)
        BY <4>1 DEF HandlerEoi, In, Inv, ContextsRight
      <4>3. /\ context'[1] = [context[1] EXCEPT !.at = "ended"]
            /\ Head(context) = context[1] /\ context[1] \in Contexts
        BY <4>2, Moved, ContextTypes
      <4>4. context'[1].at = "ended"
        BY <4>3 DEF Contexts
      <4>5. QED
        BY <4>1, <4>2, <4>3, <4>4
    <3>2. QED
      BY <1>1, <3>1
  <2>2. StaysFatal
    BY <1>1, <1>3, MainRuns DEF Inv, StaysFatal, Fatal
  <2>3. QED
    BY <2>1, <2>2
<1>11. QED
  BY <1>1, <1>6, <1>7, <1>8, <1>9, <1>10 DEF Inv, FindsHandler, EndsOwnLine

\* A line's request is delivered over lines of lower priority only.
LEMMA DeliveredOverLower ==
  ASSUME TypeOK, NEW line \in Lines, Deliverable(line)
  PROVE  /\ \A t \in isr : ~Slave(t) => t > MasterLine(line)
         /\ Slave(line) => \A t \in isr : Slave(t) => t > line
BY DEF Deliverable

\* The CPU answers a request, real or gone: interrupts are enabled, so main
\* runs and the table is set up.
LEMMA InterruptInv ==
  ASSUME Inv, Interrupt
  PROVE  Inv' /\ FindsHandler /\ EndsOwnLine /\ StaysFatal
<1>1. PICK line \in Lines : Acknowledge(line) \/ Spurious(line)
  BY DEF Interrupt
<1> DEFINE code == IF Acknowledge(line) THEN line ELSE IF Slave(line) THEN -15 ELSE -7
           vector == Vector(IF Acknowledge(line) THEN line ELSE IF Slave(line) THEN 15 ELSE 7)
<1>2. /\ interruptFlag /\ Running /\ Chosen(line) /\ irr' = irr \ {line}
      /\ Enter(vector, code)
      /\ UNCHANGED <<idt, installing, masked, skewed, foreground, background, report, kept>>
  BY <1>1 DEF Acknowledge, Spurious, screenVars, gateVars
<1>3. context = <<>> /\ boot = "on"
  BY <1>2 DEF Inv, BootRight, SetUp, Running
<1>4. Serves = {} /\ ~Fatal /\ ~HandlerEoi
  BY <1>3, MainRuns DEF Inv
<1>5. /\ vector \in Vectors \ (0 .. 18)
      /\ code \in Lines \cup {-7, -15} /\ code # -1
  BY LineTypes
<1>6. isr' = isr \cup InServiceOf(code)
  BY <1>1, LineTypes DEF Acknowledge, Spurious, InServiceOf
<1>7. /\ InServiceOf(code) \subseteq AllLines
      /\ \A s \in InServiceOf(code) :
           s = MasterLine(line) \/ (s = line /\ Slave(line))
  BY <1>1, LineTypes, MasterLines DEF InServiceOf, AllLines
<1> HIDE DEF code, vector
<1>8. GatesOfLines
  BY <1>3 DEF Inv, BootRight, SetUp
<1>9. CASE idt[vector] = "torn"
  <2>1. Stop("lost")
    BY <1>2, <1>9 DEF Enter
  <2>2. boot' = "lost" /\ UNCHANGED <<gateVars, masked, skewed, screenVars>>
    BY <1>2, <2>1 DEF Stop, gateVars, screenVars
  <2>3. isr' \subseteq AllLines /\ kept' \subseteq isr'
    BY <1>2, <1>6, <1>7 DEF Inv, TypeOK
  <2>4. TypeOK' /\ ContextsRight' /\ BootRight' /\ ServiceRight'
    <3>1. irr' \subseteq Lines
      BY <1>2 DEF Inv, TypeOK
    <3>2. QED
      BY <1>3, <2>1, <2>2, <2>3, <3>1, StopRight DEF Inv
  <2>5. PICK l \in installing : vector = Vector(l)
    BY <1>5, <1>8, <1>9 DEF GatesOfLines
  <2>6. l = (IF Acknowledge(line) THEN line ELSE IF Slave(line) THEN 15 ELSE 7)
    <3>1. l \in 0 .. 15 /\ line \in 0 .. 15
      BY <2>5, LineTypes DEF Inv, TypeOK
    <3>2. QED
      BY <2>5, <3>1 DEF vector, Vector, BASE0
  <2>7. Acknowledge(line) => line \in irr \ (irr' \cup masked)
    BY <1>2 DEF Chosen, Deliverable
  <2>8. FindsHandler
    BY <2>2, <2>5, <2>6, <2>7 DEF FindsHandler
  <2>9. QED
    BY <1>4, <2>4, <2>8 DEF Inv, EndsOwnLine, StaysFatal
<1>10. CASE idt[vector] # "torn"
  <2>1. /\ UNCHANGED boot /\ interruptFlag' = FALSE /\ Len(context') <= MaxNesting
        /\ skewed' \subseteq 0 .. Len(context')
        /\ \A n \in DOMAIN context' : context'[n].handler \in HandlerNames
        /\ context' # <<>> /\ context'[1].handler = idt[vector]
        /\ ContextsRight' /\ Serves' = InServiceOf(code)
    BY <1>2, <1>3, <1>5, <1>10, Entered DEF Inv
  <2>2. TypeOK'
    BY <1>2, <1>6, <1>7, <2>1 DEF Inv, TypeOK
  <2>3. BootRight'
    BY <1>2, <1>3, <2>1 DEF Inv, BootRight, SetUp, GatesOfLines
  <2>4. ServiceRight'
    <3>1. ASSUME NEW s \in InServiceOf(code), NEW t \in isr', Slave(s) <=> Slave(t)
          PROVE  s <= t
      <4>1. s \in 0 .. 15 /\ t \in 0 .. 15
        BY <1>6, <1>7, LineTypes DEF Inv, TypeOK
      <4>2. CASE t \in isr
        <5>1. Deliverable(line)
          BY <1>2 DEF Chosen
        <5>2. QED
          BY <1>7, <3>1, <4>1, <4>2, <5>1, DeliveredOverLower, MasterLines DEF Inv
      <4>3. CASE t \in InServiceOf(code)
        BY <1>7, <3>1, <4>1, <4>3, MasterLines
      <4>4. QED
        BY <1>6, <4>2, <4>3
    <3>2. QED
      BY <1>2, <1>3, <1>4, <1>6, <2>1, <3>1 DEF Inv, ServiceRight
  <2>5. FindsHandler
    <3>1. Head(context').handler = idt[vector]
      BY <2>1
    <3>2. idt[vector] \in {"handler", "default_interrupt_handler"}
      BY <1>5, <1>8, <1>10 DEF GatesOfLines
    <3>3. QED
      BY <1>3, <2>1, <3>1, <3>2, ExceptionHandlers DEF FindsHandler
  <2>6. QED
    BY <1>4, <2>1, <2>2, <2>3, <2>4, <2>5 DEF Inv, EndsOwnLine, StaysFatal
<1>11. QED
  BY <1>9, <1>10

\* An exception, in main or in a handler; before the table is set up it resets
\* the machine.
LEMMA ExceptionInv ==
  ASSUME Inv, NEW v \in Exceptions, Exception(v)
  PROVE  Inv' /\ FindsHandler /\ EndsOwnLine /\ StaysFatal
<1>1. /\ Enter(v, -1) /\ Len(context) < MaxNesting /\ Running
      /\ UNCHANGED <<idt, installing, masked, irr, isr, skewed, foreground, background,
                     report, kept>>
  BY DEF Exception, picVars, screenVars, gateVars
<1>2. v \in 0 .. 18 /\ v \in Vectors
  BY LineTypes, ConstantsAssumption
<1>3. FindsHandler
  BY <1>1 DEF FindsHandler
<1>4. CASE boot # "on"
  <2>1. ~SetUp
    BY <1>1, <1>4 DEF SetUp, Running
  <2>2. /\ boot' = "reset" /\ UNCHANGED <<interruptFlag, context>>
    <3>1. 13 \in 0 .. 18
      OBVIOUS
    <3>2. \A w \in 0 .. 18 : idt[w] = "none"
      BY <2>1 DEF Inv, BootRight
    <3>3. idt[v] = "none" /\ idt[13] = "none"
      BY <1>2, <3>1, <3>2
    <3>4. QED
      BY <1>1, <3>3 DEF Enter, Stop
  <2>3. context = <<>> /\ ~Fatal /\ ~HandlerEoi /\ Serves' = Serves
    BY <2>1, <2>2, MainRuns DEF Inv, BootRight, Serves, Outermost
  <2>4. TypeOK'
    BY <1>1, <2>2 DEF Inv, TypeOK
  <2>5. ContextsRight'
    BY <1>1, <2>2 DEF Inv, ContextsRight
  <2>6. BootRight'
    BY <1>1, <2>1, <2>2 DEF Inv, BootRight, SetUp
  <2>7. ServiceRight'
    BY <1>1, <1>4, <2>1, <2>3 DEF Inv, ServiceRight, SetUp
  <2>8. QED
    BY <1>3, <2>3, <2>4, <2>5, <2>6, <2>7 DEF Inv, EndsOwnLine, StaysFatal
<1>5. CASE boot = "on"
  <2>1. /\ UNCHANGED boot /\ interruptFlag' = FALSE /\ Len(context') <= MaxNesting
        /\ skewed' \subseteq 0 .. Len(context')
        /\ \A n \in DOMAIN context' : context'[n].handler \in HandlerNames
        /\ context' # <<>> /\ Len(context') = Len(context) + 1
        /\ \A n \in 1 .. Len(context) : context'[n + 1] = context[n]
        /\ ContextsRight'
        /\ Serves' = IF context = <<>> THEN InServiceOf(-1) ELSE Serves
    <3>1. idt[v] # "torn"
      BY <1>2, <1>5, ExceptionHandlers DEF Inv, BootRight, SetUp
    <3>2. QED
      BY <1>1, <1>2, <1>5, <3>1, Entered DEF Inv
  <2>2. Serves' = Serves
    BY <2>1 DEF Serves, InServiceOf
  <2>3. TypeOK'
    BY <1>1, <2>1 DEF Inv, TypeOK
  <2>4. BootRight'
    BY <1>1, <1>5, <2>1 DEF Inv, BootRight, SetUp, GatesOfLines
  <2>5. ServiceRight'
    BY <1>1, <2>1, <2>2 DEF Inv, ServiceRight
  <2>6. Len(context) \in Nat /\ context \in Seq(Contexts) /\ DOMAIN context = 1 .. Len(context)
    BY ContextTypes DEF Inv, ContextsRight
  <2>7. ~HandlerEoi
    <3>1. HandlerEoi => Len(context') = Len(context)
      BY <2>6, Moved DEF HandlerEoi, In
    <3>2. Len(context') = Len(context) + 1
      BY <2>1
    <3>3. Len(context) \in Nat
      BY <2>6
    <3>4. Len(context') # Len(context)
      BY <3>2, <3>3
    <3>5. QED
      BY <3>1, <3>4
  <2>8. StaysFatal
    <3>1. ASSUME NEW n \in DOMAIN context, context[n].handler \in FatalHandlers
          PROVE  Fatal'
      <4>1. context'[n + 1] = context[n]
        BY <2>1, <2>6
      <4>2. n + 1 \in DOMAIN context'
        BY <2>1, <2>6, LenProperties DEF ContextsRight
      <4>3. QED
        BY <3>1, <4>1, <4>2 DEF Fatal
    <3>2. Fatal => Fatal'
      BY <3>1 DEF Fatal
    <3>3. QED
      BY <1>1, <2>1, <3>2 DEF StaysFatal
  <2>9. QED
    BY <1>3, <2>1, <2>3, <2>4, <2>5, <2>7, <2>8 DEF Inv, EndsOwnLine
<1>6. QED
  BY <1>4, <1>5

\* The handler of a line is the only context there is.
LEMMA LineHandler ==
  ASSUME ContextsRight, context # <<>>,
         Head(context).handler \in {"handler", "default_interrupt_handler", "irq7_handler"}
  PROVE  /\ Len(context) = 1 /\ Head(context) = context[1] /\ context[1] \in Contexts
         /\ Head(context).line \in Lines \cup {-7, -15}
         /\ Serves = IF Head(context).at = "start" THEN InServiceOf(Head(context).line) ELSE {}
         /\ ~Fatal
<1>1. /\ context \in Seq(Contexts) /\ 1 \in 1 .. Len(context)
      /\ Head(context) = context[1] /\ context[1] \in Contexts
      /\ DOMAIN context = 1 .. Len(context) /\ Len(context) \in Nat
  BY ContextTypes DEF ContextsRight
<1>2. context[1].line # -1
  BY <1>1, ExceptionHandlers DEF ContextsRight
<1>3. Len(context) = 1
  BY <1>1, <1>2 DEF ContextsRight
<1>4. context[1].line \in Lines \cup {-7, -15}
  BY <1>1, <1>2 DEF Contexts
<1>5. DOMAIN context = {1}
  BY <1>1, <1>3
<1>6. ~Fatal
  BY <1>1, <1>5, ExceptionHandlers DEF Fatal
<1>7. QED
  BY <1>1, <1>3, <1>4, <1>6 DEF Serves, Outermost

\* Contexts that stay where they are under one that returns stay right.
LEMMA PoppedRight ==
  ASSUME TypeOK, ContextsRight, context # <<>>, context' = Tail(context),
         Len(context) \notin skewed, UNCHANGED <<foreground, background>>
  PROVE  /\ ContextsRight' /\ Len(context') <= MaxNesting
         /\ skewed \cup {Len(context) - 1} \subseteq 0 .. Len(context')
         /\ \A n \in DOMAIN context' : context'[n].handler \in HandlerNames
         /\ (Fatal /\ Head(context).handler \notin FatalHandlers) => Fatal'
<1>1. /\ context \in Seq(Contexts) /\ Len(context) \in Nat \ {0}
      /\ DOMAIN context = 1 .. Len(context) /\ Head(context) = context[1]
      /\ context' \in Seq(Contexts) /\ Len(context') = Len(context) - 1
      /\ \A n \in 1 .. Len(context') : context'[n] = context[n + 1]
      /\ DOMAIN context' = 1 .. Len(context')
  BY ContextTypes, Popped, LenProperties DEF ContextsRight
<1>2. \A n \in 1 .. Len(context') :
        /\ n + 1 \in 1 .. Len(context)
        /\ n # Len(context') => n + 1 # Len(context)
  <2> DEFINE len == Len(context)
  <2>1. len \in Nat \ {0} /\ Len(context') = len - 1
    BY <1>1
  <2> HIDE DEF len
  <2>2. \A n \in 1 .. (len - 1) : n + 1 \in 1 .. len /\ (n # len - 1 => n + 1 # len)
    BY <2>1
  <2>3. QED
    BY <2>1, <2>2 DEF len
<1>3. ContextsRight'
  <2>1. ASSUME NEW n \in 1 .. Len(context')
        PROVE  /\ context'[n].line = -1
                    => context'[n].handler \in FatalHandlers \cup {"single_step"}
               /\ context'[n].line # -1
                    => context'[n].handler \in {"handler", "default_interrupt_handler"}
               /\ n # Len(context') => context'[n].line = -1 /\ ~context'[n].flag
               /\ context'[n].at \in {"colors", "loop"}
                    => foreground' = "white" /\ background' = "red"
    <3>1. context'[n] = context[n + 1] /\ UNCHANGED <<foreground, background>>
      BY <1>1
    <3>2. n + 1 \in 1 .. Len(context) /\ (n # Len(context') => n + 1 # Len(context))
      BY <1>2
    <3> DEFINE m == n + 1
    <3> HIDE DEF m
    <3>3. m \in 1 .. Len(context) /\ (n # Len(context') => m # Len(context)) /\ context'[n] = context[m]
      BY <3>1, <3>2 DEF m
    <3>4. QED
      BY <3>1, <3>3 DEF ContextsRight
  <2>2. QED
    BY <1>1, <2>1 DEF ContextsRight
<1>4. \A n \in 1 .. Len(context') : context'[n] \in Contexts
  BY <1>1, ElementOfSeq
<1>5. \A n \in DOMAIN context' : context'[n].handler \in HandlerNames
  BY <1>1, <1>4 DEF Contexts
<1>6. Len(context') <= MaxNesting
  <2>1. Len(context) <= MaxNesting
    BY DEF TypeOK
  <2>2. QED
    BY <1>1, <2>1, LineTypes
<1>7. ASSUME NEW n \in DOMAIN context, context[n].handler \in FatalHandlers, n # 1
      PROVE  Fatal'
  <2>1. n - 1 \in DOMAIN context' /\ n - 1 + 1 = n
    BY <1>1, <1>7
  <2>2. context'[n - 1] = context[n]
    BY <1>1, <2>1
  <2>3. QED
    BY <1>7, <2>1, <2>2 DEF Fatal
<1>8. (Fatal /\ Head(context).handler \notin FatalHandlers) => Fatal'
  BY <1>1, <1>7 DEF Fatal
<1>9. skewed \cup {Len(context) - 1} \subseteq 0 .. Len(context')
  <2> DEFINE len == Len(context)
  <2>1. len \in Nat \ {0} /\ Len(context') = len - 1 /\ skewed \subseteq 0 .. len /\ len \notin skewed
    BY <1>1 DEF TypeOK
  <2> HIDE DEF len
  <2>2. skewed \cup {len - 1} \subseteq 0 .. len - 1
    BY <2>1
  <2>3. QED
    BY <2>1, <2>2 DEF len
<1>10. QED
  BY <1>3, <1>5, <1>6, <1>8, <1>9

\* A context that moves on in its handler leaves all right, if the screen is
\* what its new place asks for.
LEMMA MovedRight ==
  ASSUME TypeOK, ContextsRight, context # <<>>,
         NEW at \in {"ended", "colors", "loop"}, At(at),
         \/ at = "ended" /\ UNCHANGED <<foreground, background>>
         \/ foreground' = "white" /\ background' = "red"
  PROVE  /\ ContextsRight' /\ Len(context') <= MaxNesting /\ context' # <<>>
         /\ skewed \subseteq 0 .. Len(context')
         /\ \A n \in DOMAIN context' : context'[n].handler \in HandlerNames
         /\ Fatal => Fatal'
<1>1. /\ context \in Seq(Contexts) /\ Len(context) \in Nat \ {0}
      /\ DOMAIN context = 1 .. Len(context) /\ context[1] \in Contexts
      /\ context' \in Seq(Contexts) /\ context' # <<>>
      /\ Len(context') = Len(context)
      /\ context'[1] = [context[1] EXCEPT !.at = at]
      /\ \A n \in 2 .. Len(context) : context'[n] = context[n]
      /\ DOMAIN context' = 1 .. Len(context')
  BY ContextTypes, Moved, LenProperties DEF ContextsRight
<1>2. /\ context'[1].at = at /\ context'[1].line = context[1].line
      /\ context'[1].handler = context[1].handler /\ context'[1].flag = context[1].flag
  BY <1>1 DEF Contexts
<1>3. \A n \in 1 .. Len(context) :
        /\ context'[n].line = context[n].line /\ context'[n].flag = context[n].flag
        /\ context'[n].handler = context[n].handler
        /\ context'[n].at = IF n = 1 THEN at ELSE context[n].at
  <2>1. ASSUME NEW n \in 1 .. Len(context), n # 1
        PROVE  context'[n] = context[n]
    <3>1. n \in 2 .. Len(context)
      BY <1>1, <2>1
    <3>2. QED
      BY <1>1, <3>1
  <2>2. QED
    BY <1>2, <2>1
<1>4. ContextsRight'
  BY <1>1, <1>3 DEF ContextsRight
<1>5. \A n \in DOMAIN context' : context'[n].handler \in HandlerNames
  BY <1>1, <1>3 DEF TypeOK
<1>6. Len(context') <= MaxNesting /\ skewed \subseteq 0 .. Len(context')
  BY <1>1 DEF TypeOK
<1>7. Fatal => Fatal'
  BY <1>1, <1>3 DEF Fatal
<1>8. QED
  BY <1>1, <1>4, <1>5, <1>6, <1>7

\* A handler that sends no end of interrupt leaves its line in service
\* (idt.c:33-38, pic.c:36-38).
LEMMA DefaultInv ==
  ASSUME Inv, default_interrupt_handler
  PROVE  Inv' /\ FindsHandler /\ EndsOwnLine /\ StaysFatal
<1>1. /\ context # <<>> /\ Return /\ Running
      /\ Head(context).handler \in {"default_interrupt_handler", "irq7_handler"}
      /\ Head(context).at = "start"
      /\ UNCHANGED <<idt, installing, masked, irr, isr, skewed, foreground, background, report>>
  BY DEF default_interrupt_handler, In, picVars, screenVars, gateVars
<1>2. /\ Len(context) = 1 /\ Head(context) = context[1] /\ context[1] \in Contexts
      /\ Head(context).line \in Lines \cup {-7, -15} /\ ~Fatal
      /\ Serves = InServiceOf(Head(context).line)
  BY <1>1, LineHandler DEF Inv
<1>3. kept' = kept \cup Serves
  <2> DEFINE line == Head(context).line
  <2>1. kept' = kept \cup CASE line >= 8   -> {line, CascadeLine}
                            [] line = -15  -> {CascadeLine}
                            [] line \in 0 .. 7 -> {line}
                            [] OTHER -> {}
    BY DEF default_interrupt_handler
  <2>2. line \in Lines \cup {-7, -15} /\ Serves = InServiceOf(line)
    BY <1>2
  <2> HIDE DEF line
  <2>3. CASE line \in Lines
    BY <2>1, <2>2, <2>3, LineTypes DEF InServiceOf, MasterLine, Slave
  <2>4. CASE line \in {-7, -15}
    BY <2>1, <2>2, <2>4 DEF InServiceOf
  <2>5. QED
    BY <2>2, <2>3, <2>4
<1>4. boot = "on"
  BY <1>1 DEF Running, Inv, BootRight, SetUp
<1>5. kept' \subseteq isr'
  BY <1>1, <1>3, <1>4 DEF Inv, TypeOK, ServiceRight
<1>6. ~HandlerEoi
  BY <1>1 DEF HandlerEoi, In
<1>7. FindsHandler /\ EndsOwnLine /\ StaysFatal
  BY <1>1, <1>2, <1>6 DEF FindsHandler, EndsOwnLine, StaysFatal
<1>8. CASE Len(context) \in skewed
  <2>1. Stop("lost")
    BY <1>1, <1>8 DEF Return
  <2>2. irr' \subseteq Lines /\ isr' \subseteq AllLines
    BY <1>1 DEF Inv, TypeOK
  <2>3. TypeOK' /\ ContextsRight' /\ BootRight' /\ ServiceRight'
    BY <1>1, <1>4, <1>5, <2>1, <2>2, StopRight DEF gateVars, screenVars
  <2>4. QED
    BY <1>7, <2>3 DEF Inv
<1>9. CASE Len(context) \notin skewed
  <2>1. context' = Tail(context) /\ interruptFlag' = Head(context).flag /\ UNCHANGED boot
    BY <1>1, <1>9 DEF Return
  <2>2. Serves' = {} /\ context' = <<>>
    BY <1>1, <1>2, <2>1, ServesPopped DEF Inv, ContextsRight
  <2>3. /\ ContextsRight' /\ Len(context') <= MaxNesting /\ skewed' \subseteq 0 .. Len(context')
        /\ \A n \in DOMAIN context' : context'[n].handler \in HandlerNames
    BY <1>1, <1>9, <2>1, PoppedRight DEF Inv
  <2>4. ServiceRight'
    BY <1>1, <1>3, <1>4, <2>2 DEF Inv, ServiceRight
  <2>5. interruptFlag' \in BOOLEAN
    BY <1>2, <2>1 DEF Contexts
  <2>6. TypeOK'
    BY <1>1, <1>5, <2>1, <2>3, <2>5 DEF Inv, TypeOK
  <2>7. BootRight'
    BY <1>1, <1>4, <2>1, <2>2 DEF Inv, BootRight, SetUp, GatesOfLines
  <2>8. QED
    BY <1>7, <2>3, <2>4, <2>6, <2>7 DEF Inv
<1>10. QED
  BY <1>8, <1>9

\* The line a non-specific end of interrupt ends is the least one.
LEMMA EndedIsLeast ==
  ASSUME NEW S \in SUBSET (0 .. 15), NEW m \in S, \A s \in S : m <= s
  PROVE  Ended(S) = {m}
<1>1. Min(S) \in S /\ \A s \in S : Min(S) <= s
  BY DEF Min
<1>2. Min(S) = m
  <2> DEFINE least == Min(S)
  <2> HIDE DEF least
  <2>1. least \in S /\ least <= m /\ m <= least
    BY <1>1 DEF least
  <2>2. least \in 0 .. 15 /\ m \in 0 .. 15
    BY <2>1
  <2>3. least = m
    BY <2>1, <2>2
  <2>4. QED
    BY <2>3 DEF least
<1>3. QED
  BY <1>2 DEF Ended

\* What a handler's end of interrupt takes out of service: all that it served,
\* and nothing else if its interrupt was real (pic.c:72-77).
LEMMA EoiEnds ==
  ASSUME isr \subseteq AllLines, NEW line \in Lines \cup {-7, -15},
         InServiceOf(line) \subseteq isr,
         \A s \in InServiceOf(line), t \in isr : (Slave(s) <=> Slave(t)) => s <= t
  PROVE  LET intno == IF line < 0 THEN -line ELSE line
         IN  /\ pic_eoi(intno, isr) \subseteq isr \ InServiceOf(line)
             /\ line >= 0 => isr \ pic_eoi(intno, isr) = {line, MasterLine(line)}
<1> DEFINE masters == {s \in isr : ~Slave(s)}
           slaves == {s \in isr : Slave(s)}
           intno == IF line < 0 THEN -line ELSE line
<1>1. masters \in SUBSET (0 .. 15) /\ slaves \in SUBSET (0 .. 15)
  BY LineTypes
<1>2. pic_eoi(intno, isr)
        = isr \ (Ended(masters) \cup IF Slave(intno) THEN Ended(slaves) ELSE {})
  BY DEF pic_eoi
<1>3. CASE line \in Lines /\ Slave(line)
  <2>1. intno = line /\ InServiceOf(line) = {line, CascadeLine}
        /\ MasterLine(line) = CascadeLine /\ ~Slave(CascadeLine)
    BY <1>3, LineTypes, MasterLines DEF InServiceOf, Slave
  <2>2. CascadeLine \in masters /\ \A t \in masters : CascadeLine <= t
    BY <2>1
  <2>3. line \in slaves /\ \A t \in slaves : line <= t
    BY <1>3, <2>1
  <2> HIDE DEF masters, slaves, intno
  <2>4. Ended(masters) = {CascadeLine} /\ Ended(slaves) = {line}
    BY <1>1, <2>2, <2>3, EndedIsLeast
  <2>5. pic_eoi(intno, isr) = isr \ {line, CascadeLine}
    BY <1>2, <1>3, <2>1, <2>4
  <2>6. {line, CascadeLine} \subseteq isr
    BY <2>1
  <2>7. isr \ pic_eoi(intno, isr) = {line, CascadeLine}
    BY <2>5, <2>6
  <2>8. QED
    BY <2>1, <2>5, <2>7 DEF intno
<1>4. CASE line \in Lines /\ ~Slave(line)
  <2>1. intno = line /\ InServiceOf(line) = {line} /\ MasterLine(line) = line
    BY <1>4, LineTypes, MasterLines DEF InServiceOf
  <2>2. line \in masters /\ \A t \in masters : line <= t
    BY <1>4, <2>1
  <2> HIDE DEF masters, slaves, intno
  <2>3. Ended(masters) = {line}
    BY <1>1, <2>2, EndedIsLeast
  <2>4. pic_eoi(intno, isr) = isr \ {line}
    BY <1>2, <1>4, <2>1, <2>3
  <2>5. {line} \subseteq isr
    BY <2>1
  <2>6. isr \ pic_eoi(intno, isr) = {line}
    BY <2>4, <2>5
  <2>7. QED
    BY <2>1, <2>4, <2>6 DEF intno
<1>5. CASE line = -15
  <2>1. InServiceOf(line) = {CascadeLine} /\ ~Slave(CascadeLine)
    BY <1>5, LineTypes DEF InServiceOf, Slave
  <2>2. CascadeLine \in masters /\ \A t \in masters : CascadeLine <= t
    BY <2>1
  <2> HIDE DEF masters, slaves
  <2>3. Ended(masters) = {CascadeLine}
    BY <1>1, <2>2, EndedIsLeast
  <2>4. pic_eoi(intno, isr) \subseteq isr \ {CascadeLine}
    BY <1>2, <2>3
  <2>5. QED
    BY <1>5, <2>1, <2>4
<1>6. CASE line = -7
  <2>1. InServiceOf(-7) = {}
    BY DEF InServiceOf
  <2>2. pic_eoi(intno, isr) \subseteq isr
    <3> HIDE DEF masters, slaves, intno
    <3>1. QED
      BY <1>2
  <2>3. QED
    BY <1>6, <2>1, <2>2
<1>7. QED
  BY <1>3, <1>4, <1>5, <1>6

\* A handler's end of interrupt.
LEMMA HandlerEoiInv ==
  ASSUME Inv, HandlerEoi
  PROVE  Inv' /\ FindsHandler /\ EndsOwnLine /\ StaysFatal
<1> DEFINE line == Head(context).line
           intno == IF line < 0 THEN -line ELSE line
<1>1. /\ context # <<>> /\ At("ended") /\ boot = "on"
      /\ Head(context).handler = "handler" /\ Head(context).at = "start"
      /\ isr' = pic_eoi(intno, isr) /\ kept' = kept \cap isr'
      /\ UNCHANGED <<boot, idt, installing, interruptFlag, masked, irr, skewed, foreground,
                     background, report>>
  BY DEF HandlerEoi, In, Running, screenVars, gateVars, Inv, BootRight, SetUp
<1>2. /\ Len(context) = 1 /\ line \in Lines \cup {-7, -15} /\ ~Fatal
      /\ Serves = InServiceOf(line)
  BY <1>1, LineHandler DEF Inv
<1>3. /\ isr' \subseteq isr \ Serves
      /\ line >= 0 => isr \ isr' = {line, MasterLine(line)}
  <2> HIDE DEF line
  <2>1. isr \subseteq AllLines
    BY DEF Inv, TypeOK
  <2>2. QED
    BY <1>1, <1>2, <2>1, EoiEnds DEF Inv, ServiceRight
<1>4. EndsOwnLine
  BY <1>3 DEF EndsOwnLine
<1> HIDE DEF line, intno
<1>5. /\ ContextsRight' /\ Len(context') <= MaxNesting /\ context' # <<>>
      /\ skewed' \subseteq 0 .. Len(context')
      /\ \A n \in DOMAIN context' : context'[n].handler \in HandlerNames
  BY <1>1, MovedRight DEF Inv
<1>6. Serves' = {}
  BY <1>1, <1>2, ServesMoved DEF Inv, ContextsRight
<1>7. ServiceRight'
  BY <1>1, <1>3, <1>6 DEF Inv, ServiceRight
<1>8. kept' \subseteq isr' /\ isr' \subseteq AllLines
  BY <1>1, <1>3 DEF Inv, TypeOK
<1>9. TypeOK'
  BY <1>1, <1>5, <1>8 DEF Inv, TypeOK
<1>10. BootRight'
  BY <1>1, <1>5 DEF Inv, BootRight, SetUp, GatesOfLines
<1>11. QED
  BY <1>1, <1>2, <1>4, <1>5, <1>7, <1>9, <1>10 DEF Inv, FindsHandler, StaysFatal

\* The return of a handler and of the single step trap.
LEMMA ReturnInv ==
  ASSUME Inv, HandlerReturn \/ single_step
  PROVE  Inv' /\ FindsHandler /\ EndsOwnLine /\ StaysFatal
<1>1. /\ context # <<>> /\ Running
      /\ UNCHANGED <<idt, installing, masked, irr, isr, kept, foreground, background, report>>
      /\ Head(context).handler \in {"handler", "single_step"}
      /\ skewed' \in {skewed, skewed \cup {Len(context) - 1}}
  BY DEF HandlerReturn, single_step, In, picVars, screenVars, gateVars
<1>2. boot = "on"
  BY <1>1 DEF Running, Inv, BootRight, SetUp
<1>3. /\ context \in Seq(Contexts) /\ Head(context) = context[1]
      /\ 1 \in 1 .. Len(context) /\ context[1] \in Contexts
  BY <1>1, ContextTypes DEF Inv, ContextsRight
<1>4. ~HandlerEoi
  <2>1. HandlerReturn => ~HandlerEoi
    BY DEF HandlerReturn, HandlerEoi, In
  <2>2. single_step => ~HandlerEoi
    BY DEF single_step, HandlerEoi, In
  <2>3. QED
    BY <2>1, <2>2
<1>5. FindsHandler /\ EndsOwnLine
  BY <1>1, <1>4 DEF FindsHandler, EndsOwnLine
<1>6. CASE Len(context) \in skewed
  <2>1. Stop("lost") /\ UNCHANGED skewed
    BY <1>6 DEF HandlerReturn, single_step, Return
  <2>2. /\ irr' \subseteq Lines /\ isr' \subseteq AllLines /\ kept' \subseteq isr'
        /\ Head(context).at # "loop"
    BY <1>1 DEF Inv, TypeOK, HandlerReturn, single_step, In
  <2>3. /\ TypeOK' /\ ContextsRight' /\ BootRight' /\ ServiceRight'
        /\ boot' = "lost"
    BY <1>1, <1>2, <2>1, <2>2, StopRight DEF gateVars, screenVars
  <2>4. QED
    BY <1>5, <1>6, <2>2, <2>3 DEF Inv, StaysFatal
<1>7. CASE Len(context) \notin skewed
  <2>1. /\ context' = Tail(context) /\ UNCHANGED boot
        /\ HandlerReturn => interruptFlag' = Head(context).flag
        /\ single_step => UNCHANGED interruptFlag
    BY <1>7 DEF HandlerReturn, single_step, Return
  <2>2. /\ ContextsRight' /\ Len(context') <= MaxNesting
        /\ skewed \cup {Len(context) - 1} \subseteq 0 .. Len(context')
        /\ \A n \in DOMAIN context' : context'[n].handler \in HandlerNames
        /\ Fatal => Fatal'
    BY <1>1, <1>7, <2>1, PoppedRight, ExceptionHandlers DEF Inv
  <2>3. Serves' = Serves
    <3>1. Serves' = IF Len(context) = 1 THEN {} ELSE Serves
      BY <1>1, <1>3, <2>1, ServesPopped
    <3>2. CASE Len(context) = 1 /\ HandlerReturn
      <4>1. context[1].at = "ended"
        BY <1>3, <3>2 DEF HandlerReturn, In
      <4>2. QED
        BY <3>1, <3>2, <4>1 DEF Serves, Outermost
    <3>3. CASE Len(context) = 1 /\ single_step
      <4>1. context[1].handler = "single_step"
        BY <1>3, <3>3 DEF single_step, In
      <4>2. context[1].line = -1
        BY <1>3, <4>1 DEF Inv, ContextsRight
      <4>3. InServiceOf(-1) = {}
        BY DEF InServiceOf
      <4>4. QED
        BY <3>1, <3>3, <4>2, <4>3 DEF Serves, Outermost
    <3>4. QED
      BY <3>1, <3>2, <3>3
  <2>4. /\ interruptFlag' \in BOOLEAN
        /\ context' # <<>> => ~interruptFlag'
    <3>1. CASE HandlerReturn
      <4>1. interruptFlag' = context[1].flag /\ Head(context).handler = "handler"
        BY <1>3, <2>1, <3>1 DEF HandlerReturn, In
      <4>2. context' = <<>>
        BY <1>1, <1>3, <2>1, <4>1, LineHandler, ServesPopped DEF Inv
      <4>3. QED
        BY <1>3, <4>1, <4>2 DEF Contexts
    <3>2. CASE single_step
      BY <1>1, <2>1, <3>2 DEF Inv, TypeOK, BootRight
    <3>3. QED
      BY <3>1, <3>2
  <2>5. TypeOK'
    BY <1>1, <2>1, <2>2, <2>4 DEF Inv, TypeOK
  <2>6. BootRight'
    BY <1>1, <1>2, <2>1, <2>4 DEF Inv, BootRight, SetUp, GatesOfLines
  <2>7. ServiceRight'
    BY <1>1, <2>1, <2>3 DEF Inv, ServiceRight
  <2>8. QED
    BY <1>1, <1>5, <2>1, <2>2, <2>5, <2>6, <2>7 DEF Inv, StaysFatal
<1>8. QED
  BY <1>6, <1>7

\* Code with words too many on its stack returns from a function it is in.
LEMMA AstrayInv ==
  ASSUME Inv, ReturnAstray
  PROVE  Inv' /\ FindsHandler /\ EndsOwnLine /\ StaysFatal
<1>1. /\ Running /\ Len(context) \in skewed /\ Stop("lost")
      /\ context # <<>> => Head(context).at # "loop"
      /\ UNCHANGED <<gateVars, picVars, skewed, screenVars, kept>>
  BY DEF ReturnAstray
<1>2. boot = "on"
  <2>1. boot # "on" => ~SetUp
    BY <1>1 DEF Running, SetUp
  <2>2. ~SetUp => skewed = {}
    BY DEF Inv, BootRight
  <2>3. QED
    BY <1>1, <2>1, <2>2
<1>3. /\ irr' \subseteq Lines /\ isr' \subseteq AllLines /\ kept' \subseteq isr'
      /\ irr' = irr /\ UNCHANGED masked
  BY <1>1 DEF Inv, TypeOK, picVars
<1>4. /\ TypeOK' /\ ContextsRight' /\ BootRight' /\ ServiceRight'
      /\ boot' = "lost" /\ UNCHANGED context
  BY <1>1, <1>2, <1>3, StopRight
<1>5. Fatal => context # <<>>
  BY DEF Fatal
<1>6. HandlerEoi => boot' = boot
  BY DEF HandlerEoi
<1>7. QED
  BY <1>1, <1>2, <1>3, <1>4, <1>5, <1>6 DEF Inv, FindsHandler, EndsOwnLine, StaysFatal

\* A fatal exception colours the screen, then writes its message and loops
\* (exceptions.c).
LEMMA FatalInv ==
  ASSUME Inv, FatalColors \/ FatalReport
  PROVE  Inv' /\ FindsHandler /\ EndsOwnLine /\ StaysFatal
<1>1. /\ context # <<>>
      /\ UNCHANGED <<boot, idt, installing, interruptFlag, masked, irr, isr, skewed, kept>>
      /\ Head(context).handler \in FatalHandlers
  BY DEF FatalColors, FatalReport, In, picVars, gateVars
<1>2. /\ context \in Seq(Contexts) /\ Head(context) = context[1]
      /\ 1 \in 1 .. Len(context) /\ context[1] \in Contexts
  BY <1>1, ContextTypes DEF Inv, ContextsRight
<1>3. PICK at \in {"colors", "loop"} : At(at)
  BY DEF FatalColors, FatalReport
<1>4. /\ foreground' = "white" /\ background' = "red"
      /\ report' \in FatalHandlers \cup {"none"}
      /\ report' # report => foreground = "white" /\ background = "red"
  <2>1. CASE FatalColors
    BY <2>1 DEF FatalColors, Inv, TypeOK
  <2>2. CASE FatalReport
    <3>1. context[1].at = "colors"
      BY <1>2, <2>2 DEF FatalReport, In
    <3>2. foreground = "white" /\ background = "red"
      BY <1>2, <3>1 DEF Inv, ContextsRight
    <3>3. QED
      BY <1>1, <2>2, <3>2 DEF FatalReport
  <2>3. QED
    BY <2>1, <2>2
<1>5. /\ ContextsRight' /\ Len(context') <= MaxNesting /\ context' # <<>>
      /\ skewed' \subseteq 0 .. Len(context')
      /\ \A n \in DOMAIN context' : context'[n].handler \in HandlerNames
      /\ Fatal => Fatal'
  BY <1>1, <1>3, <1>4, MovedRight DEF Inv
<1>6. Serves' = Serves
  <2>1. Serves' = IF Len(context) = 1 THEN {} ELSE Serves
    BY <1>1, <1>2, <1>3, ServesMoved
  <2>2. CASE Len(context) = 1
    <3>1. context[1].line = -1
      BY <1>1, <1>2, ExceptionHandlers DEF Inv, ContextsRight
    <3>2. InServiceOf(-1) = {}
      BY DEF InServiceOf
    <3>3. QED
      BY <2>1, <2>2, <3>1, <3>2 DEF Serves, Outermost
  <2>3. QED
    BY <2>1, <2>2
<1>7. TypeOK'
  BY <1>1, <1>4, <1>5 DEF Inv, TypeOK
<1>8. BootRight'
  BY <1>1, <1>5 DEF Inv, BootRight, SetUp, GatesOfLines
<1>9. ServiceRight'
  BY <1>1, <1>6 DEF Inv, ServiceRight
<1>10. ~HandlerEoi
  BY <1>1, ExceptionHandlers DEF HandlerEoi, In
<1>11. QED
  BY <1>1, <1>4, <1>5, <1>7, <1>8, <1>9, <1>10
  DEF Inv, FindsHandler, EndsOwnLine, StaysFatal

\* A step that changes nothing.
LEMMA StutterInv ==
  ASSUME Inv, UNCHANGED vars
  PROVE  Inv' /\ FindsHandler /\ StaysFatal
<1>1. UNCHANGED <<boot, idt, installing, interruptFlag, masked, irr, isr, context, skewed,
                  foreground, background, report, events, kept>>
  BY DEF vars, gateVars, picVars, screenVars
<1>2. TypeOK' /\ ContextsRight' /\ BootRight'
  BY <1>1 DEF Inv, TypeOK, ContextsRight, BootRight, SetUp, GatesOfLines
<1>3. ServiceRight'
  BY <1>1 DEF Inv, ServiceRight, Serves, Outermost
<1>4. QED
  BY <1>1, <1>2, <1>3 DEF Inv, FindsHandler, StaysFatal, Fatal

\* Every step keeps the invariant and what HandlersRight says of a step.
LEMMA StepInv ==
  ASSUME Inv, Next
  PROVE  Inv' /\ FindsHandler /\ EndsOwnLine /\ StaysFatal
<1>1. CASE initialize_pic \/ initialize_idt
  BY <1>1, SetUpInv
<1>2. CASE \/ pit_start_counter
           \/ \E line \in Lines : pic_set_irq(line) \/ StoreBaseLow(line) \/ Raise(line)
           \/ \E line \in AllLines : pic_enable_irq(line) \/ pic_disable_irq(line)
  BY <1>2, MainInv
<1>3. CASE Interrupt
  BY <1>3, InterruptInv
<1>4. CASE \E v \in Exceptions : Exception(v)
  BY <1>4, ExceptionInv
<1>5. CASE default_interrupt_handler
  BY <1>5, DefaultInv
<1>6. CASE HandlerEoi
  BY <1>6, HandlerEoiInv
<1>7. CASE HandlerReturn \/ single_step
  BY <1>7, ReturnInv
<1>8. CASE FatalColors \/ FatalReport
  BY <1>8, FatalInv
<1>9. CASE ReturnAstray
  BY <1>9, AstrayInv
<1>10. QED
  BY <1>1, <1>2, <1>3, <1>4, <1>5, <1>6, <1>7, <1>8, <1>9 DEF Next, Handlers

------------------------------------------------------------------------------
(***************************************************************************)
(* The theorems.                                                           *)
(***************************************************************************)

\* The inductive invariant holds in every reachable state.
THEOREM Invariance == Spec => []Inv
<1>1. Inv /\ [Next]_vars => Inv'
  BY StepInv, StutterInv
<1>2. QED
  BY <1>1, InitInv, PTL DEF Spec

\* In service is what is being handled, one line at a time, but for what a
\* handler left in service (pic.c:72-77).
THEOREM LinesAreAccounted == Spec => []LinesAccounted
<1>1. ASSUME Inv
      PROVE  LinesAccounted
  <2>1. /\ context \in Seq(Contexts) /\ Len(context) \in Nat
        /\ DOMAIN context = 1 .. Len(context)
        /\ context # <<>> => Len(context) \in DOMAIN context
    <3>1. context \in Seq(Contexts)
      BY <1>1 DEF Inv, ContextsRight
    <3> DEFINE len == Len(context)
    <3>2. len \in Nat /\ DOMAIN context = 1 .. len /\ (context = <<>> <=> len = 0)
      BY <3>1, ContextTypes
    <3> HIDE DEF len
    <3>3. context # <<>> => len \in 1 .. len
      BY <3>2
    <3>4. QED
      BY <3>1, <3>2, <3>3 DEF len
  <2>2. InServiceAccounted
    <3>1. ASSUME NEW s \in Serves
          PROVE  \E n \in {m \in DOMAIN context : context[m].at = "start"} :
                   s \in IF context[n].line >= 0
                         THEN {context[n].line, MasterLine(context[n].line)}
                         ELSE IF context[n].line = -15 THEN {CascadeLine} ELSE {}
      <4>1. /\ context # <<>> /\ Outermost.at = "start"
            /\ s \in InServiceOf(Outermost.line)
        BY <3>1 DEF Serves
      <4>2. Outermost.line \in Lines \cup {-1, -7, -15}
        BY <2>1, <4>1, ContextTypes DEF Outermost, Contexts
      <4>3. s \in IF Outermost.line >= 0
                  THEN {Outermost.line, MasterLine(Outermost.line)}
                  ELSE IF Outermost.line = -15 THEN {CascadeLine} ELSE {}
        <5> DEFINE line == Outermost.line
        <5>1. line \in Lines \cup {-1, -7, -15} /\ s \in InServiceOf(line)
          BY <4>1, <4>2
        <5> HIDE DEF line
        <5>2. s \in IF line >= 0 THEN {line, MasterLine(line)}
                    ELSE IF line = -15 THEN {CascadeLine} ELSE {}
          BY <5>1, LineTypes DEF InServiceOf
        <5>3. QED
          BY <5>2 DEF line
      <4>4. QED
        BY <2>1, <4>1, <4>3 DEF Outermost
    <3>2. boot # "lost" => isr \subseteq kept \cup Serves
      BY <1>1 DEF Inv, ServiceRight
    <3>3. QED
      BY <3>1, <3>2 DEF InServiceAccounted
  <2>3. OneLineAtATime
    <3> DEFINE lines == {n \in DOMAIN context : context[n].line # -1}
    <3>1. lines \subseteq {Len(context)}
      BY <1>1, <2>1 DEF Inv, ContextsRight
    <3> HIDE DEF lines
    <3>2. IsFiniteSet({Len(context)}) /\ Cardinality({Len(context)}) = 1
      BY FS_Singleton
    <3>3. Cardinality(lines) <= 1
      BY <3>1, <3>2, FS_Subset
    <3>4. QED
      BY <3>3 DEF OneLineAtATime, lines
  <2>4. QED
    BY <1>1, <2>2, <2>3 DEF Inv, LinesAccounted
<1>2. QED
  BY <1>1, Invariance, PTL

\* Interrupts find handlers, handlers end their own line, and nothing gets past
\* a fatal exception (idt.c:40-51, pic.c:72-77, exceptions.c).
THEOREM HandlersAreRight == Spec => HandlersRight
<1>1. Inv /\ [Next]_vars => [boot # "entry" /\ ~(irr \subseteq irr') =>
        \/ boot' = "on" /\ Head(context').handler \notin FatalHandlers
        \/ /\ boot' = "lost"
           /\ \E line \in installing :
                line \in irr \ (irr' \cup masked) \/ line \in {7, 15}]_vars
  BY StepInv DEF FindsHandler
<1>2. Inv /\ [Next]_vars => [HandlerEoi /\ Head(context).line >= 0 =>
        isr \ isr' = {Head(context).line, MasterLine(Head(context).line)}]_vars
  BY StepInv DEF EndsOwnLine
<1>3. Inv /\ [Next]_vars => [Fatal =>
        \/ /\ boot' = "lost" /\ Len(context) \in skewed /\ Head(context).at # "loop"
        \/ /\ Fatal' /\ UNCHANGED <<boot, idt, masked, isr>>
           /\ report' # report => foreground = "white" /\ background = "red"]_vars
  BY StepInv DEF StaysFatal
<1>4. Spec => InterruptsFindHandlers
  BY <1>1, Invariance, PTL DEF Spec, InterruptsFindHandlers
<1>5. Spec => EoiEndsOwnLine
  BY <1>2, Invariance, PTL DEF Spec, EoiEndsOwnLine
<1>6. Spec => FatalStays
  BY <1>3, Invariance, PTL DEF Spec, FatalStays
<1>7. QED
  BY <1>4, <1>5, <1>6 DEF HandlersRight

=============================================================================
