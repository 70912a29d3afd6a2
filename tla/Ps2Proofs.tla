------------------------------ MODULE Ps2Proofs ------------------------------
(***************************************************************************)
(* The keyboard driver, for every sequence of bytes the keyboard may send, *)
(* every configuration the BIOS may leave behind, and every interleaving   *)
(* of boot code, interrupts and devices.                                   *)
(***************************************************************************)
EXTENDS Ps2, TLAPS, SequenceTheorems, WellFoundedInduction

\* The lines of Program are numbered as in lemma Table below: 22 unmasks the
\* keyboard interrupt.

\* Interrupts, by line: until line 5 the flag is off, from line 3 on the mask is
\* set, and when line 22 clears it the gate is complete.
InterruptsRight ==
  /\ at \in 3 .. 22 => masked
  /\ at >= 22 => gate = "keyboard"
  /\ interruptFlag => at > 4
  /\ handler # "none" => at > 22
  /\ handler # "lost"
  /\ inService => handler \in {"kbh", "drop", "eoi"}

Sent(code) == input \in {NoInput, <<"command", code>>}

\* The controller, by line: from the command of line 5 on the port of the
\* keyboard is disabled, so that after the flush of line 7 nothing but the
\* answers of the controller can get into the output buffer.
ControllerRight ==
  /\ at = 6 => Sent(Disable1st) /\ (input = NoInput => PortDisabled(mode))
  /\ at \in 7 .. 14 => PortDisabled(mode)
  /\ at \in {7, 8} => Sent(Disable2nd)
  /\ at = 8 => ~outputFull
  /\ at = 9 => /\ Sent(ReadConfig)
               /\ outputFull => input = NoInput
               /\ phase = "read" => input = NoInput
  /\ at \in {10, 11} => input = NoInput /\ ~outputFull
  /\ at \in 11 .. 13 => config \in 252 .. 255
  /\ at = 12 => Sent(WriteConfig) /\ (input = NoInput => awaiting) /\ ~outputFull
  /\ at = 13 => /\ input \in {NoInput, <<"data", config>>}
                /\ input # NoInput => awaiting
                /\ ~outputFull
  /\ at = 14 => /\ Sent(TestSelf)
                /\ outputFull => input = NoInput /\ output = TestPassed
                /\ phase = "read" => input = NoInput /\ output = TestPassed
  /\ at = 15 => config = TestPassed
  /\ phase # "start" => at \in {7, 9, 14, 17, 19, 24}
  /\ ~panicked

Inv == TypeOK /\ InterruptsRight /\ ControllerRight

------------------------------------------------------------------------------
Ops == {"icw", "mask", "gates", "sti", "flush", "command", "in", "or", "out", "test", "reset",
        "tear", "install", "unmask"}

Steps == Ops \X Nat

Sized(s, n) == s \in Seq(Steps) /\ Len(s) = n

\* s and u begin with the same m elements.
SameFront(u, s, m) == \A k \in 1 .. m : u[k] = s[k]

\* u is s of m elements, then t of n elements.
Glued(u, s, m, t, n) ==
  /\ SameFront(u, s, m)
  /\ \A k \in (m + 1) .. (m + n) : u[k] = t[k - m]

\* A concatenation is glued.
LEMMA ConcatGlues ==
  ASSUME NEW s, NEW t, NEW m \in Nat, NEW n \in Nat, Sized(s, m), Sized(t, n)
  PROVE  Glued(s \o t, s, m, t, n) /\ Sized(s \o t, m + n)
<1>1. /\ s \o t \in Seq(Steps) /\ Len(s \o t) = m + n
      /\ \A k \in 1 .. (m + n) : (s \o t)[k] = IF k <= m THEN s[k] ELSE t[k - m]
  BY ConcatProperties DEF Sized
<1>2. \A k \in 1 .. m : k \in 1 .. (m + n) /\ k <= m
  OBVIOUS
<1>3. \A k \in (m + 1) .. (m + n) : k \in 1 .. (m + n) /\ ~(k <= m)
  OBVIOUS
<1> QED BY <1>1, <1>2, <1>3 DEF Glued, SameFront, Sized

\* The same front as something with the same shorter front.
LEMMA FrontOfFront ==
  ASSUME NEW u, NEW s, NEW r, NEW m \in Nat, NEW l \in Nat, l <= m,
         SameFront(u, s, m), SameFront(s, r, l)
  PROVE  SameFront(u, r, l)
BY DEF SameFront

\* The pieces of the boot code, written out (pic.c:47-70, idt.c:28-48,
\* ps2.c:23-62).
LEMMA Pieces ==
  /\ Sized(initialize_pic, 2)
  /\ Sized(initialize_idt, 2)
  /\ Sized(Flush, 1)
  /\ \A mask \in Nat : Sized(Configure(mask), 5)
  /\ Sized(TestController, 3)
  /\ Sized(EnablePort, 1)
  /\ Sized(ResetKeyboard, 1)
  /\ Sized(pic_set_irq, 2)
  /\ Sized(Unmask, 1)
<1>1. Sized(initialize_pic, 2)
  BY DEF Sized, initialize_pic, Steps, Ops
<1>2. Sized(initialize_idt, 2)
  BY DEF Sized, initialize_idt, Steps, Ops
<1>3. Sized(Flush, 1)
  BY DEF Sized, Flush, Steps, Ops
<1>4. ASSUME NEW mask \in Nat
      PROVE  Sized(Configure(mask), 5)
  BY DEF Sized, Configure, Steps, Ops, ReadConfig, WriteConfig
<1>5. Sized(TestController, 3)
  BY DEF Sized, TestController, Steps, Ops, TestSelf
<1>6. Sized(EnablePort, 1)
  BY DEF Sized, EnablePort, Steps, Ops, Enable1st
<1>7. Sized(ResetKeyboard, 1)
  BY DEF Sized, ResetKeyboard, Steps, Ops
<1>8. Sized(pic_set_irq, 2)
  BY DEF Sized, pic_set_irq, Steps, Ops
<1>9. Sized(Unmask, 1)
  BY DEF Sized, Unmask, Steps, Ops
<1> QED BY <1>1, <1>2, <1>3, <1>4, <1>5, <1>6, <1>7, <1>8, <1>9

\* The ports are disabled, then the buffer is flushed.
LEMMA DisablePortsIs ==
  /\ Sized(DisablePorts, 3)
  /\ DisablePorts[1] = <<"command", Disable1st>>
  /\ DisablePorts[2] = <<"command", Disable2nd>>
  /\ DisablePorts[3] = <<"flush", 0>>
<1> DEFINE commands == << <<"command", Disable1st>>, <<"command", Disable2nd>> >>
<1>1. Sized(commands, 2)
  BY DEF Sized, Steps, Ops, Disable1st, Disable2nd
<1>2. commands[1] = <<"command", Disable1st>> /\ commands[2] = <<"command", Disable2nd>>
  OBVIOUS
<1>3. DisablePorts = commands \o Flush
  BY DEF DisablePorts
<1>4. Flush[1] = <<"flush", 0>>
  BY DEF Flush
<1> HIDE DEF commands
<1>5. Glued(DisablePorts, commands, 2, Flush, 1) /\ Sized(DisablePorts, 3)
  BY <1>1, <1>3, Pieces, ConcatGlues
<1>6. DisablePorts[1] = commands[1] /\ DisablePorts[2] = commands[2]
  BY <1>5 DEF Glued, SameFront
<1>7. DisablePorts[3] = Flush[1]
  BY <1>5 DEF Glued
<1> QED BY <1>2, <1>4, <1>5, <1>6, <1>7

\* Program, written out: what the boot code does at each line.
LEMMA Table ==
  /\ Len(Program) = 27
  /\ Program[1] = <<"icw", 0>>
  /\ Program[2] = <<"mask", 0>>
  /\ Program[3] = <<"gates", 0>>
  /\ Program[4] = <<"sti", 0>>
  /\ Program[5] = <<"command", Disable1st>>
  /\ Program[6] = <<"command", Disable2nd>>
  /\ Program[7] = <<"flush", 0>>
  /\ Program[8] = <<"command", ReadConfig>>
  /\ Program[9] = <<"in", 0>>
  /\ Program[10] = <<"or", 252>>
  /\ Program[11] = <<"command", WriteConfig>>
  /\ Program[12] = <<"out", 0>>
  /\ Program[13] = <<"command", TestSelf>>
  /\ Program[14] = <<"in", 0>>
  /\ Program[15] = <<"test", 0>>
  /\ Program[16] = <<"command", Enable1st>>
  /\ Program[17] = <<"flush", 0>>
  /\ Program[18] = <<"reset", 255>>
  /\ Program[19] = <<"flush", 0>>
  /\ Program[20] = <<"tear", 0>>
  /\ Program[21] = <<"install", 0>>
  /\ Program[22] = <<"unmask", 0>>
  /\ Program[23] = <<"command", ReadConfig>>
  /\ Program[24] = <<"in", 0>>
  /\ Program[25] = <<"or", 1>>
  /\ Program[26] = <<"command", WriteConfig>>
  /\ Program[27] = <<"out", 0>>
<1> DEFINE p1 == initialize_pic \o initialize_idt
           p2 == p1 \o DisablePorts
           p3 == p2 \o Configure(252)
           p4 == p3 \o TestController
           p5 == p4 \o EnablePort
           p6 == p5 \o Flush
           p7 == p6 \o ResetKeyboard
           p8 == p7 \o Flush
           p9 == p8 \o pic_set_irq
           p10 == p9 \o Unmask
           p11 == p10 \o Configure(1)
<1> HIDE DEF p1, p2, p3, p4, p5, p6, p7, p8, p9, p10, p11
<1>1. Glued(p1, initialize_pic, 2, initialize_idt, 2) /\ Sized(p1, 4)
  BY Pieces, ConcatGlues DEF p1
<1>2. Glued(p2, p1, 4, DisablePorts, 3) /\ Sized(p2, 7)
  BY <1>1, DisablePortsIs, ConcatGlues DEF p2
<1>3. Glued(p3, p2, 7, Configure(252), 5) /\ Sized(p3, 12)
  BY <1>2, Pieces, ConcatGlues DEF p3
<1>4. Glued(p4, p3, 12, TestController, 3) /\ Sized(p4, 15)
  BY <1>3, Pieces, ConcatGlues DEF p4
<1>5. Glued(p5, p4, 15, EnablePort, 1) /\ Sized(p5, 16)
  BY <1>4, Pieces, ConcatGlues DEF p5
<1>6. Glued(p6, p5, 16, Flush, 1) /\ Sized(p6, 17)
  BY <1>5, Pieces, ConcatGlues DEF p6
<1>7. Glued(p7, p6, 17, ResetKeyboard, 1) /\ Sized(p7, 18)
  BY <1>6, Pieces, ConcatGlues DEF p7
<1>8. Glued(p8, p7, 18, Flush, 1) /\ Sized(p8, 19)
  BY <1>7, Pieces, ConcatGlues DEF p8
<1>9. Glued(p9, p8, 19, pic_set_irq, 2) /\ Sized(p9, 21)
  BY <1>8, Pieces, ConcatGlues DEF p9
<1>10. Glued(p10, p9, 21, Unmask, 1) /\ Sized(p10, 22)
  BY <1>9, Pieces, ConcatGlues DEF p10
<1>11. Glued(p11, p10, 22, Configure(1), 5) /\ Sized(p11, 27)
  BY <1>10, Pieces, ConcatGlues DEF p11
<1>12. Program = p11
  BY DEF Program, p1, p2, p3, p4, p5, p6, p7, p8, p9, p10, p11
<1>13. Len(Program) = 27
  BY <1>12, <1>11 DEF Sized
<1>14. SameFront(Program, p10, 22)
  BY <1>12, <1>11 DEF Glued
<1>15. SameFront(Program, p9, 21)
  BY <1>14, <1>10, FrontOfFront DEF Glued
<1>16. SameFront(Program, p8, 19)
  BY <1>15, <1>9, FrontOfFront DEF Glued
<1>17. SameFront(Program, p7, 18)
  BY <1>16, <1>8, FrontOfFront DEF Glued
<1>18. SameFront(Program, p6, 17)
  BY <1>17, <1>7, FrontOfFront DEF Glued
<1>19. SameFront(Program, p5, 16)
  BY <1>18, <1>6, FrontOfFront DEF Glued
<1>20. SameFront(Program, p4, 15)
  BY <1>19, <1>5, FrontOfFront DEF Glued
<1>21. SameFront(Program, p3, 12)
  BY <1>20, <1>4, FrontOfFront DEF Glued
<1>22. SameFront(Program, p2, 7)
  BY <1>21, <1>3, FrontOfFront DEF Glued
<1>23. SameFront(Program, p1, 4)
  BY <1>22, <1>2, FrontOfFront DEF Glued
<1>24. SameFront(Program, initialize_pic, 2)
  BY <1>23, <1>1, FrontOfFront DEF Glued
<1>25. Program[1] = <<"icw", 0>> /\ Program[2] = <<"mask", 0>>
  BY <1>24 DEF SameFront, initialize_pic
<1>26. Program[3] = <<"gates", 0>> /\ Program[4] = <<"sti", 0>>
  BY <1>23, <1>1 DEF Glued, SameFront, initialize_idt
<1>27. /\ Program[5] = <<"command", Disable1st>> /\ Program[6] = <<"command", Disable2nd>>
      /\ Program[7] = <<"flush", 0>>
  BY <1>22, <1>2, DisablePortsIs DEF Glued, SameFront
<1>28. /\ Program[8] = <<"command", ReadConfig>> /\ Program[9] = <<"in", 0>>
      /\ Program[10] = <<"or", 252>> /\ Program[11] = <<"command", WriteConfig>>
      /\ Program[12] = <<"out", 0>>
  BY <1>21, <1>3 DEF Glued, SameFront, Configure
<1>29. /\ Program[13] = <<"command", TestSelf>> /\ Program[14] = <<"in", 0>>
      /\ Program[15] = <<"test", 0>>
  BY <1>20, <1>4 DEF Glued, SameFront, TestController
<1>30. Program[16] = <<"command", Enable1st>>
  BY <1>19, <1>5 DEF Glued, SameFront, EnablePort
<1>31. Program[17] = <<"flush", 0>>
  BY <1>18, <1>6 DEF Glued, SameFront, Flush
<1>32. Program[18] = <<"reset", 255>>
  BY <1>17, <1>7 DEF Glued, SameFront, ResetKeyboard
<1>33. Program[19] = <<"flush", 0>>
  BY <1>16, <1>8 DEF Glued, SameFront, Flush
<1>34. Program[20] = <<"tear", 0>> /\ Program[21] = <<"install", 0>>
  BY <1>15, <1>9 DEF Glued, SameFront, pic_set_irq
<1>35. Program[22] = <<"unmask", 0>>
  BY <1>14, <1>10 DEF Glued, SameFront, Unmask
<1>36. /\ Program[23] = <<"command", ReadConfig>> /\ Program[24] = <<"in", 0>>
      /\ Program[25] = <<"or", 1>> /\ Program[26] = <<"command", WriteConfig>>
      /\ Program[27] = <<"out", 0>>
  BY <1>12, <1>11 DEF Glued, SameFront, Configure
<1> QED BY <1>13, <1>25, <1>26, <1>27, <1>28, <1>29, <1>30, <1>31, <1>32, <1>33, <1>34, <1>35, <1>36, ZenonT(60)

\* Which lines are steps of which kind.
LEMMA Lines ==
  ASSUME TypeOK
  PROVE  /\ at \in 1 .. 28
         /\ ~Done => at <= 27
         /\ Is("icw") => at = 1
         /\ Is("mask") => at = 2
         /\ Is("gates") => at = 3
         /\ Is("sti") => at = 4
         /\ Is("command") =>
              \/ at = 5 /\ Arg = Disable1st
              \/ at = 6 /\ Arg = Disable2nd
              \/ at = 8 /\ Arg = ReadConfig
              \/ at = 11 /\ Arg = WriteConfig
              \/ at = 13 /\ Arg = TestSelf
              \/ at = 16 /\ Arg = Enable1st
              \/ at = 23 /\ Arg = ReadConfig
              \/ at = 26 /\ Arg = WriteConfig
         /\ Is("flush") => at \in {7, 17, 19}
         /\ Is("in") => at \in {9, 14, 24}
         /\ Is("or") => (at = 10 /\ Arg = 252) \/ (at = 25 /\ Arg = 1)
         /\ Is("out") => at \in {12, 27}
         /\ Is("test") => at = 15
         /\ Is("reset") => at = 18 /\ Arg = 255
         /\ Is("tear") => at = 20
         /\ Is("install") => at = 21
         /\ Is("unmask") => at = 22
<1>1. at \in 1 .. 28 /\ (~Done => at <= 27)
  <2>1. Len(Program) = 27
    BY Table
  <2> QED BY <2>1 DEF TypeOK, Done
<1>2. ASSUME ~Done
      PROVE  \/ at = 1 \/ at = 2 \/ at = 3 \/ at = 4 \/ at = 5 \/ at = 6 \/ at = 7
             \/ at = 8 \/ at = 9 \/ at = 10 \/ at = 11 \/ at = 12 \/ at = 13 \/ at = 14
             \/ at = 15 \/ at = 16 \/ at = 17 \/ at = 18 \/ at = 19 \/ at = 20 \/ at = 21
             \/ at = 22 \/ at = 23 \/ at = 24 \/ at = 25 \/ at = 26 \/ at = 27
  BY <1>1, <1>2
<1>3. Is("icw") => at = 1
  BY <1>2, Table DEF Is
<1>4. Is("mask") => at = 2
  BY <1>2, Table DEF Is
<1>5. Is("gates") => at = 3
  BY <1>2, Table DEF Is
<1>6. Is("sti") => at = 4
  BY <1>2, Table DEF Is
<1>7. Is("command") =>
           \/ at = 5 /\ Arg = Disable1st
           \/ at = 6 /\ Arg = Disable2nd
           \/ at = 8 /\ Arg = ReadConfig
           \/ at = 11 /\ Arg = WriteConfig
           \/ at = 13 /\ Arg = TestSelf
           \/ at = 16 /\ Arg = Enable1st
           \/ at = 23 /\ Arg = ReadConfig
           \/ at = 26 /\ Arg = WriteConfig
  BY <1>2, Table DEF Is, Arg
<1>8. Is("flush") => at \in {7, 17, 19}
  BY <1>2, Table DEF Is
<1>9. Is("in") => at \in {9, 14, 24}
  BY <1>2, Table DEF Is
<1>10. Is("or") => (at = 10 /\ Arg = 252) \/ (at = 25 /\ Arg = 1)
  BY <1>2, Table DEF Is, Arg
<1>11. Is("out") => at \in {12, 27}
  BY <1>2, Table DEF Is
<1>12. Is("test") => at = 15
  BY <1>2, Table DEF Is
<1>13. Is("reset") => at = 18 /\ Arg = 255
  BY <1>2, Table DEF Is, Arg
<1>14. Is("tear") => at = 20
  BY <1>2, Table DEF Is
<1>15. Is("install") => at = 21
  BY <1>2, Table DEF Is
<1>16. Is("unmask") => at = 22
  BY <1>2, Table DEF Is
<1> QED BY <1>1, <1>3, <1>4, <1>5, <1>6, <1>7, <1>8, <1>9, <1>10, <1>11, <1>12, <1>13, <1>14, <1>15, <1>16

------------------------------------------------------------------------------
\* What the commands and the driver do to the bits of a configuration byte.
LEMMA ConfigurationBits ==
  ASSUME NEW b \in 0 .. 255
  PROVE  /\ SetBit(b, 4) \in 0 .. 255 /\ PortDisabled(SetBit(b, 4))
         /\ SetBit(b, 5) \in 0 .. 255 /\ (PortDisabled(b) => PortDisabled(SetBit(b, 5)))
         /\ ClearBit(b, 4) \in 0 .. 255
         /\ OrMask(b, 1) \in 0 .. 255
         /\ OrMask(b, 252) \in 252 .. 255
         /\ b \in 252 .. 255 => PortDisabled(b)
<1> USE DEF SetBit, ClearBit, Bit, PortDisabled, OrMask
<1>1. 2^0 = 1 /\ 2^4 = 16 /\ 2^5 = 32
  OBVIOUS
<1>2. SetBit(b, 4) \in 0 .. 255 /\ PortDisabled(SetBit(b, 4))
  BY <1>1
<1>3. SetBit(b, 5) \in 0 .. 255 /\ (PortDisabled(b) => PortDisabled(SetBit(b, 5)))
  BY <1>1
<1>4. ClearBit(b, 4) \in 0 .. 255
  BY <1>1
<1>5. OrMask(b, 1) \in 0 .. 255
  BY <1>1
<1>6. OrMask(b, 252) \in 252 .. 255
  OBVIOUS
<1>7. b \in 252 .. 255 => PortDisabled(b)
  BY <1>1
<1> QED BY <1>2, <1>3, <1>4, <1>5, <1>6, <1>7

\* The initial states.
LEMMA InitRight == Init => Inv
<1> SUFFICES ASSUME Init PROVE Inv
  OBVIOUS
<1>1. HardwareTypeOK
  <2>1. mode \in 0 .. 255
    BY BiosModesAssumption DEF Init, HardwareInit
  <2>2. NoInput \in {"none", "command", "data"} \X (0 .. 255)
    BY DEF NoInput
  <2>3. <<>> \in Seq(0 .. 255) /\ 0 \in 0 .. 255
    OBVIOUS
  <2> QED BY <2>1, <2>2, <2>3 DEF Init, HardwareInit, HardwareTypeOK
<1>2. at \in 1 .. (Len(Program) + 1)
  <2>1. Len(Program) = 27
    BY Table
  <2> QED BY <2>1 DEF Init
<1>3. typed \in 0 .. Len(Typed)
  BY ConstantsAssumption DEF Init
<1>4. TypeOK
  <2>1. <<>> \in Seq(0 .. 255) /\ 0 \in 0 .. 255
    OBVIOUS
  <2> QED BY <1>1, <1>2, <1>3, <2>1 DEF Init, TypeOK
<1>5. InterruptsRight
  BY DEF Init, HardwareInit, InterruptsRight
<1>6. ControllerRight
  BY DEF Init, ControllerRight
<1> QED BY <1>4, <1>5, <1>6 DEF Inv

\* Going on to the next line keeps the types of the boot code's variables.
LEMMA NextLine ==
  ASSUME TypeOK, ~Done, NextStep
  PROVE  /\ at' \in 1 .. (Len(Program) + 1) /\ phase' = "start"
         /\ at' = at + 1 /\ at \in 1 .. 27
<1>1. Len(Program) = 27
  BY Table
<1>2. at \in 1 .. 28 /\ at <= 27
  BY Lines
<1> QED BY <1>1, <1>2 DEF NextStep

\* Steps of the boot code before any interrupt: the mask, the gates, the flag.
LEMMA SetupSteps ==
  ASSUME Inv, InitializePic \/ MaskAll \/ pic_enable_irq \/ idt_install_handler \/ EnableInterrupts
  PROVE  Inv'
<1> USE DEF Inv
<1>1. Running /\ NextStep /\ ~Done
  BY DEF InitializePic, MaskAll, pic_enable_irq, idt_install_handler, SetGate, EnableInterrupts, Is
<1>2. /\ at' \in 1 .. (Len(Program) + 1) /\ phase' = "start"
      /\ at' = at + 1 /\ at \in 1 .. 27
  BY <1>1, NextLine
<1>3. /\ handler = "none" /\ ~panicked
      /\ UNCHANGED <<handler, keymap, shift_active, control_active, handled, reply, typed>>
  BY <1>1 DEF Running, kbhVars
<1>4. CASE InitializePic
  <2>1. /\ at = 1 /\ masked' = FALSE /\ requested' = FALSE /\ inService' = FALSE
        /\ UNCHANGED <<mode, input, awaiting, output, outputFull, queue, config, genuine,
                       panicked, interruptFlag, gate>>
    BY <1>4, Lines DEF InitializePic, controllerVars
  <2>2. TypeOK'
    BY <1>2, <1>3, <2>1 DEF TypeOK, HardwareTypeOK
  <2>3. InterruptsRight'
    BY <1>2, <1>3, <2>1 DEF InterruptsRight
  <2>4. ControllerRight'
    BY <1>2, <1>3, <2>1 DEF ControllerRight
  <2> QED BY <2>2, <2>3, <2>4
<1>5. CASE MaskAll
  <2>1. /\ at = 2 /\ masked' = TRUE
        /\ UNCHANGED <<mode, input, awaiting, output, outputFull, queue, requested, inService,
                       config, genuine, panicked, interruptFlag, gate>>
    BY <1>5, Lines DEF MaskAll, controllerVars
  <2>2. TypeOK'
    BY <1>2, <1>3, <2>1 DEF TypeOK, HardwareTypeOK
  <2>3. InterruptsRight'
    BY <1>2, <1>3, <2>1 DEF InterruptsRight
  <2>4. ControllerRight'
    BY <1>2, <1>3, <2>1 DEF ControllerRight
  <2> QED BY <2>2, <2>3, <2>4
<1>6. CASE pic_enable_irq
  <2>1. /\ at = 22 /\ masked' = FALSE
        /\ UNCHANGED <<mode, input, awaiting, output, outputFull, queue, requested, inService,
                       config, genuine, panicked, interruptFlag, gate>>
    BY <1>6, Lines DEF pic_enable_irq, controllerVars
  <2>2. TypeOK'
    BY <1>2, <1>3, <2>1 DEF TypeOK, HardwareTypeOK
  <2>3. InterruptsRight'
    BY <1>2, <1>3, <2>1 DEF InterruptsRight
  <2>4. ControllerRight'
    BY <1>2, <1>3, <2>1 DEF ControllerRight
  <2> QED BY <2>2, <2>3, <2>4
<1>7. CASE idt_install_handler
  <2>1. /\ \/ at = 3 /\ gate' = "default"
           \/ at = 20 /\ gate' = "torn"
           \/ at = 21 /\ gate' = "keyboard"
        /\ UNCHANGED <<mode, input, awaiting, output, outputFull, queue, masked, requested,
                       inService, config, genuine, panicked, interruptFlag>>
    BY <1>7, Lines DEF idt_install_handler, SetGate, hardwareVars, controllerVars, picVars
  <2>2. TypeOK'
    BY <1>2, <1>3, <2>1 DEF TypeOK, HardwareTypeOK
  <2>3. InterruptsRight'
    BY <1>2, <1>3, <2>1 DEF InterruptsRight
  <2>4. ControllerRight'
    BY <1>2, <1>3, <2>1 DEF ControllerRight
  <2> QED BY <2>2, <2>3, <2>4
<1>8. CASE EnableInterrupts
  <2>1. /\ at = 4 /\ interruptFlag' = TRUE
        /\ UNCHANGED <<mode, input, awaiting, output, outputFull, queue, masked, requested,
                       inService, config, genuine, panicked, gate>>
    BY <1>8, Lines DEF EnableInterrupts, hardwareVars, controllerVars, picVars
  <2>2. TypeOK'
    BY <1>2, <1>3, <2>1 DEF TypeOK, HardwareTypeOK
  <2>3. InterruptsRight'
    BY <1>2, <1>3, <2>1 DEF InterruptsRight
  <2>4. ControllerRight'
    BY <1>2, <1>3, <2>1 DEF ControllerRight
  <2> QED BY <2>2, <2>3, <2>4
<1> QED BY <1>4, <1>5, <1>6, <1>7, <1>8

\* The boot code sends a command: the buffer was empty, so the command before it
\* has been taken.
LEMMA CommandStep ==
  ASSUME Inv, ps2_controller_command
  PROVE  Inv'
<1> USE DEF Inv
<1>1. Running /\ NextStep /\ ~Done /\ Is("command")
  BY DEF ps2_controller_command, Is
<1>2. /\ at' \in 1 .. (Len(Program) + 1) /\ phase' = "start"
      /\ at' = at + 1 /\ at \in 1 .. 27
  BY <1>1, NextLine
<1>3. /\ input = NoInput /\ input' = <<"command", Arg>>
      /\ UNCHANGED <<handler, keymap, shift_active, control_active, handled, reply, typed,
                     mode, awaiting, output, outputFull, queue, masked, requested, inService,
                     config, genuine, panicked, interruptFlag, gate>>
  BY <1>1 DEF ps2_controller_command, WritePort, Running, kbhVars, picVars
<1>4. \/ at = 5 /\ Arg = Disable1st
      \/ at = 6 /\ Arg = Disable2nd
      \/ at = 8 /\ Arg = ReadConfig
      \/ at = 11 /\ Arg = WriteConfig
      \/ at = 13 /\ Arg = TestSelf
      \/ at = 16 /\ Arg = Enable1st
      \/ at = 23 /\ Arg = ReadConfig
      \/ at = 26 /\ Arg = WriteConfig
  BY <1>1, Lines
<1>5. input' \in {"none", "command", "data"} \X (0 .. 255)
  BY <1>3, <1>4 DEF Disable1st, Disable2nd, ReadConfig, WriteConfig, TestSelf, Enable1st
<1>6. TypeOK'
  BY <1>2, <1>3, <1>5 DEF TypeOK, HardwareTypeOK
<1>7. InterruptsRight'
  BY <1>2, <1>3, <1>4 DEF InterruptsRight
<1>8. input' # NoInput
  BY <1>3 DEF NoInput
<1>9. ControllerRight'
  <2>1. CASE at = 5 \/ at = 6
    BY <1>2, <1>3, <1>4, <1>8, <2>1 DEF ControllerRight, Sent, PortDisabled, NoInput
  <2>2. CASE at = 8
    BY <1>2, <1>3, <1>4, <1>8, <2>2 DEF ControllerRight, Sent, PortDisabled, NoInput
  <2>3. CASE at = 11
    BY <1>2, <1>3, <1>4, <1>8, <2>3 DEF ControllerRight, Sent, PortDisabled, NoInput
  <2>4. CASE at = 13
    BY <1>2, <1>3, <1>4, <1>8, <2>4 DEF ControllerRight, Sent, PortDisabled, NoInput
  <2>5. CASE at >= 16
    BY <1>2, <1>3, <2>5 DEF ControllerRight
  <2> QED BY <1>4, <2>1, <2>2, <2>3, <2>4, <2>5
<1> QED BY <1>6, <1>7, <1>9

\* It sends a data byte: the configuration of line 12, with the port disabled, or
\* one after the controller test.
LEMMA DataStep ==
  ASSUME Inv, ps2_controller_out_data
  PROVE  Inv'
<1> USE DEF Inv
<1>1. Running /\ NextStep /\ ~Done
  BY DEF ps2_controller_out_data, Is
<1>2. /\ at' \in 1 .. (Len(Program) + 1) /\ phase' = "start"
      /\ at' = at + 1 /\ at \in 1 .. 27
  BY <1>1, NextLine
<1>3. \/ at \in {12, 27} /\ WritePort("data", config)
      \/ at = 18 /\ Arg = 255 /\ WritePort("data", Arg)
  BY Lines DEF ps2_controller_out_data
<1>4. /\ input = NoInput /\ input' \in {<<"data", config>>, <<"data", 255>>}
      /\ at = 12 => input' = <<"data", config>>
      /\ UNCHANGED <<handler, keymap, shift_active, control_active, handled, reply, typed,
                     mode, awaiting, output, outputFull, queue, masked, requested, inService,
                     config, genuine, panicked, interruptFlag, gate>>
  BY <1>1, <1>3 DEF ps2_controller_out_data, WritePort, Running, kbhVars, picVars
<1>5. input' \in {"none", "command", "data"} \X (0 .. 255)
  BY <1>4 DEF TypeOK
<1>6. TypeOK'
  BY <1>2, <1>4, <1>5 DEF TypeOK, HardwareTypeOK
<1>7. InterruptsRight'
  BY <1>2, <1>3, <1>4 DEF InterruptsRight
<1>8. ControllerRight'
  <2>1. CASE at = 12
    BY <1>2, <1>4, <2>1 DEF ControllerRight, Sent, PortDisabled
  <2>2. CASE at >= 16
    BY <1>2, <1>4, <2>2 DEF ControllerRight
  <2> QED BY <1>3, <2>1, <2>2
<1> QED BY <1>6, <1>7, <1>8

\* A poll: the boot code leaves a flush loop only with an empty buffer.
LEMMA PollSteps ==
  ASSUME Inv, FlushPoll \/ OutputWait
  PROVE  Inv'
<1> USE DEF Inv
<1>1. /\ Running /\ ~Done
      /\ UNCHANGED <<handler, keymap, shift_active, control_active, handled, reply, typed,
                     mode, input, awaiting, output, outputFull, queue, masked, requested,
                     inService, config, genuine, panicked, interruptFlag, gate>>
  BY DEF FlushPoll, OutputWait, Running, Is, kbhVars, hardwareVars, controllerVars, picVars
<1>2. HardwareTypeOK'
  BY <1>1 DEF TypeOK, HardwareTypeOK
<1>3. CASE at' = at /\ phase' \in {"wait", "read"}
  <2>1. TypeOK'
    BY <1>1, <1>2, <1>3 DEF TypeOK
  <2>2. InterruptsRight'
    BY <1>1, <1>3 DEF InterruptsRight
  <2>3. phase' = "read" => outputFull
    BY <1>3 DEF FlushPoll, OutputWait, NextStep
  <2>4. at = 9 \/ at = 14 => (phase' = "read" => input = NoInput)
    BY <2>3 DEF ControllerRight
  <2>5. at = 14 => (phase' = "read" => output = TestPassed)
    BY <2>3 DEF ControllerRight
  <2>6. at \in {7, 9, 14, 17, 19, 24}
    <3>1. Is("in") \/ Is("flush")
      BY <1>1 DEF FlushPoll, OutputWait, Is
    <3> QED BY <3>1, Lines
  <2>7. ControllerRight'
    BY <1>1, <1>3, <2>4, <2>5, <2>6 DEF ControllerRight, Sent, PortDisabled
  <2> QED BY <2>1, <2>2, <2>7
<1>4. CASE FlushPoll /\ ~outputFull /\ NextStep
  <2>1. /\ at' \in 1 .. (Len(Program) + 1) /\ phase' = "start"
        /\ at' = at + 1 /\ at \in 1 .. 27 /\ at \in {7, 17, 19}
    BY <1>1, <1>4, NextLine, Lines DEF FlushPoll
  <2>2. TypeOK'
    BY <1>1, <1>2, <2>1 DEF TypeOK
  <2>3. InterruptsRight'
    BY <1>1, <2>1 DEF InterruptsRight
  <2>4. ControllerRight'
    BY <1>1, <1>4, <2>1 DEF ControllerRight, Sent, PortDisabled
  <2> QED BY <2>2, <2>3, <2>4
<1> QED BY <1>3, <1>4 DEF FlushPoll, OutputWait

\* The read of in_data: at line 14 it gets the controller's answer.
LEMMA ReadStep ==
  ASSUME Inv, ps2_controller_in_data
  PROVE  Inv'
<1> USE DEF Inv
<1>1. /\ Running /\ phase = "read" /\ outputFull' = FALSE /\ config' = output
      /\ UNCHANGED <<handler, keymap, shift_active, control_active, handled, reply, typed,
                     mode, input, awaiting, output, queue, masked, requested,
                     inService, panicked, interruptFlag, gate>>
  BY DEF ps2_controller_in_data, ReadData, Running, kbhVars, picVars
<1>2. HardwareTypeOK' /\ config' \in 0 .. 255
  BY <1>1 DEF TypeOK, HardwareTypeOK
<1>3. at \in {7, 9, 14, 17, 19, 24}
  BY <1>1 DEF ControllerRight
<1>4. CASE Is("flush") /\ phase' = "start" /\ at' = at
  <2>1. TypeOK'
    BY <1>1, <1>2, <1>4 DEF TypeOK
  <2>2. InterruptsRight'
    BY <1>1, <1>4 DEF InterruptsRight
  <2>3. at \in {7, 17, 19}
    BY <1>4, Lines
  <2>4. ControllerRight'
    BY <1>1, <1>4, <2>3 DEF ControllerRight, Sent, PortDisabled
  <2> QED BY <2>1, <2>2, <2>4
<1>5. CASE ~Is("flush") /\ NextStep
  <2>1. at \in {9, 14, 24}
    <3>1. Len(Program) = 27
      BY Table
    <3>2. Program[7] = <<"flush", 0>> /\ Program[17] = <<"flush", 0>> /\ Program[19] = <<"flush", 0>>
      BY Table
    <3> QED BY <1>3, <1>5, <3>1, <3>2 DEF Is, Done
  <2>2. ~Done
    <3>1. Len(Program) = 27
      BY Table
    <3> QED BY <2>1, <3>1 DEF Done
  <2>3. /\ at' \in 1 .. (Len(Program) + 1) /\ phase' = "start" /\ at' = at + 1
    BY <1>5, <2>2, NextLine
  <2>4. TypeOK'
    BY <1>1, <1>2, <2>3 DEF TypeOK
  <2>5. InterruptsRight'
    BY <1>1, <2>1, <2>3 DEF InterruptsRight
  <2>6. ControllerRight'
    <3>1. CASE at = 9
      BY <1>1, <2>3, <3>1 DEF ControllerRight, Sent, PortDisabled
    <3>2. CASE at = 14
      BY <1>1, <2>3, <3>2 DEF ControllerRight, Sent, PortDisabled
    <3>3. CASE at = 24
      BY <1>1, <2>3, <3>3 DEF ControllerRight
    <3> QED BY <2>1, <3>1, <3>2, <3>3
  <2> QED BY <2>4, <2>5, <2>6
<1> QED BY <1>1, <1>4, <1>5 DEF ps2_controller_in_data

\* The bits that line 10 sets in the configuration; line 15 finds the answer it
\* waits for.
LEMMA OrAndTestSteps ==
  ASSUME Inv, OrConfig \/ TestResult
  PROVE  Inv'
<1> USE DEF Inv
<1>1. /\ Running /\ ~Done
      /\ UNCHANGED <<handler, keymap, shift_active, control_active, handled, reply, typed,
                     mode, input, awaiting, output, outputFull, queue, masked, requested,
                     inService, gate>>
  BY DEF OrConfig, TestResult, Running, Is, kbhVars, hardwareVars, controllerVars, picVars
<1>2. HardwareTypeOK'
  BY <1>1 DEF TypeOK, HardwareTypeOK
<1>3. CASE OrConfig
  <2>1. /\ config' = OrMask(config, Arg) /\ NextStep
        /\ UNCHANGED <<panicked, interruptFlag>>
        /\ (at = 10 /\ Arg = 252) \/ (at = 25 /\ Arg = 1)
    BY <1>3, Lines DEF OrConfig
  <2>2. /\ at' \in 1 .. (Len(Program) + 1) /\ phase' = "start" /\ at' = at + 1
    BY <1>1, <2>1, NextLine
  <2>3. config' \in 0 .. 255 /\ (at = 10 => config' \in 252 .. 255)
    <3>1. config \in 0 .. 255
      BY DEF TypeOK
    <3>2. OrMask(config, 1) \in 0 .. 255 /\ OrMask(config, 252) \in 252 .. 255
      BY <3>1, ConfigurationBits
    <3>3. CASE at = 10
      <4>1. config' \in 252 .. 255
        BY <2>1, <3>2, <3>3
      <4> QED BY <4>1
    <3>4. CASE at = 25
      BY <2>1, <3>2, <3>4
    <3> QED BY <2>1, <3>3, <3>4
  <2>4. TypeOK'
    BY <1>1, <1>2, <2>2, <2>3 DEF TypeOK
  <2>5. InterruptsRight'
    BY <1>1, <2>1, <2>2, SMTT(30) DEF InterruptsRight
  <2>6. ControllerRight'
    BY <1>1, <2>1, <2>2, <2>3 DEF ControllerRight, PortDisabled
  <2> QED BY <2>4, <2>5, <2>6
<1>4. CASE TestResult
  <2>1. at = 15
    BY <1>4, Lines DEF TestResult
  <2>2. config = TestPassed
    BY <2>1 DEF ControllerRight
  <2>3. NextStep /\ UNCHANGED <<config, panicked, interruptFlag>>
    BY <1>4, <2>2 DEF TestResult
  <2>4. /\ at' \in 1 .. (Len(Program) + 1) /\ phase' = "start" /\ at' = at + 1
    BY <1>1, <2>3, NextLine
  <2>5. TypeOK'
    BY <1>1, <1>2, <2>3, <2>4 DEF TypeOK
  <2>6. InterruptsRight'
    BY <1>1, <2>1, <2>3, <2>4 DEF InterruptsRight
  <2>7. ControllerRight'
    BY <1>1, <2>1, <2>3, <2>4 DEF ControllerRight, PortDisabled
  <2> QED BY <2>5, <2>6, <2>7
<1> QED BY <1>3, <1>4

\* Once line 22 is passed nothing of the boot code depends on the controller.
LEMMA AfterUnmask ==
  ASSUME Inv, at > 22, UNCHANGED <<at, phase, panicked>>
  PROVE  ControllerRight'
<1>1. at \in 1 .. 28
  BY Lines DEF Inv
<1> QED BY <1>1 DEF Inv, ControllerRight

\* The CPU can only take the interrupt after line 22, through a complete gate.
LEMMA InterruptStep ==
  ASSUME Inv, Interrupt
  PROVE  Inv'
<1> USE DEF Inv
<1>1. at \in 1 .. 28
  BY Lines
<1>2. /\ interruptFlag /\ handler = "none" /\ ~masked
      /\ requested' = FALSE /\ inService' = TRUE /\ interruptFlag' = FALSE
      /\ UNCHANGED <<mode, input, awaiting, output, outputFull, queue, masked, at, phase, config,
                     genuine, panicked, gate, keymap, shift_active, control_active, handled,
                     reply, typed>>
  BY DEF Interrupt, AcceptInterrupt, mainVars, kbhVars, controllerVars
<1>3. at > 22 /\ gate = "keyboard"
  BY <1>1, <1>2 DEF InterruptsRight
<1>4. handler' = "kbh"
  BY <1>3 DEF Interrupt
<1>5. TypeOK'
  BY <1>2, <1>4 DEF TypeOK, HardwareTypeOK
<1>6. InterruptsRight'
  BY <1>2, <1>3, <1>4 DEF InterruptsRight
<1>7. ControllerRight'
  BY <1>2, <1>3, AfterUnmask
<1> QED BY <1>5, <1>6, <1>7

\* What kbh does to the map of keys.
LEMMA KeymapType ==
  ASSUME NEW k \in SUBSET (0 .. 127), NEW al \in 0 .. 255
  PROVE  KeymapAfter(k, al) \subseteq 0 .. 127
<1>1. CASE Released(al)
  BY <1>1 DEF KeymapAfter
<1>2. CASE ~Released(al)
  <2>1. al \in 0 .. 127
    BY <1>2 DEF Released, KEY_RELEASED
  <2> QED BY <1>2, <2>1 DEF KeymapAfter
<1> QED BY <1>1, <1>2

\* The steps of the interrupt handler.
LEMMA HandlerSteps ==
  ASSUME Inv, Handler
  PROVE  Inv'
<1> USE DEF Inv
<1>1. /\ handler \in {"kbh", "drop", "eoi", "iret"}
      /\ UNCHANGED <<at, phase, config, genuine, panicked, gate, reply, typed>>
      /\ UNCHANGED <<mode, input, awaiting, output, queue, masked, requested>>
  BY DEF Handler, kbh, DropByte, pic_eoi, InterruptReturn, Handling, mainVars, ReadData,
         EndOfInterrupt, hardwareVars, controllerVars, picVars
<1>2. at > 22 /\ at > 4 /\ at >= 22 /\ gate = "keyboard"
  BY <1>1, Lines DEF InterruptsRight
<1>3. ControllerRight'
  BY <1>1, <1>2, AfterUnmask
<1>4. CASE kbh
  <2>1. /\ handler = "kbh" /\ outputFull' = FALSE /\ handler' \in {"drop", "eoi"}
        /\ UNCHANGED <<inService, interruptFlag>>
    BY <1>4 DEF kbh, ReadData, picVars
  <2>2. output \in 0 .. 255 /\ keymap \in SUBSET (0 .. 127) /\ handled \in Seq(0 .. 255)
    BY DEF TypeOK, HardwareTypeOK
  <2>3. keymap' \subseteq 0 .. 127 /\ handled' \in Seq(0 .. 255)
    <3>1. CASE output = KEY_ALTERNATE
      BY <1>4, <2>2, <3>1 DEF kbh, kbhVars
    <3>2. CASE output # KEY_ALTERNATE
      <4>1. keymap' = KeymapAfter(keymap, output) /\ handled' = Append(handled, output)
        BY <1>4, <3>2 DEF kbh
      <4>2. KeymapAfter(keymap, output) \subseteq 0 .. 127
        BY <2>2, KeymapType
      <4>3. Append(handled, output) \in Seq(0 .. 255)
        BY <2>2
      <4> QED BY <4>1, <4>2, <4>3
    <3> QED BY <3>1, <3>2
  <2>4. TypeOK'
    <3>1. HardwareTypeOK'
      BY <1>1, <2>1 DEF TypeOK, HardwareTypeOK
    <3> QED BY <1>1, <2>1, <2>3, <3>1 DEF TypeOK
  <2>5. InterruptsRight'
    BY <1>1, <1>2, <2>1 DEF InterruptsRight
  <2> QED BY <1>3, <2>4, <2>5
<1>5. CASE DropByte
  <2>1. /\ handler = "drop" /\ outputFull' = FALSE /\ handler' = "eoi"
        /\ UNCHANGED <<inService, interruptFlag, keymap, handled>>
    BY <1>5 DEF DropByte, ReadData, picVars, kbhVars
  <2>2. TypeOK'
    BY <1>1, <2>1 DEF TypeOK, HardwareTypeOK
  <2>3. InterruptsRight'
    BY <1>1, <1>2, <2>1 DEF InterruptsRight
  <2> QED BY <1>3, <2>2, <2>3
<1>6. CASE pic_eoi
  <2>1. /\ handler = "eoi" /\ inService' = FALSE /\ handler' = "iret"
        /\ UNCHANGED <<outputFull, interruptFlag, keymap, handled>>
    BY <1>6 DEF pic_eoi, EndOfInterrupt, controllerVars, kbhVars
  <2>2. TypeOK'
    BY <1>1, <2>1 DEF TypeOK, HardwareTypeOK
  <2>3. InterruptsRight'
    BY <1>1, <1>2, <2>1 DEF InterruptsRight
  <2> QED BY <1>3, <2>2, <2>3
<1>7. CASE InterruptReturn
  <2>1. /\ handler = "iret" /\ handler' = "none" /\ interruptFlag' = TRUE
        /\ UNCHANGED <<outputFull, inService, keymap, handled>>
    BY <1>7 DEF InterruptReturn, hardwareVars, controllerVars, picVars, kbhVars
  <2>2. TypeOK'
    BY <1>1, <2>1 DEF TypeOK, HardwareTypeOK
  <2>3. InterruptsRight'
    BY <1>1, <1>2, <2>1 DEF InterruptsRight
  <2> QED BY <1>3, <2>2, <2>3
<1> QED BY <1>4, <1>5, <1>6, <1>7 DEF Handler

\* The controller takes a command.  Up to line 14 it is the one the boot code
\* sent last, and its answer finds the output buffer empty.
LEMMA CommandTaken ==
  ASSUME Inv, NEW code, input' = NoInput, ControllerCommand(code), LatchEdge, CodeUnchanged,
         typed' = typed
  PROVE  Inv'
<1> USE DEF Inv
<1>1. /\ input = <<"command", code>> /\ awaiting' = (code = WriteConfig)
      /\ UNCHANGED <<at, phase, config, genuine, panicked, interruptFlag, gate, handler,
                     keymap, handled, typed, queue, masked, inService>>
  BY DEF ControllerCommand, LatchEdge, CodeUnchanged, mainVars, kbhVars
<1>2. mode \in 0 .. 255 /\ output \in 0 .. 255 /\ outputFull \in BOOLEAN
  BY DEF TypeOK, HardwareTypeOK
<1>3. code = Disable1st => mode' \in 0 .. 255 /\ PortDisabled(mode')
  <2>1. code = Disable1st => mode' = SetBit(mode, 4)
    BY DEF ControllerCommand, Disable1st, Disable2nd, Enable1st
  <2>2. SetBit(mode, 4) \in 0 .. 255 /\ PortDisabled(SetBit(mode, 4))
    BY <1>2, ConfigurationBits
  <2> QED BY <2>1, <2>2
<1>4. code = Disable2nd => mode' \in 0 .. 255 /\ (PortDisabled(mode) => PortDisabled(mode'))
  <2>1. code = Disable2nd => mode' = SetBit(mode, 5)
    BY DEF ControllerCommand, Disable1st, Disable2nd, Enable1st
  <2>2. SetBit(mode, 5) \in 0 .. 255 /\ (PortDisabled(mode) => PortDisabled(SetBit(mode, 5)))
    BY <1>2, ConfigurationBits
  <2> QED BY <2>1, <2>2
<1>5. code = Enable1st => mode' \in 0 .. 255
  <2>1. code = Enable1st => mode' = ClearBit(mode, 4)
    BY DEF ControllerCommand, Disable1st, Disable2nd, Enable1st
  <2>2. ClearBit(mode, 4) \in 0 .. 255
    BY <1>2, ConfigurationBits
  <2> QED BY <2>1, <2>2
<1>6. code \notin {Disable1st, Disable2nd, Enable1st} => mode' = mode
  BY DEF ControllerCommand
<1>7. mode' \in 0 .. 255
  BY <1>2, <1>3, <1>4, <1>5, <1>6
<1>8. /\ code = ReadConfig => output' = mode /\ outputFull' = TRUE
      /\ code = TestSelf => output' = TestPassed /\ outputFull' = TRUE
      /\ code \notin {ReadConfig, TestSelf} => UNCHANGED <<output, outputFull>>
  BY DEF ControllerCommand, Emit, ReadConfig, TestSelf
<1>9. output' \in 0 .. 255 /\ outputFull' \in BOOLEAN
  <2>1. TestPassed \in 0 .. 255
    BY DEF TestPassed
  <2>2. CASE code = ReadConfig
    BY <1>2, <1>8, <2>2
  <2>3. CASE code = TestSelf
    BY <1>8, <2>1, <2>3
  <2>4. CASE code \notin {ReadConfig, TestSelf}
    BY <1>2, <1>8, <2>4
  <2> QED BY <2>2, <2>3, <2>4
<1>10. NoInput \in {"none", "command", "data"} \X (0 .. 255)
  BY DEF NoInput
<1>11. requested' \in BOOLEAN /\ awaiting' \in BOOLEAN
  BY <1>1 DEF LatchEdge, TypeOK, HardwareTypeOK
<1>12. TypeOK'
  BY <1>1, <1>7, <1>9, <1>10, <1>11 DEF TypeOK, HardwareTypeOK
<1>13. InterruptsRight'
  BY <1>1 DEF InterruptsRight
<1>14. at \in 1 .. 28
  BY Lines
<1>15. ControllerRight'
  <2>1. input # NoInput
    BY <1>1 DEF NoInput
  <2>2. CASE at = 6
    <3>1. code = Disable1st
      BY <1>1, <2>1, <2>2 DEF ControllerRight, Sent
    <3>2. PortDisabled(mode')
      BY <1>3, <3>1
    <3>3. PortDisabled(mode)'
      BY <3>2 DEF PortDisabled, Bit
    <3> QED BY <1>1, <2>2, <3>3 DEF ControllerRight, Sent
  <2>3. CASE at \in {7, 8}
    <3>1. code = Disable2nd
      BY <1>1, <2>1, <2>3 DEF ControllerRight, Sent
    <3>2. PortDisabled(mode')
      BY <1>4, <2>3, <3>1 DEF ControllerRight
    <3>3. PortDisabled(mode)'
      BY <3>2 DEF PortDisabled, Bit
    <3>4. UNCHANGED outputFull
      BY <1>8, <3>1 DEF ReadConfig, TestSelf, Disable2nd
    <3> QED BY <1>1, <2>3, <3>3, <3>4 DEF ControllerRight, Sent
  <2>4. CASE at = 9
    <3>1. code = ReadConfig
      BY <1>1, <2>1, <2>4 DEF ControllerRight, Sent
    <3>2. mode' = mode
      BY <1>6, <3>1 DEF ReadConfig, Disable1st, Disable2nd, Enable1st
    <3> QED BY <1>1, <2>4, <3>2 DEF ControllerRight, Sent, PortDisabled
  <2>5. CASE at \in {10, 11}
    BY <2>1, <2>5 DEF ControllerRight
  <2>6. CASE at = 12
    <3>1. code = WriteConfig
      BY <1>1, <2>1, <2>6 DEF ControllerRight, Sent
    <3>2. mode' = mode /\ UNCHANGED outputFull
      BY <1>6, <1>8, <3>1
        DEF WriteConfig, ReadConfig, TestSelf, Disable1st, Disable2nd, Enable1st
    <3>3. awaiting'
      BY <1>1, <3>1
    <3> QED BY <1>1, <2>6, <3>2, <3>3 DEF ControllerRight, Sent, PortDisabled
  <2>7. CASE at = 13
    BY <1>1, <2>1, <2>7 DEF ControllerRight
  <2>8. CASE at = 14
    <3>1. code = TestSelf
      BY <1>1, <2>1, <2>8 DEF ControllerRight, Sent
    <3>2. mode' = mode /\ output' = TestPassed
      BY <1>6, <1>8, <3>1 DEF TestSelf, Disable1st, Disable2nd, Enable1st
    <3>3. phase # "read"
      BY <2>1, <2>8 DEF ControllerRight
    <3> QED BY <1>1, <2>8, <3>2, <3>3 DEF ControllerRight, Sent, PortDisabled
  <2>9. CASE at \in 1 .. 5 \cup 15 .. 28
    BY <1>1, <2>9 DEF ControllerRight
  <2> QED BY <1>14, <2>2, <2>3, <2>4, <2>5, <2>6, <2>7, <2>8, <2>9
<1> QED BY <1>12, <1>13, <1>15

\* The controller takes a data byte.  At line 13 it is the configuration with the
\* bits of line 10.
LEMMA DataTaken ==
  ASSUME Inv, NEW byte, input' = NoInput, ControllerData(byte), LatchEdge, CodeUnchanged,
         typed' = typed
  PROVE  Inv'
<1> USE DEF Inv
<1>1. /\ input = <<"data", byte>> /\ awaiting' = FALSE
      /\ mode' = (IF awaiting THEN byte ELSE mode)
      /\ queue' \in {queue, ResetReply}
      /\ UNCHANGED <<at, phase, config, genuine, panicked, interruptFlag, gate, handler,
                     keymap, handled, typed, output, outputFull, masked, inService>>
  BY DEF ControllerData, LatchEdge, CodeUnchanged, mainVars, kbhVars
<1>2. byte \in 0 .. 255 /\ mode \in 0 .. 255 /\ queue \in Seq(0 .. 255)
  BY <1>1 DEF TypeOK, HardwareTypeOK
<1>3. ResetReply \in Seq(0 .. 255)
  BY DEF ResetReply
<1>4. NoInput \in {"none", "command", "data"} \X (0 .. 255)
  BY DEF NoInput
<1>5. requested' \in BOOLEAN
  BY DEF LatchEdge, TypeOK, HardwareTypeOK
<1>6. TypeOK'
  <2>1. mode' \in 0 .. 255 /\ queue' \in Seq(0 .. 255) /\ awaiting' \in BOOLEAN
    BY <1>1, <1>2, <1>3
  <2> QED BY <1>1, <1>4, <1>5, <2>1 DEF TypeOK, HardwareTypeOK
<1>7. InterruptsRight'
  BY <1>1 DEF InterruptsRight
<1>8. at \in 1 .. 28
  BY Lines
<1>9. ControllerRight'
  <2>1. input # NoInput /\ \A code : input # <<"command", code>>
    BY <1>1 DEF NoInput
  <2>2. CASE at = 13
    <3>1. byte = config /\ awaiting
      BY <1>1, <2>1, <2>2 DEF ControllerRight
    <3>2. mode' = byte /\ byte \in 252 .. 255
      BY <1>1, <2>2, <3>1 DEF ControllerRight
    <3>3. PortDisabled(mode')
      BY <1>2, <3>2, ConfigurationBits
    <3>4. PortDisabled(mode)'
      BY <3>3 DEF PortDisabled, Bit
    <3> QED BY <1>1, <2>2, <3>4 DEF ControllerRight
  <2>3. CASE at \in 6 .. 14 /\ at # 13
    <3>1. FALSE
      BY <2>1, <2>3 DEF ControllerRight, Sent
    <3> QED BY <3>1
  <2>4. CASE at \in 1 .. 5 \cup 15 .. 28
    BY <1>1, <2>4 DEF ControllerRight
  <2> QED BY <1>8, <2>2, <2>3, <2>4
<1> QED BY <1>6, <1>7, <1>9

\* The keyboard sends only while its port is enabled: not from line 7 to 14.
LEMMA KeyboardStep ==
  ASSUME Inv, Keyboard
  PROVE  Inv'
<1> USE DEF Inv
<1>1. /\ queue # <<>> /\ ~PortDisabled(mode)
      /\ output' = Head(queue) /\ outputFull' = TRUE /\ queue' = Tail(queue)
      /\ UNCHANGED <<mode, input, awaiting, at, phase, config, genuine, panicked, interruptFlag,
                     gate, handler, keymap, handled, typed, masked, inService>>
  BY DEF Keyboard, KeyboardSends, Emit, LatchEdge, CodeUnchanged, mainVars, kbhVars
<1>2. Head(queue) \in 0 .. 255 /\ Tail(queue) \in Seq(0 .. 255)
  BY <1>1, HeadTailProperties DEF TypeOK, HardwareTypeOK
<1>3. requested' \in BOOLEAN
  BY DEF Keyboard, KeyboardSends, LatchEdge, TypeOK, HardwareTypeOK
<1>4. TypeOK'
  BY <1>1, <1>2, <1>3 DEF TypeOK, HardwareTypeOK
<1>5. InterruptsRight'
  BY <1>1 DEF InterruptsRight
<1>6. at \in 1 .. 28 /\ at \notin 7 .. 14
  BY <1>1, Lines DEF ControllerRight
<1>7. ControllerRight'
  BY <1>1, <1>6 DEF ControllerRight, Sent, PortDisabled
<1> QED BY <1>4, <1>5, <1>7

\* Somebody types.
LEMMA TypeStep ==
  ASSUME Inv, Type
  PROVE  Inv'
<1> USE DEF Inv
<1>1. /\ typed < Len(Typed) /\ typed' = typed + 1 /\ queue' = queue \o Typed[typed + 1]
      /\ UNCHANGED <<mode, input, awaiting, output, outputFull, masked, requested, inService,
                     at, phase, config, genuine, panicked, interruptFlag, gate, handler,
                     keymap, handled>>
  BY DEF Type, KeyAction, CodeUnchanged, mainVars, kbhVars, controllerVars, picVars
<1>2. PICK n \in Nat : n = Len(Typed) /\ typed \in 0 .. n
  BY ConstantsAssumption DEF TypeOK
<1>3. typed + 1 \in 1 .. n
  BY <1>1, <1>2
<1>4. Typed[typed + 1] \in Seq(0 .. 255)
  BY <1>2, <1>3, ConstantsAssumption
<1>5. queue' \in Seq(0 .. 255)
  BY <1>1, <1>4, ConcatProperties DEF TypeOK, HardwareTypeOK
<1>6. typed' \in 0 .. Len(Typed)
  BY <1>1, <1>2, <1>3
<1>7. TypeOK'
  BY <1>1, <1>5, <1>6 DEF TypeOK, HardwareTypeOK
<1>8. InterruptsRight'
  BY <1>1 DEF InterruptsRight
<1>9. ControllerRight'
  BY <1>1 DEF ControllerRight, Sent, PortDisabled
<1> QED BY <1>7, <1>8, <1>9

\* The inductive invariant holds in every state.
THEOREM Invariance == Spec => []Inv
<1>1. ASSUME Inv, [Next]_vars
      PROVE  Inv'
  <2>1. CASE Boot
    BY <1>1, <2>1, SetupSteps, CommandStep, DataStep, PollSteps, ReadStep, OrAndTestSteps DEF Boot
  <2>2. CASE Interrupt
    BY <1>1, <2>2, InterruptStep
  <2>3. CASE Handler
    BY <1>1, <2>3, HandlerSteps
  <2>4. CASE Controller
    <3>1. ControllerTakes /\ CodeUnchanged /\ typed' = typed
      BY <2>4 DEF Controller
    <3>2. input' = NoInput /\ LatchEdge
      BY <3>1 DEF ControllerTakes
    <3>3. ControllerCommand(input[2]) \/ ControllerData(input[2])
      BY <3>1 DEF ControllerTakes
    <3> QED BY <1>1, <3>1, <3>2, <3>3, CommandTaken, DataTaken
  <2>5. CASE Keyboard
    BY <1>1, <2>5, KeyboardStep
  <2>6. CASE Type
    BY <1>1, <2>6, TypeStep
  <2>7. CASE UNCHANGED vars
    <3>1. UNCHANGED <<mode, input, awaiting, output, outputFull, queue, masked, requested,
                      inService, at, phase, config, genuine, panicked, interruptFlag, gate,
                      handler, keymap, handled, typed>>
      BY <2>7 DEF vars, hardwareVars, controllerVars, picVars, mainVars, kbhVars
    <3>2. TypeOK'
      BY <1>1, <3>1 DEF Inv, TypeOK, HardwareTypeOK
    <3>3. InterruptsRight'
      BY <1>1, <3>1 DEF Inv, InterruptsRight
    <3>4. ControllerRight'
      BY <1>1, <3>1 DEF Inv, ControllerRight, Sent, PortDisabled
    <3> QED BY <3>2, <3>3, <3>4 DEF Inv
  <2> QED BY <1>1, <2>1, <2>2, <2>3, <2>4, <2>5, <2>6, <2>7 DEF Next
<1> QED BY <1>1, InitRight, PTL DEF Spec

\* Every variable keeps its type, for all that is typed (ps2.c, pic.c, idt.c).
THEOREM TypeCorrect == Spec => []TypeOK
<1>1. Inv => TypeOK
  BY DEF Inv
<1> QED BY <1>1, Invariance, PTL

\* No interrupt goes through a gate that is empty or half written: while
\* idt_install_handler stores it the line is masked (idt.c:28-32, pic.c:64,
\* ps2.c:55-56).
THEOREM GateIsWhole == Spec => []NeverLost
<1>1. Inv => NeverLost
  BY DEF Inv, InterruptsRight, NeverLost
<1> QED BY <1>1, Invariance, PTL

\* Line 1 is in service only while keyboard_handler is on its way to pic_eoi
\* (ps2.c:127-133).
THEOREM ServiceIsEnded == Spec => []ServiceEnds
<1>1. Inv => ServiceEnds
  BY DEF Inv, InterruptsRight, ServiceEnds
<1> QED BY <1>1, Invariance, PTL

\* The controller test never fails, whatever is typed and whatever the BIOS left
\* (ps2.c:24-47): the port is disabled and the buffer flushed before it.
THEOREM TestSucceeds == Spec => []NeverPanics
<1>1. Inv => NeverPanics
  BY DEF Inv, ControllerRight, NeverPanics
<1> QED BY <1>1, Invariance, PTL

------------------------------------------------------------------------------
\* The machine the driver works on: devices that answer at once, a BIOS that
\* left the keyboard's interrupt off, nobody typing during boot, no prefixes.
NoPrefix(bytes) == \A k \in 1 .. Len(bytes) : bytes[k] # KEY_ALTERNATE

QuietMachine ==
  /\ Synchronous /\ QuietBoot
  /\ \A byte \in BiosModes : ~Interrupting(byte)
  /\ \A n \in 1 .. Len(Typed) : NoPrefix(Typed[n])

\* Its boot, by line: no interrupt is asked for before the configuration of line
\* 27, and the reset of line 18 has been answered in full when line 19 is left.
QuietBootRight ==
  /\ at < 28 => typed = 0 /\ handled = <<>> /\ handler = "none" /\ ~requested /\ ~Interrupting(mode)
  /\ at <= 18 => queue = <<>>
  /\ at <= 5 => input = NoInput
  /\ at = 9 => (outputFull => ~Interrupting(output)) /\ (phase = "read" => outputFull)
  /\ at \in 10 .. 13 => ~Interrupting(config)
  /\ at \in {15, 16} => input = NoInput
  /\ at = 14 /\ input = NoInput => ~awaiting
  /\ at \in 15 .. 26 => ~awaiting
  /\ at \in {17, 18} => Sent(Enable1st) /\ (input = NoInput => ~PortDisabled(mode))
  /\ at = 19 => input \in {NoInput, <<"data", 255>>} /\ ~PortDisabled(mode)
  /\ at \in 20 .. 27 => queue = <<>> /\ ~PortDisabled(mode)
  /\ at \in {20, 21, 22, 23, 25, 26} => input = NoInput /\ ~outputFull
  /\ at = 24 => /\ Sent(ReadConfig)
                /\ outputFull => input = NoInput /\ ~PortDisabled(output)
                /\ phase = "read" => outputFull
  /\ at \in 25 .. 28 => ~PortDisabled(config)
  /\ at \in 26 .. 28 => Interrupting(config)
  /\ at = 27 => Sent(WriteConfig) /\ (input = NoInput => awaiting) /\ ~outputFull

InBuffer == IF outputFull THEN <<output>> ELSE <<>>

\* Once booted: what was typed is what kbh has got, then what is in the buffer,
\* then what the keyboard has yet to send; and the interrupt is requested
\* whenever a byte waits in the buffer and kbh is not about to read it.
Serving ==
  at = 28 =>
    /\ handler \in {"none", "kbh", "eoi", "iret"}
    /\ TypedBytes = handled \o (InBuffer \o queue)
    /\ NoPrefix(queue)
    /\ outputFull => output # KEY_ALTERNATE
    /\ input \in {NoInput, <<"data", config>>}
    /\ input # NoInput => awaiting /\ ~Interrupting(mode) /\ ~requested /\ handler = "none"
    /\ input = NoInput => Interrupting(mode) /\ ~PortDisabled(mode)
    /\ handler = "kbh" => outputFull /\ ~requested
    /\ handler # "kbh" /\ input = NoInput => (requested <=> outputFull)

QuietInv == QuietBootRight /\ Serving

\* g collects the bytes of the first n of Typed.
Collects(g, n) == g = [k \in 0 .. n |-> IF k = 0 THEN <<>> ELSE g[k - 1] \o Typed[k]]

\* Such a function, element by element.
LEMMA CollectsEach ==
  ASSUME NEW g, NEW n \in Nat, Collects(g, n), NEW k \in 0 .. n
  PROVE  g[k] = IF k = 0 THEN <<>> ELSE g[k - 1] \o Typed[k]
<1> DEFINE body(l) == IF l = 0 THEN <<>> ELSE g[l - 1] \o Typed[l]
           f == [l \in 0 .. n |-> body(l)]
<1>1. g = f
  BY DEF Collects
<1>2. f[k] = body(k)
  <2> HIDE DEF body
  <2> QED OBVIOUS
<1>3. g[k] = f[k]
  <2> HIDE DEF f
  <2> QED BY <1>1
<1> HIDE DEF f
<1>4. g[k] = body(k)
  BY <1>2, <1>3
<1> QED BY <1>4

\* There is such a function for every n: a smallest n without one would follow
\* one with.
LEMMA SomeCollects ==
  ASSUME NEW n \in Nat
  PROVE  \E g : Collects(g, n)
<1> DEFINE Without == {m \in Nat : ~ \E g : Collects(g, m)}
<1>1. SUFFICES ASSUME Without # {}
               PROVE  FALSE
  OBVIOUS
<1>2. PICK m \in Without : \A l \in Without : ~(l < m)
  <2>1. IsWellFoundedOn(OpToRel(<, Nat), Nat) /\ Without \subseteq Nat
    BY NatLessThanWellFounded
  <2>2. \E m \in Without : \A l \in Without : ~(<<l, m>> \in OpToRel(<, Nat))
    BY <1>1, <2>1, WFMin
  <2> QED BY <2>2 DEF OpToRel
<1>3. CASE m = 0
  <2>1. Collects([k \in 0 .. 0 |-> <<>>], 0)
    BY DEF Collects
  <2> QED BY <1>2, <1>3, <2>1
<1>4. CASE m # 0
  <2>1. m - 1 \in Nat /\ m - 1 < m
    BY <1>4
  <2>2. PICK g : Collects(g, m - 1)
    BY <1>2, <2>1
  <2> DEFINE h == [k \in 0 .. m |-> IF k < m THEN g[k] ELSE g[m - 1] \o Typed[m]]
  <2>3. ASSUME NEW k \in 0 .. m
        PROVE  h[k] = IF k = 0 THEN <<>> ELSE h[k - 1] \o Typed[k]
    <3>1. CASE k < m
      <4>1. g[k] = IF k = 0 THEN <<>> ELSE g[k - 1] \o Typed[k]
        <5>1. k \in 0 .. (m - 1)
          BY <2>1, <3>1
        <5> QED BY <2>1, <2>2, <5>1, CollectsEach
      <4> QED BY <3>1, <4>1
    <3>2. CASE k = m
      BY <1>4, <3>2
    <3> QED BY <3>1, <3>2
  <2>4. Collects(h, m)
    <3>1. h = [k \in 0 .. m |-> h[k]]
      OBVIOUS
    <3> HIDE DEF h
    <3> QED BY <2>3, <3>1 DEF Collects
  <2> QED BY <1>2, <2>4
<1> QED BY <1>3, <1>4

\* What BytesOf is: the bytes of what was typed, one after the other.
LEMMA BytesCollect ==
  /\ BytesOf[0] = <<>>
  /\ \A n \in 1 .. Len(Typed) : BytesOf[n] = BytesOf[n - 1] \o Typed[n]
<1>1. Len(Typed) \in Nat
  BY ConstantsAssumption
<1>2. \E g : Collects(g, Len(Typed))
  BY <1>1, SomeCollects
<1>3. Collects(BytesOf, Len(Typed))
  BY <1>2 DEF BytesOf, Collects
<1>4. ASSUME NEW n \in 0 .. Len(Typed)
      PROVE  BytesOf[n] = IF n = 0 THEN <<>> ELSE BytesOf[n - 1] \o Typed[n]
  BY <1>1, <1>3, CollectsEach
<1>5. 0 \in 0 .. Len(Typed)
  BY <1>1
<1>6. BytesOf[0] = <<>>
  BY <1>4, <1>5
<1>7. ASSUME NEW n \in 1 .. Len(Typed)
      PROVE  BytesOf[n] = BytesOf[n - 1] \o Typed[n]
  <2>1. n \in 0 .. Len(Typed) /\ n # 0
    BY <1>1
  <2> QED BY <1>4, <2>1
<1> QED BY <1>6, <1>7

\* The bits of the interrupt and of the port, through commands and masks.
LEMMA InterruptBits ==
  ASSUME NEW b \in 0 .. 255
  PROVE  /\ Interrupting(SetBit(b, 4)) <=> Interrupting(b)
         /\ Interrupting(SetBit(b, 5)) <=> Interrupting(b)
         /\ Interrupting(ClearBit(b, 4)) <=> Interrupting(b)
         /\ ~PortDisabled(ClearBit(b, 4))
         /\ Interrupting(OrMask(b, 1))
         /\ PortDisabled(OrMask(b, 1)) <=> PortDisabled(b)
         /\ Interrupting(OrMask(b, 252)) <=> Interrupting(b)
<1> USE DEF SetBit, ClearBit, Bit, PortDisabled, Interrupting, OrMask
<1>1. 2^0 = 1 /\ 2^4 = 16 /\ 2^5 = 32
  OBVIOUS
<1>2. Interrupting(SetBit(b, 4)) <=> Interrupting(b)
  BY <1>1
<1>3. Interrupting(SetBit(b, 5)) <=> Interrupting(b)
  BY <1>1
<1>4. Interrupting(ClearBit(b, 4)) <=> Interrupting(b)
  BY <1>1
<1>5. ~PortDisabled(ClearBit(b, 4))
  BY <1>1
<1>6. Interrupting(OrMask(b, 1))
  BY <1>1
<1>7. PortDisabled(OrMask(b, 1)) <=> PortDisabled(b)
  BY <1>1
<1>8. Interrupting(OrMask(b, 252)) <=> Interrupting(b)
  BY <1>1
<1> QED BY <1>2, <1>3, <1>4, <1>5, <1>6, <1>7, <1>8

\* The machine is switched on.
LEMMA QuietInit ==
  ASSUME QuietMachine, Init
  PROVE  QuietInv
BY DEF QuietMachine, Init, HardwareInit, QuietInv, QuietBootRight, Serving

\* Mask, gates and flag: nothing the devices see.
LEMMA QuietSetup ==
  ASSUME QuietMachine, Inv, QuietInv,
         InitializePic \/ MaskAll \/ pic_enable_irq \/ idt_install_handler \/ EnableInterrupts
  PROVE  QuietInv'
<1>1. Running /\ NextStep /\ ~Done
  BY DEF InitializePic, MaskAll, pic_enable_irq, idt_install_handler, SetGate, EnableInterrupts, Is
<1>2. /\ at \in {1, 2, 3, 4, 20, 21, 22} /\ (requested' = requested \/ requested' = FALSE)
      /\ UNCHANGED <<mode, input, awaiting, output, outputFull, queue, config>>
  BY Lines DEF Inv, InitializePic, MaskAll, pic_enable_irq, idt_install_handler, SetGate, EnableInterrupts,
     hardwareVars, controllerVars, picVars
<1>3. at' = at + 1 /\ phase' = "start" /\ UNCHANGED <<handler, handled, typed>>
  BY <1>1 DEF NextStep, Running, kbhVars
<1>4. QuietBootRight'
  <2>3. ~requested'
    <3>1. ~requested
      BY <1>2 DEF QuietInv, QuietBootRight
    <3> QED BY <1>2, <3>1
  <2>1. CASE at \in {1, 2, 3, 4}
    BY <1>2, <1>3, <2>1, <2>3 DEF QuietInv, QuietBootRight, Interrupting, PortDisabled
  <2>2. CASE at \in {20, 21, 22}
    BY <1>2, <1>3, <2>2, <2>3 DEF QuietInv, QuietBootRight, Interrupting, PortDisabled
  <2> QED BY <1>2, <2>1, <2>2
<1>5. at' # 28
  BY <1>2, <1>3
<1> QED BY <1>4, <1>5 DEF QuietInv, Serving

\* A command goes out.
LEMMA QuietCommand ==
  ASSUME QuietMachine, Inv, QuietInv, ps2_controller_command
  PROVE  QuietInv'
<1>1. Running /\ NextStep /\ ~Done /\ Is("command")
  BY DEF ps2_controller_command, Is
<1>2. /\ input = NoInput /\ input' = <<"command", Arg>>
      /\ UNCHANGED <<mode, awaiting, output, outputFull, queue, requested, config>>
  BY DEF ps2_controller_command, WritePort, picVars
<1>3. at' = at + 1 /\ phase' = "start" /\ UNCHANGED <<handler, handled, typed>>
  BY <1>1 DEF NextStep, Running, kbhVars
<1>4. \/ at \in {5, 6, 8, 11, 13}
      \/ at = 16 /\ Arg = Enable1st
      \/ at = 23 /\ Arg = ReadConfig
      \/ at = 26 /\ Arg = WriteConfig
  BY <1>1, Lines DEF Inv
<1>5. input' # NoInput
  BY <1>2 DEF NoInput
<1>6. QuietBootRight'
  <2>1. CASE at = 8
    BY <1>2, <1>3, <2>1 DEF Inv, ControllerRight, QuietInv, QuietBootRight, Interrupting, PortDisabled
  <2>2. CASE at \in {5, 6, 11, 13}
    BY <1>2, <1>3, <1>5, <2>2 DEF QuietInv, QuietBootRight, Interrupting, PortDisabled
  <2>3. CASE at \in {16, 23, 26}
    BY <1>2, <1>3, <1>4, <1>5, <2>3 DEF QuietInv, QuietBootRight, Interrupting, PortDisabled, Sent
  <2> QED BY <1>4, <2>1, <2>2, <2>3
<1>7. at' # 28
  BY <1>3, <1>4
<1> QED BY <1>6, <1>7 DEF QuietInv, Serving

\* A data byte goes out; the last one ends the boot with nothing typed yet.
LEMMA QuietData ==
  ASSUME QuietMachine, Inv, QuietInv, ps2_controller_out_data
  PROVE  QuietInv'
<1>1. Running /\ NextStep /\ ~Done
  BY DEF ps2_controller_out_data, Is
<1>2. /\ input = NoInput
      /\ \/ at \in {12, 27} /\ input' = <<"data", config>>
         \/ at = 18 /\ input' = <<"data", 255>>
      /\ UNCHANGED <<mode, awaiting, output, outputFull, queue, requested, config>>
  BY Lines DEF Inv, ps2_controller_out_data, WritePort, picVars
<1>3. at' = at + 1 /\ phase' = "start" /\ UNCHANGED <<handler, handled, typed>>
  BY <1>1 DEF NextStep, Running, kbhVars
<1>4. QuietBootRight'
  <2>1. CASE at = 12
    BY <1>2, <1>3, <2>1 DEF QuietInv, QuietBootRight, Interrupting, PortDisabled
  <2>2. CASE at = 18
    <3>1. input' = <<"data", 255>> /\ ~PortDisabled(mode)
      BY <1>2, <2>2 DEF QuietInv, QuietBootRight
    <3> QED BY <1>2, <1>3, <2>2, <3>1 DEF QuietInv, QuietBootRight, Interrupting, PortDisabled
  <2>3. CASE at = 27
    BY <1>2, <1>3, <2>3 DEF QuietInv, QuietBootRight, Interrupting, PortDisabled
  <2> QED BY <1>2, <2>1, <2>2, <2>3
<1>5. Serving'
  <2>1. SUFFICES ASSUME at = 27
                 PROVE  Serving'
    BY <1>2, <1>3 DEF Serving
  <2>2. /\ handler' = "none" /\ typed' = 0 /\ handled' = <<>> /\ queue' = <<>> /\ ~outputFull'
        /\ ~requested' /\ awaiting' /\ input' = <<"data", config'>>
        /\ ~Interrupting(mode)'
    BY <1>2, <1>3, <2>1 DEF QuietInv, QuietBootRight, Interrupting
  <2>3. TypedBytes' = <<>>
    BY <2>2, BytesCollect DEF TypedBytes
  <2>4. handled' \o (InBuffer' \o queue') = <<>>
    <3>1. InBuffer' = <<>>
      BY <2>2 DEF InBuffer
    <3>2. <<>> \in Seq(0 .. 255)
      OBVIOUS
    <3>3. <<>> \o <<>> = <<>>
      BY <3>2, ConcatEmptySeq
    <3> QED BY <2>2, <3>1, <3>3
  <2>5. NoPrefix(queue)'
    BY <2>2 DEF NoPrefix
  <2>6. input' # NoInput
    BY <2>2 DEF NoInput
  <2> QED BY <2>2, <2>3, <2>4, <2>5, <2>6 DEF Serving
<1> QED BY <1>4, <1>5 DEF QuietInv

\* A poll; the loop of line 19 is left when the keyboard has answered the reset.
LEMMA QuietPoll ==
  ASSUME QuietMachine, Inv, QuietInv, FlushPoll \/ OutputWait
  PROVE  QuietInv'
<1>1. /\ Running /\ ~Done
      /\ UNCHANGED <<handler, handled, typed, mode, input, awaiting, output, outputFull, queue,
                     requested, config>>
  BY DEF FlushPoll, OutputWait, Running, Is, kbhVars, hardwareVars, controllerVars, picVars
<1>2. ~DevicesBusy
  BY <1>1 DEF Running, QuietMachine
<1>3. at \in {7, 9, 14, 17, 19, 24}
  <2>1. Is("in") \/ Is("flush")
    BY <1>1 DEF FlushPoll, OutputWait, Is
  <2> QED BY <2>1, Lines DEF Inv
<1>4. CASE at' = at /\ (phase' = "read" => outputFull)
  <2>1. QuietBootRight'
    BY <1>1, <1>3, <1>4 DEF QuietInv, QuietBootRight, Interrupting, PortDisabled, Sent
  <2> QED BY <1>3, <1>4, <2>1 DEF QuietInv, Serving
<1>5. CASE FlushPoll /\ ~outputFull /\ NextStep
  <2>1. at \in {7, 17, 19} /\ at' = at + 1 /\ phase' = "start"
    BY <1>5, Lines DEF Inv, FlushPoll, NextStep
  <2>2. CASE at = 7
    <3>1. QuietBootRight'
      BY <1>1, <2>1, <2>2 DEF QuietInv, QuietBootRight, Interrupting, PortDisabled
    <3> QED BY <2>1, <2>2, <3>1 DEF QuietInv, Serving
  <2>3. CASE at = 17
    <3>1. QuietBootRight'
      BY <1>1, <2>1, <2>3 DEF QuietInv, QuietBootRight, Interrupting, PortDisabled, Sent
    <3> QED BY <2>1, <2>3, <3>1 DEF QuietInv, Serving
  <2>4. CASE at = 19
    <3>1. ~PortDisabled(mode) /\ input \in {NoInput, <<"data", 255>>}
      BY <2>4 DEF QuietInv, QuietBootRight
    <3>2. queue = <<>> /\ input = NoInput
      BY <1>2, <1>5, <3>1 DEF DevicesBusy
    <3>3. QuietBootRight'
      BY <1>1, <1>5, <2>1, <2>4, <3>1, <3>2 DEF QuietInv, QuietBootRight, Interrupting, PortDisabled
    <3> QED BY <2>1, <2>4, <3>3 DEF QuietInv, Serving
  <2> QED BY <2>1, <2>2, <2>3, <2>4
<1>6. \/ at' = at /\ (phase' = "read" => outputFull)
      \/ FlushPoll /\ ~outputFull /\ NextStep
  BY DEF FlushPoll, OutputWait
<1> QED BY <1>4, <1>5, <1>6

\* A read: at line 9 and 24 it gets the configuration byte.
LEMMA QuietRead ==
  ASSUME QuietMachine, Inv, QuietInv, ps2_controller_in_data
  PROVE  QuietInv'
<1>1. /\ Running /\ phase = "read" /\ outputFull' = FALSE /\ config' = output
      /\ UNCHANGED <<handler, handled, typed, mode, input, awaiting, output, queue, requested>>
  BY DEF ps2_controller_in_data, ReadData, Running, kbhVars, picVars
<1>2. at \in {7, 9, 14, 17, 19, 24}
  BY <1>1 DEF Inv, ControllerRight
<1>3. CASE Is("flush") /\ phase' = "start" /\ at' = at
  <2>1. at \in {7, 17, 19}
    BY <1>3, Lines DEF Inv
  <2>2. QuietBootRight'
    BY <1>1, <1>3, <2>1 DEF QuietInv, QuietBootRight, Interrupting, PortDisabled, Sent
  <2> QED BY <1>3, <2>1, <2>2 DEF QuietInv, Serving
<1>4. CASE ~Is("flush") /\ NextStep
  <2>1. at \in {9, 14, 24}
    <3>1. Len(Program) = 27
      BY Table
    <3>2. Program[7] = <<"flush", 0>> /\ Program[17] = <<"flush", 0>> /\ Program[19] = <<"flush", 0>>
      BY Table
    <3> QED BY <1>2, <1>4, <3>1, <3>2 DEF Is, Done
  <2>2. at' = at + 1 /\ phase' = "start"
    BY <1>4 DEF NextStep
  <2>3. CASE at = 9
    <3>1. outputFull /\ ~Interrupting(output)
      BY <1>1, <2>3 DEF QuietInv, QuietBootRight
    <3>2. ~Interrupting(config)'
      BY <1>1, <3>1 DEF Interrupting
    <3>3. QuietBootRight'
      BY <1>1, <2>2, <2>3, <3>2 DEF QuietInv, QuietBootRight, Interrupting
    <3> QED BY <2>2, <2>3, <3>3 DEF QuietInv, Serving
  <2>4. CASE at = 14
    <3>1. input = NoInput
      BY <1>1, <2>4 DEF Inv, ControllerRight
    <3>2. QuietBootRight'
      BY <1>1, <2>2, <2>4, <3>1 DEF QuietInv, QuietBootRight, Interrupting
    <3> QED BY <2>2, <2>4, <3>2 DEF QuietInv, Serving
  <2>5. CASE at = 24
    <3>1. input = NoInput /\ ~PortDisabled(output)
      BY <1>1, <2>5 DEF QuietInv, QuietBootRight
    <3>2. ~PortDisabled(config)'
      BY <1>1, <3>1 DEF PortDisabled
    <3>3. QuietBootRight'
      BY <1>1, <2>2, <2>5, <3>1, <3>2 DEF QuietInv, QuietBootRight, Interrupting, PortDisabled
    <3> QED BY <2>2, <2>5, <3>3 DEF QuietInv, Serving
  <2> QED BY <2>1, <2>3, <2>4, <2>5
<1> QED BY <1>1, <1>3, <1>4 DEF ps2_controller_in_data

\* The bits that are added: all but two at line 10, that of the interrupt at 25.
LEMMA QuietOrTest ==
  ASSUME QuietMachine, Inv, QuietInv, OrConfig \/ TestResult
  PROVE  QuietInv'
<1>1. /\ Running /\ ~Done
      /\ UNCHANGED <<handler, handled, typed, mode, input, awaiting, output, outputFull, queue, requested>>
  BY DEF OrConfig, TestResult, Running, Is, kbhVars, hardwareVars, controllerVars, picVars
<1>2. CASE OrConfig
  <2>1. /\ config' = OrMask(config, Arg) /\ at' = at + 1 /\ phase' = "start"
        /\ (at = 10 /\ Arg = 252) \/ (at = 25 /\ Arg = 1)
    BY <1>2, Lines DEF Inv, OrConfig, NextStep
  <2>2. config \in 0 .. 255
    BY DEF Inv, TypeOK
  <2>3. CASE at = 10
    <3>1. config' = OrMask(config, 252) /\ ~Interrupting(config)
      BY <2>1, <2>3 DEF QuietInv, QuietBootRight
    <3>2. ~Interrupting(config')
      BY <2>2, <3>1, InterruptBits
    <3>3. ~Interrupting(config)'
      BY <3>2 DEF Interrupting, Bit
    <3>4. QuietBootRight'
      BY <1>1, <2>1, <2>3, <3>3 DEF QuietInv, QuietBootRight, Interrupting
    <3> QED BY <2>1, <2>3, <3>4 DEF QuietInv, Serving
  <2>4. CASE at = 25
    <3>1. config' = OrMask(config, 1) /\ ~PortDisabled(config)
      BY <2>1, <2>4 DEF QuietInv, QuietBootRight
    <3>2. Interrupting(config') /\ ~PortDisabled(config')
      BY <2>2, <3>1, InterruptBits
    <3>3. Interrupting(config)' /\ ~PortDisabled(config)'
      BY <3>2 DEF Interrupting, PortDisabled, Bit
    <3>4. QuietBootRight'
      BY <1>1, <2>1, <2>4, <3>3 DEF QuietInv, QuietBootRight, Interrupting, PortDisabled
    <3> QED BY <2>1, <2>4, <3>4 DEF QuietInv, Serving
  <2> QED BY <2>1, <2>3, <2>4
<1>3. CASE TestResult
  <2>1. at = 15
    BY <1>3, Lines DEF Inv, TestResult
  <2>2. config = TestPassed
    BY <2>1 DEF Inv, ControllerRight
  <2>3. at' = at + 1 /\ phase' = "start"
    BY <1>3, <2>2 DEF TestResult, NextStep
  <2>4. QuietBootRight'
    BY <1>1, <2>1, <2>3 DEF QuietInv, QuietBootRight, Interrupting
  <2> QED BY <2>1, <2>3, <2>4 DEF QuietInv, Serving
<1> QED BY <1>2, <1>3

\* The interrupt comes only for a byte in the buffer, and only after the boot.
LEMMA QuietInterrupt ==
  ASSUME QuietMachine, Inv, QuietInv, Interrupt
  PROVE  QuietInv'
<1>1. /\ requested /\ handler = "none" /\ requested' = FALSE
      /\ UNCHANGED <<mode, input, awaiting, output, outputFull, queue, at, phase, config, gate,
                     handled, typed>>
  BY DEF Interrupt, AcceptInterrupt, mainVars, kbhVars, controllerVars
<1>2. at = 28
  <2>1. at \in 1 .. 28
    BY Lines DEF Inv
  <2> QED BY <1>1, <2>1 DEF QuietInv, QuietBootRight
<1>3. handler' = "kbh"
  <2>1. gate = "keyboard"
    BY <1>2 DEF Inv, InterruptsRight
  <2> QED BY <2>1 DEF Interrupt
<1>4. QuietBootRight'
  BY <1>1, <1>2 DEF QuietInv, QuietBootRight, Interrupting, PortDisabled
<1>5. Serving'
  <2>1. input = NoInput /\ outputFull
    BY <1>1, <1>2 DEF QuietInv, Serving
  <2>2. TypedBytes' = TypedBytes /\ (InBuffer \o queue)' = InBuffer \o queue
    BY <1>1 DEF TypedBytes, InBuffer
  <2>3. NoPrefix(queue)'
    BY <1>1, <1>2 DEF QuietInv, Serving, NoPrefix
  <2> QED BY <1>1, <1>2, <1>3, <2>1, <2>2, <2>3 DEF QuietInv, Serving, Interrupting, PortDisabled
<1> QED BY <1>4, <1>5 DEF QuietInv

\* A byte goes from the buffer to what is handled, or from the queue to the
\* buffer: what was typed stays the same.
LEMMA BytesMove ==
  ASSUME NEW h \in Seq(0 .. 255), NEW q \in Seq(0 .. 255), NEW b \in 0 .. 255
  PROVE  /\ h \o (<<b>> \o q) = Append(h, b) \o (<<>> \o q)
         /\ q # <<>> => <<>> \o q = <<Head(q)>> \o Tail(q)
<1>1. <<b>> \in Seq(0 .. 255)
  OBVIOUS
<1>2. Append(h, b) = h \o <<b>> /\ <<>> \o q = q
  BY AppendIsConcat, ConcatEmptySeq
<1>3. (h \o <<b>>) \o q = h \o (<<b>> \o q)
  BY <1>1, ConcatAssociative
<1>4. ASSUME q # <<>>
      PROVE  q = <<Head(q)>> \o Tail(q)
  <2>1. /\ Head(q) \in 0 .. 255 /\ Tail(q) \in Seq(0 .. 255) /\ Len(Tail(q)) = Len(q) - 1
        /\ \A i \in 1 .. Len(Tail(q)) : Tail(q)[i] = q[i + 1]
    BY <1>4, HeadTailProperties
  <2>2. Len(q) \in Nat \ {0} /\ Head(q) = q[1]
    BY <1>4, EmptySeq
  <2> DEFINE first == <<Head(q)>>
  <2>3. first \in Seq(0 .. 255) /\ Len(first) = 1 /\ first[1] = q[1]
    BY <2>1, <2>2
  <2> HIDE DEF first
  <2>4. /\ first \o Tail(q) \in Seq(0 .. 255)
        /\ Len(first \o Tail(q)) = Len(first) + Len(Tail(q))
        /\ \A i \in 1 .. Len(first) + Len(Tail(q)) :
             (first \o Tail(q))[i] = IF i <= Len(first) THEN first[i] ELSE Tail(q)[i - Len(first)]
    <3>1. ASSUME NEW s \in Seq(0 .. 255), NEW t \in Seq(0 .. 255)
          PROVE  /\ s \o t \in Seq(0 .. 255)
                 /\ Len(s \o t) = Len(s) + Len(t)
                 /\ \A i \in 1 .. Len(s) + Len(t) :
                      (s \o t)[i] = IF i <= Len(s) THEN s[i] ELSE t[i - Len(s)]
      BY ConcatProperties
    <3> QED BY <2>1, <2>3, <3>1, Zenon
  <2>5. Len(first \o Tail(q)) = Len(q)
    BY <2>1, <2>2, <2>3, <2>4
  <2>6. ASSUME NEW i \in 1 .. Len(q)
        PROVE  (first \o Tail(q))[i] = q[i]
    <3>1. CASE i = 1
      BY <2>1, <2>2, <2>3, <2>4, <3>1
    <3>2. CASE i # 1
      <4>1. (first \o Tail(q))[i] = Tail(q)[i - 1]
        BY <2>1, <2>2, <2>3, <2>4, <3>2
      <4>2. i - 1 \in 1 .. Len(Tail(q)) /\ (i - 1) + 1 = i
        BY <2>1, <2>2, <3>2
      <4> QED BY <2>1, <4>1, <4>2
    <3> QED BY <3>1, <3>2
  <2>7. first \o Tail(q) = q
    BY <2>4, <2>5, <2>6, SeqEqual
  <2> QED BY <2>7 DEF first
<1> QED BY <1>2, <1>3, <1>4

\* The handler reads the byte it was called for, once, and ends the service.
LEMMA QuietHandler ==
  ASSUME QuietMachine, Inv, QuietInv, Handler
  PROVE  QuietInv'
<1>1. /\ handler # "none"
      /\ UNCHANGED <<mode, input, awaiting, output, queue, requested, at, phase, config, typed>>
  BY DEF Handler, kbh, DropByte, pic_eoi, InterruptReturn, Handling, ReadData, EndOfInterrupt,
     mainVars, hardwareVars, controllerVars, picVars
<1>2. at = 28
  <2>1. at \in 1 .. 28
    BY Lines DEF Inv
  <2> QED BY <1>1, <2>1 DEF QuietInv, QuietBootRight
<1>3. QuietBootRight'
  BY <1>1, <1>2 DEF QuietInv, QuietBootRight, Interrupting, PortDisabled
<1>4. input = NoInput /\ handler # "drop"
  BY <1>1, <1>2 DEF QuietInv, Serving
<1>5. TypedBytes' = TypedBytes
  BY <1>1 DEF TypedBytes
<1>6. NoPrefix(queue)'
  BY <1>1, <1>2 DEF QuietInv, Serving, NoPrefix
<1>7. Interrupting(mode)' /\ ~PortDisabled(mode)'
  BY <1>1, <1>2, <1>4 DEF QuietInv, Serving, Interrupting, PortDisabled
<1>8. CASE kbh
  <2>1. /\ handler = "kbh" /\ outputFull /\ output # KEY_ALTERNATE /\ ~requested
        /\ TypedBytes = handled \o (InBuffer \o queue)
    BY <1>2, <1>8 DEF kbh, QuietInv, Serving
  <2>2. /\ handler' = "eoi" /\ handled' = Append(handled, output) /\ outputFull' = FALSE
    BY <1>8, <2>1 DEF kbh, ReadData
  <2>3. InBuffer = <<output>> /\ InBuffer' = <<>>
    BY <2>1, <2>2 DEF InBuffer
  <2>4. handled \in Seq(0 .. 255) /\ queue \in Seq(0 .. 255) /\ output \in 0 .. 255
    BY DEF Inv, TypeOK, HardwareTypeOK
  <2>5. TypedBytes' = handled' \o (InBuffer' \o queue')
    BY <1>1, <1>5, <2>1, <2>2, <2>3, <2>4, BytesMove
  <2>6. ~requested'
    BY <1>1, <2>1
  <2> QED BY <1>1, <1>3, <1>4, <1>6, <1>7, <2>2, <2>5, <2>6 DEF QuietInv, Serving
<1>9. CASE pic_eoi \/ InterruptReturn
  <2>1. /\ handler \in {"eoi", "iret"} /\ handler' \in {"iret", "none"}
        /\ UNCHANGED <<handled, outputFull>>
    BY <1>9 DEF pic_eoi, InterruptReturn, EndOfInterrupt, hardwareVars, controllerVars, kbhVars
  <2>2. InBuffer' = InBuffer
    BY <1>1, <2>1 DEF InBuffer
  <2>3. TypedBytes' = handled' \o (InBuffer' \o queue')
    BY <1>1, <1>2, <1>5, <2>1, <2>2 DEF QuietInv, Serving
  <2>4. requested' <=> outputFull'
    <3>1. requested <=> outputFull
      BY <1>2, <1>4, <2>1 DEF QuietInv, Serving
    <3> QED BY <1>1, <2>1, <3>1
  <2>5. outputFull' => output' # KEY_ALTERNATE
    BY <1>1, <1>2, <2>1 DEF QuietInv, Serving
  <2> QED BY <1>1, <1>3, <1>4, <1>6, <1>7, <2>1, <2>3, <2>4, <2>5 DEF QuietInv, Serving
<1> QED BY <1>4, <1>8, <1>9 DEF Handler, DropByte

\* The controller takes a command of the boot code: none lets an interrupt
\* through, and line 24 is answered with the port enabled.
LEMMA QuietCommandTaken ==
  ASSUME QuietMachine, Inv, QuietInv, NEW code, input' = NoInput, ControllerCommand(code), LatchEdge,
         CodeUnchanged, typed' = typed
  PROVE  QuietInv'
<1>1. /\ input = <<"command", code>> /\ awaiting' = (code = WriteConfig)
      /\ UNCHANGED <<at, phase, config, handler, handled, typed, queue>>
  BY DEF ControllerCommand, CodeUnchanged, mainVars, kbhVars
<1>2. input # NoInput /\ \A byte : input # <<"data", byte>>
  BY <1>1 DEF NoInput
<1>3. mode \in 0 .. 255 /\ at \in 1 .. 28
  BY Lines DEF Inv, TypeOK, HardwareTypeOK
<1>4. at < 28
  BY <1>2, <1>3 DEF QuietInv, Serving
<1>5. /\ code = Disable1st => mode' = SetBit(mode, 4)
      /\ code = Disable2nd => mode' = SetBit(mode, 5)
      /\ code = Enable1st => mode' = ClearBit(mode, 4)
      /\ code \notin {Disable1st, Disable2nd, Enable1st} => mode' = mode
  BY DEF ControllerCommand, Disable1st, Disable2nd, Enable1st
<1>6. /\ code = ReadConfig => output' = mode /\ outputFull' = TRUE
      /\ code \notin {ReadConfig, TestSelf} => UNCHANGED <<output, outputFull>>
  BY DEF ControllerCommand, Emit, ReadConfig, TestSelf
<1>7. ~Interrupting(mode) /\ ~requested /\ typed = 0 /\ handled = <<>> /\ handler = "none"
  BY <1>4 DEF QuietInv, QuietBootRight
<1>8. ~Interrupting(mode)'
  <2>1. /\ Interrupting(SetBit(mode, 4)) <=> Interrupting(mode)
        /\ Interrupting(SetBit(mode, 5)) <=> Interrupting(mode)
        /\ Interrupting(ClearBit(mode, 4)) <=> Interrupting(mode)
    BY <1>3, InterruptBits
  <2>2. ~Interrupting(mode')
    BY <1>5, <1>7, <2>1
  <2> QED BY <2>2 DEF Interrupting, Bit
<1>9. ~requested'
  <2>1. ~Line'
    BY <1>8 DEF Line, Interrupting
  <2> QED BY <1>7, <2>1 DEF LatchEdge
<1>10. at < 28 => typed' = 0 /\ handled' = <<>> /\ handler' = "none" /\ ~requested' /\ ~Interrupting(mode)'
  BY <1>1, <1>7, <1>8, <1>9
<1>11. (code = WriteConfig => awaiting') /\ (code # WriteConfig => ~awaiting')
  BY <1>1, Zenon
<1>12. QuietBootRight'
  <2>1. CASE at \in 6 .. 8
    BY <1>1, <1>10, <2>1 DEF QuietInv, QuietBootRight, Interrupting
  <2>2. CASE at = 9
    <3>1. code = ReadConfig
      BY <1>1, <1>2, <2>2 DEF Inv, ControllerRight, Sent
    <3>2. output' = mode /\ outputFull' = TRUE
      BY <1>6, <3>1
    <3>3. ~Interrupting(output)'
      BY <1>7, <3>2 DEF Interrupting
    <3> QED BY <1>1, <1>10, <2>2, <3>2, <3>3 DEF QuietInv, QuietBootRight
  <2>3. CASE at = 12
    BY <1>1, <1>10, <2>3 DEF QuietInv, QuietBootRight, Interrupting
  <2>4. CASE at = 14
    <3>1. code = TestSelf
      BY <1>1, <1>2, <2>4 DEF Inv, ControllerRight, Sent
    <3>2. ~awaiting'
      BY <1>11, <3>1 DEF TestSelf, WriteConfig
    <3> QED BY <1>1, <1>10, <2>4, <3>2 DEF QuietInv, QuietBootRight, Interrupting
  <2>5. CASE at \in {17, 18}
    <3>1. code = Enable1st
      BY <1>1, <1>2, <2>5 DEF QuietInv, QuietBootRight, Sent
    <3>2. ~awaiting'
      BY <1>11, <3>1 DEF Enable1st, WriteConfig
    <3>3. mode' = ClearBit(mode, 4) /\ ~PortDisabled(ClearBit(mode, 4))
      BY <1>3, <1>5, <3>1, InterruptBits
    <3>4. ~PortDisabled(mode')
      BY <3>3
    <3>5. ~PortDisabled(mode)'
      BY <3>4 DEF PortDisabled, Bit
    <3>6. Sent(Enable1st)' /\ queue' = <<>>
      BY <1>1, <2>5 DEF Sent, QuietInv, QuietBootRight
    <3> QED BY <1>1, <1>10, <2>5, <3>2, <3>5, <3>6 DEF QuietBootRight
  <2>6. CASE at = 24
    <3>1. code = ReadConfig
      BY <1>1, <1>2, <2>6 DEF QuietInv, QuietBootRight, Sent
    <3>2. output' = mode /\ outputFull' = TRUE /\ mode' = mode /\ ~awaiting'
      BY <1>5, <1>6, <1>11, <3>1 DEF ReadConfig, WriteConfig, Disable1st, Disable2nd, Enable1st
    <3>3. ~PortDisabled(mode) /\ queue = <<>>
      BY <2>6 DEF QuietInv, QuietBootRight
    <3>4. ~PortDisabled(output)' /\ ~PortDisabled(mode)'
      BY <3>2, <3>3 DEF PortDisabled
    <3>5. Sent(ReadConfig)'
      BY DEF Sent
    <3> QED BY <1>1, <1>10, <2>6, <3>2, <3>3, <3>4, <3>5 DEF QuietBootRight
  <2>7. CASE at = 27
    <3>1. code = WriteConfig
      BY <1>1, <1>2, <2>7 DEF QuietInv, QuietBootRight, Sent
    <3>2. awaiting' /\ mode' = mode /\ outputFull' = outputFull
      BY <1>5, <1>6, <1>11, <3>1
        DEF WriteConfig, ReadConfig, TestSelf, Disable1st, Disable2nd, Enable1st
    <3>3. Sent(WriteConfig)'
      BY DEF Sent
    <3> QED BY <1>1, <1>10, <2>7, <3>2, <3>3 DEF QuietInv, QuietBootRight, PortDisabled, Interrupting
  <2>8. at \notin 1 .. 5 /\ at \notin {10, 11, 13, 15, 16, 19, 20, 21, 22, 23, 25, 26}
    <3>1. at \notin 1 .. 5 /\ at \notin {15, 16, 19, 20, 21, 22, 23, 25, 26}
      BY <1>2 DEF QuietInv, QuietBootRight
    <3>2. at \notin {10, 11, 13}
      BY <1>2 DEF Inv, ControllerRight
    <3> QED BY <3>1, <3>2
  <2> QED BY <1>3, <1>4, <2>1, <2>2, <2>3, <2>4, <2>5, <2>6, <2>7, <2>8
<1>13. at' # 28
  BY <1>1, <1>4
<1> QED BY <1>12, <1>13 DEF QuietInv, Serving

\* The controller takes a data byte: a configuration at lines 13 and 28, of which
\* the second turns the interrupt on with an empty buffer, and the reset of the
\* keyboard at line 19.
LEMMA QuietDataTaken ==
  ASSUME QuietMachine, Inv, QuietInv, NEW byte, input' = NoInput, ControllerData(byte), LatchEdge,
         CodeUnchanged, typed' = typed
  PROVE  QuietInv'
<1>1. /\ input = <<"data", byte>> /\ awaiting' = FALSE
      /\ mode' = (IF awaiting THEN byte ELSE mode)
      /\ queue' = (IF ~awaiting /\ byte = 255 THEN ResetReply ELSE queue)
      /\ UNCHANGED <<at, phase, config, handler, handled, typed, output, outputFull>>
  BY DEF ControllerData, CodeUnchanged, mainVars, kbhVars
<1>2. input # NoInput /\ \A code : input # <<"command", code>>
  BY <1>1 DEF NoInput
<1>3. at \in 1 .. 28
  BY Lines DEF Inv
<1>4. CASE at = 13
  <2>1. byte = config /\ awaiting
    BY <1>1, <1>2, <1>4 DEF Inv, ControllerRight
  <2>2. mode' = config /\ queue' = queue /\ ~Interrupting(config) /\ ~requested
    BY <1>1, <1>4, <2>1 DEF QuietInv, QuietBootRight
  <2>3. ~Interrupting(mode)'
    BY <2>2 DEF Interrupting
  <2>4. ~requested'
    <3>1. ~Line'
      BY <2>3 DEF Line, Interrupting
    <3> QED BY <2>2, <3>1 DEF LatchEdge
  <2>5. QuietBootRight'
    BY <1>1, <1>4, <2>2, <2>3, <2>4 DEF QuietInv, QuietBootRight, Interrupting
  <2> QED BY <1>1, <1>4, <2>5 DEF QuietInv, Serving
<1>5. CASE at = 19
  <2>1. ~awaiting /\ byte = 255 /\ mode' = mode /\ ~Interrupting(mode) /\ ~requested
    BY <1>1, <1>2, <1>5 DEF QuietInv, QuietBootRight
  <2>2. ~Interrupting(mode)'
    BY <2>1 DEF Interrupting
  <2>3. ~requested'
    <3>1. ~Line'
      BY <2>2 DEF Line, Interrupting
    <3> QED BY <2>1, <3>1 DEF LatchEdge
  <2>4. QuietBootRight'
    BY <1>1, <1>5, <2>1, <2>2, <2>3 DEF QuietInv, QuietBootRight, PortDisabled
  <2> QED BY <1>1, <1>5, <2>4 DEF QuietInv, Serving
<1>6. CASE at = 28
  <2>1. byte = config /\ awaiting /\ ~Interrupting(mode) /\ ~requested /\ handler = "none"
    BY <1>1, <1>2, <1>6 DEF QuietInv, Serving
  <2>2. mode' = config /\ queue' = queue
    BY <1>1, <2>1
  <2>3. Interrupting(config) /\ ~PortDisabled(config)
    BY <1>6 DEF QuietInv, QuietBootRight
  <2>4. Interrupting(mode)' /\ ~PortDisabled(mode)'
    BY <2>2, <2>3 DEF Interrupting, PortDisabled
  <2>5. requested' <=> outputFull'
    <3>1. ~Line /\ (Line' <=> outputFull')
      BY <2>1, <2>4 DEF Line, Interrupting, PortDisabled
    <3> QED BY <2>1, <3>1 DEF LatchEdge
  <2>6. QuietBootRight'
    BY <1>1, <1>6, <2>3 DEF QuietInv, QuietBootRight, Interrupting, PortDisabled
  <2>7. Serving'
    <3>1. TypedBytes' = TypedBytes /\ InBuffer' = InBuffer
      BY <1>1 DEF TypedBytes, InBuffer
    <3>2. TypedBytes' = handled' \o (InBuffer' \o queue')
      BY <1>1, <1>6, <2>2, <3>1 DEF QuietInv, Serving
    <3>3. NoPrefix(queue)'
      BY <1>6, <2>2 DEF QuietInv, Serving, NoPrefix
    <3>4. outputFull' => output' # KEY_ALTERNATE
      BY <1>1, <1>6 DEF QuietInv, Serving
    <3>5. handler' = "none"
      BY <1>1, <2>1
    <3> QED BY <1>1, <1>6, <2>4, <2>5, <3>2, <3>3, <3>4, <3>5 DEF Serving
  <2> QED BY <2>6, <2>7 DEF QuietInv
<1>7. at \in {13, 19, 28}
  <2>1. at \notin 6 .. 12 /\ at # 14
    BY <1>2 DEF Inv, ControllerRight, Sent
  <2>2. at \notin 1 .. 5 /\ at \notin {15, 16, 17, 18, 20, 21, 22, 23, 24, 25, 26, 27}
    BY <1>2 DEF QuietInv, QuietBootRight, Sent
  <2> QED BY <1>3, <2>1, <2>2
<1> QED BY <1>4, <1>5, <1>6, <1>7

\* The keyboard sends: the answer to the reset at line 19, or what was typed
\* since, which asks for an interrupt as soon as that is on.
LEMMA QuietKeyboard ==
  ASSUME QuietMachine, Inv, QuietInv, Keyboard
  PROVE  QuietInv'
<1>1. /\ queue # <<>> /\ ~PortDisabled(mode) /\ ~outputFull
      /\ output' = Head(queue) /\ outputFull' = TRUE /\ queue' = Tail(queue)
      /\ LatchEdge
      /\ UNCHANGED <<mode, input, awaiting, at, phase, config, handler, handled, typed>>
  BY DEF Keyboard, KeyboardSends, Emit, CodeUnchanged, mainVars, kbhVars
<1>2. at \in {19, 28}
  <2>1. at \in 1 .. 28
    BY Lines DEF Inv
  <2>2. ~(at <= 18)
    BY <1>1 DEF QuietInv, QuietBootRight
  <2>3. at \notin 20 .. 27
    BY <1>1 DEF QuietInv, QuietBootRight
  <2> QED BY <2>1, <2>2, <2>3
<1>3. CASE at = 19
  <2>1. ~Interrupting(mode)' /\ ~requested
    BY <1>1, <1>3 DEF QuietInv, QuietBootRight, Interrupting
  <2>2. ~requested'
    <3>1. ~Line'
      BY <2>1 DEF Line, Interrupting
    <3> QED BY <2>1, <3>1, <1>1 DEF LatchEdge
  <2>3. QuietBootRight'
    BY <1>1, <1>3, <2>1, <2>2 DEF QuietInv, QuietBootRight, PortDisabled
  <2> QED BY <1>1, <1>3, <2>3 DEF QuietInv, Serving
<1>4. CASE at = 28
  <2>1. /\ queue \in Seq(0 .. 255) /\ Len(queue) \in Nat \ {0} /\ Head(queue) = queue[1]
        /\ Len(Tail(queue)) = Len(queue) - 1
        /\ \A k \in 1 .. Len(Tail(queue)) : Tail(queue)[k] = queue[k + 1]
    <3>1. queue \in Seq(0 .. 255)
      BY DEF Inv, TypeOK, HardwareTypeOK
    <3> QED BY <1>1, <3>1, HeadTailProperties, EmptySeq
  <2>2. /\ TypedBytes = handled \o (InBuffer \o queue)
        /\ \A k \in 1 .. Len(queue) : queue[k] # KEY_ALTERNATE
        /\ handler \in {"none", "eoi", "iret"}
    BY <1>1, <1>4 DEF QuietInv, Serving, NoPrefix
  <2>3. TypedBytes' = handled' \o (InBuffer' \o queue')
    <3>1. TypedBytes' = TypedBytes /\ InBuffer = <<>> /\ InBuffer' = <<Head(queue)>>
      BY <1>1 DEF TypedBytes, InBuffer
    <3>2. InBuffer' \o queue' = InBuffer \o queue
      <4>1. 0 \in 0 .. 255 /\ <<>> \in Seq(0 .. 255)
        OBVIOUS
      <4>2. <<>> \o queue = <<Head(queue)>> \o Tail(queue)
        BY <1>1, <2>1, <4>1, BytesMove
      <4> QED BY <1>1, <3>1, <4>2
    <3> QED BY <1>1, <2>2, <3>1, <3>2
  <2>4. NoPrefix(queue)'
    <3>1. ASSUME NEW k \in 1 .. Len(Tail(queue))
          PROVE  Tail(queue)[k] # KEY_ALTERNATE
      <4>1. k + 1 \in 1 .. Len(queue)
        BY <2>1
      <4> QED BY <2>1, <2>2, <4>1
    <3> QED BY <1>1, <3>1 DEF NoPrefix
  <2>5. output' # KEY_ALTERNATE
    <3>1. 1 \in 1 .. Len(queue)
      BY <2>1
    <3> QED BY <1>1, <2>1, <2>2, <3>1
  <2>6. QuietBootRight'
    BY <1>1, <1>4 DEF QuietInv, QuietBootRight, Interrupting, PortDisabled
  <2>7. CASE input = NoInput
    <3>1. Interrupting(mode) /\ ~PortDisabled(mode)
      BY <1>4, <2>7 DEF QuietInv, Serving
    <3>2. Interrupting(mode)' /\ ~PortDisabled(mode)'
      BY <1>1, <3>1 DEF Interrupting, PortDisabled
    <3>3. ~Line /\ Line'
      BY <1>1, <3>2 DEF Line, Interrupting, PortDisabled
    <3>4. requested'
      BY <1>1, <3>3 DEF LatchEdge
    <3>5. Serving'
      BY <1>1, <1>4, <2>2, <2>3, <2>4, <2>5, <2>7, <3>2, <3>4 DEF Serving
    <3> QED BY <2>6, <3>5 DEF QuietInv
  <2>8. CASE input # NoInput
    <3>1. awaiting /\ ~Interrupting(mode) /\ ~requested /\ handler = "none" /\ input = <<"data", config>>
      BY <1>4, <2>8 DEF QuietInv, Serving
    <3>2. ~Interrupting(mode)'
      BY <1>1, <3>1 DEF Interrupting
    <3>3. ~requested'
      <4>1. ~Line'
        BY <3>2 DEF Line, Interrupting
      <4> QED BY <1>1, <3>1, <4>1 DEF LatchEdge
    <3>4. Serving'
      BY <1>1, <1>4, <2>2, <2>3, <2>4, <2>5, <2>8, <3>1, <3>2, <3>3 DEF Serving
    <3> QED BY <2>6, <3>4 DEF QuietInv
  <2> QED BY <2>7, <2>8
<1> QED BY <1>2, <1>3, <1>4

\* The buffer holds at most one byte.
LEMMA BufferType ==
  ASSUME Inv
  PROVE  InBuffer \in Seq(0 .. 255)
<1>1. output \in 0 .. 255
  BY DEF Inv, TypeOK, HardwareTypeOK
<1>2. CASE outputFull
  <2>1. <<output>> \in Seq(0 .. 255)
    BY <1>1
  <2> QED BY <1>2, <2>1 DEF InBuffer
<1>3. CASE ~outputFull
  <2>1. <<>> \in Seq(0 .. 255)
    OBVIOUS
  <2> QED BY <1>3, <2>1 DEF InBuffer
<1> QED BY <1>2, <1>3

\* Joining three sequences, in any order.
LEMMA JoinsAssociate ==
  \A S : \A s, t, u \in Seq(S) : (s \o t) \o u = s \o (t \o u)
BY ConcatAssociative, ZenonT(30)

\* Somebody types, after the boot.
LEMMA QuietType ==
  ASSUME QuietMachine, Inv, QuietInv, Type
  PROVE  QuietInv'
<1>1. /\ typed < Len(Typed) /\ typed' = typed + 1 /\ queue' = queue \o Typed[typed + 1]
      /\ Done
      /\ UNCHANGED <<mode, input, awaiting, output, outputFull, requested, at, phase, config,
                     handler, handled>>
  BY DEF QuietMachine, Type, KeyAction, CodeUnchanged, mainVars, kbhVars, controllerVars, picVars
<1>2. at = 28
  <2>1. Len(Program) = 27
    BY Table
  <2> QED BY <1>1, <2>1 DEF Done
<1>3. PICK n \in Nat : n = Len(Typed) /\ typed \in 0 .. n
  BY ConstantsAssumption DEF Inv, TypeOK
<1>4. typed + 1 \in 1 .. n
  BY <1>1, <1>3
<1> DEFINE bytes == Typed[typed + 1]
<1>5. bytes \in Seq(0 .. 255)
  BY <1>3, <1>4, ConstantsAssumption
<1>6. NoPrefix(bytes)
  BY <1>3, <1>4 DEF QuietMachine
<1>7. handled \in Seq(0 .. 255) /\ queue \in Seq(0 .. 255) /\ InBuffer \in Seq(0 .. 255)
  BY BufferType DEF Inv, TypeOK, HardwareTypeOK
<1>8. TypedBytes' = TypedBytes \o bytes
  <2>1. BytesOf[typed + 1] = BytesOf[(typed + 1) - 1] \o Typed[typed + 1]
    BY <1>3, <1>4, BytesCollect
  <2>2. (typed + 1) - 1 = typed
    BY <1>3
  <2> QED BY <1>1, <2>1, <2>2 DEF TypedBytes
<1> HIDE DEF bytes
<1>9. queue' = queue \o bytes
  BY <1>1 DEF bytes
<1>10. TypedBytes' = handled' \o (InBuffer' \o queue')
  <2>1. PICK Byte : Byte = 0 .. 255
    OBVIOUS
  <2>6. /\ handled \in Seq(Byte) /\ queue \in Seq(Byte) /\ InBuffer \in Seq(Byte)
        /\ bytes \in Seq(Byte)
    BY <1>5, <1>7, <2>1
  <2>7. InBuffer \o queue \in Seq(Byte)
    BY <2>6, ConcatProperties, ZenonT(30)
  <2>2. (handled \o (InBuffer \o queue)) \o bytes = handled \o ((InBuffer \o queue) \o bytes)
    BY <2>6, <2>7, JoinsAssociate, SMTT(30)
  <2>3. (InBuffer \o queue) \o bytes = InBuffer \o (queue \o bytes)
    BY <2>6, JoinsAssociate, SMTT(30)
  <2>4. TypedBytes = handled \o (InBuffer \o queue)
    BY <1>2 DEF QuietInv, Serving
  <2>5. InBuffer' = InBuffer
    BY <1>1 DEF InBuffer
  <2> QED BY <1>1, <1>8, <1>9, <2>2, <2>3, <2>4, <2>5
<1>11. NoPrefix(queue)'
  <2>1. PICK l \in Nat, m \in Nat : l = Len(queue) /\ m = Len(bytes)
    BY <1>5, <1>7, LenProperties
  <2>2. /\ Len(queue \o bytes) = l + m
        /\ \A k \in 1 .. l + m : (queue \o bytes)[k] = IF k <= l THEN queue[k] ELSE bytes[k - l]
    BY <1>5, <1>7, <2>1, ConcatProperties
  <2>3. ASSUME NEW k \in 1 .. l + m
        PROVE  (queue \o bytes)[k] # KEY_ALTERNATE
    <3>1. CASE k <= l
      <4>1. k \in 1 .. Len(queue)
        BY <2>1, <3>1
      <4>2. queue[k] # KEY_ALTERNATE
        BY <1>2, <4>1 DEF QuietInv, Serving, NoPrefix
      <4> QED BY <2>2, <3>1, <4>2
    <3>2. CASE ~(k <= l)
      <4>1. k - l \in 1 .. Len(bytes)
        BY <2>1, <3>2
      <4>2. bytes[k - l] # KEY_ALTERNATE
        BY <1>6, <4>1 DEF NoPrefix
      <4> QED BY <2>2, <3>2, <4>2
    <3> QED BY <3>1, <3>2
  <2> QED BY <1>9, <2>2, <2>3 DEF NoPrefix
<1>12. QuietBootRight'
  BY <1>1, <1>2 DEF QuietInv, QuietBootRight, Interrupting, PortDisabled
<1>13. Serving'
  BY <1>1, <1>2, <1>10, <1>11 DEF QuietInv, Serving, Interrupting, PortDisabled
<1> QED BY <1>12, <1>13 DEF QuietInv

\* The first of two sequences is the front of both.
LEMMA FrontOfConcat ==
  ASSUME NEW h \in Seq(0 .. 255), NEW r \in Seq(0 .. 255)
  PROVE  Len(h) <= Len(h \o r) /\ h = SubSeq(h \o r, 1, Len(h))
<1>1. PICK l \in Nat, m \in Nat : l = Len(h) /\ m = Len(r)
  BY LenProperties
<1>2. /\ h \o r \in Seq(0 .. 255) /\ Len(h \o r) = l + m
      /\ \A k \in 1 .. l + m : (h \o r)[k] = IF k <= l THEN h[k] ELSE r[k - l]
  BY <1>1, ConcatProperties
<1>3. \A k \in 1 .. l : (h \o r)[k] = h[k] /\ h[k] \in 0 .. 255
  BY <1>1, <1>2
<1> DEFINE front == SubSeq(h \o r, 1, l)
<1>4. front \in Seq(0 .. 255) /\ Len(front) = l /\ \A k \in 1 .. l : front[k] = (h \o r)[k]
  <2>1. ASSUME NEW s, \A k \in 1 .. l : s[k] \in 0 .. 255
        PROVE  /\ SubSeq(s, 1, l) \in Seq(0 .. 255)
               /\ Len(SubSeq(s, 1, l)) = l
               /\ \A k \in 1 .. l : SubSeq(s, 1, l)[k] = s[k]
    BY <2>1
  <2>2. \A k \in 1 .. l : (h \o r)[k] \in 0 .. 255
    BY <1>3
  <2> QED BY <2>1, <2>2, Zenon
<1> HIDE DEF front
<1>5. h = front
  BY <1>1, <1>3, <1>4, SeqEqual
<1> QED BY <1>1, <1>2, <1>5 DEF front

\* In a machine that answers at once and is left alone during boot, each byte
\* typed reaches kbh once, in order, and nothing else does (ps2.c:101-131),
\* whatever is typed of keys without a prefix.
THEOREM KeysInOrder == QuietMachine => (Spec => []HandledInOrder)
<1> SUFFICES ASSUME QuietMachine PROVE Spec => []HandledInOrder
  OBVIOUS
<1>1. Init => QuietInv
  BY QuietInit
<1>2. Inv /\ QuietInv /\ [Next]_vars => QuietInv'
  <2>1. SUFFICES ASSUME Inv, QuietInv, [Next]_vars PROVE QuietInv'
    OBVIOUS
  <2>2. CASE Boot
    BY <2>1, <2>2, QuietSetup, QuietCommand, QuietData, QuietPoll, QuietRead, QuietOrTest DEF Boot
  <2>3. CASE Interrupt
    BY <2>1, <2>3, QuietInterrupt
  <2>4. CASE Handler
    BY <2>1, <2>4, QuietHandler
  <2>5. CASE Controller
    <3>1. /\ input' = NoInput /\ LatchEdge /\ CodeUnchanged /\ typed' = typed
          /\ ControllerCommand(input[2]) \/ ControllerData(input[2])
      BY <2>5 DEF Controller, ControllerTakes
    <3> QED BY <2>1, <3>1, QuietCommandTaken, QuietDataTaken
  <2>6. CASE Keyboard
    BY <2>1, <2>6, QuietKeyboard
  <2>7. CASE Type
    BY <2>1, <2>7, QuietType
  <2>8. CASE UNCHANGED vars
    <3>1. UNCHANGED <<mode, input, awaiting, output, outputFull, queue, requested, at, phase,
                      config, handler, handled, typed>>
      BY <2>8 DEF vars, hardwareVars, controllerVars, picVars, mainVars, kbhVars
    <3>2. QuietBootRight'
      BY <2>1, <3>1 DEF QuietInv, QuietBootRight, Sent, Interrupting, PortDisabled
    <3>3. Serving'
      <4>1. UNCHANGED <<TypedBytes, InBuffer>> /\ NoPrefix(queue)' = NoPrefix(queue)
        BY <3>1 DEF TypedBytes, InBuffer, NoPrefix
      <4> QED BY <2>1, <3>1, <4>1 DEF QuietInv, Serving, Interrupting, PortDisabled
    <3> QED BY <3>2, <3>3 DEF QuietInv
  <2> QED BY <2>1, <2>2, <2>3, <2>4, <2>5, <2>6, <2>7, <2>8 DEF Next
<1>3. Inv /\ QuietInv => HandledInOrder
  <2>1. SUFFICES ASSUME Inv, QuietInv PROVE HandledInOrder
    OBVIOUS
  <2>2. at \in 1 .. 28
    BY <2>1, Lines DEF Inv
  <2>3. handled \in Seq(0 .. 255) /\ queue \in Seq(0 .. 255) /\ InBuffer \in Seq(0 .. 255)
    BY <2>1, BufferType DEF Inv, TypeOK, HardwareTypeOK
  <2>4. PICK rest \in Seq(0 .. 255) : TypedBytes = handled \o rest
    <3>1. CASE at = 28
      <4>1. InBuffer \o queue \in Seq(0 .. 255)
        BY <2>3, ConcatProperties
      <4> QED BY <2>1, <3>1, <4>1 DEF QuietInv, Serving
    <3>2. CASE at < 28
      <4>1. typed = 0 /\ handled = <<>>
        BY <2>1, <3>2 DEF QuietInv, QuietBootRight
      <4>2. TypedBytes = <<>>
        BY <4>1, BytesCollect DEF TypedBytes
      <4>3. <<>> \in Seq(0 .. 255)
        OBVIOUS
      <4>4. <<>> \o <<>> = <<>>
        BY <4>3, ConcatEmptySeq
      <4> QED BY <4>1, <4>2, <4>3, <4>4
    <3> QED BY <2>2, <3>1, <3>2
  <2> QED BY <2>3, <2>4, FrontOfConcat DEF HandledInOrder
<1> QED BY <1>1, <1>2, <1>3, Invariance, PTL DEF Spec

=============================================================================
