------------------------------ MODULE Scancodes ------------------------------
(***************************************************************************)
(* The bytes of the keyboard and how kbh reads them (ps2.c, scancodes.h):  *)
(* bit by bit, so that one key can pass for another.                       *)
(***************************************************************************)
EXTENDS Integers

Bit(byte, n) == (byte \div 2^n) % 2 = 1
SetBit(byte, n) == IF Bit(byte, n) THEN byte ELSE byte + 2^n
ClearBit(byte, n) == IF Bit(byte, n) THEN byte - 2^n ELSE byte
HasBits(byte, mask) == \A n \in 0 .. 7 : Bit(mask, n) => Bit(byte, n)

KEY_LEFTCONTROL == 29
KEY_LEFTSHIFT   == 42
KEY_RIGHTSHIFT  == 54
KEY_RELEASED    == 128
KEY_ALTERNATE   == 224    \* the prefix of an extended key

KeyCode(al) == al % KEY_RELEASED
Released(al) == al >= KEY_RELEASED

KeymapAfter(keymap, al) ==
  IF Released(al) THEN keymap \ {KeyCode(al)} ELSE keymap \cup {al}

\* kbh compares with & and so takes more codes than the two for shift keys.
ShiftKey(al) == HasBits(al, KEY_LEFTSHIFT) \/ HasBits(al, KEY_RIGHTSHIFT)
ControlKey(al) == HasBits(al, KEY_LEFTCONTROL)

ShiftNeverReleased(al, active) == active \/ ShiftKey(al)
ShiftAfter(al, active) == IF ShiftKey(al) THEN ~Released(al) ELSE active
ControlAfter(al, active) == IF ControlKey(al) THEN ~Released(al) ELSE active
==============================================================================
