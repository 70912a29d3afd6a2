------------------------------ MODULE KeyEvents ------------------------------
(***************************************************************************)
(* What the keyboard driver makes of the bytes it is given (ps2.c:88-140): *)
(* the key map, shift and control, and the events for the callback.  Which *)
(* bytes reach it, and when, is in module Ps2; here any sequence of bytes  *)
(* does, the second bytes of extended keys included.                       *)
(***************************************************************************)
EXTENDS Scancodes, Sequences

CONSTANTS
  Keys,       \* the codes of the keys that are used
  Callbacks   \* the functions that may be registered

ConstantsAssumption == Keys \subseteq 1 .. 95

VARIABLES
  keymap, shift_active, control_active,
  kehandler,   \* the callback, or 0
  event,       \* the event a callback got last, or NoEvent
  misled       \* history: flags that kbh may have wrong

vars == <<keymap, shift_active, control_active, kehandler, event, misled>>

NoEvent == [scancode |-> 0, ascii |-> ""]

BytesSent == Keys \cup {key + KEY_RELEASED : key \in Keys} \cup {KEY_ALTERNATE}

\* The strings, by code.  "" is \000; behind the last is what the build put there.
scancode_to_ascii ==
  << "", "", "1", "2", "3", "4", "5", "6", "7", "8", "9", "0", "-", "=", "\\b", "\t",
     "q", "w", "e", "r", "t", "y", "u", "i", "o", "p", "[", "]", "\n", "",
     "a", "s", "d", "f", "g", "h", "j", "k", "l", ";", "'", "grave", "", "\\",
     "z", "x", "c", "v", "b", "n", "m", ",", ".", "/", "", "", "", " ", "" >>

scancode_to_ascii_shifted ==
  << "", "", "!", "@", "#", "$", "%", "^", "&", "*", "(", ")", "_", "+", "\\b", "\t",
     "Q", "W", "E", "R", "T", "Y", "U", "I", "O", "P", "{", "}", "\r", "",
     "A", "S", "D", "F", "G", "H", "J", "K", "L", ":", "\"", "~", "", "|",
     "Z", "X", "C", "V", "B", "N", "M", "<", ">", "?", "", "", "", " ", "" >>

Ascii(code, shifted) ==
  LET table == IF shifted THEN scancode_to_ascii_shifted ELSE scancode_to_ascii
  IN  IF code < Len(table) THEN table[code + 1] ELSE "behind"

KeyEvent_t(al, shifted, control) ==
  [ascii |-> Ascii(KeyCode(al), shifted), scancode |-> al, keypressed |-> ~Released(al),
   shifted |-> shifted, control |-> control]

Init ==
  /\ keymap = {} /\ shift_active = FALSE /\ control_active = FALSE
  /\ kehandler = 0 /\ event = NoEvent /\ misled = {}

FlagKeys == [shift |-> {KEY_LEFTSHIFT, KEY_RIGHTSHIFT}, control |-> {KEY_LEFTCONTROL}]

\* Keys whose codes contain the bits of one of those: \ C V pad-* caps F1 F4 F5,
\* S F3 F5 menu sleep.
LookAlikes == [shift |-> {43, 46, 47, 55, 58, 59, 62, 63}, control |-> {31, 61, 63, 93, 95}]

\* A look-alike, or the release of one shift key under another, may mislead
\* kbh, until the key itself puts the flag right.
Misleads(flag, al) ==
  IF KeyCode(al) \in FlagKeys[flag]
  THEN Released(al) /\ (keymap \cap FlagKeys[flag]) \ {KeyCode(al)} # {}
  ELSE KeyCode(al) \in LookAlikes[flag] \/ flag \in misled

\* A prefix makes it read (and drop) one more byte and change nothing.
kbh(al) ==
  \/ al = KEY_ALTERNATE /\ UNCHANGED vars
  \/ /\ al # KEY_ALTERNATE
     /\ keymap' = KeymapAfter(keymap, al)
     /\ shift_active' = ShiftAfter(al, shift_active)
     /\ control_active' = ControlAfter(al, control_active)
     /\ event' = IF kehandler = 0 THEN event
                 ELSE KeyEvent_t(al, shift_active', control_active')
     /\ misled' = {flag \in DOMAIN FlagKeys : Misleads(flag, al)}
     /\ UNCHANGED kehandler

register_keyevent_handler(handler) ==
  /\ kehandler' = handler
  /\ UNCHANGED <<keymap, shift_active, control_active, event, misled>>

unregister_keyevent_handler ==
  /\ kehandler' = 0
  /\ UNCHANGED <<keymap, shift_active, control_active, event, misled>>

key_pressed(key) == key \in keymap

Next ==
  \/ \E al \in BytesSent : kbh(al)
  \/ \E handler \in Callbacks : register_keyevent_handler(handler)
  \/ unregister_keyevent_handler

Spec == Init /\ [][Next]_vars

------------------------------------------------------------------------------
TypeOK ==
  /\ keymap \subseteq Keys
  /\ shift_active \in BOOLEAN /\ control_active \in BOOLEAN
  /\ kehandler \in Callbacks \cup {0}
  /\ event # NoEvent => event.scancode \in BytesSent
  /\ misled \subseteq {"shift", "control"}

\* The flags say whether a shift key and the control key are down, in every
\* order of presses and releases, as long as none of the keys whose codes
\* contain their bits is touched and of two shift keys none is let go before
\* the other (ps2.c:108-114).  A press of the key itself puts them right again.
FlagsAsHeld ==
  /\ "shift" \notin misled => (shift_active <=> \E key \in FlagKeys.shift : key_pressed(key))
  /\ "control" \notin misled => (control_active <=> \E key \in FlagKeys.control : key_pressed(key))

\* A pressed c, v or backslash always arrives as C, V or |, because it is
\* taken for a shift key before the event is made (ps2.c:109-116).
NeverLowerCase ==
  event # NoEvent /\ event.scancode \in {43, 46, 47} => event.ascii \in {"|", "C", "V"}

\* The driver's idea of the keys is right as far as stated above (ps2.c:101-125).
KeysRight == TypeOK /\ FlagsAsHeld /\ NeverLowerCase
==============================================================================
