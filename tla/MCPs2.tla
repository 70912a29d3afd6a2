-------------------------------- MODULE MCPs2 --------------------------------
(***************************************************************************)
(* Two small keyboards' worth of typing.                                   *)
(***************************************************************************)
EXTENDS Ps2

\* Left shift down, c down, left shift up, c up: kbh takes c for a shift key.
MCTyped == << <<42>>, <<46>>, <<170>>, <<174>> >>

\* Any time, with a key that has a prefix.
MCTypedAnyTime == << <<42>>, <<224, 29>>, <<170>> >>

\* Translation on, first port enabled or not, its interrupt on or off.
MCBiosModes == {64, 65, 80, 81}

\* A BIOS that used the keyboard without its interrupt.
MCPollingBios == {64, 80}
==============================================================================
