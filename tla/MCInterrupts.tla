------------------------------ MODULE MCInterrupts ------------------------------
(***************************************************************************)
(* The timer, line 7, where spurious interrupts go, and a line of the      *)
(* second controller; divide error and single step, since every other      *)
(* exception is handled like the first.                                    *)
(***************************************************************************)
EXTENDS Interrupts

MCLines == {0, 7, 8}
MCExceptions == {0, 1}
==============================================================================
