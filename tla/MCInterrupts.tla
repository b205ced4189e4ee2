---------------------------- MODULE MCInterrupts ----------------------------
(* The timer, the keyboard, the floppy and the first disk: the lines       *)
(* int_init sets up (timer, floppy), one it leaves to int_debug_handle and *)
(* one on the slave a driver has been registered for.                      *)
EXTENDS Interrupts

MCService == [l \in Lines |-> CASE l = 0 -> "switch"
                               [] l = 1 -> "debug"
                               [] OTHER -> "quiet"]

MCUserMasks == {{}, {0}, {9}}
=============================================================================
