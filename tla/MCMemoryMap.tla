----------------------------- MODULE MCMemoryMap -----------------------------
(* Four blocks of four bytes: RAM at the bottom, the monitor at the top. *)
EXTENDS MemoryMap, TLC

CONSTANTS Ram, Rom, C1, C2

MCBuiltin == <<Ram, Rom>>

MCBuiltinRange ==
  Ram :> [start |-> 0, end |-> 1] @@ Rom :> OneByte(15)

(* 0110, 011X, 100X, X110 and X111: the last two cross two blocks, and the
   very last one meets the monitor. *)
MCPatterns ==
  {[start |-> 6, end |-> 6], [start |-> 6, end |-> 7], [start |-> 8, end |-> 9],
   [start |-> 6, end |-> 14], [start |-> 7, end |-> 15]}

MCIoChoices == {[led |-> 4, dip |-> 5], [led |-> 5, dip |-> 8]}

=============================================================================
