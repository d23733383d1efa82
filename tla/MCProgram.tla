------------------------------ MODULE MCProgram ------------------------------
(***************************************************************************)
(* The program of the instances: a loop that calls a subroutine.  1 is the *)
(* call, 2 the instruction behind it, which jumps back to 1, 3 the         *)
(* subroutine, a single RTS in RAM, and 4 an interrupt handler, a single   *)
(* RTI.                                                                    *)
(***************************************************************************)
EXTENDS TLC

Program == 1 :> {3} @@ 2 :> {1} @@ 3 :> {2} @@ 4 :> {1, 2, 3}

(* The same without interrupts *)
Plain == 1 :> {3} @@ 2 :> {1} @@ 3 :> {2}

Returns == 1 :> 2

=============================================================================
