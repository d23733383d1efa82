--------------------------- MODULE InterruptLevels ---------------------------
(***************************************************************************)
(* What interrupts promise to the programs they interrupt, as an abstract  *)
(* specification.  Each activity (the main program, a handler, a handler   *)
(* that interrupted a handler) is a level with registers of its own.  Only *)
(* the registers of the last level change; those below it are frozen, and  *)
(* are current again, as they were, when the levels above have returned.   *)
(***************************************************************************)
EXTENDS Naturals, Sequences

CONSTANTS
  Registers,   \* the values a set of registers may have
  Entries,     \* the addresses at which a level may begin
  ResetEntry   \* and the one at which the program begins

VARIABLE levels

Top == levels[Len(levels)]

Below == SubSeq(levels, 1, Len(levels) - 1)

(* A handler begins with the registers of what it interrupts, masked. *)
Entered(r, entry) == [r EXCEPT !.pc = entry, !.cc = 1]

Init == Len(levels) = 1 /\ Top \in Registers

Execute == Top' \in Registers /\ levels' = Append(Below, Top')

Enter == \E entry \in Entries : levels' = Append(levels, Entered(Top, entry))

(* An instruction of the last level that enters a handler itself *)
Call ==
  /\ Len(levels') = Len(levels) + 1
  /\ LET r == levels'[Len(levels)]
     IN  /\ r \in Registers
         /\ \E entry \in Entries :
              levels' = Append(Append(Below, r), Entered(r, entry))

Return == Len(levels) > 1 /\ levels' = Below

(* An instruction that sets up a new stack forgets the levels below. *)
Forget == Top' \in Registers /\ levels' = <<Top'>>

(* A reset starts the last level anew; if that one was waiting, its frame is
   still on the stack, and stays there as a level that nothing returns to. *)
Reset ==
  \/ levels' = Append(Below, Entered(Top, ResetEntry))
  \/ levels' = Append(levels, Entered(Top, ResetEntry))

Next == Execute \/ Enter \/ Call \/ Return \/ Forget \/ Reset

Spec == Init /\ [][Next]_levels

=============================================================================
