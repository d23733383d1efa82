------------------------------ MODULE Display ------------------------------
(***************************************************************************)
(* The display: display_io (dev/display_dev.cpp) as the CPU writes it, and *)
(* the widget behind its write_hook (widgets/display.cpp), which keeps the *)
(* lit LEDs of the digits and paints them from left to right.  The widget  *)
(* has six digits; the positions 6 and 7, which the hook computes for the  *)
(* addresses of no digit, are behind its array and are never painted.      *)
(***************************************************************************)
EXTENDS Integers

DisplayAddresses == 49408 .. 49663     \* C100 to C1FF

Positions == 0 .. 7
Segments == 0 .. 7

(* (6 - ((addr & 0xF0) >> 4)) & 7, where bits 3 and 7 have been masked *)
Position(addr) == (6 - ((addr \div 16) % 8)) % 8

Segment(addr) == addr % 8

(* Mutant: an LED that is lit stays lit. *)
LatchedOnly(segment, addr, data) ==
  [segment EXCEPT ![Position(addr)] =
     IF data % 2 = 1 THEN @ \union {Segment(addr)} ELSE @]

(* The LEDs after a write: only bit 0 of the data counts. *)
Latched(segment, addr, data) ==
  [segment EXCEPT ![Position(addr)] =
     IF data % 2 = 1 THEN @ \union {Segment(addr)} ELSE @ \ {Segment(addr)}]

(* What paintEvent shows: the LEDs of the digits H, I, N, Z, V and C *)
Digits == 0 .. 5
Painted(segment) == [digit \in Digits |-> segment[digit]]

=============================================================================
