---------------------------- MODULE MCInterrupts ----------------------------
(* A main program that waits, calls SWI masked and unmasks with TAP, a handler
   that changes the registers, and one for NMI that returns at once. *)
EXTENDS Interrupts, TLC

Main(i) == 258 + i       \* 0x0102 and on: both bytes of an address differ
Handler == 772           \* 0x0304
NmiHandler == 1286       \* 0x0506

Insn(o, n) == [op |-> o, next |-> n]

MCCode ==
  Main(0) :> Insn("lds", Main(1))
    @@ Main(1) :> Insn("cli", Main(2))
    @@ Main(2) :> Insn("wai", Main(3))
    @@ Main(3) :> Insn("sei", Main(4))
    @@ Main(4) :> Insn("swi", Main(5))
    @@ Main(5) :> Insn("tap", Main(6))
    @@ Main(6) :> Insn("plain", Main(2))
    @@ Handler :> Insn("load", Handler + 1)
    @@ Handler + 1 :> Insn("rti", Handler)
    @@ NmiHandler :> Insn("rti", NmiHandler)

MCLoads == {[x |-> 1800, a |-> 1, b |-> 2]}

Reset == Main(0)

=============================================================================
