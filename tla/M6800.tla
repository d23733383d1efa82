------------------------------- MODULE M6800 -------------------------------
(***************************************************************************)
(* The instructions of m6800_cpu_device: the handlers of cpu/6800ops.hxx,  *)
(* the macros of cpu/m6800.cpp they are written with and the table that    *)
(* maps the opcodes of the 6800 to them.  An action is a group of handlers *)
(* that differ in accumulator, addressing mode or condition; the groups    *)
(* follow the order of the opcodes.  The interrupt lines are never         *)
(* asserted here: what tests them, and the countdown that CLI, SEI and TAP *)
(* start, is in Interrupts.  Cycles are not counted.                       *)
(*                                                                         *)
(* A register of flags is the set of the numbers of its bits, and so are   *)
(* the operands of the logical operations.                                 *)
(***************************************************************************)
EXTENDS Display

CONSTANTS
  Mapped,     \* the addresses of the devices that can be read
  Writable,   \* those of them that are not in ROM
  Tasks,      \* what programs may be asked to compute
  Boot(_),    \* the machine with the program for a task
  LastWrites, \* what MemoryMapManager::last_write may hold uninitialised
  Lamps       \* what Display::segment may hold uninitialised

Byte == 0 .. 255
Word == 0 .. 65535

C == 0
V == 1
Z == 2
N == 3
I == 4
H == 5

Flags == SUBSET (0 .. 7)
Accumulators == [{"a", "b"} -> Byte]

ASSUME MachineAssumption ==
  /\ Writable \subseteq Mapped /\ Mapped \subseteq Word \ DisplayAddresses
  /\ LastWrites \subseteq Byte
  /\ Lamps \subseteq [Positions -> SUBSET Segments]
  /\ \A task \in Tasks :
       Boot(task) \in [pc : Word, x : Word, s : Word, d : Accumulators,
                      cc : Flags, mem : [Mapped -> Byte], code : SUBSET Word]

VARIABLES
  pc, x, s,     \* m_pc, m_x, m_s
  d,            \* m_d: the accumulators A and B
  cc,           \* m_cc
  bus,          \* the bytes of the devices, last_write and the display
  wai_state,    \* m_wai_state
  task, code    \* history: the task, and the addresses of its program

vars == <<pc, x, s, d, cc, bus, wai_state, task, code>>

-----------------------------------------------------------------------------
(* Memory *)

Wrap(w) == w % 65536
Low(w) == w % 256
High(w) == (w \div 256) % 256

(* MemoryMapManager::read: an address without a device reads last_write, and
   so does the display, which can only be written. *)
RM(addr) == IF addr \in Mapped THEN bus.mem[addr] ELSE bus.last

RM16(addr) == 256 * RM(addr) + RM(Wrap(addr + 1))

(* MemoryMapManager::write: the write fails without a device and in ROM. *)
Written(m, addr, v) ==
  CASE addr \in Writable -> [m EXCEPT !.mem[addr] = v, !.last = v]
    [] addr \in DisplayAddresses ->
         [m EXCEPT !.segment = Latched(@, addr, v), !.last = v]
    [] OTHER -> m

WM16(m, addr, w) ==
  Written(Written(m, addr, High(w)), Wrap(addr + 1), Low(w))

(* What a push changes: the bus and S *)
Stack == [bus |-> bus, s |-> s]

PushByte(m, v) == [bus |-> Written(m.bus, m.s, v), s |-> Wrap(m.s - 1)]

(* Mutant: the high byte of a word is pushed first. *)
PushWordReversed(m, w) == PushByte(PushByte(m, High(w)), Low(w))

PushWord(m, w) == PushByte(PushByte(m, Low(w)), High(w))

(* The byte i places up the stack: PULLBYTE increments S before it reads. *)
Pulled(i) == RM(Wrap(s + i))

PulledWord(i) == 256 * Pulled(i) + Pulled(i + 1)

-----------------------------------------------------------------------------
(* Flags *)

BitOf(w, n) == (w \div 2^n) % 2
BitsOf(w) == {n \in 0 .. 7 : BitOf(w, n) = 1}

ByteOf(bits) ==
  LET Weight(n, w) == IF n \in bits THEN w ELSE 0
  IN  Weight(0, 1) + Weight(1, 2) + Weight(2, 4) + Weight(3, 8)
        + Weight(4, 16) + Weight(5, 32) + Weight(6, 64) + Weight(7, 128)

When(condition, flag) == IF condition THEN {flag} ELSE {}

CLR_NZV(f) == f \ {N, Z, V}
CLR_NZVC(f) == f \ {N, Z, V, C}
CLR_HNZVC(f) == f \ {H, N, Z, V, C}

SET_NZ8(r) == When(r % 256 >= 128, N) \union When(r % 256 = 0, Z)
SET_NZ16(r) == When(r >= 32768, N) \union When(r = 0, Z)

(* Mutant: the carry out of bit 7 is forgotten. *)
SET_V8Narrow(p, t, r) ==
  When((p \div 128 + t \div 128 + r \div 128) % 2 = 1, V)

(* Bit 7 of p ^ t ^ r ^ (r >> 1), where r has 16 bits *)
SET_V8(p, t, r) ==
  When((p \div 128 + t \div 128 + r \div 128 + r \div 256) % 2 = 1, V)

SET_C8(r) == When((r \div 256) % 2 = 1, C)
SET_H(p, t, r) == When((p \div 16 + t \div 16 + r \div 16) % 2 = 1, H)

SET_FLAGS8(p, t, r) == SET_NZ8(r) \union SET_V8(p, t, r) \union SET_C8(r)

(* The tables flags8i and flags8d *)
SET_FLAGS8I(r) == SET_NZ8(r) \union When(r = 128, V)
SET_FLAGS8D(r) == SET_NZ8(r) \union When(r = 127, V)

Carry(f) == IF C \in f THEN 1 ELSE 0
(* Mutant: signed conditions test the sign only. *)
NXORVSignOnly(f) == N \in f

NXORV(f) == (N \in f) # (V \in f)

(* The shifts to the right set V from N and C: NXORC. *)
SET_V_SHIFT(f) == f \union When((N \in f) # (C \in f), V)

-----------------------------------------------------------------------------
(* Arithmetic: a byte and the flags it leaves *)

Result(r, f) == [r |-> r % 256, cc |-> f]

Minus(p, t, borrow, f) ==
  LET r == Wrap(p - t - borrow)
  IN  Result(r, CLR_NZVC(f) \union SET_FLAGS8(p, t, r))

Plus(p, t, carry, f) ==
  LET r == p + t + carry
  IN  Result(r, CLR_HNZVC(f) \union SET_FLAGS8(p, t, r) \union SET_H(p, t, r))

Logic(r, f) == Result(r, CLR_NZV(f) \union SET_NZ8(r))

Xor(p, t) == ByteOf((BitsOf(p) \union BitsOf(t)) \ (BitsOf(p) \cap BitsOf(t)))

(* The operations of columns 0 to B of an accumulator.  3 is illegal. *)
Alu(column, p, t, f) ==
  CASE column \in {0, 1} -> Minus(p, t, 0, f)                \* SUB CMP
    [] column = 2 -> Minus(p, t, Carry(f), f)                \* SBC
    [] column \in {4, 5} ->                                  \* AND BIT
         Logic(ByteOf(BitsOf(p) \cap BitsOf(t)), f)
    [] column = 6 -> Logic(t, f)                             \* LDA
    [] column = 7 -> Logic(p, f)                             \* STA
    [] column = 8 -> Logic(Xor(p, t), f)                     \* EOR
    [] column = 9 -> Plus(p, t, Carry(f), f)                 \* ADC
    [] column = 10 ->                                        \* ORA
         Logic(ByteOf(BitsOf(p) \union BitsOf(t)), f)
    [] column = 11 -> Plus(p, t, 0, f)                       \* ADD

(* CMP, BIT and STA leave the accumulator alone. *)
Keeping == {1, 5, 7}

(* A byte rotated or shifted to the right, with bit as its new bit 7 *)
ShiftedRight(t, bit, f) ==
  LET r == 128 * bit + t \div 2
  IN  Result(r, SET_V_SHIFT(CLR_NZVC(f) \union SET_NZ8(r)
                              \union When(t % 2 = 1, C)))

(* Mutant: ROL shifts a zero in. *)
ShiftedLeftClear(t, bit, f) ==
  LET r == 2 * t
  IN  Result(r, CLR_NZVC(f) \union SET_FLAGS8(t, t, r))

ShiftedLeft(t, bit, f) ==
  LET r == 2 * t + bit
  IN  Result(r, CLR_NZVC(f) \union SET_FLAGS8(t, t, r))

(* The operations of rows 40 to 70 on a byte *)
Modify(column, t, f) ==
  CASE column = 0 -> Minus(0, t, 0, f)                              \* NEG
    [] column = 3 ->                                                \* COM
         [Logic(255 - t, f) EXCEPT !.cc = @ \union {C}]
    [] column = 4 -> ShiftedRight(t, 0, f)                          \* LSR
    [] column = 6 -> ShiftedRight(t, Carry(f), f)                   \* ROR
    [] column = 7 -> ShiftedRight(t, t \div 128, f)                 \* ASR
    [] column = 8 -> ShiftedLeft(t, 0, f)                           \* ASL
    [] column = 9 -> ShiftedLeft(t, Carry(f), f)                    \* ROL
    [] column = 10 ->                                               \* DEC
         LET r == (t - 1) % 256
         IN  Result(r, CLR_NZV(f) \union SET_FLAGS8D(r))
    [] column = 12 ->                                               \* INC
         LET r == (t + 1) % 256
         IN  Result(r, CLR_NZV(f) \union SET_FLAGS8I(r))
    [] column = 13 -> Result(t, CLR_NZVC(f) \union SET_NZ8(t))      \* TST
    [] column = 15 -> Result(0, CLR_NZVC(f) \union {Z})             \* CLR

Modifying == {0, 3, 4, 6, 7, 8, 9, 10, 12, 13, 15}

(* Mutant: a nibble of 9 is not corrected when the low one will carry. *)
DecimalHighOnly(p, f) ==
  LET lsn == p % 16
      msn == p - lsn
      low == IF lsn > 9 \/ H \in f THEN 6 ELSE 0
      high == IF msn > 144 \/ C \in f THEN 96 ELSE 0
      r == p + low + high
  IN  Result(r, CLR_NZV(f) \union SET_NZ8(r) \union SET_C8(r))

(* DAA *)
Decimal(p, f) ==
  LET lsn == p % 16
      msn == p - lsn
      low == IF lsn > 9 \/ H \in f THEN 6 ELSE 0
      high == IF (msn > 128 /\ lsn > 9) \/ msn > 144 \/ C \in f THEN 96 ELSE 0
      r == p + low + high
  IN  Result(r, CLR_NZV(f) \union SET_NZ8(r) \union SET_C8(r))

(* CMPX: N and V of the high bytes, Z of the words *)
ComparedX(w, f) ==
  LET r == Wrap(High(x) - High(w))
  IN  CLR_NZV(f) \union When(r % 256 >= 128, N)
        \union SET_V8(High(x), High(w), r) \union When(x = w, Z)

-----------------------------------------------------------------------------
(* Addressing: the effective address and the address behind the operand *)

IMM8 == [ea |-> Wrap(pc + 1), next |-> Wrap(pc + 2)]
IMM16 == [ea |-> Wrap(pc + 1), next |-> Wrap(pc + 3)]
DIRECT == [ea |-> RM(Wrap(pc + 1)), next |-> Wrap(pc + 2)]
INDEXED == [ea |-> Wrap(x + RM(Wrap(pc + 1))), next |-> Wrap(pc + 2)]
EXTENDED == [ea |-> RM16(Wrap(pc + 1)), next |-> Wrap(pc + 3)]

SIGNED(t) == IF t >= 128 THEN t - 256 ELSE t

Opcode == RM(pc)
Column == Opcode % 16

RELATIVE ==
  [ea |-> Wrap(pc + 2 + SIGNED(RM(Wrap(pc + 1)))), next |-> Wrap(pc + 2)]

(* ONE_MORE_INSN fetches an opcode unless WAI waits, or the debugger stops:
   the addresses outside the program have breakpoints.  m6800_insn gives the
   handler of the opcode. *)
Fetch(opcodes) ==
  /\ pc \in code /\ ~wai_state
  /\ Opcode \in opcodes
  /\ UNCHANGED <<task, code>>

Inherent(opcodes) == Fetch(opcodes) /\ pc' = Wrap(pc + 1)

-----------------------------------------------------------------------------
(* Rows 00 to 30 *)

(* The opcodes of illegl1, illegl2 and illegl3 *)
IllegalOpcodes(length) ==
  LET Row(first, columns) == {first + c : c \in columns}
  IN  CASE length = 1 ->
             Row(0, {0} \union 2 .. 5) \union Row(16, 2 .. 5)
               \union Row(16, {8, 10} \union 12 .. 15)
               \union Row(48, {8, 10, 12, 13})
               \union Row(64, {1, 2, 5, 11, 14})
               \union Row(80, {1, 2, 5, 11, 14})
        [] length = 2 ->
             Row(96, {1, 2, 5, 11}) \union {131, 147, 163, 195, 211, 227}
               \union {220, 221, 236, 237}
        [] length = 3 ->
             Row(112, {1, 2, 5, 11}) \union {179, 243}
               \union {204, 205, 252, 253}

Illegal(length) ==
  /\ Fetch(IllegalOpcodes(length))
  /\ pc' = Wrap(pc + length)
  /\ UNCHANGED <<x, s, d, cc, bus, wai_state>>

FlagRow ==
  /\ \/ Inherent({1}) /\ UNCHANGED <<d, x, cc>>                        \* NOP
     \/ Inherent({6}) /\ cc' = BitsOf(d["a"]) /\ UNCHANGED <<d, x>>    \* TAP
     \/ /\ Inherent({7}) /\ UNCHANGED <<x, cc>>                        \* TPA
        /\ d' = [d EXCEPT !["a"] = ByteOf(cc)]
     \/ /\ Inherent({8, 9}) /\ UNCHANGED d                        \* INX DEX
        /\ x' = Wrap(IF Opcode = 8 THEN x + 1 ELSE x - 1)
        /\ cc' = (cc \ {Z}) \union When(x' = 0, Z)
     \/ /\ Inherent({10, 12, 14}) /\ UNCHANGED <<d, x>>       \* CLV CLC CLI
        /\ cc' = cc \ {CASE Opcode = 10 -> V [] Opcode = 12 -> C
                         [] Opcode = 14 -> I}
     \/ /\ Inherent({11, 13, 15}) /\ UNCHANGED <<d, x>>       \* SEV SEC SEI
        /\ cc' = cc \union {CASE Opcode = 11 -> V [] Opcode = 13 -> C
                              [] Opcode = 15 -> I}
  /\ UNCHANGED <<s, bus, wai_state>>

(* SBA, CBA, TAB, TBA, DAA and ABA *)
TwoAccumulators(opcode) ==
  CASE opcode \in {16, 17} -> Minus(d["a"], d["b"], 0, cc)
    [] opcode = 22 -> Logic(d["a"], cc)
    [] opcode = 23 -> Logic(d["b"], cc)
    [] opcode = 25 -> Decimal(d["a"], cc)
    [] opcode = 27 -> Plus(d["a"], d["b"], 0, cc)

AccumulatorRow ==
  /\ Inherent({16, 17, 22, 23, 25, 27})
  /\ cc' = TwoAccumulators(Opcode).cc
  /\ LET r == TwoAccumulators(Opcode).r
     IN  d' = IF Opcode = 17 THEN d
              ELSE [d EXCEPT ![IF Opcode = 22 THEN "b" ELSE "a"] = r]
  /\ UNCHANGED <<x, s, bus, wai_state>>

(* The conditions of BRA to BLE; those of odd opcodes negate the even ones. *)
Condition(column, f) ==
  LET even == column - (column % 2)
      holds == CASE even = 0 -> TRUE                                \* BRA
                 [] even = 2 -> {C, Z} \cap f = {}                  \* BHI
                 [] even = 4 -> C \notin f                          \* BCC
                 [] even = 6 -> Z \notin f                          \* BNE
                 [] even = 8 -> V \notin f                          \* BVC
                 [] even = 10 -> N \notin f                         \* BPL
                 [] even = 12 -> ~NXORV(f)                          \* BGE
                 [] even = 14 -> ~(NXORV(f) \/ Z \in f)             \* BGT
  IN  IF column = even THEN holds ELSE ~holds

BranchRow ==
  /\ Fetch(32 .. 47)
  /\ pc' = IF Condition(Column, cc) THEN RELATIVE.ea ELSE RELATIVE.next
  /\ UNCHANGED <<x, s, d, cc, bus, wai_state>>

StackPointerRow ==
  /\ \/ Inherent({48}) /\ x' = Wrap(s + 1) /\ UNCHANGED s               \* TSX
     \/ Inherent({49}) /\ s' = Wrap(s + 1) /\ UNCHANGED x               \* INS
     \/ Inherent({52}) /\ s' = Wrap(s - 1) /\ UNCHANGED x               \* DES
     \/ Inherent({53}) /\ s' = Wrap(x - 1) /\ UNCHANGED x               \* TXS
  /\ UNCHANGED <<d, cc, bus, wai_state>>

(* PULA, PULB, PSHA and PSHB *)
ByteStackRow ==
  /\ \/ /\ Inherent({50, 51})
        /\ s' = Wrap(s + 1)
        /\ d' = [d EXCEPT ![IF Opcode = 50 THEN "a" ELSE "b"] = Pulled(1)]
        /\ UNCHANGED bus
     \/ /\ Inherent({54, 55})
        /\ LET m == PushByte(Stack, d[IF Opcode = 54 THEN "a" ELSE "b"])
           IN  bus' = m.bus /\ s' = m.s
        /\ UNCHANGED d
  /\ UNCHANGED <<x, cc, wai_state>>

RTS ==
  /\ Fetch({57})
  /\ pc' = PulledWord(1)
  /\ s' = Wrap(s + 2)
  /\ UNCHANGED <<x, d, cc, bus, wai_state>>

RTI ==
  /\ Fetch({59})
  /\ cc' = BitsOf(Pulled(1))
  /\ d' = [b |-> Pulled(2), a |-> Pulled(3)]
  /\ x' = PulledWord(4)
  /\ pc' = PulledWord(6)
  /\ s' = Wrap(s + 7)
  /\ UNCHANGED <<bus, wai_state>>

(* What SWI and WAI push, with the address behind them as PC *)
PushState ==
  LET word == PushWord(PushWord(Stack, Wrap(pc + 1)), x)
  IN  PushByte(PushByte(PushByte(word, d["a"]), d["b"]), ByteOf(cc))

SWI ==
  /\ Fetch({63})
  /\ bus' = PushState.bus /\ s' = PushState.s
  /\ cc' = cc \union {I}
  /\ pc' = LET Read(addr) == IF addr \in Mapped THEN PushState.bus.mem[addr]
                             ELSE PushState.bus.last
           IN  256 * Read(65530) + Read(65531)
  /\ UNCHANGED <<x, d, wai_state>>

WAI ==
  /\ Inherent({62})
  /\ bus' = PushState.bus /\ s' = PushState.s
  /\ wai_state' = TRUE
  /\ UNCHANGED <<x, d, cc>>

-----------------------------------------------------------------------------
(* Rows 40 to 70 *)

ModifyAccumulator(first, acc) ==
  /\ Inherent({first + c : c \in Modifying})
  /\ LET m == Modify(Column, d[acc], cc)
     IN  cc' = m.cc /\ d' = [d EXCEPT ![acc] = m.r]
  /\ UNCHANGED <<x, s, bus, wai_state>>

ModifyARow == ModifyAccumulator(64, "a")
ModifyBRow == ModifyAccumulator(80, "b")

(* TST does not write, and JMP, in column E, goes to the effective address. *)
ModifyMemory(first, mode) ==
  /\ \/ /\ Fetch({first + c : c \in Modifying})
        /\ LET m == Modify(Column, RM(mode.ea), cc)
           IN  /\ cc' = m.cc
               /\ bus' = IF Column = 13 THEN bus ELSE Written(bus, mode.ea, m.r)
        /\ pc' = mode.next
     \/ /\ Fetch({first + 14})
        /\ pc' = mode.ea
        /\ UNCHANGED <<cc, bus>>
  /\ UNCHANGED <<x, s, d, wai_state>>

ModifyIndexedRow == ModifyMemory(96, INDEXED)
ModifyExtendedRow == ModifyMemory(112, EXTENDED)

-----------------------------------------------------------------------------
(* Rows 80 to F0: columns 0 to B *)

Accumulator(first, acc, mode) ==
  /\ Fetch({first + c : c \in (0 .. 11) \ {3}})
  /\ LET result == Alu(Column, d[acc], RM(mode.ea), cc)
     IN  /\ cc' = result.cc
         /\ d' = IF Column \in Keeping THEN d
                 ELSE [d EXCEPT ![acc] = result.r]
  /\ bus' = IF Column = 7 THEN Written(bus, mode.ea, d[acc]) ELSE bus
  /\ pc' = mode.next
  /\ UNCHANGED <<x, s, wai_state>>

ImmediateARow == Accumulator(128, "a", IMM8)
DirectARow == Accumulator(144, "a", DIRECT)
IndexedARow == Accumulator(160, "a", INDEXED)
ExtendedARow == Accumulator(176, "a", EXTENDED)
ImmediateBRow == Accumulator(192, "b", IMM8)
DirectBRow == Accumulator(208, "b", DIRECT)
IndexedBRow == Accumulator(224, "b", INDEXED)
ExtendedBRow == Accumulator(240, "b", EXTENDED)

-----------------------------------------------------------------------------
(* Rows 80 to F0: columns C to F *)

Call(opcode, target) ==
  /\ Fetch({opcode})
  /\ LET m == PushWord(Stack, target.next) IN bus' = m.bus /\ s' = m.s
  /\ pc' = target.ea
  /\ UNCHANGED <<x, d, cc, wai_state>>

CMPX(opcode, mode) ==
  /\ Fetch({opcode})
  /\ cc' = ComparedX(RM16(mode.ea), cc)
  /\ pc' = mode.next
  /\ UNCHANGED <<x, s, d, bus, wai_state>>

LoadWord(opcode, mode, register) ==
  /\ Fetch({opcode})
  /\ register' = RM16(mode.ea)
  /\ cc' = CLR_NZV(cc) \union SET_NZ16(register')
  /\ pc' = mode.next
  /\ UNCHANGED <<d, bus, wai_state>>

StoreWord(opcode, mode, register) ==
  /\ Fetch({opcode})
  /\ bus' = WM16(bus, mode.ea, register)
  /\ cc' = CLR_NZV(cc) \union SET_NZ16(register)
  /\ pc' = mode.next
  /\ UNCHANGED <<x, s, d, wai_state>>

(* CMPX, BSR or JSR, LDS and STS *)
StackRow(first, mode, target) ==
  \/ CMPX(first, mode)
  \/ Call(first + 1, target)
  \/ LoadWord(first + 2, mode, s) /\ UNCHANGED x
  \/ StoreWord(first + 3, mode, s)

ImmediateSRow == StackRow(140, IMM16, RELATIVE)
DirectSRow == StackRow(156, DIRECT, DIRECT)
IndexedSRow == StackRow(172, INDEXED, INDEXED)
ExtendedSRow == StackRow(188, EXTENDED, EXTENDED)

(* LDX and STX *)
IndexRow(first, mode) ==
  \/ LoadWord(first, mode, x) /\ UNCHANGED s
  \/ StoreWord(first + 1, mode, x)

ImmediateXRow == IndexRow(206, IMM16)
DirectXRow == IndexRow(222, DIRECT)
IndexedXRow == IndexRow(238, INDEXED)
ExtendedXRow == IndexRow(254, EXTENDED)

-----------------------------------------------------------------------------

Init ==
  /\ task \in Tasks
  /\ LET boot == Boot(task)
     IN  /\ pc = boot.pc /\ x = boot.x /\ s = boot.s
         /\ d = boot.d /\ cc = boot.cc
         /\ \E last \in LastWrites, segment \in Lamps :
              bus = [mem |-> boot.mem, last |-> last, segment |-> segment]
         /\ code = boot.code
  /\ wai_state = FALSE

Next ==
  \/ \E length \in 1 .. 3 : Illegal(length)
  \/ FlagRow \/ AccumulatorRow \/ BranchRow
  \/ StackPointerRow \/ ByteStackRow \/ RTS \/ RTI \/ SWI \/ WAI
  \/ ModifyARow \/ ModifyBRow \/ ModifyIndexedRow \/ ModifyExtendedRow
  \/ ImmediateARow \/ DirectARow \/ IndexedARow \/ ExtendedARow
  \/ ImmediateBRow \/ DirectBRow \/ IndexedBRow \/ ExtendedBRow
  \/ ImmediateSRow \/ DirectSRow \/ IndexedSRow \/ ExtendedSRow
  \/ ImmediateXRow \/ DirectXRow \/ IndexedXRow \/ ExtendedXRow

Spec == Init /\ [][Next]_vars

=============================================================================
