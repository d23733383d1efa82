--------------------------- MODULE M6800Programs ---------------------------
(***************************************************************************)
(* What programs rely on when they run on M6800: that flags compare, that  *)
(* sums of bytes carry into wider sums, that calls return, that OUTCH of   *)
(* the monitor shows a character; and what the debugger relies on: that    *)
(* Disassembler tells where an instruction ends.                           *)
(* A task is a program in memory, with what it is asked to compute: the    *)
(* properties say what it shall have computed when it stops.               *)
(***************************************************************************)
EXTENDS M6800, Disassembler, Sequences

Origin == 32       \* the address of programs
Top == 31          \* S when they begin
Vector == 65530    \* of SWI

(* Memory with a program, 16 bytes of data at 0, and the vector *)
Image(placed, data) ==
  [addr \in Mapped |->
     IF addr \in DOMAIN placed THEN placed[addr]
     ELSE IF addr + 1 \in DOMAIN data THEN data[addr + 1]
     ELSE IF addr = Vector + 1 THEN 40 ELSE 0]

Placed(origin, bytes) == [a \in origin .. origin + Len(bytes) - 1 |->
                            bytes[a - origin + 1]]

Machine(image, addresses, a, b, f) ==
  [pc |-> Origin, x |-> 40, s |-> Top, d |-> [a |-> a, b |-> b], cc |-> f,
   mem |-> image, code |-> addresses]

(* A program in one piece at Origin *)
Simple(bytes, data, a, b, f) ==
  LET placed == Placed(Origin, bytes)
  IN  Machine(Image(placed, data), DOMAIN placed, a, b, f)

-----------------------------------------------------------------------------
(* The programs *)

(* CMPA #q, and the branch t.k over one byte *)
Compare(t) ==
  Simple(<<129, t.q, t.k, 1>>, <<>>, t.p, 0, {})

(* ADCA #q, DAA *)
DecimalAdd(t) ==
  Simple(<<137, t.q, 25>>, <<>>, t.p, 0, IF t.k = 1 THEN {C} ELSE {})

Words(p, q) == <<High(p), Low(p), High(q), Low(q)>>

(* LDAA 1, ADDA 3, STAA 5, LDAA 0, ADCA 2; with SUBA and SBCA *)
AddWords(t) ==
  Simple(<<150, 1, 155, 3, 151, 5, 150, 0, 153, 2>>,
         Words(t.p, t.q), 0, 0, {})
SubtractWords(t) ==
  Simple(<<150, 1, 144, 3, 151, 5, 150, 0, 146, 2>>,
         Words(t.p, t.q), 0, 0, {})

(* ASL 1, ROL 0; LSR 0, ROR 1; ASR 0, ROR 1 *)
ShiftWord(t) ==
  LET first == <<120, 116, 119>>[t.k]
      second == <<121, 118, 118>>[t.k]
      low == IF t.k = 1 THEN 1 ELSE 0
  IN  Simple(<<first, 0, low, second, 0, 1 - low>>,
             Words(t.p, 0), 0, 0, {C})

(* COM 0, NEG 1, BNE over INC 0 *)
NegateWord(t) ==
  Simple(<<115, 0, 0, 112, 0, 1, 38, 3, 124, 0, 0>>,
         Words(t.p, 0), 0, 0, {})

(* CLRA, LDX #8, RORB; BCC over ADDA 1; RORA, RORB, DEX, BNE to the BCC *)
Multiply(t) ==
  Simple(<<79, 206, 0, 8, 86, 36, 2, 155, 1, 70, 86, 9, 38, 247>>,
         <<0, t.p>>, 0, t.q, {})

(* LDX #0; LDAA 0,X, STAA 4,X, INX, CPX #3, BNE to the LDAA *)
Copy(t) ==
  Simple(<<206, 0, 0, 166, 0, 167, 4, 8, 140, 0, 3, 38, 246>>,
         <<t.p, t.q, t.p>>, 0, 0, {})

(* BSR or JSR to 40 in one of three modes, where PSHA, PSHB, JSR 50, PULA,
   PULB, RTS exchange A and B; at 50 PSHA, CLRA, PULA, RTS *)
Calls(t) ==
  LET call == Placed(Origin, << <<141, 6>>, <<157, 40>>, <<173, 0>>,
                               <<189, 0, 40>> >>[t.k])
      outer == Placed(40, <<54, 55, 189, 0, 50, 50, 51, 57>>)
      inner == Placed(50, <<54, 79, 50, 57>>)
      placed == [a \in DOMAIN call \union DOMAIN outer \union DOMAIN inner |->
                 IF a < 40 THEN call[a] ELSE IF a < 50 THEN outer[a] ELSE inner[a]]
  IN  Machine(Image(placed, <<>>), DOMAIN placed, t.p, t.q, {V, I})

(* SWI, to an RTI at 40 *)
SoftwareInterrupt(t) ==
  LET placed == [a \in {Origin, 40} |-> IF a = Origin THEN 63 ELSE 59]
  IN  Machine(Image(placed, <<>>), DOMAIN placed, t.p, t.q,
              BitsOf(t.p))

(* A single instruction, whose operand is q in every mode of addressing, or,
   with k = 1, is at an address with no device *)
Single(t) ==
  LET row == t.op \div 16
      operands == IF t.k = 1 THEN <<255, 255>>
                  ELSE IF row \in {8, 12} THEN <<t.q, t.q>>
                  ELSE IF row \in {7, 11, 15} THEN <<0, 3>> ELSE <<3, 3>>
      placed == Placed(Origin, <<t.op>> \o operands)
  IN  [Machine(Image(placed, [i \in 1 .. 16 |-> t.q]), {Origin},
               t.p, t.b, IF t.p > 126 THEN {C, H, N} ELSE {Z})
         EXCEPT !.x = 5]

(* OUTCH of the monitor: STX 62, LDX 60, PSHB, ROLA, ROLA, LDAB #16; ROLA,
   STAA 0,X, DEX, DECB, BNE to the ROLA; STX 60, LDX 62, PULB.  The address of
   the digit is at 60, where the ROM has it at F0. *)
Outch(t) ==
  LET bytes == <<223, 62, 222, 60, 55, 73, 73, 198, 16,
                 73, 167, 0, 9, 90, 38, 249, 223, 60, 222, 62, 51>>
      placed == Placed(64, bytes)
      address == [a \in {60, 61} |-> IF a = 60 THEN 193 ELSE 16 * t.k + 15]
      image == [a \in DOMAIN placed \union DOMAIN address |->
                  IF a \in DOMAIN placed THEN placed[a] ELSE address[a]]
  IN  [Machine(Image(image, <<>>), DOMAIN placed, t.p, t.q, {})
         EXCEPT !.pc = 64]

Program(t) ==
  CASE t.name = "compare" -> Compare(t)
    [] t.name = "decimal" -> DecimalAdd(t)
    [] t.name = "add" -> AddWords(t)
    [] t.name = "subtract" -> SubtractWords(t)
    [] t.name = "shift" -> ShiftWord(t)
    [] t.name = "negate" -> NegateWord(t)
    [] t.name = "multiply" -> Multiply(t)
    [] t.name = "copy" -> Copy(t)
    [] t.name = "call" -> Calls(t)
    [] t.name = "swi" -> SoftwareInterrupt(t)
    [] t.name = "single" -> Single(t)
    [] t.name = "outch" -> Outch(t)

Stopped == pc \notin code \/ wai_state
Finished(name) == Stopped /\ task.name = name

Word16(addr) == 256 * bus.mem[addr] + bus.mem[addr + 1]
Signed16(w) == IF w >= 32768 THEN w - 65536 ELSE w

-----------------------------------------------------------------------------
(* Invariants *)

(* A branch behind CMP is taken exactly when the relation its name stands for
   holds of the operands, unsigned or signed: the flags that SET_FLAGS8 builds
   from bits and the conditions that handlers test fit together. *)
ComparisonsDecide ==
  Finished("compare") =>
    LET p == task.p
        q == task.q
        relation ==
          [even \in {2, 4, 6, 12, 14} |->
             CASE even = 2 -> p > q
               [] even = 4 -> p >= q
               [] even = 6 -> p # q
               [] even = 12 -> SIGNED(p) >= SIGNED(q)
               [] even = 14 -> SIGNED(p) > SIGNED(q)]
        column == task.k % 16
        taken == pc = Origin + 5
    IN  taken <=> (relation[column - (column % 2)] <=> (column % 2 = 0))

(* ADC and DAA, in sequence, add decimal digits: the half carry and the carry
   that the addition leaves are those the correction needs. *)
DecimalSums ==
  Finished("decimal") =>
    LET Tens(w) == 10 * (w \div 16) + (w % 16)
        sum == Tens(task.p) + Tens(task.q) + task.k
    IN  /\ d["a"] = 16 * ((sum \div 10) % 10) + (sum % 10)
        /\ C \in cc <=> sum > 99

(* Instructions on bytes make up operations on words through the carry, and
   every instruction between them keeps it: sums, differences (with the flags
   of a comparison), shifts, negation, a product that counts with DEX, and a
   copy whose loop ends by CPX. *)
WideArithmetic ==
  LET p == task.p
      q == task.q
      k == task.k
      InRange(i) == -32768 <= i /\ i <= 32767
  IN  /\ Finished("add") =>
           /\ 256 * d["a"] + bus.mem[5] = Wrap(p + q)
           /\ C \in cc <=> p + q > 65535
           /\ V \in cc <=> ~InRange(Signed16(p) + Signed16(q))
      /\ Finished("subtract") =>
           /\ 256 * d["a"] + bus.mem[5] = Wrap(p - q)
           /\ C \in cc <=> p < q
           /\ NXORV(cc) <=> Signed16(p) < Signed16(q)
      /\ Finished("shift") =>
           /\ Word16(0) = Wrap(<<2 * p, p \div 2, Signed16(p) \div 2>>[k])
           /\ C \in cc <=> IF k = 1 THEN p >= 32768 ELSE p % 2 = 1
      /\ Finished("negate") => Word16(0) = Wrap(-p)
      /\ Finished("multiply") => 256 * d["a"] + d["b"] = p * q
      /\ Finished("copy") => <<bus.mem[4], bus.mem[5], bus.mem[6]>> = <<p, q, p>>

(* Calls in every mode return behind the call, with the stack where it was
   and what was pushed pulled in reverse; an RTI returns behind the SWI with
   every register as it was. *)
CallsReturn ==
  LET boot == Boot(task)
  IN  /\ Finished("call") =>
           /\ pc = Origin + IF task.k = 4 THEN 3 ELSE 2
           /\ s = boot.s /\ x = boot.x
           /\ d = [a |-> boot.d["b"], b |-> boot.d["a"]]
      /\ Finished("swi") =>
           <<pc, s, x, d, cc>> = <<Origin + 1, boot.s, boot.x, boot.d, boot.cc>>

(* OUTCH lights the LEDs of its digit as the bits of A say (a decimal point in
   bit 7, g in bit 0) and leaves the address of the next digit: the wrong bits
   of its first pass, over the mirrored addresses, are all corrected by the
   second. *)
OutchShows ==
  Finished("outch") =>
    /\ Painted(bus.segment)[6 - task.k] = BitsOf(task.p)
    /\ bus.mem[60] = 193 /\ bus.mem[61] = 16 * task.k - 1
    /\ d["b"] = task.q /\ s = Top /\ x = Boot(task).x

-----------------------------------------------------------------------------
(* Action properties *)

(* The rows of SUB, CMP, SBC, ADC and ADD, and their operands *)
Additive == {16 * r + c : r \in 8 .. 15, c \in {0, 1, 2, 9, 11}}

Operand(mode) ==
  RM(CASE mode = 0 -> IMM8.ea [] mode = 1 -> DIRECT.ea
       [] mode = 2 -> INDEXED.ea [] mode = 3 -> EXTENDED.ea)

(* Sums and differences of bytes set carry, overflow, sign and zero as the
   exact sum or difference asks, whatever the operand is and wherever it is
   read: the code computes overflow from four bits of a 16-bit result. *)
ExactFlags ==
  Opcode \in Additive =>
    LET p == d[IF Opcode < 192 THEN "a" ELSE "b"]
        t == Operand((Opcode \div 16) % 4)
        carry == IF Column \in {2, 9} THEN Carry(cc) ELSE 0
        Exact(v, w) == IF Column < 8 THEN v - w - carry ELSE v + w + carry
    IN  /\ C \in cc' <=> Exact(p, t) \notin Byte
        /\ V \in cc' <=> Exact(SIGNED(p), SIGNED(t)) \notin -128 .. 127
        /\ N \in cc' <=> Exact(p, t) % 256 >= 128
        /\ Z \in cc' <=> (Exact(p, t) % 256) = 0

FlagsExact == [][ExactFlags]_vars

(* The opcodes of BRA to BLE, JMP, the calls, the returns and SWI *)
Transfers == 32 .. 47 \union {110, 126} \union {141, 157, 173, 189}
            \union {57, 59, 63}

(* What the debugger shows is what the CPU does: a valid instruction that does
   not transfer control ends where the disassembler's line ends; one that does
   goes to the address shown, or, a call, has the end of its line as the
   address to which it returns, where Step Over puts its breakpoint. *)
EndsAsShown ==
  Opcode \in Valid =>
    LET end == Wrap(pc + InstructionLength(Opcode))
        shown == ShownTarget(Opcode, pc, RM(Wrap(pc + 1)), RM(Wrap(pc + 2)))
    IN  /\ Opcode \notin Transfers => pc' = end
        /\ Opcode \in 32 .. 47 => pc' \in {end, Wrap(shown)}
        /\ Opcode \in {126, 141, 189} => pc' = Wrap(shown)
        /\ IsSubroutine(Opcode) =>
             /\ s' = Wrap(s - 2)
             /\ {s, Wrap(s - 1)} \subseteq Writable =>
                  256 * bus'.mem[Wrap(s - 1)] + bus'.mem[s] = end
        /\ IsReturn(Opcode) =>
             s' = Wrap(s + (IF Opcode = 57 THEN 2 ELSE 7))

DisassemblyAgrees == [][EndsAsShown]_vars

=============================================================================
